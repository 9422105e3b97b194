----------------------- MODULE CentralFreeListProofs -----------------------
(***************************************************************************)
(* The steps of the central free lists that take objects from spans and    *)
(* put them back, and the theorems about all steps.                        *)
(***************************************************************************)
EXTENDS CentralFreeListInvariant

-----------------------------------------------------------------------------
(* The steps that change spans.                                            *)

\* A span, its objects and its place are as before.
SameSpan(s) ==
  /\ objects'[s] = objects[s] /\ refcount'[s] = refcount[s] /\ sizeclass'[s] = sizeclass[s]
  /\ \A o \in ObjectsOf(s) : Away(o)' <=> Away(o)
  /\ \A c \in Class : /\ s \in empty'[c] <=> s \in empty[c]
                      /\ s \in nonempty'[c] <=> s \in nonempty[c]
  /\ \A u \in Thread : /\ th'[u].sp = s <=> th[u].sp = s
                       /\ th[u].sp = s => th'[u] = th[u]

LEMMA SameSpanKept ==
  ASSUME Typed, NEW s \in Spans, SpanState(s), SameSpan(s)
  PROVE  SpanState(s)'
<1>1. AwayFrom(s)' = AwayFrom(s)
  BY Zenon DEF AwayFrom, SameSpan, ObjectsOf
<1>2. \A c \in Class : Listed(s, c)' <=> Listed(s, c)
  BY Zenon DEF Listed, SameSpan
<1>3. /\ objects'[s] \subseteq ObjectsOf(s)
      /\ refcount'[s] = Cardinality(AwayFrom(s)')
      /\ sizeclass'[s] = None => objects'[s] = {} /\ AwayFrom(s)' = {}
      /\ \A c \in Class : s \in empty'[c] => objects'[s] = {}
      /\ \A c \in Class : s \in nonempty'[c] => objects'[s] # {}
  BY <1>1, Zenon DEF SpanState, SameSpan
<1>4. \A c \in Class : Listed(s, c)' =>
        /\ sizeclass'[s] = c /\ \A t \in Thread : th'[t].sp # s
        /\ \A o \in ObjectsOf(s) : Away(o)' \/ o \in objects'[s]
  BY <1>2, Zenon DEF SpanState, SameSpan
<1>5. \A t \in Thread : th'[t].sp = s =>
        /\ sizeclass'[s] = (IF th'[t].pc = "delete" THEN th'[t].v ELSE th'[t].c)
        /\ AwayFrom(s)' = {}
        /\ th'[t].pc = "populated" => objects'[s] = ObjectsOf(s)
        /\ \A u \in Thread : th'[u].sp = s => t = u
  <2> SUFFICES ASSUME NEW t \in Thread, th'[t].sp = s
               PROVE  /\ sizeclass'[s] = (IF th'[t].pc = "delete" THEN th'[t].v ELSE th'[t].c)
                      /\ AwayFrom(s)' = {}
                      /\ th'[t].pc = "populated" => objects'[s] = ObjectsOf(s)
                      /\ \A u \in Thread : th'[u].sp = s => t = u
    BY Zenon
  <2>1. th[t].sp = s /\ th'[t] = th[t]
    BY Zenon DEF SameSpan
  <2>2. /\ sizeclass[s] = (IF th[t].pc = "delete" THEN th[t].v ELSE th[t].c)
        /\ AwayFrom(s) = {}
        /\ th[t].pc = "populated" => objects[s] = ObjectsOf(s)
        /\ \A u \in Thread : th[u].sp = s => t = u
    BY <2>1, Zenon DEF SpanState
  <2> QED
    BY <1>1, <2>1, <2>2, Zenon DEF SameSpan
<1>6. sizeclass'[s] # None =>
        Listed(s, sizeclass[s])' \/ \E t \in Thread : th'[t].sp = s
  <2> SUFFICES ASSUME sizeclass'[s] # None
               PROVE  Listed(s, sizeclass[s])' \/ \E t \in Thread : th'[t].sp = s
    BY Zenon
  <2>1. sizeclass'[s] = sizeclass[s] /\ sizeclass[s] # None /\ sizeclass[s] \in Class
    BY Zenon DEF SameSpan, Typed
  <2>2. CASE Listed(s, sizeclass[s])
    <3>1. s \in empty'[sizeclass[s]] \cup nonempty'[sizeclass[s]]
      BY <2>1, <2>2, Zenon DEF Listed, SameSpan
    <3> QED
      BY <2>1, <3>1, Zenon DEF Listed
  <2>3. CASE \E t \in Thread : th[t].sp = s
    BY <2>3, Zenon DEF SameSpan
  <2> QED
    BY <2>1, <2>2, <2>3, Zenon DEF SpanState
<1> QED
  BY <1>3, <1>4, <1>5, <1>6, Zenon DEF SpanState, ObjectsOf

\* Where the objects are after a step of t that leaves the slots alone.
LEMMA AwayAfter ==
  ASSUME NEW t \in Thread, NEW q, tc_slots' = tc_slots,
         th'[t] = q, \A u \in Thread \ {t} : th'[u] = th[u]
  PROVE  \A o : Away(o)' <=> \/ o \in out' \/ o \in q.chain \cup q.list \/ Cached(o)
                             \/ \E u \in Thread \ {t} : InCall(o, u)
<1> TAKE o
<1>1. Away(o)' <=> o \in out' \/ (\E u \in Thread : InCall(o, u)') \/ Cached(o)
  BY Zenon DEF Away, Cached, InSlot, UsedSlots
<1>2. (\E u \in Thread : InCall(o, u)')
        <=> o \in q.chain \cup q.list \/ \E u \in Thread \ {t} : InCall(o, u)
  BY Zenon DEF InCall
<1> QED
  BY <1>1, <1>2, Zenon

\* A step of t on spans: objects leave the hands of t, or go from a span out.
SpanStep(t, q) ==
  /\ Call(t, q) /\ CallShape(q) /\ LockStep(t, q)
  /\ UNCHANGED <<cache_size, tc_slots>>
  /\ Stolen(t)' => Stolen(t)
  /\ empty' \in [Class -> SUBSET Spans] /\ nonempty' \in [Class -> SUBSET Spans]
  /\ DOMAIN counter' = Class /\ DOMAIN refcount' = Spans
  /\ sizeclass' \in [Spans -> Class \cup {None}]
  /\ objects' \in [Spans -> SUBSET Object]
  /\ out' \subseteq Object /\ out \subseteq out' /\ \A o \in out' \ out : ~ Away(o)
  /\ q.chain \subseteq th[t].chain /\ q.list \subseteq th[t].list
  /\ q.chain # {} => q.c = th[t].c
  /\ q.list # {} => q.v = th[t].v
  /\ \A o \in Object : Away(o) => ClassOf(o)' = ClassOf(o)
  /\ \A o \in Object : Away(o)' => o \notin objects'[MapObjectToSpan(o)]

LEMMA SpanStepKept ==
  ASSUME CentralInv, NEW t \in Thread, NEW q, SpanStep(t, q), SpanStates', Counted'
  PROVE  CentralInv'
<1> USE DEF CentralInv
<1>0. /\ Typed /\ LocksHeld /\ RightClass /\ Calls
      /\ \A o \in Object : Alone(o)
      /\ \A u \in Thread : CallShape(th[u])
  BY InvMeans, Zenon
<1>1. /\ Call(t, q) /\ CallShape(q) /\ LockStep(t, q)
      /\ UNCHANGED <<cache_size, tc_slots>>
  BY Zenon DEF SpanStep
<1>2. /\ Calls' /\ DOMAIN th' = Thread /\ th'[t] = q
      /\ \A u \in Thread \ {t} : th'[u] = th[u]
  BY <1>0, <1>1, CallsKept, Zenon
<1>3. Typed'
  BY <1>0, <1>1, <1>2, Zenon DEF Typed, SpanStep, LockStep
<1>4. LocksHeld'
  BY <1>0, <1>1, <1>2, LocksKept, Zenon
<1>5. /\ q.chain \subseteq th[t].chain /\ q.list \subseteq th[t].list
      /\ out \subseteq out' /\ \A o \in out' \ out : ~ Away(o)
  BY Zenon DEF SpanStep
<1>6. \A o : \A u \in Thread : InCall(o, u)' => InCall(o, u)
  BY <1>2, <1>5, Zenon DEF InCall
<1>7. \A o : \A c \in Class : \A i : InSlot(o, c, i)' <=> InSlot(o, c, i)
  BY <1>1, Zenon DEF InSlot, UsedSlots
<1>8. \A u \in Thread : th'[u].chain \subseteq th[u].chain /\ th'[u].list \subseteq th[u].list
  BY <1>2, <1>5, Zenon
<1>9. ASSUME NEW o \in Object PROVE Alone(o)'
  <2>1. Alone(o)
    BY <1>0, Zenon
  <2>2. CASE o \in out' \ out
    <3>1. /\ \A u \in Thread : ~ InCall(o, u)
          /\ \A c \in Class : \A i : ~ InSlot(o, c, i)
      BY <1>5, <2>2, AwayMeans, Zenon DEF Cached
    <3>2. /\ \A u \in Thread : ~ InCall(o, u)'
          /\ \A c \in Class : \A i : ~ InSlot(o, c, i)'
      BY <1>6, <1>7, <3>1, Zenon
    <3> QED
      BY <3>2, Zenon DEF Alone
  <2>3. CASE o \notin out' \ out
    <3>1. \A u \in Thread : InCall(o, u)' =>
            /\ o \notin out' /\ ~ (o \in th'[u].chain /\ o \in th'[u].list)
            /\ \A w \in Thread : InCall(o, w)' => u = w
      BY <1>6, <1>8, <2>1, <2>3, Zenon DEF Alone
    <3>2. \A c \in Class : \A i : InSlot(o, c, i)' =>
            /\ o \notin out' /\ \A u \in Thread : ~ InCall(o, u)'
            /\ \A d \in Class : \A j : InSlot(o, d, j)' => c = d /\ i = j
      BY <1>6, <1>7, <2>1, <2>3, Zenon DEF Alone
    <3> QED
      BY <3>1, <3>2, Zenon DEF Alone
  <2> QED
    BY <2>2, <2>3
<1>10. Places'
  <2>1. \A o \in Object : Away(o)' => o \notin objects'[MapObjectToSpan(o)]
    BY Zenon DEF SpanStep
  <2>2. ASSUME NEW o \in Object PROVE OnePlace(o)'
    <3>1. Alone(o)' /\ (Away(o)' => o \notin objects'[MapObjectToSpan(o)])
      BY <1>9, <2>1, Zenon
    <3>2. \A c \in Class : \A i : InSlot(o, c, i)' => i \in 1 .. UsedSlots(c)'
      BY Zenon DEF InSlot
    <3> QED
      BY <3>1, <3>2, Zenon DEF Alone, OnePlace
  <2> QED
    BY <2>2, Zenon DEF Places
<1>11. RightClass'
  <2>1. \A o \in Object : Away(o) => ClassOf(o)' = ClassOf(o)
    BY Zenon DEF SpanStep
  <2>2. ASSUME NEW u \in Thread
        PROVE  /\ \A o \in th'[u].chain : ClassOf(o)' = th'[u].c
               /\ \A o \in th'[u].list : ClassOf(o)' = th'[u].v
    <3>1. /\ \A o \in th[u].chain : ClassOf(o) = th[u].c
          /\ \A o \in th[u].list : ClassOf(o) = th[u].v
      BY <1>0, Zenon DEF RightClass
    <3>2. \A o \in th[u].chain \cup th[u].list : o \in Object /\ Away(o)
      <4>1. th[u].chain \in SUBSET Object /\ th[u].list \in SUBSET Object
        BY <1>0, SMTT(30) DEF CallShape, CallRecord
      <4> QED
        BY <4>1, AwayMeans, Zenon DEF InCall
    <3>3. /\ th'[u].chain # {} => th'[u].c = th[u].c
          /\ th'[u].list # {} => th'[u].v = th[u].v
      BY <1>2, Zenon DEF SpanStep
    <3>4. \A o \in th[u].chain \cup th[u].list : ClassOf(o)' = ClassOf(o)
      BY <2>1, <3>2, Zenon
    <3> QED
      BY <1>8, <3>1, <3>3, <3>4, Zenon
  <2>3. ASSUME NEW c \in Class, NEW i \in 1 .. UsedSlots(c)
        PROVE  tc_slots[c][i] # {} /\ \A o \in tc_slots[c][i] : ClassOf(o)' = c
    <3>1. tc_slots[c][i] # {} /\ \A o \in tc_slots[c][i] : ClassOf(o) = c
      BY <1>0, Zenon DEF RightClass
    <3>2. tc_slots[c][i] \in SUBSET Object
      <4>1. tc_slots[c] \in Seq(SUBSET Object)
        BY <1>0, Zenon DEF Typed
      <4> QED
        BY <4>1 DEF UsedSlots
    <3>3. \A o \in tc_slots[c][i] : Away(o)
      BY AwayMeans, Zenon DEF Cached, InSlot
    <3> QED
      BY <2>1, <3>1, <3>2, <3>3, Zenon
  <2> QED
    BY <1>1, <2>2, <2>3, Zenon DEF RightClass, UsedSlots
<1>12. ObjectsInv'
  BY <1>2, <1>3, <1>4, <1>10, <1>11, Zenon DEF ObjectsInv
<1>13. CacheFits'
  BY <1>1, SameCaches, Zenon
<1>14. EntriesConserved'
  <2>1. \A u \in Thread : Stolen(u)' => Stolen(u)
    <3>1. Stolen(t)' => Stolen(t)
      BY Zenon DEF SpanStep
    <3> QED
      BY <1>2, <3>1, Zenon DEF Stolen
  <2> QED
    BY <1>1, <2>1, EntriesKept, Zenon
<1> QED
  BY <1>12, <1>13, <1>14

\* The free objects of class c are as before.
LEMMA SameFreeObjects ==
  ASSUME NEW c \in Class, nonempty'[c] = nonempty[c],
         \A s \in nonempty[c] : objects'[s] = objects[s]
  PROVE  FreeObjects(c)' = FreeObjects(c)
  BY Zenon DEF FreeObjects, Object

\* The spans that calls have in their hands.
LEMMA SpanInHand ==
  ASSUME CentralInv, NEW u \in Thread, NEW s \in Spans, th[u].sp = s
  PROVE  /\ sizeclass[s] # None /\ AwayFrom(s) = {}
         /\ \A c \in Class : s \notin empty[c] /\ s \notin nonempty[c]
         /\ \A w \in Thread : th[w].sp = s => w = u
<1> USE DEF CentralInv
<1>0. SpanState(s) /\ CallShape(th[u]) /\ s # None /\ None \notin Class
  BY CentralAssumption, InvMeans, Zenon DEF SpanStates
<1>1. th[u].pc = "delete" => th[u].v \in Class
  BY <1>0, SMTT(30) DEF CallShape
<1>2. th[u].pc # "delete" => th[u].c \in Class
  BY <1>0, SMTT(30) DEF CallShape
<1>3. sizeclass[s] \in Class
  BY <1>0, <1>1, <1>2, Zenon DEF SpanState
<1>4. AwayFrom(s) = {} /\ \A w \in Thread : th[w].sp = s => u = w
  BY <1>0, Zenon DEF SpanState
<1>5. \A c \in Class : ~ Listed(s, c)
  BY <1>0, Zenon DEF SpanState
<1> QED
  BY <1>0, <1>3, <1>4, <1>5, Zenon DEF Listed

LEMMA DeleteSpanKept ==
  ASSUME CentralInv, NEW t \in Thread, DeleteSpan(t)
  PROVE  CentralInv'
<1> USE DEF CentralInv
<1>s. PICK s : s = th[t].sp
  OBVIOUS
<1> DEFINE r == th[t]
           q == [r EXCEPT !.pc = "relock", !.sp = None]
<1>0. /\ Typed /\ LocksHeld /\ RightClass /\ Calls /\ CallShape(th[t]) /\ Counted
      /\ SpanStates
      /\ \A o \in Object : Away(o) => o \notin objects[MapObjectToSpan(o)]
  BY InvMeans, Zenon
<1>1. /\ r.pc = "delete" /\ Call(t, q)
      /\ sizeclass' = [sizeclass EXCEPT ![s] = None]
      /\ objects' = [objects EXCEPT ![s] = {}]
      /\ UNCHANGED <<lock, cache_size, tc_slots, empty, nonempty, counter, refcount, out>>
  BY <1>s, Zenon DEF DeleteSpan, At, classVars
<1>2. r.v \in Class /\ r.c \in Class /\ r \in CallRecord /\ s \in Spans /\ r.n = 0 /\ s # None
  BY <1>s, <1>0, <1>1, SMTT(30) DEF CallShape, CallRecord
<1>3. "relock" \in PCs /\ None \in Spans \cup {None}
  BY Zenon DEF PCs
<1>4. /\ q \in CallRecord /\ q.pc = "relock" /\ q.c = r.c /\ q.v = r.v /\ q.list = r.list
      /\ q.chain = r.chain /\ q.sp = None /\ q.n = r.n
  BY <1>2, <1>3, Zenon DEF CallRecord
<1> HIDE DEF q
<1>5. CallShape(q) /\ LocksOf(q) = {} /\ LocksOf(r) = {}
  BY <1>1, <1>2, <1>4, SMTT(30) DEF CallShape, LocksOf
<1>6. LockStep(t, q)
  BY <1>0, <1>1, <1>5, LockKept, Zenon
<1>7. th'[t] = q /\ \A u \in Thread \ {t} : th'[u] = th[u]
  BY <1>0, <1>1, <1>5, CallsKept, Zenon
<1>8. Stolen(t)' => Stolen(t)
  BY <1>1, <1>4, <1>7, SMTT(30) DEF Stolen
<1>9. \A o : Away(o)' <=> Away(o)
  <2> TAKE o
  <2>1. Away(o)' <=> \/ o \in out' \/ o \in q.chain \cup q.list \/ Cached(o)
                     \/ \E u \in Thread \ {t} : InCall(o, u)
    BY <1>1, <1>7, AwayAfter, Zenon
  <2> QED
    BY <1>1, <1>4, <2>1, AwayMeans, Zenon DEF InCall
<1>10. /\ sizeclass[s] # None /\ AwayFrom(s) = {}
       /\ \A c \in Class : s \notin empty[c] /\ s \notin nonempty[c]
       /\ \A w \in Thread : th[w].sp = s => w = t
  BY <1>s, <1>2, SpanInHand, Zenon
<1>11. /\ sizeclass' \in [Spans -> Class \cup {None}] /\ objects' \in [Spans -> SUBSET Object]
       /\ objects'[s] = {} /\ sizeclass'[s] = None
       /\ \A z \in Spans \ {s} : objects'[z] = objects[z] /\ sizeclass'[z] = sizeclass[z]
  BY <1>0, <1>1, <1>2, Zenon DEF Typed
<1>12. Counted'
  <2>1. ASSUME NEW c \in Class PROVE FreeObjects(c)' = FreeObjects(c)
    <3>1. nonempty[c] \subseteq Spans
      BY <1>0, Zenon DEF Typed
    <3>2. \A z \in nonempty[c] : objects'[z] = objects[z]
      BY <1>10, <1>11, <3>1, Zenon
    <3> QED
      BY <1>1, <3>2, SameFreeObjects, Zenon
  <2> QED
    BY <1>0, <1>1, <2>1, Zenon DEF Counted
<1>13. ASSUME NEW z \in Spans PROVE SpanState(z)'
  <2>0. SpanState(z)
    BY <1>0, Zenon DEF SpanStates
  <2>1. CASE z = s
    <3>1. AwayFrom(z)' = {} /\ AwayFrom(z) = {}
      BY <1>9, <1>10, <2>1, Zenon DEF AwayFrom, ObjectsOf
    <3>2. \A u \in Thread : th'[u].sp # z
      BY <1>2, <1>4, <1>7, <1>10, <2>1, Zenon
    <3>3. \A c \in Class : z \notin empty'[c] /\ z \notin nonempty'[c]
      BY <1>1, <1>10, <2>1, Zenon
    <3>4. \A c \in Class : ~ Listed(z, c)'
      BY <3>3, Zenon DEF Listed
    <3>5. refcount'[z] = Cardinality(AwayFrom(z)')
      BY <1>1, <2>0, <3>1, Zenon DEF SpanState
    <3>6. objects'[z] = {} /\ sizeclass'[z] = None
      BY <1>11, <2>1, Zenon
    <3> QED
      BY <3>1, <3>2, <3>3, <3>4, <3>5, <3>6, Zenon DEF SpanState
  <2>2. CASE z # s
    <3>1. \A u \in Thread : /\ th'[u].sp = z <=> th[u].sp = z
                            /\ th[u].sp = z => th'[u] = th[u]
      <4>1. z # None
        BY CentralAssumption, Zenon
      <4> QED
        BY <1>s, <1>4, <1>7, <2>2, <4>1, Zenon
    <3>2. SameSpan(z)
      BY <1>1, <1>9, <1>11, <2>2, <3>1, Zenon DEF SameSpan
    <3> QED
      BY <1>0, <2>0, <3>2, SameSpanKept, Zenon
  <2> QED
    BY <2>1, <2>2
<1>14. SpanStates'
  BY <1>13, Zenon DEF SpanStates
<1>15. /\ \A o \in Object : Away(o) => ClassOf(o)' = ClassOf(o)
       /\ \A o \in Object : Away(o)' => o \notin objects'[MapObjectToSpan(o)]
  <2> SUFFICES ASSUME NEW o \in Object, Away(o)
               PROVE  ClassOf(o)' = ClassOf(o) /\ o \notin objects'[MapObjectToSpan(o)]
    BY <1>9, Zenon
  <2>1. MapObjectToSpan(o) \in Spans /\ MapObjectToSpan(o) # s
    BY <1>2, <1>10, ObjectFacts, Zenon DEF AwayFrom
  <2> QED
    BY <1>0, <1>11, <2>1, Zenon DEF ClassOf, MapObjectToSpan
<1>16. out' \subseteq Object /\ empty' \in [Class -> SUBSET Spans]
       /\ nonempty' \in [Class -> SUBSET Spans] /\ DOMAIN counter' = Class
       /\ DOMAIN refcount' = Spans
  BY <1>0, <1>1, Zenon DEF Typed
<1>17. SpanStep(t, q)
  BY <1>1, <1>4, <1>5, <1>6, <1>8, <1>11, <1>15, <1>16, Zenon DEF SpanStep
<1> QED
  BY <1>12, <1>14, <1>17, SpanStepKept, Zenon

LEMMA PopulateKept ==
  ASSUME CentralInv, NEW t \in Thread, Populate(t)
  PROVE  CentralInv'
<1> USE DEF CentralInv
<1> DEFINE r == th[t]
           Q(s) == [r EXCEPT !.pc = "populated", !.sp = s]
<1>0. /\ Typed /\ LocksHeld /\ RightClass /\ Calls /\ CallShape(th[t]) /\ Counted
      /\ SpanStates
      /\ \A o \in Object : Away(o) => o \notin objects[MapObjectToSpan(o)]
  BY InvMeans, Zenon
<1>1. /\ r.pc = "populate"
      /\ UNCHANGED <<lock, cache_size, tc_slots, empty, nonempty, counter, out>>
  BY Zenon DEF Populate, At, classVars
<1>2. PICK s \in Spans :
        /\ sizeclass[s] = None
        /\ sizeclass' = [sizeclass EXCEPT ![s] = r.c]
        /\ objects' = [objects EXCEPT ![s] = ObjectsOf(s)]
        /\ refcount' = [refcount EXCEPT ![s] = 0]
        /\ Call(t, Q(s))
  BY Zenon DEF Populate
<1>q. PICK q : q = Q(s)
  OBVIOUS
<1>3. /\ r.c \in Class /\ r \in CallRecord /\ r.n # 0 /\ r.sp = None
      /\ r.chain = {} /\ r.list = {}
  BY <1>0, <1>1, SMTT(30) DEF CallShape, CallRecord
<1>4. /\ q \in CallRecord /\ q.pc = "populated" /\ q.c = r.c /\ q.v = r.v /\ q.list = r.list
      /\ q.chain = r.chain /\ q.sp = s /\ q.n = r.n
  <2>1. "populated" \in PCs /\ s \in Spans \cup {None}
    BY Zenon DEF PCs
  <2> QED
    BY <1>q, <1>3, <2>1, Zenon DEF CallRecord
<1>5. Call(t, q)
  BY <1>q, <1>2, Zenon
<1> HIDE DEF Q
<1>6. CallShape(q) /\ LocksOf(q) = {} /\ LocksOf(r) = {}
  BY <1>1, <1>3, <1>4, SMTT(30) DEF CallShape, LocksOf
<1>7. LockStep(t, q)
  BY <1>0, <1>1, <1>6, LockKept, Zenon
<1>8. th'[t] = q /\ \A u \in Thread \ {t} : th'[u] = th[u]
  BY <1>0, <1>5, <1>6, CallsKept, Zenon
<1>9. Stolen(t)' => Stolen(t)
  BY <1>4, <1>8, SMTT(30) DEF Stolen
<1>10. \A o : Away(o)' <=> Away(o)
  <2> TAKE o
  <2>1. Away(o)' <=> \/ o \in out' \/ o \in q.chain \cup q.list \/ Cached(o)
                     \/ \E u \in Thread \ {t} : InCall(o, u)
    BY <1>1, <1>8, AwayAfter, Zenon
  <2> QED
    BY <1>1, <1>4, <2>1, AwayMeans, Zenon DEF InCall
<1>11. /\ AwayFrom(s) = {}
       /\ \A c \in Class : s \notin empty[c] /\ s \notin nonempty[c]
       /\ \A w \in Thread : th[w].sp # s
  <2>1. SpanState(s) /\ None \notin Class
    BY <1>0, CentralAssumption, Zenon DEF SpanStates
  <2>2. \A c \in Class : ~ Listed(s, c)
    BY <1>2, <2>1, Zenon DEF SpanState
  <2>3. \A w \in Thread : th[w].sp # s
    BY <1>2, SpanInHand, Zenon
  <2> QED
    BY <1>2, <2>1, <2>2, <2>3, Zenon DEF SpanState, Listed
<1>12. ObjectsOf(s) \in SUBSET Object
  BY ObjectFacts, Zenon
<1>13. /\ sizeclass' \in [Spans -> Class \cup {None}] /\ objects' \in [Spans -> SUBSET Object]
       /\ DOMAIN refcount' = Spans
       /\ objects'[s] = ObjectsOf(s) /\ sizeclass'[s] = r.c /\ refcount'[s] = 0
       /\ \A z \in Spans \ {s} : /\ objects'[z] = objects[z] /\ sizeclass'[z] = sizeclass[z]
                                 /\ refcount'[z] = refcount[z]
  BY <1>0, <1>2, <1>3, <1>12, Zenon DEF Typed
<1>14. Counted'
  <2>1. ASSUME NEW c \in Class PROVE FreeObjects(c)' = FreeObjects(c)
    <3>1. nonempty[c] \subseteq Spans
      BY <1>0, Zenon DEF Typed
    <3>2. \A z \in nonempty[c] : objects'[z] = objects[z]
      BY <1>11, <1>13, <3>1, Zenon
    <3> QED
      BY <1>1, <3>2, SameFreeObjects, Zenon
  <2> QED
    BY <1>0, <1>1, <2>1, Zenon DEF Counted
<1>15. ASSUME NEW z \in Spans PROVE SpanState(z)'
  <2>0. SpanState(z)
    BY <1>0, Zenon DEF SpanStates
  <2>1. CASE z = s
    <3>1. AwayFrom(z)' = {}
      BY <1>10, <1>11, <2>1, Zenon DEF AwayFrom, ObjectsOf
    <3>2. \A u \in Thread : th'[u].sp = z <=> u = t
      BY <1>4, <1>8, <1>11, <2>1, Zenon
    <3>3. \A c \in Class : z \notin empty'[c] /\ z \notin nonempty'[c]
      BY <1>1, <1>11, <2>1, Zenon
    <3>4. \A c \in Class : ~ Listed(z, c)'
      BY <3>3, Zenon DEF Listed
    <3>5. refcount'[z] = Cardinality(AwayFrom(z)')
      BY <1>13, <2>1, <3>1, FS_EmptySet, Zenon
    <3>6. objects'[z] = ObjectsOf(z) /\ sizeclass'[z] = r.c /\ sizeclass'[z] # None
      BY <1>3, <1>13, <2>1, CentralAssumption, Zenon
    <3>7. th'[t].c = r.c /\ th'[t].pc # "delete"
      <4>1. q.pc # "delete"
        BY <1>4, SMTT(30)
      <4> QED
        BY <1>4, <1>8, <4>1, Zenon
    <3>8. \A u \in Thread : th'[u].sp = z =>
            /\ sizeclass'[z] = (IF th'[u].pc = "delete" THEN th'[u].v ELSE th'[u].c)
            /\ AwayFrom(z)' = {}
            /\ th'[u].pc = "populated" => objects'[z] = ObjectsOf(z)
            /\ \A w \in Thread : th'[w].sp = z => u = w
      BY <3>1, <3>2, <3>6, <3>7, Zenon
    <3>9. \E u \in Thread : th'[u].sp = z
      BY <3>2, Zenon
    <3> QED
      BY <3>3, <3>4, <3>5, <3>6, <3>8, <3>9, Zenon DEF SpanState, ObjectsOf
  <2>2. CASE z # s
    <3>1. \A u \in Thread : /\ th'[u].sp = z <=> th[u].sp = z
                            /\ th[u].sp = z => th'[u] = th[u]
      <4>1. z # None
        BY CentralAssumption, Zenon
      <4> QED
        BY <1>3, <1>4, <1>8, <2>2, <4>1, Zenon
    <3>2. SameSpan(z)
      BY <1>1, <1>10, <1>13, <2>2, <3>1, Zenon DEF SameSpan
    <3> QED
      BY <1>0, <2>0, <3>2, SameSpanKept, Zenon
  <2> QED
    BY <2>1, <2>2
<1>16. SpanStates'
  BY <1>15, Zenon DEF SpanStates
<1>17. /\ \A o \in Object : Away(o) => ClassOf(o)' = ClassOf(o)
       /\ \A o \in Object : Away(o)' => o \notin objects'[MapObjectToSpan(o)]
  <2> SUFFICES ASSUME NEW o \in Object, Away(o)
               PROVE  ClassOf(o)' = ClassOf(o) /\ o \notin objects'[MapObjectToSpan(o)]
    BY <1>10, Zenon
  <2>1. MapObjectToSpan(o) \in Spans /\ MapObjectToSpan(o) # s
    BY <1>11, ObjectFacts, Zenon DEF AwayFrom
  <2> QED
    BY <1>0, <1>13, <2>1, Zenon DEF ClassOf, MapObjectToSpan
<1>18. out' \subseteq Object /\ empty' \in [Class -> SUBSET Spans]
       /\ nonempty' \in [Class -> SUBSET Spans] /\ DOMAIN counter' = Class
  BY <1>0, <1>1, Zenon DEF Typed
<1>19. SpanStep(t, q)
  BY <1>1, <1>4, <1>5, <1>6, <1>7, <1>9, <1>13, <1>17, <1>18, Zenon DEF SpanStep
<1> QED
  BY <1>14, <1>16, <1>19, SpanStepKept, Zenon

\* An object about to be released: its span is on a list of its class.
Releasable(o, s, v) ==
  /\ o \in Object /\ s \in Spans /\ v \in Class /\ o \in ObjectsOf(s) /\ s # None
  /\ Away(o) /\ o \notin objects[s] /\ o \in AwayFrom(s)
  /\ sizeclass[s] = v /\ s \in empty[v] \cup nonempty[v]
  /\ \A c \in Class \ {v} : s \notin empty[c] /\ s \notin nonempty[c]
  /\ \A u \in Thread : th[u].sp # s
  /\ s \in empty[v] => objects[s] = {}
  /\ refcount[s] = Cardinality(AwayFrom(s))
  /\ AwayFrom(s) \in SUBSET Object /\ objects[s] \in SUBSET Object
  /\ ObjectsOf(s) = AwayFrom(s) \cup objects[s] /\ AwayFrom(s) \cap objects[s] = {}

LEMMA ReleasableMeans ==
  ASSUME CentralInv, NEW t \in Thread, th[t].pc = "freeing", NEW o \in th[t].list,
         NEW s, s = MapObjectToSpan(o), NEW v, v = th[t].v
  PROVE  Releasable(o, s, v)
<1> USE DEF CentralInv
<1>0. /\ Typed /\ RightClass /\ CallShape(th[t]) /\ SpanStates
      /\ \A p \in Object : Away(p) => p \notin objects[MapObjectToSpan(p)]
  BY InvMeans, Zenon
<1>1. v \in Class /\ o \in Object
  BY <1>0, SMTT(30) DEF CallShape, CallRecord
<1>2. s \in Spans /\ o \in ObjectsOf(s) /\ s # None
  BY <1>1, ObjectFacts, CentralAssumption, Zenon
<1>3. Away(o) /\ o \notin objects[s] /\ o \in AwayFrom(s)
  BY <1>0, <1>1, <1>2, AwayMeans, Zenon DEF InCall, AwayFrom
<1>4. sizeclass[s] = v /\ v # None
  BY <1>0, <1>1, CentralAssumption, Zenon DEF RightClass, ClassOf
<1>5. SpanState(s)
  BY <1>0, <1>2, Zenon DEF SpanStates
<1>6. \A u \in Thread : th[u].sp # s
  BY <1>3, <1>5, Zenon DEF SpanState
<1>7. Listed(s, v)
  BY <1>4, <1>5, <1>6, Zenon DEF SpanState
<1>8. \A c \in Class \ {v} : ~ Listed(s, c)
  BY <1>4, <1>5, Zenon DEF SpanState
<1>9. AwayFrom(s) \in SUBSET Object /\ objects[s] \in SUBSET Object /\ objects[s] \subseteq ObjectsOf(s)
  BY <1>2, <1>5, ObjectFacts, Zenon DEF AwayFrom, SpanState
<1>10. ObjectsOf(s) = AwayFrom(s) \cup objects[s]
  BY <1>1, <1>5, <1>7, <1>9, Zenon DEF SpanState, AwayFrom
<1>11. AwayFrom(s) \cap objects[s] = {}
  BY <1>0, <1>2, <1>9, ObjectFacts, Zenon DEF AwayFrom
<1>12. s \in empty[v] => objects[s] = {}
  BY <1>1, <1>5, Zenon DEF SpanState
<1>13. refcount[s] = Cardinality(AwayFrom(s))
  BY <1>5, Zenon DEF SpanState
<1> QED
  BY <1>1, <1>2, <1>3, <1>4, <1>6, <1>7, <1>8, <1>9, <1>10, <1>11, <1>12, <1>13, Zenon
     DEF Releasable, Listed

\* What the release of one object does; idle: the span has no other one out.
Releases(t, q, o, s, v, idle) ==
  /\ refcount' = [refcount EXCEPT ![s] = @ - 1]
  /\ counter' = [counter EXCEPT ![v] = @ + 1 - (IF idle THEN NObjects ELSE 0)]
  /\ empty' = [empty EXCEPT ![v] = @ \ {s}]
  /\ nonempty' = [nonempty EXCEPT ![v] = IF idle THEN @ \ {s} ELSE @ \cup {s}]
  /\ objects' = [objects EXCEPT ![s] = IF idle THEN @ ELSE @ \cup {o}]
  /\ lock' = [lock EXCEPT ![v] = IF idle THEN None ELSE @]
  /\ Call(t, q)
  /\ UNCHANGED <<cache_size, tc_slots, sizeclass, out>>

LEMMA ReleaseSizes ==
  ASSUME CentralInv, NEW o, NEW s, NEW v, Releasable(o, s, v)
  PROVE  /\ Cardinality(AwayFrom(s) \ {o}) = refcount[s] - 1
         /\ refcount[s] = 1 => AwayFrom(s) = {o}
         /\ refcount[s] = 1 => Cardinality(objects[s]) = NObjects - 1
<1> DEFINE A == AwayFrom(s)
           B == objects[s]
<1>1. /\ A \in SUBSET Object /\ B \in SUBSET Object /\ o \in A /\ {o} \in SUBSET Object
      /\ refcount[s] = Cardinality(A) /\ ObjectsOf(s) = A \cup B /\ A \cap B = {} /\ s \in Spans
      /\ Cardinality({o}) = 1 /\ {o} \subseteq A /\ A \ {o} \in SUBSET Object
  BY OneObject, Zenon DEF Releasable
<1> HIDE DEF A, B
<1>2. Counts(A, {o}) /\ Counts(A, B)
  BY <1>1, SetCounts, Zenon
<1>3. Cardinality(A \ {o}) = Cardinality(A) - 1
  BY <1>1, <1>2, Zenon DEF Counts
<1>4. Cardinality(A) \in Nat /\ Cardinality(B) \in Nat /\ IsFiniteSet(A \ {o})
  BY <1>1, ObjectSets, Zenon
<1>5. Cardinality(A) = 1 => A = {o}
  <2> SUFFICES ASSUME Cardinality(A) = 1 PROVE A = {o}
    OBVIOUS
  <2>1. Cardinality(A \ {o}) = 0
    BY <1>3, SMTT(30)
  <2>2. A \ {o} = {}
    BY <1>4, <2>1, FS_EmptySet, Zenon
  <2> QED
    BY <1>1, <2>2, Zenon
<1>6. Cardinality(A) + Cardinality(B) = NObjects
  <2>1. Cardinality(ObjectsOf(s)) = NObjects
    BY <1>1, SpanCount, Zenon
  <2> QED
    BY <1>1, <1>2, <2>1, Zenon DEF Counts
<1>7. Cardinality(A) = 1 => Cardinality(B) = NObjects - 1
  BY <1>4, <1>6, CentralAssumption, SMTT(30)
<1> QED
  BY <1>1, <1>3, <1>5, <1>7, Zenon DEF A, B

\* Who has the objects afterwards.
LEMMA ReleasedAway ==
  ASSUME CentralInv, NEW t \in Thread, NEW q, NEW o \in th[t].list, o \in Object,
         th'[t] = q, \A u \in Thread \ {t} : th'[u] = th[u],
         q.chain = th[t].chain, q.list = th[t].list \ {o}, UNCHANGED <<tc_slots, out>>
  PROVE  \A p : Away(p)' <=> Away(p) /\ p # o
<1> USE DEF CentralInv
<1>1. Alone(o) /\ InCall(o, t)
  BY InvMeans, Zenon DEF InCall
<1>2. /\ o \notin out /\ o \notin th[t].chain
      /\ \A u \in Thread \ {t} : ~ InCall(o, u)
      /\ ~ Cached(o)
  BY <1>1, Zenon DEF Alone, Cached
<1> TAKE p
<1>3. Away(p)' <=> \/ p \in out' \/ p \in q.chain \cup q.list \/ Cached(p)
                   \/ \E u \in Thread \ {t} : InCall(p, u)
  BY AwayAfter, Zenon
<1>4. Away(p) <=> \/ p \in out \/ p \in th[t].chain \cup th[t].list \/ Cached(p)
                  \/ \E u \in Thread \ {t} : InCall(p, u)
  BY AwayMeans, Zenon DEF InCall
<1>5. CASE p = o
  <2>1. ~ Away(o)'
    BY <1>2, <1>3, <1>5, Zenon
  <2> QED
    BY <1>2, <1>3, <1>5, Zenon
<1>6. CASE p # o
  BY <1>3, <1>4, <1>6, Zenon
<1> QED
  BY <1>5, <1>6

\* The lists, the spans and the counter after the release.
ReleaseEffect(o, s, v, idle) ==
  /\ empty' \in [Class -> SUBSET Spans] /\ nonempty' \in [Class -> SUBSET Spans]
  /\ objects' \in [Spans -> SUBSET Object]
  /\ DOMAIN counter' = Class /\ DOMAIN refcount' = Spans
  /\ \A c \in Class : s \notin empty'[c] /\ (s \in nonempty'[c] <=> c = v /\ ~ idle)
  /\ \A z \in Spans \ {s} : /\ objects'[z] = objects[z] /\ refcount'[z] = refcount[z]
                            /\ \A c \in Class : /\ z \in empty'[c] <=> z \in empty[c]
                                                /\ z \in nonempty'[c] <=> z \in nonempty[c]
  /\ objects'[s] = (IF idle THEN objects[s] ELSE objects[s] \cup {o})
  /\ refcount'[s] = refcount[s] - 1
  /\ counter'[v] = counter[v] + 1 - (IF idle THEN NObjects ELSE 0)
  /\ \A c \in Class \ {v} : counter'[c] = counter[c] /\ nonempty'[c] = nonempty[c]

LEMMA ReleasedLists ==
  ASSUME CentralInv, NEW t \in Thread, NEW q, NEW o, NEW s, NEW v, NEW idle \in BOOLEAN,
         Releasable(o, s, v), Releases(t, q, o, s, v, idle), idle <=> refcount[s] = 1
  PROVE  ReleaseEffect(o, s, v, idle)
<1> USE DEF CentralInv
<1>0. Typed
  BY InvMeans, Zenon
<1>1. /\ o \in Object /\ s \in Spans /\ v \in Class
      /\ \A c \in Class \ {v} : s \notin empty[c] /\ s \notin nonempty[c]
  BY Zenon DEF Releasable
<1>2. /\ empty' = [empty EXCEPT ![v] = @ \ {s}] /\ empty \in [Class -> SUBSET Spans]
      /\ nonempty \in [Class -> SUBSET Spans]
      /\ nonempty' = [nonempty EXCEPT ![v] = IF idle THEN @ \ {s} ELSE @ \cup {s}]
  BY <1>0, Zenon DEF Releases, Typed
<1>3. /\ empty'[v] = empty[v] \ {s} /\ \A c \in Class \ {v} : empty'[c] = empty[c]
      /\ empty' \in [Class -> SUBSET Spans]
  BY <1>1, <1>2, Zenon
<1>4. /\ nonempty'[v] = (IF idle THEN nonempty[v] \ {s} ELSE nonempty[v] \cup {s})
      /\ \A c \in Class \ {v} : nonempty'[c] = nonempty[c]
      /\ nonempty' \in [Class -> SUBSET Spans]
  <2>1. (IF idle THEN nonempty[v] \ {s} ELSE nonempty[v] \cup {s}) \in SUBSET Spans
    BY <1>1, <1>2, Zenon
  <2> QED
    BY <1>1, <1>2, <2>1, Zenon
<1>5. /\ objects' \in [Spans -> SUBSET Object]
      /\ objects'[s] = (IF idle THEN objects[s] ELSE objects[s] \cup {o})
      /\ \A z \in Spans \ {s} : objects'[z] = objects[z]
  <2>1. objects \in [Spans -> SUBSET Object]
    BY <1>0, Zenon DEF Typed
  <2>2. (IF idle THEN objects[s] ELSE objects[s] \cup {o}) \in SUBSET Object
    BY <1>1, <2>1, Zenon
  <2> QED
    BY <1>1, <2>1, <2>2, Zenon DEF Releases
<1>6. /\ DOMAIN refcount' = Spans /\ refcount'[s] = refcount[s] - 1
      /\ \A z \in Spans \ {s} : refcount'[z] = refcount[z]
      /\ DOMAIN counter' = Class
      /\ counter'[v] = counter[v] + 1 - (IF idle THEN NObjects ELSE 0)
      /\ \A c \in Class \ {v} : counter'[c] = counter[c]
  BY <1>0, <1>1 DEF Releases, Typed
<1>7. \A c \in Class : s \notin empty'[c] /\ (s \in nonempty'[c] <=> c = v /\ ~ idle)
  <2> TAKE c \in Class
  <2>1. CASE c = v
    BY <1>3, <1>4, <2>1, Zenon
  <2>2. CASE c # v
    BY <1>1, <1>3, <1>4, <2>2, Zenon
  <2> QED
    BY <2>1, <2>2
<1>8. \A z \in Spans \ {s} : \A c \in Class : /\ z \in empty'[c] <=> z \in empty[c]
                                              /\ z \in nonempty'[c] <=> z \in nonempty[c]
  <2> TAKE z \in Spans \ {s}
  <2> TAKE c \in Class
  <2>1. CASE c = v
    BY <1>3, <1>4, <2>1, Zenon
  <2>2. CASE c # v
    BY <1>3, <1>4, <2>2, Zenon
  <2> QED
    BY <2>1, <2>2
<1> QED
  BY <1>3, <1>4, <1>5, <1>6, <1>7, <1>8, Zenon DEF ReleaseEffect

LEMMA ReleaseCounted ==
  ASSUME CentralInv, NEW t \in Thread, NEW q, NEW o, NEW s, NEW v, NEW idle \in BOOLEAN,
         Releasable(o, s, v), Releases(t, q, o, s, v, idle), idle <=> refcount[s] = 1
  PROVE  Counted'
<1> USE DEF CentralInv
<1> DEFINE F == FreeObjects(v)
<1>0. Typed /\ Counted
  BY InvMeans, Zenon
<1>1. /\ o \in Object /\ s \in Spans /\ v \in Class /\ o \in ObjectsOf(s) /\ o \notin objects[s]
      /\ s \in empty[v] \cup nonempty[v] /\ (s \in empty[v] => objects[s] = {})
      /\ objects[s] \in SUBSET Object /\ ObjectsOf(s) = AwayFrom(s) \cup objects[s]
      /\ \A c \in Class \ {v} : s \notin nonempty[c]
      /\ MapObjectToSpan(o) = s /\ \A p \in objects[s] : MapObjectToSpan(p) = s
  BY ObjectFacts, Zenon DEF Releasable
<1>2. /\ nonempty' \in [Class -> SUBSET Spans]
      /\ \A c \in Class : s \in nonempty'[c] <=> c = v /\ ~ idle
      /\ \A z \in Spans \ {s} : /\ objects'[z] = objects[z]
                                /\ \A c \in Class : z \in nonempty'[c] <=> z \in nonempty[c]
      /\ objects'[s] = (IF idle THEN objects[s] ELSE objects[s] \cup {o})
      /\ counter'[v] = counter[v] + 1 - (IF idle THEN NObjects ELSE 0)
      /\ \A c \in Class \ {v} : counter'[c] = counter[c] /\ nonempty'[c] = nonempty[c]
  <2>1. ReleaseEffect(o, s, v, idle)
    BY ReleasedLists, Zenon
  <2> QED
    BY <2>1, Zenon DEF ReleaseEffect
<1>3. counter[v] = Cardinality(F) /\ F \in SUBSET Object /\ objects[s] \subseteq F /\ o \notin F
  <2>1. counter[v] = Cardinality(F) /\ F \in SUBSET Object
    BY <1>0, <1>1, Zenon DEF Counted, FreeObjects
  <2>2. o \notin F
    BY <1>1, Zenon DEF FreeObjects
  <2>3. ASSUME NEW p \in objects[s] PROVE p \in F
    <3>1. s \in nonempty[v] /\ p \in Object /\ MapObjectToSpan(p) = s
      BY <1>1, <2>3, Zenon
    <3> QED
      BY <2>3, <3>1, Zenon DEF FreeObjects
  <2> QED
    BY <2>1, <2>2, <2>3, Zenon
<1>4. \A p \in Object : MapObjectToSpan(p) \in Spans
  BY ObjectFacts, Zenon
<1>5. FreeObjects(v)' = {p \in Object : MapObjectToSpan(p) \in nonempty'[v]
                                        /\ p \in objects'[MapObjectToSpan(p)]}
  BY Zenon DEF FreeObjects
<1>6. \A p : p \in F <=> /\ p \in Object /\ MapObjectToSpan(p) \in nonempty[v]
                         /\ p \in objects[MapObjectToSpan(p)]
  BY Zenon DEF FreeObjects
<1>7. CASE idle
  <2>1. FreeObjects(v)' = F \ objects[s]
    <3>1. ASSUME NEW p \in Object
          PROVE  p \in FreeObjects(v)' <=> p \in F /\ p \notin objects[s]
      <4>1. CASE MapObjectToSpan(p) = s
        <5>1. p \notin FreeObjects(v)'
          BY <1>1, <1>2, <1>5, <1>7, <4>1, Zenon
        <5>2. p \in F => p \in objects[s]
          BY <1>6, <4>1, Zenon
        <5> QED
          BY <5>1, <5>2, Zenon
      <4>2. CASE MapObjectToSpan(p) # s
        BY <1>1, <1>2, <1>4, <1>5, <1>6, <4>2, ZenonT(30)
      <4> QED
        BY <4>1, <4>2
    <3> QED
      BY <1>3, <1>5, <3>1, Zenon
  <2>2. Counts(F, objects[s])
    BY <1>1, <1>3, SetCounts, Zenon
  <2>3. Cardinality(FreeObjects(v)') = Cardinality(F) - Cardinality(objects[s])
    BY <1>3, <2>1, <2>2, Zenon DEF Counts
  <2>4. Cardinality(objects[s]) = NObjects - 1
    BY <1>7, ReleaseSizes, Zenon
  <2>5. counter'[v] = counter[v] + 1 - NObjects
    BY <1>2, <1>7, Zenon
  <2>6. Cardinality(F) \in Nat /\ NObjects \in Nat
    BY <1>3, ObjectSets, CentralAssumption, Zenon
  <2> HIDE DEF F
  <2>7. counter'[v] = Cardinality(FreeObjects(v)')
    BY <1>3, <2>3, <2>4, <2>5, <2>6, SMTT(30)
  <2>8. ASSUME NEW c \in Class PROVE counter'[c] = Cardinality(FreeObjects(c)')
    <3>1. CASE c = v
      BY <2>7, <3>1, Zenon DEF FreeObjects
    <3>2. CASE c # v
      <4>1. nonempty[c] \subseteq Spans /\ nonempty'[c] = nonempty[c] /\ counter'[c] = counter[c]
        BY <1>0, <1>2, <3>2, Zenon DEF Typed
      <4>2. \A z \in nonempty[c] : objects'[z] = objects[z]
        BY <1>1, <1>2, <3>2, <4>1, ZenonT(30)
      <4>3. FreeObjects(c)' = FreeObjects(c)
        BY <4>1, <4>2, SameFreeObjects, Zenon
      <4> QED
        BY <1>0, <4>1, <4>3, Zenon DEF Counted
    <3> QED
      BY <3>1, <3>2
  <2> QED
    BY <2>8, Zenon DEF Counted
<1>8. CASE ~ idle
  <2>1. FreeObjects(v)' = F \cup {o}
    <3>1. ASSUME NEW p \in Object
          PROVE  p \in FreeObjects(v)' <=> p \in F \/ p = o
      <4>1. CASE MapObjectToSpan(p) = s
        <5>1. p \in FreeObjects(v)' <=> p \in objects[s] \cup {o}
          BY <1>1, <1>2, <1>5, <1>8, <4>1, ZenonT(30)
        <5>2. p \in F <=> p \in objects[s]
          BY <1>3, <1>6, <4>1, Zenon
        <5> QED
          BY <5>1, <5>2, Zenon
      <4>2. CASE MapObjectToSpan(p) # s
        BY <1>1, <1>2, <1>4, <1>5, <1>6, <4>2, Zenon
      <4> QED
        BY <4>1, <4>2
    <3> QED
      BY <1>1, <1>3, <1>5, <3>1, Zenon
  <2>2. Counts(F, {o}) /\ Cardinality({o}) = 1
    BY <1>1, <1>3, OneObject, SetCounts, Zenon
  <2>3. F \cap {o} = {}
    BY <1>3, Zenon
  <2>4. Cardinality(FreeObjects(v)') = Cardinality(F) + 1
    BY <2>1, <2>2, <2>3, Zenon DEF Counts
  <2>5. counter'[v] = counter[v] + 1 - 0
    BY <1>2, <1>8, Zenon
  <2>6. Cardinality(F) \in Nat
    BY <1>3, ObjectSets, Zenon
  <2> HIDE DEF F
  <2>7. counter'[v] = Cardinality(FreeObjects(v)')
    BY <1>3, <2>4, <2>5, <2>6, SMTT(30)
  <2>8. ASSUME NEW c \in Class PROVE counter'[c] = Cardinality(FreeObjects(c)')
    <3>1. CASE c = v
      BY <2>7, <3>1, Zenon DEF FreeObjects
    <3>2. CASE c # v
      <4>1. nonempty[c] \subseteq Spans /\ nonempty'[c] = nonempty[c] /\ counter'[c] = counter[c]
        BY <1>0, <1>2, <3>2, Zenon DEF Typed
      <4>2. \A z \in nonempty[c] : objects'[z] = objects[z]
        BY <1>1, <1>2, <3>2, <4>1, Zenon
      <4>3. FreeObjects(c)' = FreeObjects(c)
        BY <4>1, <4>2, SameFreeObjects, Zenon
      <4> QED
        BY <1>0, <4>1, <4>3, Zenon DEF Counted
    <3> QED
      BY <3>1, <3>2
  <2> QED
    BY <2>8, Zenon DEF Counted
<1> QED
  BY <1>7, <1>8

LEMMA ReleaseToSpansKept ==
  ASSUME CentralInv, NEW t \in Thread, ReleaseToSpans(t)
  PROVE  CentralInv'
<1> USE DEF CentralInv
<1> DEFINE r == th[t]
<1>0. /\ Typed /\ LocksHeld /\ RightClass /\ Calls /\ CallShape(th[t]) /\ SpanStates
      /\ \A p \in Object : Away(p) => p \notin objects[MapObjectToSpan(p)]
  BY InvMeans, Zenon
<1>1. r.pc = "freeing"
  BY Zenon DEF ReleaseToSpans, At
<1> DEFINE Q(o, s, idle) == [r EXCEPT !.list = @ \ {o}, !.pc = IF idle THEN "delete" ELSE @,
                                      !.sp = IF idle THEN s ELSE None]
<1>2. PICK o \in r.list :
        LET s == MapObjectToSpan(o)
        IN  Releases(t, Q(o, s, refcount[s] = 1), o, s, r.v, refcount[s] = 1)
  BY Zenon DEF ReleaseToSpans, Releases, classVars
<1>s. PICK s : s = MapObjectToSpan(o)
  OBVIOUS
<1>v. PICK v : v = r.v
  OBVIOUS
<1>i. PICK idle : idle = (refcount[s] = 1)
  OBVIOUS
<1>q. PICK q : q = Q(o, s, idle)
  OBVIOUS
<1>3. /\ s = MapObjectToSpan(o) /\ v = r.v /\ idle = (refcount[s] = 1)
      /\ q = [r EXCEPT !.list = @ \ {o}, !.pc = IF idle THEN "delete" ELSE @,
                       !.sp = IF idle THEN s ELSE None]
      /\ Releases(t, q, o, s, v, idle)
  BY <1>2, <1>s, <1>v, <1>i, <1>q, Zenon
<1> HIDE DEF Q
<1>4. idle \in BOOLEAN /\ (idle <=> refcount[s] = 1)
  BY <1>3, Zenon
<1>5. Releasable(o, s, v)
  BY <1>1, <1>3, ReleasableMeans, Zenon
<1>6. /\ o \in Object /\ s \in Spans /\ v \in Class /\ s # None /\ sizeclass[s] = v
      /\ o \in ObjectsOf(s) /\ ObjectsOf(s) = AwayFrom(s) \cup objects[s]
      /\ objects[s] \subseteq ObjectsOf(s) /\ o \notin objects[s] /\ Away(o)
      /\ \A u \in Thread : th[u].sp # s
  BY <1>5, Zenon DEF Releasable
<1>7. r \in CallRecord /\ r.c \in Class /\ r.n = 0 /\ r.sp = None
  BY <1>0, <1>1, SMTT(30) DEF CallShape
<1>8. /\ q \in CallRecord /\ q.c = r.c /\ q.v = r.v /\ q.list = r.list \ {o}
      /\ q.chain = r.chain /\ q.n = r.n /\ q.ok = r.ok
      /\ q.pc = (IF idle THEN "delete" ELSE r.pc) /\ q.sp = (IF idle THEN s ELSE None)
  <2>1. /\ r.list \ {o} \in SUBSET Object
        /\ (IF idle THEN "delete" ELSE r.pc) \in PCs
        /\ (IF idle THEN s ELSE None) \in Spans \cup {None}
    <3>1. r.list \in SUBSET Object /\ r.pc \in PCs
      BY <1>7, SMTT(30) DEF CallRecord
    <3> QED
      BY <1>6, <3>1, Zenon DEF PCs
  <2> QED
    BY <1>3, <1>7, <2>1, Zenon DEF CallRecord
<1>9. CallShape(q)
  <2>1. CASE idle
    BY <1>3, <1>6, <1>7, <1>8, <2>1, SMTT(30) DEF CallShape
  <2>2. CASE ~ idle
    BY <1>1, <1>3, <1>6, <1>7, <1>8, <2>2, SMTT(30) DEF CallShape
  <2> QED
    BY <2>1, <2>2
<1>10. /\ Call(t, q) /\ UNCHANGED <<cache_size, tc_slots, sizeclass, out>>
       /\ lock' = [lock EXCEPT ![v] = IF idle THEN None ELSE @]
  BY <1>3, Zenon DEF Releases
<1>11. th'[t] = q /\ \A u \in Thread \ {t} : th'[u] = th[u]
  BY <1>0, <1>9, <1>10, CallsKept, Zenon
<1>12. LockStep(t, q)
  <2>1. LocksOf(r) = {v}
    BY <1>1, <1>3, SMTT(30) DEF LocksOf
  <2>2. CASE idle
    <3>1. LocksOf(q) = {}
      BY <1>8, <2>2, SMTT(30) DEF LocksOf
    <3>2. lock' = [lock EXCEPT ![v] = None]
      BY <1>10, <2>2, Zenon
    <3> QED
      BY <1>0, <1>6, <2>1, <3>1, <3>2, LockDropped, Zenon
  <2>3. CASE ~ idle
    <3>1. LocksOf(q) = {v}
      BY <1>1, <1>3, <1>8, <2>3, SMTT(30) DEF LocksOf
    <3>2. lock' = lock
      <4>1. lock \in [Class -> Thread \cup {None}] /\ lock' = [lock EXCEPT ![v] = lock[v]]
        BY <1>0, <1>10, <2>3, Zenon DEF Typed
      <4> QED
        BY <1>6, <4>1
    <3> QED
      BY <1>0, <2>1, <3>1, <3>2, LockKept, Zenon
  <2> QED
    BY <2>2, <2>3
<1>13. Stolen(t)' => Stolen(t)
  <2>1. q.pc \in {"freeing", "delete"}
    BY <1>1, <1>8, Zenon
  <2> QED
    BY <1>1, <1>8, <1>11, <2>1, SMTT(30) DEF Stolen
<1>14. \A p : Away(p)' <=> Away(p) /\ p # o
  BY <1>6, <1>8, <1>10, <1>11, ReleasedAway, Zenon
<1>15. /\ empty' \in [Class -> SUBSET Spans] /\ nonempty' \in [Class -> SUBSET Spans]
       /\ objects' \in [Spans -> SUBSET Object]
       /\ DOMAIN counter' = Class /\ DOMAIN refcount' = Spans
       /\ \A c \in Class : s \notin empty'[c] /\ (s \in nonempty'[c] <=> c = v /\ ~ idle)
       /\ \A z \in Spans \ {s} : /\ objects'[z] = objects[z] /\ refcount'[z] = refcount[z]
                                 /\ \A c \in Class : /\ z \in empty'[c] <=> z \in empty[c]
                                                     /\ z \in nonempty'[c] <=> z \in nonempty[c]
       /\ objects'[s] = (IF idle THEN objects[s] ELSE objects[s] \cup {o})
       /\ refcount'[s] = refcount[s] - 1
  <2>1. ReleaseEffect(o, s, v, idle)
    BY <1>3, <1>4, <1>5, ReleasedLists, Zenon
  <2> QED
    BY <2>1, Zenon DEF ReleaseEffect
<1>16. Counted'
  BY <1>3, <1>4, <1>5, ReleaseCounted, Zenon
<1>17. ASSUME NEW z \in Spans PROVE SpanState(z)'
  <2>0. SpanState(z) /\ z # None
    BY <1>0, CentralAssumption, Zenon DEF SpanStates
  <2>1. CASE z = s
    <3>1. AwayFrom(s)' = AwayFrom(s) \ {o}
      BY <1>14, Zenon DEF AwayFrom, ObjectsOf
    <3>2. /\ Cardinality(AwayFrom(s) \ {o}) = refcount[s] - 1
          /\ idle => AwayFrom(s) = {o}
      BY <1>4, <1>5, ReleaseSizes, Zenon
    <3>3. refcount'[s] = Cardinality(AwayFrom(s)')
      BY <1>15, <3>1, <3>2, Zenon
    <3>4. objects'[s] \subseteq ObjectsOf(s)
      <4>1. objects'[s] = objects[s] \/ objects'[s] = objects[s] \cup {o}
        BY <1>15, Zenon
      <4> QED
        BY <1>6, <4>1, Zenon
    <3>5. sizeclass'[s] = v /\ v # None
      BY <1>6, <1>10, CentralAssumption, Zenon
    <3>6. \A c \in Class : s \in nonempty'[c] => objects'[s] # {}
      BY <1>15, ZenonT(30)
    <3>7. \A u \in Thread : th'[u].sp = s <=> u = t /\ idle
      BY <1>6, <1>8, <1>11, Zenon
    <3>8. \A c \in Class : Listed(s, c)' <=> c = v /\ ~ idle
      BY <1>15, Zenon DEF Listed
    <3>9. ~ idle => \A p \in ObjectsOf(s) : Away(p)' \/ p \in objects'[s]
      <4> SUFFICES ASSUME ~ idle, NEW p \in ObjectsOf(s) PROVE Away(p)' \/ p \in objects'[s]
        BY Zenon
      <4>1. objects'[s] = objects[s] \cup {o}
        BY <1>15, Zenon
      <4>2. Away(p) \/ p \in objects[s]
        BY <1>6, Zenon DEF AwayFrom
      <4> QED
        BY <1>14, <4>1, <4>2, Zenon
    <3>10. \A c \in Class : Listed(s, c)' =>
             /\ sizeclass'[s] = c /\ \A u \in Thread : th'[u].sp # s
             /\ \A p \in ObjectsOf(s) : Away(p)' \/ p \in objects'[s]
      BY <3>5, <3>7, <3>8, <3>9, Zenon
    <3>11. \A u \in Thread : th'[u].sp = s =>
             /\ sizeclass'[s] = (IF th'[u].pc = "delete" THEN th'[u].v ELSE th'[u].c)
             /\ AwayFrom(s)' = {}
             /\ th'[u].pc = "populated" => objects'[s] = ObjectsOf(s)
             /\ \A w \in Thread : th'[w].sp = s => u = w
      <4> SUFFICES ASSUME NEW u \in Thread, th'[u].sp = s
                   PROVE  /\ sizeclass'[s] = (IF th'[u].pc = "delete" THEN th'[u].v ELSE th'[u].c)
                          /\ AwayFrom(s)' = {}
                          /\ th'[u].pc = "populated" => objects'[s] = ObjectsOf(s)
                          /\ \A w \in Thread : th'[w].sp = s => u = w
        BY Zenon
      <4>1. u = t /\ idle /\ th'[u] = q
        BY <1>11, <3>7, Zenon
      <4>2. q.pc = "delete" /\ q.pc # "populated" /\ q.v = v
        BY <1>3, <1>8, <4>1, SMTT(30)
      <4>3. AwayFrom(s)' = {}
        BY <3>1, <3>2, <4>1, Zenon
      <4> QED
        BY <3>5, <3>7, <4>1, <4>2, <4>3, Zenon
    <3>12. Listed(s, v)' \/ \E u \in Thread : th'[u].sp = s
      BY <1>6, <3>7, <3>8, Zenon
    <3>13. sizeclass'[s] # None => Listed(s, sizeclass[s])' \/ \E u \in Thread : th'[u].sp = s
      BY <3>5, <3>12, Zenon DEF Listed
    <3>14. SpanState(s)'
      BY <1>15, <3>3, <3>4, <3>5, <3>6, <3>10, <3>11, <3>13, Zenon DEF SpanState, ObjectsOf
    <3> QED
      BY <2>1, <3>14, Zenon
  <2>2. CASE z # s
    <3>1. \A u \in Thread : /\ th'[u].sp = z <=> th[u].sp = z
                            /\ th[u].sp = z => th'[u] = th[u]
      BY <1>7, <1>8, <1>11, <2>0, <2>2, Zenon
    <3>2. \A p \in ObjectsOf(z) : Away(p)' <=> Away(p)
      <4>1. o \notin ObjectsOf(z)
        BY <1>6, <2>2, ObjectFacts, Zenon
      <4> QED
        BY <1>14, <4>1, Zenon
    <3>3. SameSpan(z)
      BY <1>10, <1>15, <2>2, <3>1, <3>2, Zenon DEF SameSpan
    <3> QED
      BY <1>0, <2>0, <3>3, SameSpanKept, Zenon
  <2> QED
    BY <2>1, <2>2
<1>18. SpanStates'
  BY <1>17, Zenon DEF SpanStates
<1>19. /\ \A p \in Object : Away(p) => ClassOf(p)' = ClassOf(p)
       /\ \A p \in Object : Away(p)' => p \notin objects'[MapObjectToSpan(p)]
  <2>1. \A p : ClassOf(p)' = ClassOf(p)
    BY <1>10, Zenon DEF ClassOf
  <2>2. ASSUME NEW p \in Object, Away(p)' PROVE p \notin objects'[MapObjectToSpan(p)]
    <3>1. Away(p) /\ p # o /\ p \notin objects[MapObjectToSpan(p)] /\ MapObjectToSpan(p) \in Spans
      BY <1>0, <1>14, <2>2, ObjectFacts, Zenon
    <3>2. CASE MapObjectToSpan(p) = s
      <4>1. objects'[s] = objects[s] \/ objects'[s] = objects[s] \cup {o}
        BY <1>15, Zenon
      <4> QED
        BY <3>1, <3>2, <4>1, Zenon
    <3>3. CASE MapObjectToSpan(p) # s
      BY <1>15, <3>1, <3>3, Zenon
    <3> QED
      BY <3>2, <3>3
  <2> QED
    BY <2>1, <2>2, Zenon
<1>20. out' \subseteq Object /\ sizeclass' \in [Spans -> Class \cup {None}]
  BY <1>0, <1>10, Zenon DEF Typed
<1>21. SpanStep(t, q)
  BY <1>8, <1>9, <1>10, <1>12, <1>13, <1>15, <1>19, <1>20, Zenon DEF SpanStep
<1> QED
  BY <1>16, <1>18, <1>21, SpanStepKept, Zenon

-----------------------------------------------------------------------------
(* Objects fetched from the spans of class c: those of the nonempty list    *)
(* and, after Populate, the new span p.                                     *)

Fetching(t, c, p, ne) ==
  /\ th[t].pc \in {"remove", "populated"} /\ c = th[t].c /\ p = th[t].sp
  /\ ne = nonempty[c] \cup ({p} \ {None})

\* A span that objects are fetched from.
Fetchable(z, t, c) ==
  /\ z \in Spans /\ z # None /\ sizeclass[z] = c
  /\ objects[z] \subseteq ObjectsOf(z) /\ objects[z] # {}
  /\ \A o \in ObjectsOf(z) : Away(o) \/ o \in objects[z]
  /\ \A u \in Thread \ {t} : th[u].sp # z
  /\ \A d \in Class : z \notin empty[d] /\ (d # c => z \notin nonempty[d])

LEMMA FetchableSpans ==
  ASSUME CentralInv, NEW t \in Thread, NEW c, NEW p, NEW ne, Fetching(t, c, p, ne)
  PROVE  c \in Class /\ c # None /\ \A z \in ne : Fetchable(z, t, c)
<1> USE DEF CentralInv
<1>0. /\ Typed /\ CallShape(th[t]) /\ SpanStates
  BY InvMeans, Zenon
<1>1. /\ th[t].pc \in {"remove", "populated"} /\ c = th[t].c /\ p = th[t].sp
      /\ ne = nonempty[c] \cup ({p} \ {None})
  BY Zenon DEF Fetching
<1>2. c \in Class /\ th[t].pc # "delete" /\ p \in Spans \cup {None} /\ (p # None => th[t].pc = "populated")
  BY <1>0, <1>1, SMTT(30) DEF CallShape, CallRecord
<1>3. c # None /\ None \notin Spans
  BY <1>2, CentralAssumption, Zenon
<1>4. ASSUME NEW z \in nonempty[c] PROVE Fetchable(z, t, c)
  <2>1. z \in Spans /\ SpanState(z)
    BY <1>0, <1>2, Zenon DEF Typed, SpanStates
  <2>2. Listed(z, c)
    BY Zenon DEF Listed
  <2>3. /\ sizeclass[z] = c /\ objects[z] \subseteq ObjectsOf(z) /\ objects[z] # {}
        /\ \A o \in ObjectsOf(z) : Away(o) \/ o \in objects[z]
        /\ \A u \in Thread : th[u].sp # z
    BY <1>2, <2>1, <2>2, Zenon DEF SpanState
  <2>4. \A d \in Class : z \notin empty[d]
    BY <2>1, <2>3, Zenon DEF SpanState
  <2>5. \A d \in Class : d # c => z \notin nonempty[d]
    BY <2>1, <2>3, Zenon DEF SpanState, Listed
  <2> QED
    BY <1>3, <2>1, <2>3, <2>4, <2>5, Zenon DEF Fetchable
<1>5. ASSUME p # None PROVE Fetchable(p, t, c)
  <2>1. p \in Spans /\ SpanState(p) /\ th[t].pc = "populated"
    BY <1>0, <1>2, <1>5, Zenon DEF SpanStates
  <2>2. sizeclass[p] = c /\ objects[p] = ObjectsOf(p)
    BY <1>1, <1>2, <2>1, Zenon DEF SpanState
  <2>3. /\ \A d \in Class : p \notin empty[d] /\ p \notin nonempty[d]
        /\ \A w \in Thread : th[w].sp = p => w = t
    BY <1>1, <2>1, SpanInHand, Zenon
  <2>4. ObjectsOf(p) # {}
    BY <2>1, ObjectFacts, Zenon
  <2> QED
    BY <1>5, <2>1, <2>2, <2>3, <2>4, Zenon DEF Fetchable
<1> QED
  BY <1>1, <1>2, <1>3, <1>4, <1>5, Zenon

\* The free objects that can be fetched.
Fetched(ne) == {o \in Object : MapObjectToSpan(o) \in ne /\ o \in objects[MapObjectToSpan(o)]}

LEMMA FetchedObjects ==
  ASSUME CentralInv, NEW t \in Thread, NEW c, NEW p, NEW ne, Fetching(t, c, p, ne),
         NEW R \in SUBSET UNION {objects[z] : z \in ne}
  PROVE  /\ R \in SUBSET Fetched(ne)
         /\ \A o \in R : ~ Away(o)
         /\ \A z \in Spans \ ne : objects[z] \cap R = {} /\ ObjectsOf(z) \cap R = {}
         /\ \A z \in Spans : ObjectsOf(z) \cap R = objects[z] \cap R
<1> USE DEF CentralInv
<1>0. \A z \in Spans : objects[z] \subseteq ObjectsOf(z)
  BY InvMeans, Zenon DEF SpanStates, SpanState
<1>1. \A z \in ne : z \in Spans
  BY FetchableSpans, Zenon DEF Fetchable
<1>2. ASSUME NEW o \in R
      PROVE  o \in Object /\ MapObjectToSpan(o) \in ne /\ o \in objects[MapObjectToSpan(o)]
  <2>1. PICK z \in ne : o \in objects[z]
    BY Zenon
  <2>2. o \in Object /\ MapObjectToSpan(o) = z
    BY <1>0, <1>1, <2>1, ObjectFacts, Zenon
  <2> QED
    BY <2>1, <2>2, Zenon
<1>3. R \in SUBSET Fetched(ne)
  BY <1>2, Zenon DEF Fetched
<1>4. \A o \in R : ~ Away(o)
  BY <1>2, InvMeans, Zenon
<1>5. \A z \in Spans : \A o \in ObjectsOf(z) : MapObjectToSpan(o) = z
  BY ObjectFacts, Zenon
<1>6. \A z \in Spans : ObjectsOf(z) \cap R = objects[z] \cap R
  <2> TAKE z \in Spans
  <2>1. \A o \in ObjectsOf(z) : o \in R => o \in objects[z]
    BY <1>2, <1>5, Zenon
  <2> QED
    BY <1>0, <2>1, Zenon
<1>7. \A z \in Spans \ ne : ObjectsOf(z) \cap R = {}
  BY <1>2, <1>5, Zenon
<1> QED
  BY <1>3, <1>4, <1>6, <1>7, Zenon

\* The state after the fetch.
AfterFetch(t, c, ne, R) ==
  /\ objects' \in [Spans -> SUBSET Object] /\ DOMAIN refcount' = Spans
  /\ empty' \in [Class -> SUBSET Spans] /\ nonempty' \in [Class -> SUBSET Spans]
  /\ \A z \in Spans : /\ objects'[z] = objects[z] \ R
                      /\ refcount'[z] = refcount[z] + Cardinality(objects[z] \cap R)
  /\ \A z \in Spans : /\ z \in nonempty'[c] <=> z \in ne /\ objects'[z] # {}
                      /\ z \in empty'[c] <=> z \in empty[c] \/ (z \in ne /\ objects'[z] = {})
  /\ \A d \in Class \ {c} : nonempty'[d] = nonempty[d] /\ empty'[d] = empty[d]
  /\ out' = out \cup R /\ Call(t, IdleCall)

LEMMA FetchEffect ==
  ASSUME CentralInv, NEW t \in Thread, NEW c \in Class, NEW ne \in SUBSET Spans,
         NEW R \in SUBSET Object, Fetch(t, c, ne, objects, R)
  PROVE  AfterFetch(t, c, ne, R)
<1> DEFINE left == [s \in Spans |-> objects[s] \ R]
<1>0. Typed
  BY InvMeans, Zenon DEF CentralInv
<1>1. /\ objects' = left /\ \A z \in Spans : left[z] = objects[z] \ R
      /\ objects' \in [Spans -> SUBSET Object]
  BY <1>0, Zenon DEF Fetch, Typed
<1>2. /\ nonempty' = [nonempty EXCEPT ![c] = {s \in ne : left[s] # {}}]
      /\ empty' = [empty EXCEPT ![c] = @ \cup {s \in ne : left[s] = {}}]
      /\ nonempty \in [Class -> SUBSET Spans] /\ empty \in [Class -> SUBSET Spans]
  BY <1>0, Zenon DEF Fetch, Typed
<1> HIDE DEF left
<1>3. /\ nonempty'[c] = {s \in ne : left[s] # {}}
      /\ empty'[c] = empty[c] \cup {s \in ne : left[s] = {}}
      /\ \A d \in Class \ {c} : nonempty'[d] = nonempty[d] /\ empty'[d] = empty[d]
      /\ empty' \in [Class -> SUBSET Spans] /\ nonempty' \in [Class -> SUBSET Spans]
  BY <1>2, Zenon
<1>4. /\ DOMAIN refcount' = Spans
      /\ \A z \in Spans : refcount'[z] = refcount[z] + Cardinality(objects[z] \cap R)
  BY Zenon DEF Fetch
<1>5. out' = out \cup R /\ Call(t, IdleCall)
  BY Zenon DEF Fetch
<1> QED
  BY <1>1, <1>3, <1>4, <1>5, Zenon DEF AfterFetch

\* Populate's objects are added to the count of the class, the fetched taken off.
Recounted(c, R, p) ==
  /\ DOMAIN counter' = Class
  /\ \A d \in Class \ {c} : counter'[d] = counter[d]
  /\ counter'[c] = counter[c] - Cardinality(R) + NewObjects(p)

\* The free objects of the class after the fetch.
LEMMA FetchCounted ==
  ASSUME CentralInv, NEW t \in Thread, NEW c, NEW p, NEW ne, Fetching(t, c, p, ne),
         NEW R \in SUBSET Fetched(ne), AfterFetch(t, c, ne, R),
         \A z \in Spans \ ne : objects[z] \cap R = {},
         Recounted(c, R, p)
  PROVE  Counted' /\ DOMAIN counter' = Class
<1> USE DEF CentralInv
<1> DEFINE F == FreeObjects(c)
           A == Fetched(ne)
           P == IF p = None THEN {} ELSE ObjectsOf(p)
<1>0. /\ Typed /\ Counted /\ c \in Class /\ CallShape(th[t]) /\ SpanStates
      /\ \A z \in ne : z \in Spans
      /\ \A z \in ne : Fetchable(z, t, c)
  <2>1. Typed /\ Counted /\ CallShape(th[t]) /\ SpanStates
    BY InvMeans, Zenon
  <2>2. c \in Class /\ \A z \in ne : Fetchable(z, t, c)
    BY FetchableSpans, Zenon
  <2> QED
    BY <2>1, <2>2, Zenon DEF Fetchable
<1>1. /\ th[t].pc \in {"remove", "populated"} /\ p = th[t].sp
      /\ ne = nonempty[c] \cup ({p} \ {None})
  BY Zenon DEF Fetching
<1>2. p \in Spans \cup {None} /\ (p # None => th[t].pc = "populated")
  BY <1>0, <1>1, SMTT(30) DEF CallShape, CallRecord
<1>3. A = F \cup P /\ F \cap P = {} /\ Cardinality(P) = NewObjects(p)
      /\ P \in SUBSET Object
  <2>1. CASE p = None
    <3>1. P = {} /\ ne = nonempty[c]
      BY <1>1, <2>1, Zenon
    <3>2. A = F
      BY <3>1, Zenon DEF Fetched, FreeObjects
    <3>3. Cardinality({}) = 0
      BY FS_EmptySet, Zenon
    <3> QED
      BY <2>1, <3>1, <3>2, <3>3, Zenon DEF NewObjects
  <2>2. CASE p # None
    <3>1. p \in Spans /\ SpanState(p) /\ P = ObjectsOf(p) /\ ne = nonempty[c] \cup {p}
      BY <1>0, <1>1, <1>2, <2>2, Zenon DEF SpanStates
    <3>2. objects[p] = ObjectsOf(p)
      BY <1>1, <1>2, <2>2, <3>1, Zenon DEF SpanState
    <3>3. p \notin nonempty[c]
      BY <1>0, <1>1, <3>1, SpanInHand, Zenon
    <3>4. P \in SUBSET Object /\ \A o \in Object : o \in P <=> MapObjectToSpan(o) = p
      BY <3>1, ObjectFacts, Zenon
    <3>5. \A o : o \in A <=> o \in F \/ o \in P
      <4> TAKE o
      <4>1. o \in A <=> o \in Object /\ MapObjectToSpan(o) \in ne /\ o \in objects[MapObjectToSpan(o)]
        BY Zenon DEF Fetched
      <4>2. o \in F <=> o \in Object /\ MapObjectToSpan(o) \in nonempty[c] /\ o \in objects[MapObjectToSpan(o)]
        BY Zenon DEF FreeObjects
      <4>3. o \in P => o \in Object /\ MapObjectToSpan(o) = p /\ o \in objects[MapObjectToSpan(o)]
        BY <3>1, <3>2, <3>4, Zenon
      <4>4. o \in Object /\ MapObjectToSpan(o) = p => o \in P
        BY <3>4, Zenon
      <4> HIDE DEF A, F, P
      <4> QED
        BY <3>1, <4>1, <4>2, <4>3, <4>4, Zenon
    <3>6. F \cap P = {}
      BY <3>3, <3>4, Zenon DEF FreeObjects
    <3>7. Cardinality(P) = NObjects
      BY <3>1, SpanCount, Zenon
    <3> QED
      BY <2>2, <3>4, <3>5, <3>6, <3>7, Zenon DEF NewObjects
  <2> QED
    BY <2>1, <2>2
<1>4. FreeObjects(c)' = A \ R
  <2>0. FreeObjects(c)' = {o \in Object : MapObjectToSpan(o) \in nonempty'[c]
                                          /\ o \in objects'[MapObjectToSpan(o)]}
    BY Zenon DEF FreeObjects
  <2>1. ASSUME NEW o \in Object PROVE o \in FreeObjects(c)' <=> o \in A /\ o \notin R
    <3>1. MapObjectToSpan(o) \in Spans
      BY ObjectFacts, Zenon
    <3>2. /\ objects'[MapObjectToSpan(o)] = objects[MapObjectToSpan(o)] \ R
          /\ MapObjectToSpan(o) \in nonempty'[c]
               <=> MapObjectToSpan(o) \in ne /\ objects'[MapObjectToSpan(o)] # {}
      BY <3>1, Zenon DEF AfterFetch
    <3> QED
      BY <2>0, <3>2, Zenon DEF Fetched
  <2> QED
    BY <2>0, <2>1, Zenon DEF Fetched
<1>5. F \in SUBSET Object /\ A \in SUBSET Object /\ R \in SUBSET Object /\ counter[c] = Cardinality(F)
  BY <1>0, Zenon DEF FreeObjects, Fetched, Counted
<1>6. /\ DOMAIN counter' = Class
      /\ \A d \in Class \ {c} : counter'[d] = counter[d]
      /\ counter'[c] = counter[c] - Cardinality(R) + NewObjects(p)
  BY Zenon DEF Recounted
<1> HIDE DEF F, A, P
<1>7. counter'[c] = counter[c] - Cardinality(R) + Cardinality(P)
  BY <1>3, <1>6, Zenon
<1>8. Counts(F, P) /\ Counts(A, R)
  BY <1>3, <1>5, SetCounts, Zenon
<1>9. /\ Cardinality(A) = Cardinality(F) + Cardinality(P)
      /\ Cardinality(A \ R) = Cardinality(A) - Cardinality(R)
  BY <1>3, <1>8, Zenon DEF Counts, A
<1>10. Cardinality(F) \in Nat /\ Cardinality(P) \in Nat /\ Cardinality(R) \in Nat
  BY <1>3, <1>5, ObjectSets, Zenon
<1>11. counter'[c] = Cardinality(A \ R)
  BY <1>5, <1>7, <1>9, <1>10, SMTT(30)
<1>12. ASSUME NEW d \in Class PROVE counter'[d] = Cardinality(FreeObjects(d)')
  <2>1. CASE d = c
    BY <1>4, <1>11, <2>1, Zenon DEF FreeObjects
  <2>2. CASE d # c
    <3>1. nonempty'[d] = nonempty[d] /\ counter'[d] = counter[d] /\ nonempty[d] \subseteq Spans
      BY <1>0, <1>6, <2>2, Zenon DEF AfterFetch, Typed
    <3>2. ASSUME NEW z \in nonempty[d] PROVE objects'[z] = objects[z]
      <4>1. z \in Spans \ ne
        BY <1>0, <2>2, <3>1, Zenon DEF Fetchable
      <4>2. objects[z] \cap R = {} /\ objects'[z] = objects[z] \ R
        BY <4>1, Zenon DEF AfterFetch
      <4> QED
        BY <4>2, Zenon
    <3>3. FreeObjects(d)' = FreeObjects(d)
      BY <3>1, <3>2, SameFreeObjects, Zenon
    <3> QED
      BY <1>0, <3>1, <3>3, Zenon DEF Counted
  <2> QED
    BY <2>1, <2>2
<1> QED
  BY <1>6, <1>12, Zenon DEF Counted

LEMMA FetchKept ==
  ASSUME CentralInv, NEW t \in Thread, NEW c, NEW p, NEW ne, Fetching(t, c, p, ne),
         NEW R \in SUBSET UNION {objects[z] : z \in ne}, Fetch(t, c, ne, objects, R),
         Recounted(c, R, p),
         UNCHANGED <<lock, cache_size, tc_slots, sizeclass>>
  PROVE  CentralInv'
<1> USE DEF CentralInv
<1> DEFINE r == th[t]
<1>0. /\ Typed /\ LocksHeld /\ RightClass /\ Calls /\ CallShape(th[t]) /\ SpanStates
      /\ \A o \in Object : Away(o) => o \notin objects[MapObjectToSpan(o)]
  BY InvMeans, Zenon
<1>1. c \in Class /\ c # None /\ \A z \in ne : Fetchable(z, t, c)
  BY FetchableSpans, Zenon
<1>2. ne \in SUBSET Spans
  BY <1>1, Zenon DEF Fetchable
<1>3. /\ R \in SUBSET Fetched(ne)
      /\ \A o \in R : ~ Away(o)
      /\ \A z \in Spans \ ne : objects[z] \cap R = {} /\ ObjectsOf(z) \cap R = {}
      /\ \A z \in Spans : ObjectsOf(z) \cap R = objects[z] \cap R
  BY FetchedObjects, Zenon
<1>4. R \in SUBSET Object
  BY <1>3, Zenon DEF Fetched
<1>5. AfterFetch(t, c, ne, R)
  BY <1>1, <1>2, <1>4, FetchEffect, ZenonT(30)
<1>6. Counted' /\ DOMAIN counter' = Class
  BY <1>3, <1>5, FetchCounted, Zenon
<1>7. /\ objects' \in [Spans -> SUBSET Object] /\ DOMAIN refcount' = Spans
      /\ empty' \in [Class -> SUBSET Spans] /\ nonempty' \in [Class -> SUBSET Spans]
      /\ \A z \in Spans : /\ objects'[z] = objects[z] \ R
                          /\ refcount'[z] = refcount[z] + Cardinality(objects[z] \cap R)
      /\ \A z \in Spans : /\ z \in nonempty'[c] <=> z \in ne /\ objects'[z] # {}
                          /\ z \in empty'[c] <=> z \in empty[c] \/ (z \in ne /\ objects'[z] = {})
      /\ \A d \in Class \ {c} : nonempty'[d] = nonempty[d] /\ empty'[d] = empty[d]
      /\ out' = out \cup R /\ Call(t, IdleCall)
  BY <1>5, Zenon DEF AfterFetch
<1>8. /\ r.pc \in {"remove", "populated"} /\ p = r.sp /\ ne = nonempty[c] \cup ({p} \ {None})
  BY Zenon DEF Fetching
<1>9. r.chain = {} /\ r.list = {} /\ LocksOf(r) = {}
  BY <1>0, <1>8, SMTT(30) DEF CallShape, LocksOf
<1>10. LockStep(t, IdleCall)
  BY <1>0, <1>9, IdleFacts, LockKept, Zenon
<1>11. th'[t] = IdleCall /\ \A u \in Thread \ {t} : th'[u] = th[u]
  BY <1>0, <1>7, IdleShape, CallsKept, ZenonT(30)
<1>12. ~ Stolen(t)'
  BY <1>11, IdleFacts, SMTT(30) DEF Stolen
<1>13. \A o : Away(o)' <=> Away(o) \/ o \in R
  <2> TAKE o
  <2>1. Away(o)' <=> \/ o \in out' \/ o \in IdleCall.chain \cup IdleCall.list \/ Cached(o)
                     \/ \E u \in Thread \ {t} : InCall(o, u)
    BY <1>11, AwayAfter, Zenon
  <2>2. Away(o) <=> \/ o \in out \/ o \in r.chain \cup r.list \/ Cached(o)
                    \/ \E u \in Thread \ {t} : InCall(o, u)
    BY AwayMeans, Zenon DEF InCall
  <2> QED
    BY <1>7, <1>9, <2>1, <2>2, IdleFacts, ZenonT(30)
<1>14. ASSUME NEW z \in Spans
       PROVE  AwayFrom(z)' = AwayFrom(z) \cup (objects[z] \cap R) /\ refcount'[z] = Cardinality(AwayFrom(z)')
  <2>1. SpanState(z) /\ objects[z] \subseteq ObjectsOf(z)
    BY <1>0, Zenon DEF SpanStates, SpanState
  <2>2. AwayFrom(z)' = AwayFrom(z) \cup (ObjectsOf(z) \cap R)
    BY <1>13, Zenon DEF AwayFrom, ObjectsOf
  <2>3. ObjectsOf(z) \cap R = objects[z] \cap R
    BY <1>3, Zenon
  <2>4. /\ AwayFrom(z) \in SUBSET Object /\ objects[z] \cap R \in SUBSET Object
        /\ AwayFrom(z) \cap (objects[z] \cap R) = {}
    BY <1>3, <1>4, ObjectFacts, Zenon DEF AwayFrom
  <2>5. Counts(AwayFrom(z), objects[z] \cap R)
    BY <2>4, SetCounts, Zenon
  <2>6. Cardinality(AwayFrom(z) \cup (objects[z] \cap R))
          = Cardinality(AwayFrom(z)) + Cardinality(objects[z] \cap R)
    BY <2>4, <2>5, Zenon DEF Counts
  <2>7. refcount[z] = Cardinality(AwayFrom(z))
    BY <2>1, Zenon DEF SpanState
  <2> QED
    BY <1>7, <2>2, <2>3, <2>6, <2>7, Zenon
<1>15. ASSUME NEW z \in Spans PROVE SpanState(z)'
  <2>0. SpanState(z) /\ z # None
    BY <1>0, CentralAssumption, Zenon DEF SpanStates
  <2>1. CASE z \in ne
    <3>1. /\ sizeclass[z] = c /\ objects[z] \subseteq ObjectsOf(z)
          /\ \A o \in ObjectsOf(z) : Away(o) \/ o \in objects[z]
          /\ \A u \in Thread \ {t} : th[u].sp # z
          /\ \A d \in Class : z \notin empty[d] /\ (d # c => z \notin nonempty[d])
      BY <1>1, <2>1, Zenon DEF Fetchable
    <3>2. \A u \in Thread : th'[u].sp # z
      BY <1>11, <2>0, <3>1, IdleFacts, Zenon
    <3>3. /\ objects'[z] \subseteq ObjectsOf(z) /\ sizeclass'[z] = c /\ sizeclass'[z] # None
          /\ refcount'[z] = Cardinality(AwayFrom(z)')
      <4>1. refcount'[z] = Cardinality(AwayFrom(z)')
        BY <1>14, Zenon
      <4>2. objects'[z] = objects[z] \ R /\ sizeclass'[z] = sizeclass[z]
        BY <1>7, Zenon
      <4> QED
        BY <1>1, <3>1, <4>1, <4>2, Zenon
    <3>4. \A d \in Class : /\ z \in empty'[d] <=> d = c /\ objects'[z] = {}
                           /\ z \in nonempty'[d] <=> d = c /\ objects'[z] # {}
      <4> TAKE d \in Class
      <4>1. CASE d = c
        BY <1>1, <1>7, <2>1, <3>1, <4>1, Zenon
      <4>2. CASE d # c
        BY <1>7, <3>1, <4>2, Zenon
      <4> QED
        BY <4>1, <4>2
    <3>5. \A d \in Class : Listed(z, d)' <=> d = c
      BY <3>4, Zenon DEF Listed
    <3>6. \A o \in ObjectsOf(z) : Away(o)' \/ o \in objects'[z]
      <4>1. objects'[z] = objects[z] \ R
        BY <1>7, Zenon
      <4>2. ASSUME NEW o \in ObjectsOf(z), o \notin objects'[z] PROVE Away(o)'
        BY <1>13, <3>1, <4>1, <4>2, Zenon
      <4> QED
        BY <4>2, Zenon
    <3>7. Listed(z, c)'
      BY <1>1, <3>5, Zenon
    <3>8. \A d \in Class : Listed(z, d)' =>
             /\ sizeclass'[z] = d /\ \A u \in Thread : th'[u].sp # z
             /\ \A o \in ObjectsOf(z) : Away(o)' \/ o \in objects'[z]
      BY <3>2, <3>3, <3>5, <3>6, Zenon
    <3>9. Listed(z, sizeclass[z])'
      BY <3>3, <3>7, Zenon DEF Listed
    <3> QED
      BY <3>2, <3>3, <3>4, <3>8, <3>9, Zenon DEF SpanState, ObjectsOf
  <2>2. CASE z \notin ne
    <3>1. \A u \in Thread : /\ th'[u].sp = z <=> th[u].sp = z
                            /\ th[u].sp = z => th'[u] = th[u]
      BY <1>8, <1>11, <2>0, <2>2, IdleFacts, ZenonT(30)
    <3>2. objects[z] \cap R = {} /\ ObjectsOf(z) \cap R = {}
      BY <1>3, <2>2, Zenon
    <3>3. \A o \in ObjectsOf(z) : Away(o)' <=> Away(o)
      BY <1>13, <3>2, Zenon
    <3>4. objects'[z] = objects[z]
      BY <1>7, <3>2, Zenon
    <3>5. refcount'[z] = refcount[z]
      <4>1. AwayFrom(z)' = AwayFrom(z)
        BY <3>3, Zenon DEF AwayFrom, ObjectsOf
      <4> QED
        BY <1>14, <2>0, <4>1, Zenon DEF SpanState
    <3>6. \A d \in Class : /\ z \in empty'[d] <=> z \in empty[d]
                           /\ z \in nonempty'[d] <=> z \in nonempty[d]
      <4> TAKE d \in Class
      <4>1. CASE d = c
        BY <1>7, <1>8, <2>2, <4>1, Zenon
      <4>2. CASE d # c
        BY <1>7, <4>2, Zenon
      <4> QED
        BY <4>1, <4>2
    <3>7. SameSpan(z)
      BY <3>1, <3>3, <3>4, <3>5, <3>6, ZenonT(30) DEF SameSpan
    <3> QED
      BY <1>0, <2>0, <3>7, SameSpanKept, Zenon
  <2> QED
    BY <2>1, <2>2
<1>16. SpanStates'
  BY <1>15, Zenon DEF SpanStates
<1>17. /\ \A o \in Object : Away(o) => ClassOf(o)' = ClassOf(o)
       /\ \A o \in Object : Away(o)' => o \notin objects'[MapObjectToSpan(o)]
  <2>1. \A o : ClassOf(o)' = ClassOf(o)
    BY Zenon DEF ClassOf
  <2>2. ASSUME NEW o \in Object, Away(o)' PROVE o \notin objects'[MapObjectToSpan(o)]
    <3>1. MapObjectToSpan(o) \in Spans
      BY ObjectFacts, Zenon
    <3>2. objects'[MapObjectToSpan(o)] = objects[MapObjectToSpan(o)] \ R
      BY <1>7, <3>1, Zenon
    <3> QED
      BY <1>0, <1>13, <2>2, <3>2, Zenon
  <2> QED
    BY <2>1, <2>2, Zenon
<1>18. /\ out' \subseteq Object /\ out \subseteq out' /\ \A o \in out' \ out : ~ Away(o)
       /\ sizeclass' \in [Spans -> Class \cup {None}]
  BY <1>0, <1>3, <1>4, <1>7, Zenon DEF Typed
<1>19. SpanStep(t, IdleCall)
  BY <1>6, <1>7, <1>10, <1>12, <1>17, <1>18, IdleFacts, IdleShape, Zenon DEF SpanStep
<1> QED
  BY <1>6, <1>16, <1>19, SpanStepKept, Zenon

\* RemoveRange takes a batch from the transfer cache, fetches from the spans it
\* finds on the list, or drops the lock to populate.
LEMMA RemoveLockedKept ==
  ASSUME CentralInv, NEW t \in Thread, RemoveLocked(t)
  PROVE  CentralInv'
<1> USE DEF CentralInv
<1>c. PICK c : c = th[t].c
  OBVIOUS
<1> DEFINE cached == th[t].n = Batch /\ UsedSlots(c) > 0
<1>0. /\ th[t].pc = "remove" /\ Typed /\ CallShape(th[t]) /\ SpanStates
      /\ UNCHANGED <<lock, cache_size, sizeclass>>
  <2>1. th[t].pc = "remove" /\ UNCHANGED <<lock, cache_size, sizeclass>>
    BY Zenon DEF RemoveLocked, At
  <2> QED
    BY <2>1, InvMeans, Zenon
<1>1. \/ /\ cached
         /\ out' = out \cup TopSlot(tc_slots[c])
         /\ tc_slots' = [tc_slots EXCEPT ![c] = SlotsBelow(@)]
         /\ Call(t, IdleCall) /\ UNCHANGED spanVars
      \/ /\ \E R \in Fetches(nonempty[c], objects, th[t].n) :
              /\ Fetch(t, c, nonempty[c], objects, R)
              /\ counter' = [counter EXCEPT ![c] = @ - Cardinality(R)]
         /\ UNCHANGED tc_slots
      \/ /\ Call(t, [th[t] EXCEPT !.pc = "populate"])
         /\ UNCHANGED <<spanVars, tc_slots, out>>
  BY <1>c, Zenon DEF RemoveLocked
<1>2. ASSUME cached,
             out' = out \cup TopSlot(tc_slots[c]),
             tc_slots' = [tc_slots EXCEPT ![c] = SlotsBelow(@)],
             Call(t, IdleCall), UNCHANGED spanVars
      PROVE  CentralInv'
  <2>1. UNCHANGED <<empty, nonempty, counter, objects, refcount>>
    BY <1>2, Zenon DEF spanVars
  <2>2. th[t].pc = "remove" /\ UsedSlots(c) > 0
    BY <1>0, <1>2, Zenon
  <2> QED
    BY <1>c, <1>0, <1>2, <2>1, <2>2, CachedKept, Zenon
<1>3. ASSUME NEW R \in Fetches(nonempty[c], objects, th[t].n),
             Fetch(t, c, nonempty[c], objects, R),
             counter' = [counter EXCEPT ![c] = @ - Cardinality(R)],
             UNCHANGED tc_slots
      PROVE  CentralInv'
  <2>1. PICK ne : ne = nonempty[c]
    OBVIOUS
  <2>2. th[t].sp = None /\ c \in Class
    BY <1>c, <1>0, SMTT(30) DEF CallShape
  <2>3. Fetching(t, c, None, ne)
    BY <1>c, <1>0, <2>1, <2>2, Zenon DEF Fetching
  <2>4. R \in SUBSET UNION {objects[z] : z \in ne}
    BY <1>3, <2>1, Zenon DEF Fetches
  <2>5. Fetch(t, c, ne, objects, R)
    BY <1>3, <2>1, Zenon
  <2>6. R \in SUBSET Fetched(ne)
    BY <2>3, <2>4, FetchedObjects, Zenon
  <2>7. Cardinality(R) \in Nat /\ Cardinality(FreeObjects(c)) \in Nat
    <3>1. R \in SUBSET Object /\ FreeObjects(c) \in SUBSET Object
      BY <2>6, Zenon DEF Fetched, FreeObjects
    <3> QED
      BY <3>1, ObjectSets, Zenon
  <2>8. counter[c] = Cardinality(FreeObjects(c))
    BY <2>2, InvMeans, Zenon DEF Counted
  <2>9. /\ DOMAIN counter' = Class
        /\ \A d \in Class \ {c} : counter'[d] = counter[d]
        /\ counter'[c] = counter[c] - Cardinality(R)
    BY <1>0, <1>3, <2>2, Zenon DEF Typed
  <2>10. NewObjects(None) = 0
    BY Zenon DEF NewObjects
  <2>11. counter'[c] = counter[c] - Cardinality(R) + NewObjects(None)
    BY <2>7, <2>8, <2>9, <2>10, SMTT(30)
  <2>12. Recounted(c, R, None)
    BY <2>9, <2>11, Zenon DEF Recounted
  <2>13. UNCHANGED <<lock, cache_size, tc_slots, sizeclass>>
    BY <1>0, <1>3, Zenon
  <2> QED
    BY <2>3, <2>4, <2>5, <2>12, <2>13, FetchKept, ZenonT(30)
<1>4. ASSUME Call(t, [th[t] EXCEPT !.pc = "populate"]), UNCHANGED <<spanVars, tc_slots, out>>
      PROVE  CentralInv'
  <2>1. UNCHANGED <<lock, cache_size, tc_slots, empty, nonempty, counter, objects, refcount,
                    sizeclass, out>>
    BY <1>0, <1>4, Zenon DEF spanVars
  <2>2. th[t].pc \in {"remove", "populate"} /\ "populate" \in {"populate", "populated"}
    BY <1>0, Zenon
  <2> QED
    BY <1>4, <2>1, <2>2, RemoveGoesOn, Zenon
<1> QED
  BY <1>1, <1>2, <1>3, <1>4, Zenon

LEMMA PopulatedKept ==
  ASSUME CentralInv, NEW t \in Thread, Populated(t)
  PROVE  CentralInv'
<1> USE DEF CentralInv
<1>c. PICK c : c = th[t].c
  OBVIOUS
<1>p. PICK p : p = th[t].sp
  OBVIOUS
<1>n. PICK ne : ne = nonempty[c] \cup ({p} \ {None})
  BY Zenon
<1>0. /\ th[t].pc = "populated" /\ UNCHANGED <<lock, cache_size, tc_slots, sizeclass>>
  BY Zenon DEF Populated, At, classVars
<1>1. PICK R \in Fetches(ne, objects, th[t].n) :
        /\ Fetch(t, c, ne, objects, R)
        /\ counter' = [counter EXCEPT ![c] = @ - Cardinality(R) + NewObjects(p)]
  BY <1>c, <1>p, <1>n, Zenon DEF Populated
<1>2. Typed /\ CallShape(th[t])
  BY InvMeans, Zenon
<1>3. c \in Class
  BY <1>c, <1>0, <1>2, SMTT(30) DEF CallShape
<1>4. Fetching(t, c, p, ne)
  BY <1>c, <1>p, <1>n, <1>0, Zenon DEF Fetching
<1>5. R \in SUBSET UNION {objects[z] : z \in ne}
  BY <1>1, Zenon DEF Fetches
<1>6. Recounted(c, R, p)
  BY <1>1, <1>2, <1>3, Zenon DEF Recounted, Typed
<1> QED
  BY <1>0, <1>1, <1>4, <1>5, <1>6, FetchKept, Zenon

LEMMA PopulateFailsKept ==
  ASSUME CentralInv, NEW t \in Thread, PopulateFails(t)
  PROVE  CentralInv'
<1>1. /\ th[t].pc = "populate" /\ Call(t, [th[t] EXCEPT !.pc = "populated"])
      /\ UNCHANGED <<lock, cache_size, tc_slots, empty, nonempty, counter, objects, refcount,
                     sizeclass, out>>
  BY Zenon DEF PopulateFails, At, spanVars, classVars
<1>2. th[t].pc \in {"remove", "populate"} /\ "populated" \in {"populate", "populated"}
  BY <1>1, Zenon
<1> QED
  BY <1>1, <1>2, RemoveGoesOn, Zenon

-----------------------------------------------------------------------------
(* The invariant is inductive.                                             *)

LEMMA CentralInitial == CentralInit => CentralInv
<1> SUFFICES ASSUME CentralInit PROVE CentralInv
  OBVIOUS
<1>1. Typed
  <2>1. <<>> \in Seq(SUBSET Object)
    OBVIOUS
  <2>2. cache_size \in [Class -> Nat]
    BY CentralAssumption, Zenon DEF CentralInit
  <2> QED
    BY <2>1, <2>2, Zenon DEF Typed, CentralInit
<1>2. \A t \in Thread : th[t] = IdleCall
  BY Zenon DEF CentralInit
<1>3. Calls
  BY <1>2, IdleShape, Zenon DEF Calls
<1>4. \A c \in Class : tc_slots[c] = <<>> /\ UsedSlots(c) = 0 /\ lock[c] = None
  <2>1. Len(<<>>) = 0
    OBVIOUS
  <2> QED
    BY <2>1, Zenon DEF CentralInit, UsedSlots
<1>5. LocksHeld
  BY <1>2, <1>4, IdleFacts, CentralAssumption, Zenon DEF LocksHeld
<1>6. \A c \in Class : 1 .. UsedSlots(c) = {}
  BY <1>4, SMTT(30)
<1>7. \A o : ~ Away(o) /\ (\A t \in Thread : ~ InCall(o, t))
  BY <1>2, <1>6, IdleFacts, Zenon DEF Away, InCall, CentralInit
<1>8. RightClass
  BY <1>2, <1>6, IdleFacts, Zenon DEF RightClass
<1>9. Places
  BY <1>6, <1>7, Zenon DEF Places, OnePlace
<1>10. Cardinality({}) = 0
  BY FS_EmptySet, Zenon
<1>11. ASSUME NEW s \in Spans PROVE SpanState(s)
  <2>1. AwayFrom(s) = {}
    BY <1>7, Zenon DEF AwayFrom
  <2>2. objects[s] = {} /\ refcount[s] = 0 /\ sizeclass[s] = None
    BY Zenon DEF CentralInit
  <2>3. \A c \in Class : s \notin empty[c] /\ s \notin nonempty[c]
    BY Zenon DEF CentralInit
  <2>4. \A t \in Thread : th[t].sp # s
    BY <1>2, IdleFacts, CentralAssumption, Zenon
  <2> QED
    BY <1>10, <2>1, <2>2, <2>3, <2>4, ZenonT(30) DEF SpanState, Listed
<1>12. Counted
  <2>1. \A c \in Class : FreeObjects(c) = {} /\ counter[c] = 0
    BY Zenon DEF FreeObjects, CentralInit
  <2> QED
    BY <1>10, <2>1, Zenon DEF Counted
<1>13. CacheFits
  <2> SUFFICES ASSUME NEW c \in Class
               PROVE  UsedSlots(c) <= cache_size[c] /\ cache_size[c] <= MaxCacheSize[c]
    BY Zenon DEF CacheFits
  <2>1. cache_size[c] = CacheSize[c] /\ CacheSize[c] \in Nat /\ CacheSize[c] <= MaxCacheSize[c]
    BY CentralAssumption, Zenon DEF CentralInit
  <2> QED
    BY <1>4, <2>1, SMTT(30)
<1>14. EntriesConserved
  <2>1. {t \in Thread : Stolen(t)} = {}
    BY <1>2, IdleFacts, SMTT(30) DEF Stolen
  <2>2. cache_size = CacheSize
    BY Zenon DEF CentralInit
  <2>3. Cardinality(Entries(cache_size)) \in Nat
    BY EntrySets, Zenon
  <2>4. Cardinality(Entries(cache_size)) + 0 <= Cardinality(Entries(cache_size))
    BY <2>3, SMTT(30)
  <2>5. Cardinality(Entries(cache_size)) + Cardinality({t \in Thread : Stolen(t)})
          <= Cardinality(Entries(cache_size))
    BY <1>10, <2>1, <2>4, Zenon
  <2> QED
    BY <2>2, <2>5, Zenon DEF EntriesConserved
<1> QED
  BY <1>1, <1>3, <1>5, <1>8, <1>9, <1>11, <1>12, <1>13, <1>14, ZenonT(30)
     DEF CentralInv, ObjectsInv, SpanStates

LEMMA CentralStutter ==
  ASSUME CentralInv, UNCHANGED centralVars
  PROVE  CentralInv'
<1>0. UNCHANGED <<lock, cache_size, tc_slots, empty, nonempty, counter, sizeclass, objects,
                  refcount, out, th>>
  BY Zenon DEF centralVars
<1>i. /\ Typed /\ Calls /\ LocksHeld /\ RightClass /\ Places /\ SpanStates /\ Counted
      /\ CacheFits /\ EntriesConserved
  BY InvMeans, Zenon DEF CentralInv
<1>1. Typed' /\ Calls' /\ LocksHeld' /\ RightClass'
  <2>1. Typed'
    BY <1>0, <1>i, SMTT(30) DEF Typed
  <2>2. Calls' /\ LocksHeld'
    BY <1>0, <1>i, SMTT(30) DEF Calls, LocksHeld
  <2>3. RightClass'
    BY <1>0, <1>i, SMTT(30) DEF RightClass, ClassOf, UsedSlots
  <2> QED
    BY <2>1, <2>2, <2>3
<1>2. \A o : /\ \A t \in Thread : InCall(o, t)' <=> InCall(o, t)
             /\ \A c, i : InSlot(o, c, i)' <=> InSlot(o, c, i)
             /\ Away(o)' <=> Away(o)
  BY <1>0, Zenon DEF InCall, InSlot, UsedSlots, Away
<1>3. Places'
  BY <1>0, <1>i, SMTT(30) DEF Places, OnePlace, InCall, InSlot, UsedSlots, Away
<1>5. SpanStates'
  <2> SUFFICES ASSUME NEW z \in Spans PROVE SpanState(z)'
    BY Zenon DEF SpanStates
  <2>1. SpanState(z)
    BY <1>i, Zenon DEF SpanStates
  <2>2. SameSpan(z)
    BY <1>0, <1>2, Zenon DEF SameSpan
  <2> QED
    BY <1>i, <2>1, <2>2, SameSpanKept, ZenonT(30)
<1>6. Counted' /\ CacheFits' /\ EntriesConserved'
  <2>1. Counted'
    BY <1>0, <1>i, Zenon DEF Counted, FreeObjects
  <2>2. CacheFits'
    BY <1>0, <1>i, Zenon DEF CacheFits, UsedSlots
  <2>3. EntriesConserved'
    BY <1>0, <1>i, Zenon DEF EntriesConserved, Entries, Stolen
  <2> QED
    BY <2>1, <2>2, <2>3
<1> QED
  BY <1>1, <1>3, <1>5, <1>6, Zenon DEF CentralInv, ObjectsInv

LEMMA StepKept ==
  ASSUME CentralInv, NEW t \in Thread, Step(t)
  PROVE  CentralInv'
  BY InsertLockedKept, EvictKept, ShrinkCacheKept, ReinsertKept, ReleaseToSpansKept,
     DeleteSpanKept, RelockKept, ReleaseDoneKept, RemoveLockedKept, PopulateKept,
     PopulateFailsKept, PopulatedKept, Zenon DEF Step

LEMMA CentralInductive == CentralInv /\ [CentralNext]_centralVars => CentralInv'
<1> SUFFICES ASSUME CentralInv, [CentralNext]_centralVars PROVE CentralInv'
  OBVIOUS
<1>1. CASE CentralNext
  BY <1>1, StepKept, InsertRangeKept, RemoveRangeKept, Zenon DEF CentralNext
<1>2. CASE UNCHANGED centralVars
  BY <1>2, CentralStutter, Zenon
<1> QED
  BY <1>1, <1>2

-----------------------------------------------------------------------------
(* What the invariant says.                                                *)

\* The counts are arrays: no step makes anything else of them.
Arrays ==
  /\ counter = [c \in Class |-> counter[c]]
  /\ refcount = [s \in Spans |-> refcount[s]]

LEMMA ArraysKept ==
  ASSUME CentralInv, Arrays, [CentralNext]_centralVars
  PROVE  Arrays'
<1>0. DOMAIN counter = Class /\ DOMAIN refcount = Spans
  BY InvMeans, Zenon DEF CentralInv, Typed
<1>1. /\ \A c, x : LET f == [counter EXCEPT ![c] = x] IN f = [d \in Class |-> f[d]]
      /\ \A s, x : LET f == [refcount EXCEPT ![s] = x] IN f = [d \in Spans |-> f[d]]
  BY <1>0 DEF Arrays
<1>2. ASSUME UNCHANGED <<counter, refcount>> PROVE Arrays'
  BY <1>2, Zenon DEF Arrays
<1>3. ASSUME NEW t \in Thread, ReleaseToSpans(t) PROVE Arrays'
  <2>1. \E c, s, x, y : /\ counter' = [counter EXCEPT ![c] = x]
                        /\ refcount' = [refcount EXCEPT ![s] = y]
    <3>1. \E x : counter' = [counter EXCEPT ![th[t].v] = x]
      BY <1>3, Zenon DEF ReleaseToSpans
    <3>2. \E s, y : refcount' = [refcount EXCEPT ![s] = y]
      BY <1>3, ZenonT(30) DEF ReleaseToSpans
    <3>3. PICK x : counter' = [counter EXCEPT ![th[t].v] = x]
      BY <3>1, Zenon
    <3>4. PICK s, y : refcount' = [refcount EXCEPT ![s] = y]
      BY <3>2, Zenon
    <3> QED
      BY <3>3, <3>4, Zenon
  <2> QED
    BY <1>1, <2>1, Zenon DEF Arrays
<1>4. ASSUME NEW t \in Thread, Populate(t) PROVE Arrays'
  <2>1. counter' = counter /\ \E s, x : refcount' = [refcount EXCEPT ![s] = x]
    BY <1>4, Zenon DEF Populate
  <2> QED
    BY <1>1, <2>1, Zenon DEF Arrays
<1>5. ASSUME NEW t, NEW c, NEW ne, NEW R, NEW x, Fetch(t, c, ne, objects, R),
             counter' = [counter EXCEPT ![c] = x]
      PROVE  Arrays'
  <2>1. counter' = [d \in Class |-> counter'[d]]
    BY <1>1, <1>5, Zenon
  <2>2. refcount' = [s \in Spans |-> refcount'[s]]
    BY <1>5 DEF Fetch
  <2> QED
    BY <2>1, <2>2, Zenon DEF Arrays
<1>6. ASSUME NEW t \in Thread, RemoveLocked(t) PROVE Arrays'
  BY <1>2, <1>5, <1>6, Zenon DEF RemoveLocked, spanVars
<1>7. ASSUME NEW t \in Thread, Populated(t) PROVE Arrays'
  BY <1>5, <1>7, Zenon DEF Populated
<1>8. CASE CentralNext
  <2>1. \A t \in Thread :
          /\ InsertLocked(t) \/ EvictRandomSizeClass(t) \/ ShrinkCache(t) \/ Reinsert(t)
               \/ DeleteSpan(t) \/ Relock(t) \/ ReleaseDone(t) \/ PopulateFails(t)
               => UNCHANGED <<counter, refcount>>
          /\ \A c \in Class :
               /\ \A S \in SUBSET out : InsertRange(t, c, S) => UNCHANGED <<counter, refcount>>
               /\ \A n \in 1 .. Batch : RemoveRange(t, c, n) => UNCHANGED <<counter, refcount>>
    BY ZenonT(30) DEF InsertLocked, EvictRandomSizeClass, ShrinkCache, Reinsert, DeleteSpan, Relock,
         ReleaseDone, PopulateFails, InsertRange, RemoveRange, spanVars
  <2> QED
    BY <1>2, <1>3, <1>4, <1>6, <1>7, <1>8, <2>1, Zenon DEF CentralNext, Step
<1>9. CASE UNCHANGED centralVars
  BY <1>2, <1>9, Zenon DEF centralVars
<1> QED
  BY <1>8, <1>9

LEMMA CentralInvSafe == CentralInv /\ Arrays => CentralSafe
<1> SUFFICES ASSUME CentralInv, Arrays PROVE CentralSafe
  OBVIOUS
<1>0. /\ Typed /\ Calls /\ LocksHeld /\ Places /\ SpanStates /\ Counted
      /\ CacheFits /\ EntriesConserved
  BY InvMeans, Zenon DEF CentralInv
<1>1. ASSUME NEW s \in Spans
      PROVE  /\ refcount[s] \in 0 .. NObjects
             /\ AwayFrom(s) = {} => refcount[s] = 0
             /\ AwayFrom(s) = ObjectsOf(s) => refcount[s] > 0
  <2>1. AwayFrom(s) \subseteq ObjectsOf(s) /\ ObjectsOf(s) \in SUBSET Object
        /\ refcount[s] = Cardinality(AwayFrom(s))
    BY <1>0, ObjectFacts, Zenon DEF AwayFrom, SpanStates, SpanState
  <2>2. IsFiniteSet(ObjectsOf(s)) /\ Cardinality(ObjectsOf(s)) = NObjects
    BY <2>1, ObjectSets, SpanCount, Zenon
  <2>3. Cardinality(AwayFrom(s)) <= NObjects
    BY <2>1, <2>2, FS_Subset, Zenon
  <2>4. AwayFrom(s) \in SUBSET Object
    BY <2>1, Zenon
  <2>5. Cardinality(AwayFrom(s)) \in Nat
    BY <2>4, ObjectSets, Zenon
  <2>6. NObjects \in Nat /\ NObjects > 0
    BY CentralAssumption, SMTT(30)
  <2>7. Cardinality({}) = 0
    BY FS_EmptySet, Zenon
  <2>8. refcount[s] \in 0 .. NObjects
    BY <2>1, <2>3, <2>5, <2>6, SMTT(30)
  <2> QED
    BY <2>1, <2>2, <2>6, <2>7, <2>8, Zenon
<1>2. CentralTypeOK
  <2>1. counter \in [Class -> Nat]
    <3>2. \A c \in Class : counter[c] \in Nat
      <4> TAKE c \in Class
      <4>1. FreeObjects(c) \in SUBSET Object
        BY Zenon DEF FreeObjects
      <4> QED
        BY <1>0, <4>1, ObjectSets, Zenon DEF Counted
    <3> QED
      BY <3>2, Zenon DEF Arrays
  <2>2. refcount \in [Spans -> 0 .. NObjects]
    BY <1>0, <1>1, Zenon DEF Arrays
  <2> QED
    BY <1>0, <2>1, <2>2, Zenon DEF CentralTypeOK, Typed
<1>3. ObjectsOnce
  <2>1. ASSUME NEW s \in Spans
        PROVE  /\ refcount[s] = Cardinality(AwayFrom(s))
               /\ sizeclass[s] = None => AwayFrom(s) = {}
               /\ sizeclass[s] # None /\ refcount[s] > 0
                    => AwayFrom(s) \cup objects[s] = ObjectsOf(s)
    <3>1. SpanState(s)
      BY <1>0, Zenon DEF SpanStates
    <3>2. ASSUME sizeclass[s] # None, refcount[s] > 0
          PROVE  AwayFrom(s) \cup objects[s] = ObjectsOf(s)
      <4>1. refcount[s] # 0
        BY <3>2, SMTT(30)
      <4>2. AwayFrom(s) # {}
        BY <1>1, <4>1, Zenon
      <4>3. Listed(s, sizeclass[s]) /\ sizeclass[s] \in Class
        BY <1>0, <3>1, <3>2, <4>2, Zenon DEF SpanState, Typed
      <4>4. \A o \in ObjectsOf(s) : Away(o) \/ o \in objects[s]
        BY <3>1, <4>3, Zenon DEF SpanState
      <4> QED
        BY <3>1, <4>4, Zenon DEF SpanState, AwayFrom
    <3> QED
      BY <3>1, <3>2, Zenon DEF SpanState
  <2> QED
    BY <1>0, <2>1, Zenon DEF ObjectsOnce, Places
<1>4. ListsExact
  <2> SUFFICES ASSUME NEW c \in Class
               PROVE  /\ \A s \in nonempty[c] : objects[s] # {} /\ sizeclass[s] = c
                      /\ \A s \in empty[c] : objects[s] = {} /\ sizeclass[s] = c /\ refcount[s] > 0
                      /\ counter[c] = Cardinality(FreeObjects(c))
    BY Zenon DEF ListsExact
  <2>1. ASSUME NEW s \in nonempty[c] PROVE objects[s] # {} /\ sizeclass[s] = c
    <3>1. s \in Spans /\ SpanState(s) /\ Listed(s, c)
      BY <1>0, Zenon DEF Typed, SpanStates, Listed
    <3> QED
      BY <3>1, Zenon DEF SpanState
  <2>2. ASSUME NEW s \in empty[c]
        PROVE  objects[s] = {} /\ sizeclass[s] = c /\ refcount[s] > 0
    <3>1. s \in Spans /\ SpanState(s) /\ Listed(s, c)
      BY <1>0, Zenon DEF Typed, SpanStates, Listed
    <3>2. objects[s] = {} /\ sizeclass[s] = c /\ \A o \in ObjectsOf(s) : Away(o) \/ o \in objects[s]
      BY <3>1, Zenon DEF SpanState
    <3>3. AwayFrom(s) = ObjectsOf(s)
      BY <3>2, Zenon DEF AwayFrom
    <3> QED
      BY <1>1, <3>1, <3>2, <3>3, Zenon
  <2> QED
    BY <1>0, <2>1, <2>2, Zenon DEF Counted
<1>5. OneSizeClassLock
  <2> SUFFICES ASSUME NEW t \in Thread
               PROVE  /\ \A c, d \in Class : lock[c] = t /\ lock[d] = t => c = d
                      /\ At(t, "shrink") => \A c \in Class : lock[c] # t
    BY Zenon DEF OneSizeClassLock
  <2>1. \A c \in Class : lock[c] = t <=> c \in LocksOf(th[t])
    BY <1>0, Zenon DEF LocksHeld
  <2>2. \A c, d : c \in LocksOf(th[t]) /\ d \in LocksOf(th[t]) => c = d
    BY SMTT(30) DEF LocksOf
  <2>3. At(t, "shrink") => LocksOf(th[t]) = {}
    BY SMTT(30) DEF LocksOf, At
  <2> QED
    BY <2>1, <2>2, <2>3, Zenon
<1> QED
  BY <1>0, <1>2, <1>3, <1>4, <1>5, Zenon DEF CentralSafe

\* Whatever the threads do while a lock is dropped, every object of the central
\* free lists is in one place, the reference counts, lists and counters are
\* exact, the transfer caches fit and share their entries, and no thread holds
\* two size class locks.
THEOREM CentralObjectsSafe == CentralSpec => []CentralSafe
<1>1. CentralInit => Arrays
  BY Zenon DEF CentralInit, Arrays
<1>2. CentralInv /\ Arrays /\ [CentralNext]_centralVars => Arrays'
  BY ArraysKept, Zenon
<1>3. CentralSpec => [](CentralInv /\ Arrays)
  BY <1>1, <1>2, CentralInitial, CentralInductive, PTL DEF CentralSpec
<1> QED
  BY <1>3, CentralInvSafe, PTL

-----------------------------------------------------------------------------
(* RemoveRange fails only when the page heap does.                         *)

\* What RemoveRange fetches is something, and was not with a caller.
LEMMA FetchesSome ==
  ASSUME CentralInv, NEW t \in Thread, NEW c, NEW p, NEW ne, Fetching(t, c, p, ne), ne # {},
         NEW n \in Nat \ {0}, NEW R \in Fetches(ne, objects, n)
  PROVE  out \cup R # out
<1> DEFINE all == UNION {objects[z] : z \in ne}
<1>1. R \in SUBSET all /\ Cardinality(R) = IF n < Cardinality(all) THEN n ELSE Cardinality(all)
  BY Zenon DEF Fetches
<1>2. \A o \in R : ~ Away(o)
  BY <1>1, FetchedObjects, Zenon
<1>3. all # {} /\ all \in SUBSET Object
  <2>1. \A z \in ne : objects[z] # {} /\ z \in Spans
    BY FetchableSpans, Zenon DEF Fetchable
  <2>2. \A z \in Spans : objects[z] \in SUBSET Object
    BY InvMeans, Zenon DEF CentralInv, Typed
  <2>3. PICK z \in ne : objects[z] # {}
    BY <2>1, Zenon
  <2>4. \A o \in objects[z] : o \in all
    BY Zenon
  <2>5. \A o \in all : o \in Object
    BY <2>1, <2>2, Zenon
  <2> HIDE DEF all
  <2> QED
    BY <2>3, <2>4, <2>5, Zenon
<1> HIDE DEF all
<1>4. Cardinality(all) \in Nat /\ Cardinality(all) # 0
  BY <1>3, ObjectSets, FS_EmptySet, Zenon
<1>5. Cardinality(R) # 0
  BY <1>1, <1>4, SMTT(30)
<1>6. R # {}
  BY <1>5, FS_EmptySet, Zenon
<1> QED
  BY <1>2, <1>6, Zenon DEF Away

\* A RemoveRange that returns without objects has just been told by the page
\* heap that there is no span, as FetchFromOneSpansSafe promises: a list that
\* others empty while the lock is dropped is never the reason.
THEOREM RemoveRangeFailsOnlyWithoutSpans == CentralSpec => EmptyHandedOnlyOnFailure
<1>1. ASSUME CentralInv, CentralNext, NEW t \in Thread,
             th[t].n > 0, At(t, "idle")', out' = out
      PROVE  At(t, "populated") /\ th[t].sp = None
  <2>0. /\ Typed /\ RightClass /\ CallShape(th[t])
        /\ \A o \in Object : Alone(o)
    BY <1>1, InvMeans, ZenonT(30) DEF CentralInv
  <2>1. th[t].pc \in {"remove", "populate", "populated"} /\ th[t].n \in Nat \ {0}
        /\ th[t].c \in Class
    BY <1>1, <2>0, CentralAssumption, SMTT(30) DEF CallShape, CallRecord, PCs, IdleCall
  <2>2. th'[t].pc = "idle" /\ th'[t] # th[t]
    BY <1>1, <2>1, SMTT(30) DEF At
  <2>3. PICK u \in Thread : \/ Step(u)
                            \/ \E c \in Class, S \in SUBSET out : InsertRange(u, c, S)
                            \/ \E c \in Class, n \in 1 .. Batch : RemoveRange(u, c, n)
    BY <1>1, Zenon DEF CentralNext
  <2>4. u = t
    <3>1. \E r : Call(u, r)
      BY <2>3, Zenon DEF Step, InsertLocked, EvictRandomSizeClass, ShrinkCache, Reinsert,
           DeleteSpan, Relock, ReleaseDone, PopulateFails, InsertRange, RemoveRange,
           ReleaseToSpans, RemoveLocked, Populate, Populated, Fetch, PutInSlot, Holding
    <3>2. \A r : Call(u, r) /\ u # t => th'[t] = th[t]
      BY <2>0, Zenon DEF Call, Typed
    <3> QED
      BY <2>2, <3>1, <3>2, ZenonT(30)
  <2>5. RemoveLocked(t) \/ Populate(t) \/ PopulateFails(t) \/ Populated(t)
    <3>1. th[t].pc \notin {"idle", "insert", "evict", "shrink", "reinsert", "freeing", "delete",
                           "relock"}
      BY <2>1, SMTT(30)
    <3> QED
      BY <2>3, <2>4, <3>1, Zenon DEF Step, InsertLocked, EvictRandomSizeClass, ShrinkCache,
           Reinsert, DeleteSpan, Relock, ReleaseDone, InsertRange, RemoveRange, ReleaseToSpans, At
  <2>6. ~ Populate(t) /\ ~ PopulateFails(t)
    <3>1. \A s : [th[t] EXCEPT !.pc = "populated", !.sp = s].pc = "populated"
      BY <2>0, SMTT(30) DEF CallShape, CallRecord
    <3>2. [th[t] EXCEPT !.pc = "populated"].pc = "populated"
      BY <2>0, SMTT(30) DEF CallShape, CallRecord
    <3>3. \A r : Call(t, r) => th'[t] = r
      BY <2>0, Zenon DEF Call, Typed
    <3> QED
      BY <2>2, <3>1, <3>2, <3>3, ZenonT(30) DEF Populate, PopulateFails
  <2>7. PICK c : c = th[t].c
    OBVIOUS
  <2>8. ASSUME RemoveLocked(t) PROVE FALSE
    <3>0. th[t].pc = "remove" /\ th[t].sp = None
      BY <2>0, <2>8, SMTT(30) DEF RemoveLocked, At, CallShape
    <3>1. \/ UsedSlots(c) > 0 /\ out' = out \cup TopSlot(tc_slots[c])
          \/ /\ nonempty[c] # {}
             /\ \E R \in Fetches(nonempty[c], objects, th[t].n) : out' = out \cup R
          \/ Call(t, [th[t] EXCEPT !.pc = "populate"])
      BY <2>7, <2>8, Zenon DEF RemoveLocked, Fetch
    <3>2. CASE UsedSlots(c) > 0 /\ out' = out \cup TopSlot(tc_slots[c])
      <4>1. c \in Class /\ tc_slots[c] \in Seq(SUBSET Object) /\ Len(tc_slots[c]) > 0
        BY <2>0, <2>1, <2>7, <3>2, Zenon DEF Typed, UsedSlots
      <4>2. /\ TopSlot(tc_slots[c]) = tc_slots[c][UsedSlots(c)] /\ TopSlot(tc_slots[c]) \in SUBSET Object
            /\ UsedSlots(c) \in 1 .. UsedSlots(c)
        BY <4>1, SlotTaken, Zenon DEF UsedSlots
      <4>3. TopSlot(tc_slots[c]) # {}
        BY <2>0, <4>1, <4>2, Zenon DEF RightClass
      <4>4. \A o \in TopSlot(tc_slots[c]) : InSlot(o, c, UsedSlots(c)) /\ o \in Object
        BY <4>2, Zenon DEF InSlot
      <4>5. \A o \in TopSlot(tc_slots[c]) : o \notin out
        BY <2>0, <4>1, <4>4, Zenon DEF Alone
      <4> QED
        BY <1>1, <3>2, <4>3, <4>5, Zenon
    <3>3. ASSUME nonempty[c] # {}, NEW R \in Fetches(nonempty[c], objects, th[t].n), out' = out \cup R
          PROVE  FALSE
      <4>1. PICK ne : ne = nonempty[c]
        OBVIOUS
      <4>2. PICK n : n = th[t].n
        OBVIOUS
      <4>3. Fetching(t, c, None, ne)
        BY <2>7, <3>0, <4>1, Zenon DEF Fetching
      <4>4. R \in Fetches(ne, objects, n) /\ ne # {} /\ n \in Nat \ {0}
        BY <2>1, <3>3, <4>1, <4>2, Zenon
      <4> QED
        BY <1>1, <3>3, <4>3, <4>4, FetchesSome, Zenon
    <3>4. CASE Call(t, [th[t] EXCEPT !.pc = "populate"])
      <4>1. [th[t] EXCEPT !.pc = "populate"].pc = "populate"
        BY <2>0, SMTT(30) DEF CallShape, CallRecord
      <4>2. th'[t] = [th[t] EXCEPT !.pc = "populate"]
        BY <2>0, <3>4, Zenon DEF Call, Typed
      <4> QED
        BY <2>2, <4>1, <4>2, Zenon
    <3> QED
      BY <3>1, <3>2, <3>3, <3>4, Zenon
  <2>9. ASSUME Populated(t), th[t].sp # None PROVE FALSE
    <3>1. PICK p : p = th[t].sp
      OBVIOUS
    <3>2. PICK ne : ne = nonempty[c] \cup ({p} \ {None})
      BY Zenon
    <3>3. PICK n : n = th[t].n
      OBVIOUS
    <3>4. PICK R \in Fetches(ne, objects, n) : out' = out \cup R
      BY <2>7, <2>9, <3>1, <3>2, <3>3, Zenon DEF Populated, Fetch
    <3>5. Fetching(t, c, p, ne) /\ ne # {} /\ n \in Nat \ {0}
      <4>1. th[t].pc = "populated"
        BY <2>9, Zenon DEF Populated, At
      <4> QED
        BY <2>1, <2>7, <2>9, <3>1, <3>2, <3>3, <4>1, ZenonT(30) DEF Fetching
    <3> QED
      BY <1>1, <3>4, <3>5, FetchesSome, Zenon
  <2>10. Populated(t) => At(t, "populated")
    BY Zenon DEF Populated
  <2> QED
    BY <2>5, <2>6, <2>8, <2>9, <2>10, Zenon
<1>2. CentralInv /\ [CentralNext]_centralVars
        => [\A t \in Thread : th[t].n > 0 /\ At(t, "idle")' /\ out' = out
              => At(t, "populated") /\ th[t].sp = None]_centralVars
  BY <1>1, Zenon
<1> QED
  BY <1>2, CentralInitial, CentralInductive, PTL DEF CentralSpec, EmptyHandedOnlyOnFailure

=============================================================================
