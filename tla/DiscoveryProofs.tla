--------------------------- MODULE DiscoveryProofs ---------------------------
(***************************************************************************)
(* Proofs about Discovery: its types, that the manager's list follows the  *)
(* registry through the queue of events, and that no url has two devices.  *)
(* The events about one url alternate, an addition where the url is not    *)
(* listed and a timeout where it is: that is what makes the list's state   *)
(* after the queue a function of the registry's keys.                      *)
(***************************************************************************)
EXTENDS Discovery, FiniteSetTheorems, SequenceTheorems, TLAPS

-----------------------------------------------------------------------------
(* Types *)

(* The events a cleanup sends are the timeouts of the expired entries, one *)
(* for each.                                                               *)
LEMMA TimeoutsType ==
    ASSUME NEW S \in SUBSET Urls, NEW o \in Orders(S)
    PROVE  /\ Cardinality(S) \in Nat
           /\ o \in [1 .. Cardinality(S) -> S]
           /\ \A i, j \in 1 .. Cardinality(S) : o[i] = o[j] => i = j
           /\ \A v \in S : \E i \in 1 .. Cardinality(S) : o[i] = v
           /\ [i \in DOMAIN o |-> Timeout(o[i])] \in Seq(Event)
           /\ Len([i \in DOMAIN o |-> Timeout(o[i])]) = Cardinality(S)
<1>1. Cardinality(S) \in Nat
  BY DiscoveryAssumption, FS_Subset, FS_CardinalityType
<1>2. /\ o \in [1 .. Cardinality(S) -> S]
      /\ \A i, j \in 1 .. Cardinality(S) : o[i] = o[j] => i = j
      /\ \A v \in S : \E i \in 1 .. Cardinality(S) : o[i] = v
  BY DEF Orders, Bijection, Injection, Surjection, IsInjective
<1>3. \A i \in 1 .. Cardinality(S) : Timeout(o[i]) \in Event
  BY <1>2 DEF Timeout, Event
<1>4. DOMAIN o = 1 .. Cardinality(S)
  BY <1>2
<1>5. [i \in DOMAIN o |-> Timeout(o[i])] \in [1 .. Cardinality(S) -> Event]
  BY <1>3, <1>4
<1> QED
  BY <1>1, <1>2, <1>5

(* What a registration does, with the events spelled out. *)
LEMMA RegisterSteps ==
    ASSUME TypeOK, NEW u \in Urls, NEW static \in BOOLEAN, Register(u, static)
    PROVE  \E expired \in SUBSET (known \ {u}) :
             \E o \in Orders(expired) :
               LET new == IF u \notin known THEN <<Added(u)>> ELSE <<>>
               IN  /\ expired \cap pinned' = {}
                   /\ known' = (known \cup {u}) \ expired
                   /\ events' = events \o new
                                 \o [i \in DOMAIN o |-> Timeout(o[i])]
<1> DEFINE expired == Expired(known \cup {u}, age')
           new == IF u \notin known THEN <<Added(u)>> ELSE <<>>
<1>1. age' = [age EXCEPT ![u] = 0]
  BY DEF Register, Seen
<1>2. age'[u] = 0
  BY <1>1 DEF TypeOK
<1>3. expired \in SUBSET (known \ {u}) /\ expired \cap pinned' = {}
  BY <1>2, DiscoveryAssumption, SMT DEF Expired
<1>4. /\ known' = (known \cup {u}) \ expired
      /\ \E o \in Orders(expired) :
             events' = events \o new \o [i \in DOMAIN o |-> Timeout(o[i])]
  BY DEF Register, Cleanup, Survivors, Insert
<1> QED
  BY <1>3, <1>4

LEMMA RegisterType ==
    ASSUME TypeOK, NEW u \in Urls, NEW static \in BOOLEAN, Register(u, static)
    PROVE  /\ known' \in SUBSET Urls
           /\ pinned' \in SUBSET known'
           /\ age' \in [Urls -> 0 .. Limit]
           /\ events' \in Seq(Event)
<1>1. PICK expired \in SUBSET (known \ {u}) : \E o \in Orders(expired) :
        /\ expired \cap pinned' = {}
        /\ known' = (known \cup {u}) \ expired
        /\ events' = events \o (IF u \notin known THEN <<Added(u)>> ELSE <<>>)
                      \o [i \in DOMAIN o |-> Timeout(o[i])]
  BY RegisterSteps
<1>2. PICK o \in Orders(expired) :
        events' = events \o (IF u \notin known THEN <<Added(u)>> ELSE <<>>)
                   \o [i \in DOMAIN o |-> Timeout(o[i])]
  BY <1>1
<1>3. known' \in SUBSET Urls /\ pinned' \in SUBSET known'
  BY <1>1 DEF Register, TypeOK
<1>4. age' \in [Urls -> 0 .. Limit]
  BY DiscoveryAssumption DEF Register, Seen, TypeOK
<1>5. expired \in SUBSET Urls
  BY <1>1 DEF TypeOK
<1>6. [i \in DOMAIN o |-> Timeout(o[i])] \in Seq(Event)
  BY <1>5, TimeoutsType
<1>7. (IF u \notin known THEN <<Added(u)>> ELSE <<>>) \in Seq(Event)
  <2>1. Added(u) \in Event
    BY DEF Added, Event
  <2> QED
    BY <2>1
<1>8. events' \in Seq(Event)
  <2>1. events \in Seq(Event)
    BY DEF TypeOK
  <2>2. events \o (IF u \notin known THEN <<Added(u)>> ELSE <<>>) \in Seq(Event)
    BY <2>1, <1>7, ConcatProperties
  <2> QED
    BY <2>2, <1>6, <1>2, ConcatProperties
<1> QED
  BY <1>3, <1>4, <1>8

(* Every variable keeps its type: in particular only entries that are in   *)
(* the registry are static, whatever cleanup drops.                        *)
THEOREM TypeCorrect == Spec => []TypeOK
<1>1. Init => TypeOK
  BY DiscoveryAssumption DEF Init, TypeOK
<1>2. TypeOK /\ [Next]_vars => TypeOK'
  <2> SUFFICES ASSUME TypeOK, [Next]_vars PROVE TypeOK'
    OBVIOUS
  <2>1. ASSUME NEW u \in Urls, Find(u) PROVE TypeOK'
    BY <2>1 DEF Find, TypeOK, registry
  <2>2. ASSUME NEW u \in Urls, RegisterFound(u) PROVE TypeOK'
    BY <2>2, RegisterType DEF RegisterFound, TypeOK
  <2>3. ASSUME NEW u \in Urls, RegisterStatic(u) PROVE TypeOK'
    BY <2>3, RegisterType DEF RegisterStatic, TypeOK
  <2>4. ASSUME NEW u \in Urls, Appear(u) PROVE TypeOK'
    BY <2>4 DEF Appear, TypeOK, registry
  <2>5. ASSUME NEW u \in Urls, Vanish(u) PROVE TypeOK'
    BY <2>5 DEF Vanish, TypeOK, registry
  <2>6. CASE HandleEvent
    <3>1. Head(events) \in Event /\ Tail(events) \in Seq(Event)
      BY <2>6, HeadTailProperties DEF HandleEvent, TypeOK
    <3>2. NextEvent.id \in Urls
      BY <3>1 DEF NextEvent, Event
    <3>3. events' \in Seq(Event)
      BY <2>6, <3>1 DEF HandleEvent
    <3>4. listed' \in [Urls -> Nat]
      <4>1. CASE AddDevice(NextEvent.id)
        BY <3>2, <4>1 DEF AddDevice, TypeOK
      <4>2. CASE RemoveDevice(NextEvent.id)
        BY <3>2, <4>2 DEF RemoveDevice, TypeOK
      <4> QED
        BY <2>6, <4>1, <4>2 DEF HandleEvent
    <3>5. UNCHANGED <<visible, found, toRegister, known, pinned, age>>
      BY <2>6 DEF HandleEvent
    <3> QED
      BY <3>3, <3>4, <3>5 DEF TypeOK
  <2>7. CASE Tick
    BY <2>7, DiscoveryAssumption DEF Tick, TypeOK
  <2>8. CASE UNCHANGED vars
    BY <2>8 DEF vars, registry, TypeOK
  <2> QED
    BY <2>1, <2>2, <2>3, <2>4, <2>5, <2>6, <2>7, <2>8 DEF Next
<1> QED
  BY <1>1, <1>2, PTL DEF Spec

-----------------------------------------------------------------------------
(* The events about one url                                                *)

NoneOf(es, u, k) == \A i \in 1 .. k : es[i].id # u

LastOf(es, u, k, i) ==
    /\ i \in 1 .. k
    /\ es[i].id = u
    /\ \A j \in 1 .. k : es[j].id = u => j <= i

(* Whether u is listed after the first k events of es, if b says whether   *)
(* it was before.                                                          *)
After(es, b, u, k) ==
    \/ NoneOf(es, u, k) /\ b
    \/ \E i \in 1 .. k : LastOf(es, u, k, i) /\ es[i].kind = "Added"

Alternating(es, b, u) ==
    \A i \in 1 .. Len(es) :
        es[i].id = u => (es[i].kind = "Added" <=> ~After(es, b, u, i - 1))

(* Two histories with the same events about u agree on u. *)
LEMMA SameAfter ==
    ASSUME NEW es, NEW es2, NEW b \in BOOLEAN, NEW u,
           NEW k \in Nat, NEW m \in Nat, m <= k,
           \A i \in 1 .. m : es2[i] = es[i],
           \A i \in 1 .. k : i \in 1 .. m \/ es2[i].id # u
    PROVE  After(es2, b, u, k) <=> After(es, b, u, m)
<1>1. \A i \in 1 .. m : i \in 1 .. k
  OBVIOUS
<1>2. NoneOf(es2, u, k) <=> NoneOf(es, u, m)
  BY <1>1 DEF NoneOf
<1>3. ASSUME NEW i \in 1 .. m
      PROVE  LastOf(es2, u, k, i) <=> LastOf(es, u, m, i)
  BY <1>1, <1>3 DEF LastOf
<1>4. ASSUME NEW i \in 1 .. k, LastOf(es2, u, k, i) PROVE i \in 1 .. m
  BY <1>4 DEF LastOf
<1>5. (\E i \in 1 .. k : LastOf(es2, u, k, i) /\ es2[i].kind = "Added")
        <=> (\E i \in 1 .. m : LastOf(es, u, m, i) /\ es[i].kind = "Added")
  BY <1>1, <1>3, <1>4
<1> QED
  BY <1>2, <1>5 DEF After

(* Events that are not about u change nothing for u. *)
LEMMA ExtendOther ==
    ASSUME NEW es \in Seq(Event), NEW es2 \in Seq(Event), NEW b \in BOOLEAN, NEW u,
           Len(es) <= Len(es2),
           \A i \in 1 .. Len(es) : es2[i] = es[i],
           \A i \in Len(es) + 1 .. Len(es2) : es2[i].id # u,
           Alternating(es, b, u)
    PROVE  /\ After(es2, b, u, Len(es2)) <=> After(es, b, u, Len(es))
           /\ Alternating(es2, b, u)
<1> Len(es) \in Nat /\ Len(es2) \in Nat
  OBVIOUS
<1>1. \A k \in 0 .. Len(es2) : \A m \in 0 .. Len(es) :
        (k = m \/ (k >= m /\ m = Len(es)))
          => (After(es2, b, u, k) <=> After(es, b, u, m))
  <2> SUFFICES ASSUME NEW k \in 0 .. Len(es2), NEW m \in 0 .. Len(es),
                      k = m \/ (k >= m /\ m = Len(es))
               PROVE  After(es2, b, u, k) <=> After(es, b, u, m)
    OBVIOUS
  <2>1. k \in Nat /\ m \in Nat /\ m <= k
    OBVIOUS
  <2>2. \A i \in 1 .. m : es2[i] = es[i]
    OBVIOUS
  <2>3. \A i \in 1 .. k : i \in 1 .. m \/ es2[i].id # u
    OBVIOUS
  <2> QED
    BY <2>1, <2>2, <2>3, SameAfter
<1>2. After(es2, b, u, Len(es2)) <=> After(es, b, u, Len(es))
  BY <1>1
<1>3. ASSUME NEW i \in 1 .. Len(es2), es2[i].id = u
      PROVE  es2[i].kind = "Added" <=> ~After(es2, b, u, i - 1)
  <2>1. i \in 1 .. Len(es) /\ es[i] = es2[i]
    BY <1>3
  <2>2. After(es2, b, u, i - 1) <=> After(es, b, u, i - 1)
    BY <1>1, <2>1
  <2> QED
    BY <1>3, <2>1, <2>2 DEF Alternating
<1> QED
  BY <1>2, <1>3 DEF Alternating

(* One more event about u, of the kind the state after es allows. *)
LEMMA ExtendOnce ==
    ASSUME NEW es \in Seq(Event), NEW es2 \in Seq(Event), NEW b \in BOOLEAN, NEW u,
           Len(es) <= Len(es2),
           \A i \in 1 .. Len(es) : es2[i] = es[i],
           NEW n \in Len(es) + 1 .. Len(es2),
           \A i \in Len(es) + 1 .. Len(es2) : es2[i].id = u <=> i = n,
           es2[n].kind = "Added" <=> ~After(es, b, u, Len(es)),
           Alternating(es, b, u)
    PROVE  /\ After(es2, b, u, Len(es2)) <=> es2[n].kind = "Added"
           /\ Alternating(es2, b, u)
<1> Len(es) \in Nat /\ Len(es2) \in Nat
  OBVIOUS
<1>1. \A k \in 0 .. n - 1 : \A m \in 0 .. Len(es) :
        (k = m \/ (k >= m /\ m = Len(es)))
          => (After(es2, b, u, k) <=> After(es, b, u, m))
  <2> SUFFICES ASSUME NEW k \in 0 .. n - 1, NEW m \in 0 .. Len(es),
                      k = m \/ (k >= m /\ m = Len(es))
               PROVE  After(es2, b, u, k) <=> After(es, b, u, m)
    OBVIOUS
  <2>1. \A i \in 1 .. k : (i \in 1 .. m /\ es2[i] = es[i]) \/ es2[i].id # u
    <3> SUFFICES ASSUME NEW i \in 1 .. k, i \notin 1 .. m PROVE es2[i].id # u
      OBVIOUS
    <3>1. i \in Len(es) + 1 .. Len(es2) /\ i # n
      OBVIOUS
    <3> QED
      BY <3>1
  <2>2. k \in Nat /\ m \in Nat /\ m <= k
    OBVIOUS
  <2>3. \A i \in 1 .. m : es2[i] = es[i]
    OBVIOUS
  <2>4. \A i \in 1 .. k : i \in 1 .. m \/ es2[i].id # u
    BY <2>1
  <2> QED
    BY <2>2, <2>3, <2>4, SameAfter
<1>2. LastOf(es2, u, Len(es2), n)
  BY DEF LastOf
<1>3. \A i \in 1 .. Len(es2) : LastOf(es2, u, Len(es2), i) => i = n
  BY <1>2 DEF LastOf
<1>4. ~NoneOf(es2, u, Len(es2))
  BY DEF NoneOf
<1>5. After(es2, b, u, Len(es2)) <=> es2[n].kind = "Added"
  BY <1>2, <1>3, <1>4 DEF After
<1>6. ASSUME NEW i \in 1 .. Len(es2), es2[i].id = u
      PROVE  es2[i].kind = "Added" <=> ~After(es2, b, u, i - 1)
  <2>1. CASE i = n
    <3>1. After(es2, b, u, n - 1) <=> After(es, b, u, Len(es))
      BY <1>1
    <3> QED
      BY <2>1, <3>1
  <2>2. CASE i # n
    <3>1. i \in 1 .. Len(es) /\ es[i] = es2[i] /\ i - 1 \in 0 .. n - 1
      BY <1>6, <2>2
    <3>2. After(es2, b, u, i - 1) <=> After(es, b, u, i - 1)
      BY <1>1, <3>1
    <3> QED
      BY <1>6, <3>1, <3>2 DEF Alternating
  <2> QED
    BY <2>1, <2>2
<1> QED
  BY <1>5, <1>6 DEF Alternating

(* Handling the first event moves its effect from the queue to the list. *)
LEMMA HandleFirst ==
    ASSUME NEW es \in Seq(Event), es # <<>>, NEW b \in BOOLEAN, NEW c \in BOOLEAN, NEW u,
           c <=> IF es[1].id = u THEN es[1].kind = "Added" ELSE b,
           Alternating(es, b, u)
    PROVE  /\ After(Tail(es), c, u, Len(Tail(es))) <=> After(es, b, u, Len(es))
           /\ Alternating(Tail(es), c, u)
<1> DEFINE t == Tail(es)
<1>1. /\ Len(es) \in Nat /\ Len(es) >= 1 /\ Len(t) = Len(es) - 1
      /\ \A i \in 1 .. Len(t) : t[i] = es[i + 1]
  OBVIOUS
<1> HIDE DEF t
<1>2. ASSUME NEW k \in 0 .. Len(t)
      PROVE  After(t, c, u, k) <=> After(es, b, u, k + 1)
  <2>1. NoneOf(es, u, k + 1) <=> es[1].id # u /\ NoneOf(t, u, k)
    <3>1. ASSUME NoneOf(es, u, k + 1) PROVE es[1].id # u /\ NoneOf(t, u, k)
      BY <1>1, <3>1 DEF NoneOf
    <3>2. ASSUME es[1].id # u, NoneOf(t, u, k), NEW i \in 1 .. k + 1 PROVE es[i].id # u
      <4>1. CASE i = 1
        BY <3>2, <4>1
      <4>2. CASE i # 1
        <5>1. i - 1 \in 1 .. k /\ t[i - 1] = es[i]
          BY <1>1, <4>2
        <5> QED
          BY <3>2, <5>1 DEF NoneOf
      <4> QED
        BY <4>1, <4>2
    <3> QED
      BY <3>1, <3>2 DEF NoneOf
  <2>2. ASSUME NEW i \in 1 .. k
        PROVE  LastOf(t, u, k, i) <=> LastOf(es, u, k + 1, i + 1)
    <3>1. ASSUME LastOf(t, u, k, i), NEW j \in 1 .. k + 1, es[j].id = u
          PROVE  j <= i + 1
      <4>1. CASE j = 1
        BY <4>1
      <4>2. CASE j # 1
        <5>1. j - 1 \in 1 .. k /\ t[j - 1] = es[j]
          BY <1>1, <4>2
        <5> QED
          BY <3>1, <5>1 DEF LastOf
      <4> QED
        BY <4>1, <4>2
    <3>2. ASSUME LastOf(es, u, k + 1, i + 1), NEW j \in 1 .. k, t[j].id = u
          PROVE  j <= i
      <4>1. j + 1 \in 1 .. k + 1 /\ es[j + 1] = t[j]
        BY <1>1
      <4>2. j + 1 <= i + 1
        BY <3>2, <4>1 DEF LastOf
      <4> QED
        BY <4>2
    <3>3. t[i] = es[i + 1] /\ i + 1 \in 1 .. k + 1
      BY <1>1
    <3> QED
      BY <3>1, <3>2, <3>3 DEF LastOf
  <2>3. LastOf(es, u, k + 1, 1) <=> es[1].id = u /\ NoneOf(t, u, k)
    <3>1. ASSUME LastOf(es, u, k + 1, 1), NEW i \in 1 .. k PROVE t[i].id # u
      BY <1>1, <3>1 DEF LastOf
    <3>2. ASSUME es[1].id = u, NoneOf(t, u, k), NEW j \in 1 .. k + 1, es[j].id = u
          PROVE  j <= 1
      <4>1. CASE j # 1
        <5>1. j - 1 \in 1 .. k /\ t[j - 1] = es[j]
          BY <1>1, <4>1
        <5> QED
          BY <3>2, <5>1 DEF NoneOf
      <4> QED
        BY <4>1
    <3> QED
      BY <1>1, <3>1, <3>2 DEF LastOf, NoneOf
  <2>4. ASSUME After(t, c, u, k) PROVE After(es, b, u, k + 1)
    <3>1. CASE NoneOf(t, u, k) /\ c
      <4>1. CASE es[1].id = u
        <5>1. LastOf(es, u, k + 1, 1) /\ es[1].kind = "Added" /\ 1 \in 1 .. k + 1
          BY <2>3, <3>1, <4>1
        <5> QED
          BY <5>1 DEF After
      <4>2. CASE es[1].id # u
        BY <2>1, <3>1, <4>2 DEF After
      <4> QED
        BY <4>1, <4>2
    <3>2. CASE \E i \in 1 .. k : LastOf(t, u, k, i) /\ t[i].kind = "Added"
      <4>1. PICK i \in 1 .. k : LastOf(t, u, k, i) /\ t[i].kind = "Added"
        BY <3>2
      <4>2. i + 1 \in 1 .. k + 1 /\ es[i + 1] = t[i]
        BY <1>1
      <4> QED
        BY <2>2, <4>1, <4>2 DEF After
    <3> QED
      BY <2>4, <3>1, <3>2 DEF After
  <2>5. ASSUME After(es, b, u, k + 1) PROVE After(t, c, u, k)
    <3>1. CASE NoneOf(es, u, k + 1) /\ b
      BY <2>1, <3>1 DEF After
    <3>2. CASE \E i \in 1 .. k + 1 : LastOf(es, u, k + 1, i) /\ es[i].kind = "Added"
      <4>1. PICK i \in 1 .. k + 1 : LastOf(es, u, k + 1, i) /\ es[i].kind = "Added"
        BY <3>2
      <4>2. CASE i = 1
        BY <2>3, <4>1, <4>2 DEF After
      <4>3. CASE i # 1
        <5>1. i - 1 \in 1 .. k /\ t[i - 1] = es[i] /\ (i - 1) + 1 = i
          BY <1>1, <4>3
        <5>2. LastOf(t, u, k, i - 1)
          BY <2>2, <4>1, <5>1
        <5> QED
          BY <4>1, <5>1, <5>2 DEF After
      <4> QED
        BY <4>2, <4>3
    <3> QED
      BY <2>5, <3>1, <3>2 DEF After
  <2> QED
    BY <2>4, <2>5
<1>3. After(t, c, u, Len(t)) <=> After(es, b, u, Len(es))
  BY <1>1, <1>2
<1>4. ASSUME NEW i \in 1 .. Len(t), t[i].id = u
      PROVE  t[i].kind = "Added" <=> ~After(t, c, u, i - 1)
  <2>1. i + 1 \in 1 .. Len(es) /\ es[i + 1] = t[i] /\ (i - 1) + 1 = (i + 1) - 1
    BY <1>1
  <2>2. After(t, c, u, i - 1) <=> After(es, b, u, (i + 1) - 1)
    BY <1>1, <1>2, <2>1
  <2> QED
    BY <1>4, <2>1, <2>2 DEF Alternating
<1> QED
  BY <1>3, <1>4 DEF Alternating, t

-----------------------------------------------------------------------------
(* The inductive invariant *)

IsListed(u) == listed[u] > 0

InStep ==
    \A u \in Urls :
        /\ Alternating(events, IsListed(u), u)
        /\ u \in known <=> After(events, IsListed(u), u, Len(events))

(* A registration adds at most one event about each url: its addition if   *)
(* it is new, its timeout if it is dropped.                                *)
LEMMA RegisterEvents ==
    ASSUME TypeOK, NEW u \in Urls, NEW static \in BOOLEAN, Register(u, static),
           NEW v \in Urls
    PROVE  LET n == Len(events)
               m == Len(events')
           IN  /\ n <= m
               /\ \A i \in 1 .. n : events'[i] = events[i]
               /\ \/ /\ \A i \in n + 1 .. m : events'[i].id # v
                     /\ v \in known <=> v \in known'
                  \/ \E k \in n + 1 .. m :
                        /\ \A i \in n + 1 .. m : events'[i].id = v <=> i = k
                        /\ events'[k].kind = "Added" <=> v \notin known
                        /\ events'[k].kind = "Added" <=> v \in known'
<1> DEFINE new == IF u \notin known THEN <<Added(u)>> ELSE <<>>
           n == Len(events)
           m == Len(events')
<1>1. PICK expired \in SUBSET (known \ {u}) : \E o \in Orders(expired) :
        /\ expired \cap pinned' = {}
        /\ known' = (known \cup {u}) \ expired
        /\ events' = events \o new \o [i \in DOMAIN o |-> Timeout(o[i])]
  BY RegisterSteps
<1>2. PICK o \in Orders(expired) :
        events' = events \o new \o [i \in DOMAIN o |-> Timeout(o[i])]
  BY <1>1
<1> DEFINE drops == [i \in DOMAIN o |-> Timeout(o[i])]
           c == Cardinality(expired)
<1>3. expired \in SUBSET Urls
  BY <1>1 DEF TypeOK
<1>4. /\ c \in Nat
      /\ o \in [1 .. c -> expired]
      /\ \A i, j \in 1 .. c : o[i] = o[j] => i = j
      /\ \A w \in expired : \E i \in 1 .. c : o[i] = w
      /\ drops \in Seq(Event)
      /\ Len(drops) = c
  BY <1>3, TimeoutsType
<1>5. \A i \in 1 .. c : drops[i].kind = "Timeout" /\ drops[i].id = o[i]
  BY <1>4 DEF Timeout
<1>6. /\ new \in Seq(Event) /\ events \in Seq(Event)
      /\ u \notin known => Len(new) = 1 /\ new[1].kind = "Added" /\ new[1].id = u
      /\ u \in known => Len(new) = 0
  <2>1. Added(u) \in Event
    BY DEF Added, Event
  <2> QED
    BY <2>1 DEF Added, TypeOK
<1> HIDE DEF new, drops, c
<1> DEFINE l == Len(new)
<1>7. /\ l \in Nat /\ n \in Nat
      /\ m = n + l + c
      /\ \A i \in 1 .. n : events'[i] = events[i]
      /\ \A i \in 1 .. l : events'[n + i] = new[i]
      /\ \A i \in 1 .. c : events'[n + l + i] = drops[i]
  <2>1. events' = (events \o new) \o drops
    BY <1>2 DEF drops, new
  <2>2. /\ events \o new \in Seq(Event)
        /\ Len(events \o new) = n + l
        /\ \A i \in 1 .. n : (events \o new)[i] = events[i]
        /\ \A i \in 1 .. l : (events \o new)[n + i] = new[i]
    BY <1>6
  <2> DEFINE es == events \o new
  <2>3. es \in Seq(Event) /\ drops \in Seq(Event) /\ Len(drops) = c
    BY <1>4, <2>2
  <2> HIDE DEF es
  <2>4. /\ Len(es \o drops) = Len(es) + c
        /\ \A i \in 1 .. Len(es) : (es \o drops)[i] = es[i]
        /\ \A i \in 1 .. c : (es \o drops)[Len(es) + i] = drops[i]
    BY <2>3
  <2> QED
    BY <1>4, <1>6, <2>1, <2>2, <2>4 DEF es
<1> HIDE DEF l
<1>8. \A i \in n + 1 .. m :
         \/ i = n + 1 /\ l = 1 /\ u \notin known
            /\ events'[i].kind = "Added" /\ events'[i].id = u
         \/ /\ i - n - l \in 1 .. c
            /\ events'[i].kind = "Timeout"
            /\ events'[i].id = o[i - n - l]
  <2> SUFFICES ASSUME NEW i \in n + 1 .. m
               PROVE \/ i = n + 1 /\ l = 1 /\ u \notin known
                        /\ events'[i].kind = "Added" /\ events'[i].id = u
                     \/ /\ i - n - l \in 1 .. c
                        /\ events'[i].kind = "Timeout"
                        /\ events'[i].id = o[i - n - l]
    OBVIOUS
  <2>1. CASE i <= n + l
    <3>1. l = 1 /\ i = n + 1 /\ u \notin known
      BY <1>6, <1>7, <2>1 DEF l
    <3>2. events'[n + 1] = new[1]
      BY <1>7, <3>1
    <3> QED
      BY <1>6, <3>1, <3>2
  <2>2. CASE i > n + l
    <3>1. i - n - l \in 1 .. c /\ n + l + (i - n - l) = i
      BY <1>4, <1>7, <2>2
    <3>2. events'[i] = drops[i - n - l]
      BY <1>7, <3>1
    <3> QED
      BY <1>5, <3>1, <3>2
  <2> QED
    BY <1>7, <2>1, <2>2
<1>9. \A i \in 1 .. c : o[i] \in expired /\ o[i] \in known /\ o[i] # u
  BY <1>1, <1>4
<1>10. n <= m /\ \A i \in 1 .. n : events'[i] = events[i]
  BY <1>4, <1>7
<1>11. CASE v = u /\ u \notin known
  <2>1. l = 1 /\ n + 1 \in n + 1 .. m
    <3>1. l = 1
      BY <1>6, <1>11 DEF l
    <3> QED
      BY <1>4, <1>7, <3>1
  <2>2. \A i \in n + 1 .. m : events'[i].id = v <=> i = n + 1
    BY <1>4, <1>7, <1>8, <1>9, <1>11, <2>1
  <2>3. events'[n + 1].kind = "Added"
    <3>1. n \in Nat /\ c \in Nat
      BY <1>4
    <3>2. ~(n + 1 - n - l \in 1 .. c)
      BY <2>1, <3>1
    <3> QED
      BY <1>8, <2>1, <3>2
  <2>4. v \in known'
    BY <1>1, <1>11
  <2> QED
    BY <1>10, <1>11, <2>1, <2>2, <2>3, <2>4
<1>12. CASE v \in expired
  <2>1. PICK k \in 1 .. c : o[k] = v
    BY <1>4, <1>12
  <2>2. n + l + k \in n + 1 .. m
    BY <1>4, <1>7
  <2>3. v # u /\ v \in known /\ v \notin known'
    BY <1>1, <1>12
  <2>4. \A i \in n + 1 .. m : events'[i].id = v <=> i = n + l + k
    <3> SUFFICES ASSUME NEW i \in n + 1 .. m
                 PROVE  events'[i].id = v <=> i = n + l + k
      OBVIOUS
    <3>1. CASE i = n + l + k
      BY <1>5, <1>7, <2>1, <3>1
    <3>2. CASE i # n + l + k
      <4>1. i - n - l # k
        BY <1>4, <1>7, <3>2
      <4>2. CASE events'[i].id = u
        BY <2>3, <3>2, <4>2
      <4>3. CASE events'[i].id # u
        <5>1. i - n - l \in 1 .. c /\ events'[i].id = o[i - n - l]
          BY <1>8, <4>3
        <5>2. o[i - n - l] # o[k]
          BY <1>4, <4>1, <5>1
        <5> QED
          BY <2>1, <3>2, <5>1, <5>2
      <4> QED
        BY <4>2, <4>3
    <3> QED
      BY <3>1, <3>2
  <2>5. events'[n + l + k].kind = "Timeout"
    BY <1>5, <1>7
  <2> QED
    BY <1>10, <2>2, <2>3, <2>4, <2>5
<1>13. CASE v \notin expired /\ ~(v = u /\ u \notin known)
  <2>1. \A i \in n + 1 .. m : events'[i].id # v
    BY <1>8, <1>9, <1>13
  <2>2. v \in known <=> v \in known'
    BY <1>1, <1>13
  <2> QED
    BY <1>10, <2>1, <2>2
<1> QED
  BY <1>11, <1>12, <1>13

LEMMA RegisterInStep ==
    ASSUME TypeOK, InStep, NEW u \in Urls, NEW static \in BOOLEAN,
           Register(u, static), listed' = listed
    PROVE  InStep'
<1>1. events \in Seq(Event) /\ events' \in Seq(Event)
  BY RegisterType DEF TypeOK
<1>2. ASSUME NEW v \in Urls
      PROVE  /\ Alternating(events', IsListed(v), v)
             /\ v \in known' <=> After(events', IsListed(v), v, Len(events'))
  <2> DEFINE n == Len(events)
             m == Len(events')
             b == IsListed(v)
  <2>1. /\ n <= m
        /\ \A i \in 1 .. n : events'[i] = events[i]
        /\ \/ /\ \A i \in n + 1 .. m : events'[i].id # v
              /\ v \in known <=> v \in known'
           \/ \E k \in n + 1 .. m :
                 /\ \A i \in n + 1 .. m : events'[i].id = v <=> i = k
                 /\ events'[k].kind = "Added" <=> v \notin known
                 /\ events'[k].kind = "Added" <=> v \in known'
    BY RegisterEvents
  <2>2. /\ Alternating(events, b, v)
        /\ v \in known <=> After(events, b, v, n)
        /\ b \in BOOLEAN
    BY DEF InStep, IsListed
  <2> HIDE DEF b
  <2>3. CASE /\ \A i \in n + 1 .. m : events'[i].id # v
             /\ v \in known <=> v \in known'
    <3>1. /\ After(events', b, v, m) <=> After(events, b, v, n)
          /\ Alternating(events', b, v)
      BY <1>1, <2>1, <2>2, <2>3, ExtendOther
    <3> QED
      BY <2>2, <2>3, <3>1 DEF b
  <2>4. CASE \E k \in n + 1 .. m :
                 /\ \A i \in n + 1 .. m : events'[i].id = v <=> i = k
                 /\ events'[k].kind = "Added" <=> v \notin known
                 /\ events'[k].kind = "Added" <=> v \in known'
    <3>1. PICK k \in n + 1 .. m :
                 /\ \A i \in n + 1 .. m : events'[i].id = v <=> i = k
                 /\ events'[k].kind = "Added" <=> v \notin known
                 /\ events'[k].kind = "Added" <=> v \in known'
      BY <2>4
    <3>2. events'[k].kind = "Added" <=> ~After(events, b, v, n)
      BY <2>2, <3>1
    <3>3. /\ After(events', b, v, m) <=> events'[k].kind = "Added"
          /\ Alternating(events', b, v)
      BY <1>1, <2>1, <2>2, <3>1, <3>2, ExtendOnce
    <3> QED
      BY <3>1, <3>3 DEF b
  <2> QED
    BY <2>1, <2>3, <2>4
<1> QED
  BY <1>2 DEF InStep, IsListed

LEMMA HandleInStep ==
    ASSUME TypeOK, InStep, NoDuplicates, HandleEvent
    PROVE  InStep' /\ NoDuplicates'
<1> DEFINE e == events[1]
<1>1. /\ events \in Seq(Event) /\ events # <<>> /\ Len(events) \in Nat /\ Len(events) >= 1
      /\ events' = Tail(events) /\ known' = known
      /\ e \in Event
  BY DEF HandleEvent, TypeOK
<1>2. e.kind \in {"Added", "Timeout"} /\ e.id \in Urls /\ NextEvent = e
  BY <1>1 DEF Event, NextEvent
<1>3. \/ e.kind = "Added" /\ listed' = [listed EXCEPT ![e.id] = @ + 1]
      \/ e.kind = "Timeout" /\ listed' = [listed EXCEPT ![e.id] = 0]
  BY <1>2 DEF HandleEvent, AddDevice, RemoveDevice
<1>4. ASSUME e.kind = "Added" PROVE listed[e.id] = 0
  <2>1. ~After(events, IsListed(e.id), e.id, 0)
    BY <1>1, <1>2, <1>4 DEF InStep, Alternating
  <2>2. NoneOf(events, e.id, 0)
    BY DEF NoneOf
  <2>3. ~(listed[e.id] > 0)
    BY <2>1, <2>2 DEF After, IsListed
  <2>4. listed[e.id] \in Nat
    BY <1>2 DEF TypeOK
  <2> QED
    BY <2>3, <2>4
<1>5. NoDuplicates'
  <2> SUFFICES ASSUME NEW v \in Urls PROVE listed'[v] <= 1
    BY DEF NoDuplicates
  <2>1. listed \in [Urls -> Nat] /\ listed[v] <= 1
    BY DEF NoDuplicates, TypeOK
  <2> HIDE DEF e
  <2>2. CASE v = e.id
    BY <1>2, <1>3, <1>4, <2>1, <2>2
  <2>3. CASE v # e.id
    BY <1>2, <1>3, <2>1, <2>3
  <2> QED
    BY <2>2, <2>3
<1>6. ASSUME NEW v \in Urls
      PROVE  /\ Alternating(events', IsListed(v)', v)
             /\ v \in known' <=> After(events', IsListed(v)', v, Len(events'))
  <2> DEFINE b == IsListed(v)
             c == IsListed(v)'
  <2>1. c <=> IF e.id = v THEN e.kind = "Added" ELSE b
    BY <1>2, <1>3, <1>4 DEF IsListed, TypeOK
  <2>2. /\ Alternating(events, b, v)
        /\ v \in known <=> After(events, b, v, Len(events))
        /\ b \in BOOLEAN /\ c \in BOOLEAN
    BY DEF InStep, IsListed
  <2> HIDE DEF b, c
  <2>3. /\ After(Tail(events), c, v, Len(Tail(events))) <=> After(events, b, v, Len(events))
        /\ Alternating(Tail(events), c, v)
    BY <1>1, <2>1, <2>2, HandleFirst
  <2> QED
    BY <1>1, <2>2, <2>3 DEF c
<1> QED
  BY <1>5, <1>6 DEF InStep

LEMMA InStepInvariant == Spec => [](TypeOK /\ InStep /\ NoDuplicates)
<1>1. Init => InStep /\ NoDuplicates
  BY DEF Init, InStep, NoDuplicates, IsListed, Alternating, After, NoneOf
<1>2. TypeOK /\ InStep /\ NoDuplicates /\ [Next]_vars => InStep' /\ NoDuplicates'
  <2> SUFFICES ASSUME TypeOK, InStep, NoDuplicates, [Next]_vars
               PROVE  InStep' /\ NoDuplicates'
    OBVIOUS
  <2>1. ASSUME UNCHANGED <<known, events, listed>> PROVE InStep' /\ NoDuplicates'
    BY <2>1 DEF InStep, NoDuplicates, IsListed
  <2>2. ASSUME NEW u \in Urls, NEW static \in BOOLEAN, Register(u, static),
               listed' = listed
        PROVE  InStep' /\ NoDuplicates'
    BY <2>2, RegisterInStep DEF NoDuplicates
  <2>3. ASSUME NEW u \in Urls, Find(u) \/ Appear(u) \/ Vanish(u)
        PROVE  InStep' /\ NoDuplicates'
    BY <2>1, <2>3 DEF Find, Appear, Vanish, registry
  <2>4. ASSUME NEW u \in Urls, RegisterFound(u) PROVE InStep' /\ NoDuplicates'
    BY <2>2, <2>4 DEF RegisterFound
  <2>5. ASSUME NEW u \in Urls, RegisterStatic(u) PROVE InStep' /\ NoDuplicates'
    BY <2>2, <2>5 DEF RegisterStatic
  <2>6. CASE HandleEvent
    BY <2>6, HandleInStep
  <2>7. CASE Tick
    BY <2>1, <2>7 DEF Tick
  <2>8. CASE UNCHANGED vars
    BY <2>1, <2>8 DEF vars, registry
  <2> QED
    BY <2>3, <2>4, <2>5, <2>6, <2>7, <2>8 DEF Next
<1> QED
  BY <1>1, <1>2, TypeCorrect, PTL DEF Spec

(* Once the manager has handled what is in the queue, its list holds       *)
(* exactly the urls of the registry, whatever was registered, dropped and  *)
(* registered again meanwhile.                                             *)
THEOREM ListTheorem == Spec => []ListMatchesRegistry
<1>1. TypeOK /\ InStep => ListMatchesRegistry
  <2> SUFFICES ASSUME TypeOK, InStep, NEW u \in Urls
               PROVE  (u \in known) <=> ListedAfter(u, Len(events))
    BY DEF ListMatchesRegistry
  <2> DEFINE k == Len(events)
  <2>1. k \in Nat /\ DOMAIN events = 1 .. k
    BY DEF TypeOK
  <2>2. Pending(u) \cap (1 .. k) = {i \in 1 .. k : events[i].id = u}
    BY <2>1 DEF Pending
  <2>3. After(events, IsListed(u), u, k) <=> ListedAfter(u, k)
    <3>1. (Pending(u) \cap (1 .. k) = {}) <=> NoneOf(events, u, k)
      BY <2>2 DEF NoneOf
    <3>2. \A i \in 1 .. k : LastOf(events, u, k, i)
             <=> /\ i \in Pending(u) \cap (1 .. k)
                 /\ \A j \in Pending(u) \cap (1 .. k) : j <= i
      BY <2>2 DEF LastOf
    <3>3. NoneOf(events, u, k) => ~\E i \in 1 .. k : LastOf(events, u, k, i)
      BY DEF NoneOf, LastOf
    <3> QED
      BY <3>1, <3>2, <3>3 DEF After, ListedAfter, IsListed
  <2> QED
    BY <2>3 DEF InStep
<1> QED
  BY <1>1, InStepInvariant, PTL

(* A url never has two devices in the list, hence two tasks that open it,  *)
(* however timeouts and rediscoveries follow one another.                  *)
THEOREM NoDuplicatesTheorem == Spec => []NoDuplicates
  BY InStepInvariant, PTL

(* A static entry whose event was handled is left alone for ever: neither  *)
(* a registration nor the cleanup of another's touches it.                 *)
THEOREM PinnedTheorem == Spec => PinnedStaysListed
<1>1. TypeOK /\ [Next]_vars => \A u \in pinned : Settled(u) => Settled(u)'
  <2> SUFFICES ASSUME TypeOK, [Next]_vars, NEW u \in pinned, Settled(u)
               PROVE  Settled(u)'
    OBVIOUS
  <2>1. u \in Urls /\ u \in known /\ events \in Seq(Event)
    BY DEF TypeOK
  <2>2. ASSUME UNCHANGED <<events, listed>> PROVE Settled(u)'
    BY <2>2 DEF Settled, Pending
  <2>3. ASSUME NEW w \in Urls, NEW static \in BOOLEAN, Register(w, static),
               listed' = listed
        PROVE  Settled(u)'
    <3>1. u \in pinned' /\ pinned' \subseteq known' /\ events' \in Seq(Event)
      BY <2>3, RegisterType DEF Register
    <3> DEFINE n == Len(events)
               m == Len(events')
    <3>2. /\ n <= m
          /\ \A i \in 1 .. n : events'[i] = events[i]
          /\ \/ /\ \A i \in n + 1 .. m : events'[i].id # u
                /\ u \in known <=> u \in known'
             \/ \E k \in n + 1 .. m :
                   /\ \A i \in n + 1 .. m : events'[i].id = u <=> i = k
                   /\ events'[k].kind = "Added" <=> u \notin known
                   /\ events'[k].kind = "Added" <=> u \in known'
      BY <2>1, <2>3, RegisterEvents
    <3>3. \A i \in n + 1 .. m : events'[i].id # u
      BY <2>1, <3>1, <3>2
    <3>4. \A i \in 1 .. n : events[i].id # u
      BY <2>1 DEF Settled, Pending
    <3>5. \A i \in 1 .. m : events'[i].id # u
      <4> SUFFICES ASSUME NEW i \in 1 .. m PROVE events'[i].id # u
        OBVIOUS
      <4>1. i \in 1 .. n \/ i \in n + 1 .. m
        BY <2>1, <3>1
      <4> QED
        BY <3>2, <3>3, <3>4, <4>1
    <3> QED
      BY <2>3, <3>1, <3>5 DEF Settled, Pending
  <2>4. ASSUME NEW w \in Urls, Find(w) \/ Appear(w) \/ Vanish(w) PROVE Settled(u)'
    BY <2>2, <2>4 DEF Find, Appear, Vanish, registry
  <2>5. ASSUME NEW w \in Urls, RegisterFound(w) PROVE Settled(u)'
    BY <2>3, <2>5 DEF RegisterFound
  <2>6. ASSUME NEW w \in Urls, RegisterStatic(w) PROVE Settled(u)'
    BY <2>3, <2>6 DEF RegisterStatic
  <2>7. CASE HandleEvent
    <3>1. /\ events # <<>> /\ events' = Tail(events)
          /\ Head(events) = events[1] /\ events[1] \in Event
          /\ Tail(events) \in Seq(Event) /\ Len(Tail(events)) = Len(events) - 1
          /\ \A i \in 1 .. Len(events) - 1 : Tail(events)[i] = events[i + 1]
          /\ Len(events) \in Nat /\ Len(events) >= 1
      BY <2>1, <2>7 DEF HandleEvent
    <3>2. \A i \in 1 .. Len(events) : events[i].id # u
      BY <2>1 DEF Settled, Pending
    <3>3. NextEvent.id # u
      BY <3>1, <3>2 DEF NextEvent
    <3>4. Pending(u)' = {}
      <4>1. \A i \in 1 .. Len(events') : events'[i].id # u
        BY <3>1, <3>2
      <4> QED
        BY <3>1, <4>1 DEF Pending
    <3>5. listed'[u] = listed[u]
      BY <2>1, <2>7, <3>3 DEF HandleEvent, AddDevice, RemoveDevice, TypeOK
    <3> QED
      BY <3>4, <3>5 DEF Settled
  <2>8. CASE Tick
    BY <2>2, <2>8 DEF Tick
  <2>9. CASE UNCHANGED vars
    BY <2>2, <2>9 DEF vars, registry
  <2> QED
    BY <2>4, <2>5, <2>6, <2>7, <2>8, <2>9 DEF Next
<1> QED
  BY <1>1, TypeCorrect, PTL DEF Spec, PinnedStaysListed
=============================================================================
