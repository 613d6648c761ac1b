-------------------------- MODULE SessionQueueProofs ---------------------------
(***************************************************************************)
(* The sessions and the login queue, for any finite set of accounts, any   *)
(* number of sessions and places and any time a lost player stays.         *)
(***************************************************************************)
EXTENDS SessionQueue, SequenceTheorems, FiniteSetTheorems, TLAPS

------------------------------------------------------------------------------
(* Queues: sequences of different sessions.                                 *)

Queues == {q \in Seq(Sessions) : IsInjective(q)}

\* Those who are before x.
Ahead(q, x) == {q[j] : j \in 1..(Position(q, x) - 1)}

\* r is what is left of q when some have gone: nobody has moved back.
InOrder(q, r) ==
    /\ Range(r) \subseteq Range(q)
    /\ \A x \in Range(r) : Ahead(r, x) = Ahead(q, x) \cap Range(r)

LEMMA QueueFun ==
    ASSUME NEW q \in Queues
    PROVE  /\ Len(q) \in Nat /\ DOMAIN q = 1..Len(q)
           /\ \A k \in 1..Len(q) : q[k] \in Sessions /\ q[k] \in Range(q)
           /\ \A j, k \in 1..Len(q) : q[j] = q[k] => j = k
           /\ \A x : x \in Range(q) <=> \E k \in 1..Len(q) : q[k] = x
           /\ Range(q) \subseteq Sessions
<1>1. q \in Seq(Sessions) /\ IsInjective(q)
  BY DEF Queues
<1>2. Len(q) \in Nat /\ q \in [1..Len(q) -> Sessions] /\ DOMAIN q = 1..Len(q)
  BY <1>1, LenProperties
<1>3. QED
  BY <1>1, <1>2 DEF Range, IsInjective

LEMMA PositionOK ==
    ASSUME NEW q \in Queues
    PROVE  /\ \A k \in 1..Len(q) : Position(q, q[k]) = k
           /\ \A x \in Range(q) : Position(q, x) \in 1..Len(q) /\ q[Position(q, x)] = x
  BY QueueFun DEF Position

\* In terms of places.
LEMMA AheadOK ==
    ASSUME NEW q \in Queues, NEW k \in 1..Len(q)
    PROVE  \A y : y \in Ahead(q, q[k]) <=> \E j \in 1..(k - 1) : q[j] = y
  BY PositionOK, QueueFun DEF Ahead

\* The k-th leaves q.
LEMMA CutOK ==
    ASSUME NEW q \in Queues, NEW k \in 1..Len(q)
    PROVE  /\ RemoveAt(q, k) \in Queues
           /\ Len(RemoveAt(q, k)) = Len(q) - 1
           /\ \A j \in 1..(Len(q) - 1) : RemoveAt(q, k)[j] = IF j < k THEN q[j] ELSE q[j + 1]
           /\ Range(RemoveAt(q, k)) = Range(q) \ {q[k]}
           /\ InOrder(q, RemoveAt(q, k))
<1> DEFINE s == SubSeq(q, 1, k - 1)
           t == SubSeq(q, k + 1, Len(q))
           r == RemoveAt(q, k)
           n == Len(q)
<1>1. /\ n \in Nat /\ k \in 1..n
      /\ \A j \in 1..n : q[j] \in Sessions /\ q[j] \in Range(q)
      /\ \A i, j \in 1..n : q[i] = q[j] => i = j
      /\ \A x : x \in Range(q) <=> \E j \in 1..n : q[j] = x
  BY QueueFun
<1>2. /\ s \in Seq(Sessions) /\ Len(s) = k - 1
      /\ \A j \in 1..(k - 1) : s[j] = q[j]
  <2>1. \A j \in 1..(k - 1) : q[j] \in Sessions
    BY <1>1
  <2>2. 1 \in Int /\ k - 1 \in Int
    BY <1>1
  <2>3. /\ s \in Seq(Sessions) /\ Len(s) = IF 1 <= k - 1 THEN k - 1 - 1 + 1 ELSE 0
        /\ \A j \in 1..(k - 1 - 1 + 1) : s[j] = q[1 + j - 1]
    BY <2>1, <2>2, SubSeqProperties
  <2> HIDE DEF s
  <2>4. QED
    BY <1>1, <2>3
<1>3. /\ t \in Seq(Sessions) /\ Len(t) = n - k
      /\ \A j \in 1..(n - k) : t[j] = q[k + j]
  <2>1. \A j \in (k + 1)..n : q[j] \in Sessions
    BY <1>1
  <2>2. n \in Int /\ k + 1 \in Int
    BY <1>1
  <2>3. /\ t \in Seq(Sessions) /\ Len(t) = IF k + 1 <= n THEN n - (k + 1) + 1 ELSE 0
        /\ \A j \in 1..(n - (k + 1) + 1) : t[j] = q[k + 1 + j - 1]
    BY <2>1, <2>2, SubSeqProperties
  <2> HIDE DEF t, n
  <2>4. Len(t) = n - k
    BY <1>1, <2>3
  <2>5. QED
    BY <1>1, <2>3, <2>4
<1>4. r = s \o t
  BY DEF RemoveAt
<1> HIDE DEF s, t, r, n
<1>5. /\ r \in Seq(Sessions) /\ Len(r) = n - 1
      /\ \A j \in 1..(n - 1) : r[j] = IF j < k THEN q[j] ELSE q[j + 1]
  <2>1. /\ r \in Seq(Sessions) /\ Len(r) = Len(s) + Len(t)
        /\ \A j \in 1..(Len(s) + Len(t)) : r[j] = IF j <= Len(s) THEN s[j] ELSE t[j - Len(s)]
    BY <1>2, <1>3, <1>4, ConcatProperties
  <2>2. Len(s) + Len(t) = n - 1
    BY <1>1, <1>2, <1>3
  <2>3. ASSUME NEW j \in 1..(n - 1) PROVE r[j] = IF j < k THEN q[j] ELSE q[j + 1]
    <3>1. CASE j < k
      BY <1>1, <1>2, <2>1, <2>2, <3>1, SMTT(30)
    <3>2. CASE ~(j < k)
      <4>1. j - (k - 1) \in 1..(n - k) /\ k + (j - (k - 1)) = j + 1 /\ ~(j <= Len(s))
        BY <1>1, <1>2, <3>2
      <4>2. r[j] = t[j - (k - 1)]
        BY <1>2, <2>1, <2>2, <4>1
      <4>3. t[j - (k - 1)] = q[j + 1]
        BY <1>3, <4>1
      <4>4. QED
        BY <3>2, <4>2, <4>3
    <3>3. QED
      BY <3>1, <3>2
  <2>4. QED
    BY <2>1, <2>2, <2>3
<1>6. \A i, j \in 1..(n - 1) : r[i] = r[j] => i = j
  BY <1>1, <1>5, SMTT(30)
<1>7. r \in Queues
  <2>1. DOMAIN r = 1..(n - 1)
    BY <1>5, LenProperties
  <2>2. QED
    BY <1>5, <1>6, <2>1 DEF Queues, IsInjective
<1>8. \A x : x \in Range(r) <=> \E j \in 1..(n - 1) : r[j] = x
  BY <1>5, <1>7, QueueFun
<1>9. \A x : x \in Range(r) <=> x \in Range(q) /\ x # q[k]
  <2>1. ASSUME NEW x, x \in Range(r) PROVE x \in Range(q) /\ x # q[k]
    <3>1. PICK j \in 1..(n - 1) : r[j] = x
      BY <1>8, <2>1
    <3>2. CASE j < k
      BY <1>1, <1>5, <3>1, <3>2
    <3>3. CASE ~(j < k)
      <4>1. j + 1 \in 1..n /\ j + 1 # k /\ x = q[j + 1]
        BY <1>1, <1>5, <3>1, <3>3
      <4>2. QED
        BY <1>1, <4>1
    <3>4. QED
      BY <3>2, <3>3
  <2>2. ASSUME NEW x, x \in Range(q), x # q[k] PROVE x \in Range(r)
    <3>1. PICK j \in 1..n : q[j] = x
      BY <1>1, <2>2
    <3>2. CASE j < k
      <4>1. j \in 1..(n - 1) /\ r[j] = x
        BY <1>1, <1>5, <3>1, <3>2
      <4>2. QED
        BY <1>8, <4>1
    <3>3. CASE ~(j < k)
      <4>1. j - 1 \in 1..(n - 1) /\ ~(j - 1 < k) /\ j - 1 + 1 = j
        BY <1>1, <2>2, <3>1, <3>3
      <4>2. r[j - 1] = x
        BY <1>5, <3>1, <4>1
      <4>3. QED
        BY <1>8, <4>1, <4>2
    <3>4. QED
      BY <3>2, <3>3
  <2>3. QED
    BY <2>1, <2>2
<1>10. ASSUME NEW x \in Range(r) PROVE Ahead(r, x) = Ahead(q, x) \cap Range(r)
  <2>1. PICK j \in 1..(n - 1) : r[j] = x
    BY <1>8
  <2> DEFINE i == IF j < k THEN j ELSE j + 1
  <2>2. i \in 1..n /\ q[i] = x
    BY <1>1, <1>5, <2>1
  <2>3. \A y : y \in Ahead(r, x) <=> \E l \in 1..(j - 1) : r[l] = y
    <3>1. j \in 1..Len(r)
      BY <1>5
    <3>2. QED
      BY <1>7, <2>1, <3>1, AheadOK
  <2>4. \A y : y \in Ahead(q, x) <=> \E l \in 1..(i - 1) : q[l] = y
    <3> HIDE DEF i
    <3>1. i \in 1..Len(q)
      BY <2>2 DEF n
    <3>2. QED
      BY <2>2, <3>1, AheadOK
  <2>5. ASSUME NEW y, y \in Ahead(r, x) PROVE y \in Ahead(q, x) /\ y \in Range(r)
    <3>1. PICK l \in 1..(j - 1) : r[l] = y
      BY <2>3, <2>5
    <3>2. l \in 1..(n - 1) /\ y \in Range(r)
      BY <1>1, <1>8, <3>1
    <3>3. IF l < k THEN y = q[l] /\ l \in 1..(i - 1) ELSE y = q[l + 1] /\ l + 1 \in 1..(i - 1)
      BY <1>1, <1>5, <3>1, <3>2
    <3>4. QED
      BY <2>4, <3>2, <3>3
  <2>6. ASSUME NEW y, y \in Ahead(q, x), y \in Range(r) PROVE y \in Ahead(r, x)
    <3>1. PICK l \in 1..(i - 1) : q[l] = y
      BY <2>4, <2>6
    <3>2. l # k /\ l \in 1..n
      BY <1>1, <1>9, <2>2, <2>6, <3>1
    <3>3. CASE l < k
      <4>1. l \in 1..(j - 1) /\ r[l] = y
        BY <1>1, <1>5, <3>1, <3>3
      <4>2. QED
        BY <2>3, <4>1
    <3>4. CASE l > k
      <4>1. l - 1 \in 1..(j - 1) /\ l - 1 \in 1..(n - 1) /\ ~(l - 1 < k) /\ l - 1 + 1 = l
        BY <1>1, <3>1, <3>2, <3>4
      <4>2. r[l - 1] = y
        BY <1>5, <3>1, <4>1
      <4>3. QED
        BY <2>3, <4>1, <4>2
    <3>5. QED
      BY <1>1, <3>2, <3>3, <3>4
  <2>7. QED
    BY <2>5, <2>6
<1>11. QED
  BY <1>5, <1>7, <1>9, <1>10 DEF r, n, InOrder

LEMMA TailOK ==
    ASSUME NEW q \in Queues, q # <<>>
    PROVE  /\ Tail(q) \in Queues
           /\ Len(Tail(q)) = Len(q) - 1 /\ Len(q) > 0 /\ Head(q) = q[1]
           /\ \A j \in 1..(Len(q) - 1) : Tail(q)[j] = q[j + 1]
           /\ Range(Tail(q)) = Range(q) \ {Head(q)}
           /\ InOrder(q, Tail(q))
<1>1. q \in Seq(Sessions) /\ Len(q) \in Nat
  BY QueueFun DEF Queues
<1>2. Len(q) > 0 /\ Head(q) = q[1]
  BY <1>1, EmptySeq
<1>3. Tail(q) = RemoveAt(q, 1)
  <2>1. Tail(q) = SubSeq(q, 2, Len(q))
    BY <1>1, TailIsSubSeq
  <2>2. SubSeq(q, 1, 0) = <<>>
    BY SubSeqEmpty
  <2>3. SubSeq(q, 2, Len(q)) \in Seq(Sessions)
    BY <1>1, <2>1, HeadTailProperties
  <2>4. <<>> \o SubSeq(q, 2, Len(q)) = SubSeq(q, 2, Len(q))
    BY <2>3, ConcatEmptySeq
  <2>5. QED
    BY <2>1, <2>2, <2>4 DEF RemoveAt
<1>4. 1 \in 1..Len(q)
  BY <1>1, <1>2
<1>5. /\ Tail(q) \in Queues /\ Len(Tail(q)) = Len(q) - 1
      /\ \A j \in 1..(Len(q) - 1) : Tail(q)[j] = IF j < 1 THEN q[j] ELSE q[j + 1]
      /\ Range(Tail(q)) = Range(q) \ {q[1]}
      /\ InOrder(q, Tail(q))
  BY <1>3, <1>4, CutOK
<1>6. \A j \in 1..(Len(q) - 1) : Tail(q)[j] = q[j + 1]
  BY <1>1, <1>5
<1>7. QED
  BY <1>2, <1>5, <1>6

LEMMA JoinOK ==
    ASSUME NEW q \in Queues, NEW x \in Sessions \ Range(q)
    PROVE  /\ Joins(q, x) \in Queues /\ Len(Joins(q, x)) = Len(q) + 1
           /\ \A k \in 1..Len(q) : Joins(q, x)[k] = q[k]
           /\ Joins(q, x)[Len(q) + 1] = x
           /\ Range(Joins(q, x)) = Range(q) \cup {x}
           /\ \A y \in Range(q) : /\ Position(Joins(q, x), y) = Position(q, y)
                                  /\ Ahead(Joins(q, x), y) = Ahead(q, y)
<1> DEFINE r == Joins(q, x)
           n == Len(q)
<1>1. /\ n \in Nat /\ \A j \in 1..n : q[j] \in Sessions /\ q[j] \in Range(q)
      /\ \A i, j \in 1..n : q[i] = q[j] => i = j
      /\ \A y : y \in Range(q) <=> \E j \in 1..n : q[j] = y
  BY QueueFun
<1>2. q \in Seq(Sessions) /\ x \in Sessions
  BY DEF Queues
<1>3. /\ r \in Seq(Sessions) /\ Len(r) = n + 1 /\ r[n + 1] = x
      /\ \A j \in 1..n : r[j] = q[j]
  BY <1>2, AppendProperties DEF Joins
<1> HIDE DEF r, n
<1>4. \A i, j \in 1..(n + 1) : r[i] = r[j] => i = j
  <2>1. \A j \in 1..(n + 1) : j \in 1..n \/ j = n + 1
    BY <1>1
  <2>2. QED
    BY <1>1, <1>3, <2>1
<1>5. r \in Queues
  <2>1. DOMAIN r = 1..(n + 1)
    BY <1>3, LenProperties
  <2>2. QED
    BY <1>3, <1>4, <2>1 DEF Queues, IsInjective
<1>6. \A y : y \in Range(r) <=> \E j \in 1..(n + 1) : r[j] = y
  BY <1>3, <1>5, QueueFun
<1>7. Range(r) = Range(q) \cup {x}
  <2>1. \A j : j \in 1..(n + 1) <=> j \in 1..n \/ j = n + 1
    BY <1>1
  <2>2. QED
    BY <1>1, <1>3, <1>6, <2>1
<1>8. ASSUME NEW y \in Range(q)
      PROVE  Position(r, y) = Position(q, y) /\ Ahead(r, y) = Ahead(q, y)
  <2>1. PICK j \in 1..n : q[j] = y
    BY <1>1
  <2>2. j \in 1..(n + 1) /\ r[j] = y
    BY <1>1, <1>3, <2>1
  <2>3. Position(q, y) = j
    BY <2>1, PositionOK DEF n
  <2>4. Position(r, y) = j
    BY <1>3, <1>5, <2>1, <2>2, PositionOK
  <2>5. \A l \in 1..(j - 1) : r[l] = q[l]
    BY <1>1, <1>3
  <2>6. QED
    BY <2>3, <2>4, <2>5 DEF Ahead
<1>9. QED
  BY <1>3, <1>5, <1>7, <1>8 DEF r, n

\* What is left of what is left.
LEMMA InOrderTwice ==
    ASSUME NEW q, NEW r, NEW t, InOrder(q, r), InOrder(r, t)
    PROVE  InOrder(q, t)
  BY DEF InOrder

LEMMA InOrderSame == \A q \in Queues : InOrder(q, q)
<1> SUFFICES ASSUME NEW q \in Queues, NEW x \in Range(q) PROVE Ahead(q, x) \subseteq Range(q)
  BY DEF InOrder
<1>1. PICK k \in 1..Len(q) : q[k] = x
  BY QueueFun
<1>2. \A y \in Ahead(q, x) : \E j \in 1..(k - 1) : q[j] = y
  BY <1>1, AheadOK
<1>3. QED
  BY <1>2, QueueFun

------------------------------------------------------------------------------
(* Sessions.                                                                *)

LEMMA NoSessionIsNone == NoSession \notin SessionType
  BY SessionAssumption DEF NoSession, SessionType

\* A session with new values.
Changed(v, open, force, time, character, waits, told, late) ==
    [account |-> v.account, open |-> open, forceExit |-> force, expireTime |-> time,
     character |-> character, inQueue |-> waits, told |-> told, late |-> late]

LEMMA ChangedOK ==
    ASSUME NEW v \in SessionType, NEW open \in BOOLEAN, NEW force \in BOOLEAN,
           NEW time \in 0..ExpireTime, NEW character \in {"none", "loading", "world"},
           NEW waits \in BOOLEAN, NEW told \in Nat, NEW late \in Nat
    PROVE  Changed(v, open, force, time, character, waits, told, late) \in SessionType
<1>1. v.account \in Accounts
  BY DEF SessionType
<1>2. QED
  BY <1>1, Zenon DEF Changed, SessionType

LEMMA SessionFields ==
    ASSUME NEW v \in SessionType
    PROVE  /\ v = Changed(v, v.open, v.forceExit, v.expireTime, v.character, v.inQueue, v.told, v.late)
           /\ v.account \in Accounts /\ v.open \in BOOLEAN /\ v.forceExit \in BOOLEAN
           /\ v.expireTime \in 0..ExpireTime /\ v.character \in {"none", "loading", "world"}
           /\ v.inQueue \in BOOLEAN /\ v.told \in Nat /\ v.late \in Nat
  BY DEF SessionType, Changed

\* The same session, but for what it knows of the queue.
Alike(v, w) ==
    /\ w \in SessionType
    /\ w.account = v.account /\ w.open = v.open /\ w.forceExit = v.forceExit
    /\ w.expireTime = v.expireTime /\ w.character = v.character /\ w.late = v.late

\* What the queue makes of a session.
Queued(v, waits, told) ==
    Changed(v, v.open, v.forceExit, v.expireTime, v.character, waits, told, v.late)

LEMMA QueuedFields ==
    ASSUME NEW v, NEW w, NEW n, NEW x, NEW m
    PROVE  /\ Queued(v, w, n).inQueue = w /\ Queued(v, w, n).told = n
           /\ [Queued(v, w, n) EXCEPT !.inQueue = x] = Queued(v, x, n)
           /\ [Queued(v, w, n) EXCEPT !.told = m] = Queued(v, w, m)
  BY DEF Queued, Changed

LEMMA QueuedOK ==
    ASSUME NEW v \in SessionType
    PROVE  /\ v = Queued(v, v.inQueue, v.told) /\ Alike(v, v)
           /\ \A w \in BOOLEAN, n \in Nat : Alike(v, Queued(v, w, n))
<1>1. v = Queued(v, v.inQueue, v.told)
  BY SessionFields DEF Queued
<1>2. ASSUME NEW w \in BOOLEAN, NEW n \in Nat PROVE Alike(v, Queued(v, w, n))
  <2>1. Queued(v, w, n) \in SessionType
    BY SessionFields, ChangedOK, ZenonT(30) DEF Queued
  <2>2. QED
    BY <2>1 DEF Alike, Queued, Changed
<1>3. Alike(v, v)
  BY DEF Alike
<1>4. QED
  BY <1>1, <1>2, <1>3

\* Let in, gone, told a place, put into the queue.
LEMMA SetInQueue ==
    ASSUME NEW v \in SessionType, NEW w \in BOOLEAN, NEW n \in Nat
    PROVE  /\ [v EXCEPT !.inQueue = w] = Queued(v, w, v.told)
           /\ [v EXCEPT !.told = n] = Queued(v, v.inQueue, n)
<1>1. v = Queued(v, v.inQueue, v.told)
  BY QueuedOK
<1>2. /\ [Queued(v, v.inQueue, v.told) EXCEPT !.inQueue = w] = Queued(v, w, v.told)
      /\ [Queued(v, v.inQueue, v.told) EXCEPT !.told = n] = Queued(v, v.inQueue, n)
  BY QueuedFields
<1>3. QED
  BY <1>1, <1>2, Zenon

LEMMA FlagCleared ==
    ASSUME NEW v \in SessionType
    PROVE  /\ [v EXCEPT !.inQueue = FALSE, !.told = 0].inQueue = FALSE
           /\ [v EXCEPT !.inQueue = FALSE].inQueue = FALSE
           /\ Alike(v, [v EXCEPT !.inQueue = FALSE, !.told = 0])
           /\ Alike(v, [v EXCEPT !.inQueue = FALSE])
<1>1. PICK w \in BOOLEAN : w = FALSE
  OBVIOUS
<1>2. v.told \in Nat /\ 0 \in Nat
  BY SessionFields
<1>3. /\ [v EXCEPT !.inQueue = w] = Queued(v, w, v.told)
      /\ [v EXCEPT !.inQueue = w, !.told = 0] = Queued(v, w, 0)
  <2>1. [v EXCEPT !.inQueue = w] = Queued(v, w, v.told)
    BY <1>2, SetInQueue
  <2>2. [Queued(v, w, v.told) EXCEPT !.told = 0] = Queued(v, w, 0)
    BY QueuedFields
  <2>3. [v EXCEPT !.inQueue = w, !.told = 0] = [[v EXCEPT !.inQueue = w] EXCEPT !.told = 0]
    OBVIOUS
  <2>4. QED
    BY <2>1, <2>2, <2>3, Zenon
<1>4. /\ Queued(v, w, v.told).inQueue = w /\ Queued(v, w, 0).inQueue = w
      /\ Alike(v, Queued(v, w, v.told)) /\ Alike(v, Queued(v, w, 0))
  BY <1>2, QueuedOK, QueuedFields
<1>5. QED
  BY <1>1, <1>3, <1>4

LEMMA PlaceTold ==
    ASSUME NEW v \in SessionType, NEW n \in Nat
    PROVE  /\ [v EXCEPT !.told = n].told = n /\ [v EXCEPT !.told = n].inQueue = v.inQueue
           /\ Alike(v, [v EXCEPT !.told = n])
<1>1. v.inQueue \in BOOLEAN
  BY SessionFields
<1>2. [v EXCEPT !.told = n] = Queued(v, v.inQueue, n)
  BY <1>1, SetInQueue
<1>3. /\ Queued(v, v.inQueue, n).told = n /\ Queued(v, v.inQueue, n).inQueue = v.inQueue
      /\ Alike(v, Queued(v, v.inQueue, n))
  BY <1>1, QueuedOK, QueuedFields
<1>4. QED
  BY <1>2, <1>3

LEMMA FlagSet ==
    ASSUME NEW v \in SessionType, NEW n \in Nat
    PROVE  /\ [v EXCEPT !.inQueue = TRUE, !.told = n].inQueue = TRUE
           /\ [v EXCEPT !.inQueue = TRUE, !.told = n].told = n
           /\ Alike(v, [v EXCEPT !.inQueue = TRUE, !.told = n])
<1>1. PICK w \in BOOLEAN : w = TRUE
  OBVIOUS
<1>2. [v EXCEPT !.inQueue = w, !.told = n] = Queued(v, w, n)
  <2>1. [v EXCEPT !.inQueue = w] = Queued(v, w, v.told)
    BY SetInQueue
  <2>2. [Queued(v, w, v.told) EXCEPT !.told = n] = Queued(v, w, n)
    BY QueuedFields
  <2>3. [v EXCEPT !.inQueue = w, !.told = n] = [[v EXCEPT !.inQueue = w] EXCEPT !.told = n]
    OBVIOUS
  <2>4. QED
    BY <2>1, <2>2, <2>3, Zenon
<1>3. Queued(v, w, n).inQueue = w /\ Queued(v, w, n).told = n /\ Alike(v, Queued(v, w, n))
  BY QueuedOK, QueuedFields
<1>4. QED
  BY <1>1, <1>2, <1>3

\* Queue q of sessions ss; what those who wait were told.
StOK(q, ss) ==
    /\ q \in Queues
    /\ ss \in [Sessions -> SessionType \cup {NoSession}]
    /\ \A x \in Range(q) : ss[x] # NoSession

Told(q, ss) ==
    \A x \in Sessions : ss[x] # NoSession =>
        /\ ss[x].inQueue <=> x \in Range(q)
        /\ ss[x].inQueue => ss[x].character = "none" /\ ss[x].told = Position(q, x)

SameSessions(ss, tt) ==
    \A x \in Sessions : IF ss[x] = NoSession THEN tt[x] = NoSession ELSE Alike(ss[x], tt[x])

\* Whoever was let in was the first but for s.
LetIn(q, r, s) == \A x \in Range(q) \ Range(r) : x # s => Ahead(q, x) \cap Range(r) = {}

\* s goes, and the first of the others if there is a place for him.
MakesWay(q, r, s) ==
    LET place == HasPlace(Others(q, s \in Range(q))) IN
    \/ Range(r) = Range(q) \ {s} /\ (place => r = <<>>)
    \/ place /\ \E h \in Range(q) \ {s} : Range(r) = Range(q) \ {s, h}

LEMMA LeaveOK ==
    ASSUME NEW st, NEW s \in Sessions, StOK(st.queue, st.session)
    PROVE  LET r == RemoveQueuedPlayer(st, s) IN
           /\ StOK(r.queue, r.session) /\ SameSessions(st.session, r.session)
           /\ Told(st.queue, st.session) => Told(r.queue, r.session)
           /\ r.found = (s \in Range(st.queue)) /\ s \notin Range(r.queue)
           /\ InOrder(st.queue, r.queue) /\ LetIn(st.queue, r.queue, s)
           /\ MakesWay(st.queue, r.queue, s)
<1> DEFINE q == st.queue
           ss == st.session
           found == s \in Range(q)
           rest == IF found THEN RemoveAt(q, Position(q, s)) ELSE q
           place == HasPlace(Others(q, found))
           admits == place /\ rest # <<>>
           queue == IF admits THEN Tail(rest) ELSE rest
           first == IF admits THEN 1 ELSE IF found THEN Position(q, s) ELSE Len(queue) + 1
           movesUp(x) == \E k \in first..Len(queue) : queue[k] = x
           After(x) ==
               IF admits /\ x = Head(rest) THEN [ss[x] EXCEPT !.inQueue = FALSE, !.told = 0]
               ELSE IF found /\ x = s THEN [ss[x] EXCEPT !.inQueue = FALSE]
               ELSE IF movesUp(x) THEN [ss[x] EXCEPT !.told = Position(queue, x)]
               ELSE ss[x]
           r == RemoveQueuedPlayer(st, s)
<1>1. r = [found |-> found, queue |-> queue, session |-> [x \in Sessions |-> After(x)]]
  BY DEF RemoveQueuedPlayer
<1>2. r.found = found /\ r.queue = queue /\ r.session = [x \in Sessions |-> After(x)]
  <2> HIDE DEF r, found, queue, After
  <2>1. QED
    BY <1>1
<1>3. /\ q \in Queues /\ ss \in [Sessions -> SessionType \cup {NoSession}]
      /\ \A x \in Range(q) : x \in Sessions /\ ss[x] \in SessionType /\ ss[x] # NoSession
  BY QueueFun DEF StOK
<1> HIDE DEF r, q, ss
<1>4. found => Position(q, s) \in 1..Len(q) /\ q[Position(q, s)] = s
  BY <1>3, PositionOK
<1>5. /\ rest \in Queues /\ Range(rest) = Range(q) \ {s} /\ InOrder(q, rest)
      /\ found => \A j \in 1..(Len(q) - 1) :
                      rest[j] = IF j < Position(q, s) THEN q[j] ELSE q[j + 1]
      /\ ~found => rest = q
  BY <1>3, <1>4, CutOK, InOrderSame, SMTT(30)
<1> HIDE DEF found, rest, place
<1>6. admits => /\ Tail(rest) \in Queues /\ Range(Tail(rest)) = Range(rest) \ {Head(rest)}
                /\ InOrder(rest, Tail(rest)) /\ Len(rest) > 0 /\ Head(rest) = rest[1]
                /\ Head(rest) \in Range(rest)
  <2> SUFFICES ASSUME admits PROVE /\ Tail(rest) \in Queues /\ Range(Tail(rest)) = Range(rest) \ {Head(rest)}
                /\ InOrder(rest, Tail(rest)) /\ Len(rest) > 0 /\ Head(rest) = rest[1]
                /\ Head(rest) \in Range(rest)
    OBVIOUS
  <2>1. /\ Tail(rest) \in Queues /\ Range(Tail(rest)) = Range(rest) \ {Head(rest)}
        /\ InOrder(rest, Tail(rest)) /\ Len(rest) > 0 /\ Head(rest) = rest[1]
    BY <1>5, TailOK
  <2>2. rest[1] \in Range(rest)
    BY <1>5, <2>1, QueueFun
  <2>3. QED
    BY <2>1, <2>2
<1>7. /\ queue \in Queues /\ InOrder(q, queue)
      /\ IF admits THEN Range(queue) = Range(q) \ {s, Head(rest)} ELSE queue = rest
      /\ Range(queue) \subseteq Range(q) \ {s}
  <2>1. CASE admits
    BY <1>5, <1>6, <2>1, InOrderTwice
  <2>2. CASE ~admits
    BY <1>5, <2>2
  <2>3. QED
    BY <2>1, <2>2
<1>8. MakesWay(q, queue, s)
  <2>1. CASE admits
    BY <1>5, <1>6, <1>7, <2>1 DEF MakesWay, place, found
  <2>2. CASE ~admits
    BY <1>5, <1>7, <2>2 DEF MakesWay, place, found
  <2>3. QED
    BY <2>1, <2>2
<1>9. LetIn(q, queue, s)
  <2> SUFFICES ASSUME NEW x \in Range(q) \ Range(queue), x # s, NEW y \in Ahead(q, x), y \in Range(queue)
               PROVE  FALSE
    BY DEF LetIn
  <2>1. admits /\ x = Head(rest)
    BY <1>5, <1>7
  <2>2. y \in Range(rest)
    BY <1>5, <1>7
  <2>3. y \in Ahead(rest, x)
    BY <1>5, <1>6, <2>1, <2>2 DEF InOrder
  <2>4. Len(rest) \in Nat /\ 1 \in 1..Len(rest) /\ rest[1] = x
    BY <1>5, <1>6, <2>1, QueueFun
  <2>5. \E j \in 1..(1 - 1) : rest[j] = y
    <3>1. \A z : z \in Ahead(rest, rest[1]) <=> \E j \in 1..(1 - 1) : rest[j] = z
      BY <1>5, <2>4, AheadOK
    <3>2. QED
      BY <2>3, <2>4, <3>1
  <2>6. QED
    BY <2>5
<1> HIDE DEF queue, admits
<1>10. \A x \in Sessions : movesUp(x) => x \in Range(queue) /\ Position(queue, x) \in Nat
  <2> SUFFICES ASSUME NEW x \in Sessions, movesUp(x) PROVE x \in Range(queue) /\ Position(queue, x) \in Nat
    OBVIOUS
  <2>1. Len(queue) \in Nat
    BY <1>7, QueueFun
  <2>2. first \in Nat /\ first > 0
    BY <1>3, <1>4, <2>1, QueueFun
  <2>3. PICK k \in 1..Len(queue) : queue[k] = x
    BY <2>1, <2>2
  <2>4. QED
    BY <1>7, <2>3, QueueFun, PositionOK
<1>11. ASSUME NEW x \in Sessions
       PROVE  IF ss[x] = NoSession THEN After(x) = NoSession ELSE Alike(ss[x], After(x))
  <2>1. CASE ss[x] = NoSession
    BY <1>3, <1>5, <1>6, <1>7, <1>10, <2>1 DEF found
  <2>2. CASE ss[x] # NoSession
    <3>1. ss[x] \in SessionType
      BY <1>3, <2>2
    <3> HIDE DEF movesUp
    <3>2. QED
      BY <1>10, <2>2, <3>1, FlagCleared, PlaceTold, QueuedOK
  <2>3. QED
    BY <2>1, <2>2
<1>12. SameSessions(ss, r.session) /\ StOK(queue, r.session)
  <2> HIDE DEF After
  <2>1. SameSessions(ss, r.session)
    BY <1>2, <1>11 DEF SameSessions
  <2>2. \A x \in Sessions : r.session[x] \in SessionType \cup {NoSession}
    BY <1>2, <1>11 DEF Alike
  <2>3. \A x \in Range(queue) : r.session[x] # NoSession
    BY <1>2, <1>3, <1>7, <1>11, NoSessionIsNone DEF Alike
  <2>4. r.session \in [Sessions -> SessionType \cup {NoSession}]
    BY <1>2, <2>2
  <2>5. QED
    BY <1>7, <2>1, <2>3, <2>4 DEF StOK
<1>13. ASSUME Told(q, ss) PROVE Told(queue, r.session)
  <2> SUFFICES ASSUME NEW x \in Sessions, After(x) # NoSession
               PROVE  /\ After(x).inQueue <=> x \in Range(queue)
                      /\ After(x).inQueue => /\ After(x).character = "none"
                                             /\ After(x).told = Position(queue, x)
    <3> HIDE DEF After
    <3>1. \A x \in Sessions : r.session[x] = After(x)
      BY <1>2
    <3>2. QED
      BY <3>1 DEF Told
  <2>1. ss[x] \in SessionType /\ ss[x] # NoSession /\ After(x).character = ss[x].character
    <3> HIDE DEF After
    <3>1. ss[x] # NoSession /\ Alike(ss[x], After(x))
      BY <1>11
    <3>2. QED
      BY <1>3, <3>1 DEF Alike
  <2>2. /\ ss[x].inQueue <=> x \in Range(q)
        /\ ss[x].inQueue => ss[x].character = "none" /\ ss[x].told = Position(q, x)
    BY <1>13, <2>1 DEF Told
  <2>3. CASE admits /\ x = Head(rest)
    <3>1. After(x) = [ss[x] EXCEPT !.inQueue = FALSE, !.told = 0]
      BY <2>3
    <3>2. x \notin Range(queue)
      BY <1>7, <2>3
    <3>3. [ss[x] EXCEPT !.inQueue = FALSE, !.told = 0].inQueue = FALSE
      BY <2>1, FlagCleared
    <3> HIDE DEF After
    <3>4. QED
      BY <3>1, <3>2, <3>3
  <2>4. CASE ~(admits /\ x = Head(rest)) /\ found /\ x = s
    BY <1>7, <2>1, <2>4, FlagCleared
  <2>5. CASE ~(admits /\ x = Head(rest)) /\ ~(found /\ x = s) /\ movesUp(x)
    <3>1. x \in Range(queue) /\ Position(queue, x) \in Nat
      BY <1>10, <2>5
    <3>2. After(x) = [ss[x] EXCEPT !.told = Position(queue, x)]
      BY <2>5
    <3>3. x \in Range(q)
      BY <1>7, <3>1
    <3> HIDE DEF After
    <3>4. After(x).inQueue = ss[x].inQueue /\ After(x).told = Position(queue, x)
      BY <2>1, <3>1, <3>2, PlaceTold
    <3>5. QED
      BY <2>1, <2>2, <3>1, <3>3, <3>4
  <2>6. CASE ~(admits /\ x = Head(rest)) /\ ~(found /\ x = s) /\ ~movesUp(x)
    <3>1. After(x) = ss[x]
      BY <2>6
    <3>2. x \in Range(queue) <=> x \in Range(q)
      BY <1>5, <1>7, <2>6 DEF found
    <3>3. ASSUME x \in Range(queue) PROVE Position(queue, x) = Position(q, x)
      <4>1. PICK j \in 1..Len(queue) : queue[j] = x
        BY <1>7, <3>3, QueueFun
      <4>2. ~admits
        BY <2>6, <4>1
      <4>3. queue = rest
        BY <1>7, <4>2
      <4>4. CASE found
        <5>1. j < Position(q, s) /\ Position(q, s) \in 1..Len(q)
          BY <1>4, <2>6, <4>1, <4>2, <4>4
        <5>2. j \in 1..Len(q) /\ j \in 1..(Len(q) - 1)
          BY <1>3, <5>1, QueueFun
        <5>3. q[j] = x
          BY <1>5, <4>1, <4>3, <4>4, <5>1, <5>2
        <5>4. QED
          BY <1>3, <1>7, <4>1, <5>2, <5>3, PositionOK
      <4>5. CASE ~found
        BY <1>5, <4>3, <4>5
      <4>6. QED
        BY <4>4, <4>5
    <3> HIDE DEF After
    <3>4. QED
      BY <2>1, <2>2, <3>1, <3>2, <3>3
  <2>7. QED
    BY <2>3, <2>4, <2>5, <2>6
<1>14. s \notin Range(queue)
  BY <1>7
<1>15. QED
  BY <1>2, <1>7, <1>8, <1>9, <1>12, <1>13, <1>14 DEF r, q, ss, found

------------------------------------------------------------------------------
(* Counting.                                                                *)

Registered == \A a, b \in Listed : m_sessions[a] = m_sessions[b] => a = b

\* Those in q are listed; the accounts that are in the game when q waits.
Waiters(q) == \A s \in Range(q) : \E a \in Listed : m_sessions[a] = s
InGame(q) == {a \in Listed : m_sessions[a] \notin Range(q)}

LEMMA CountOK ==
    ASSUME Registered, NEW q \in Queues, Waiters(q)
    PROVE  /\ IsFiniteSet(Listed) /\ IsFiniteSet(InGame(q))
           /\ Cardinality(Listed) \in Nat /\ Cardinality(InGame(q)) \in Nat
           /\ Cardinality(Listed) = Cardinality(InGame(q)) + Len(q)
<1> DEFINE W == {a \in Listed : m_sessions[a] \in Range(q)}
           f == [k \in 1..Len(q) |-> CHOOSE a \in Listed : m_sessions[a] = q[k]]
<1>1. /\ IsFiniteSet(Listed) /\ IsFiniteSet(InGame(q)) /\ IsFiniteSet(W)
      /\ Cardinality(Listed) \in Nat /\ Cardinality(InGame(q)) \in Nat /\ Cardinality(W) \in Nat
  <2>1. Listed \in SUBSET Accounts /\ InGame(q) \in SUBSET Listed /\ W \in SUBSET Listed
    BY DEF Listed, InGame
  <2>2. IsFiniteSet(Listed)
    BY <2>1, SessionAssumption, FS_Subset
  <2>3. IsFiniteSet(InGame(q)) /\ IsFiniteSet(W)
    BY <2>1, <2>2, FS_Subset
  <2>4. QED
    BY <2>2, <2>3, FS_CardinalityType
<1>2. \A k \in 1..Len(q) : f[k] \in W /\ m_sessions[f[k]] = q[k]
  BY QueueFun DEF Waiters
<1>3. \A a \in W : \E k \in 1..Len(q) : f[k] = a
  <2> SUFFICES ASSUME NEW a \in W PROVE \E k \in 1..Len(q) : f[k] = a
    OBVIOUS
  <2>1. PICK k \in 1..Len(q) : q[k] = m_sessions[a]
    BY QueueFun
  <2>2. f[k] = a
    BY <1>2, <2>1 DEF Registered
  <2>3. QED
    BY <2>2
<1>4. f \in [1..Len(q) -> W]
  BY <1>2
<1> HIDE DEF f, W
<1>5. \A j, k \in 1..Len(q) : f[j] = f[k] => j = k
  BY <1>2, QueueFun
<1>6. f \in Bijection(1..Len(q), W)
  BY <1>3, <1>4, <1>5 DEF Bijection, Injection, Surjection, IsInjective
<1>7. Cardinality(W) = Len(q)
  BY <1>6, QueueFun, FS_CountingElements DEF ExistsBijection
<1>8. Cardinality(Listed) = Cardinality(InGame(q)) + Cardinality(W)
  <2>1. InGame(q) \cap W = {} /\ InGame(q) \cup W = Listed
    BY DEF InGame, W
  <2>2. Cardinality(InGame(q) \cup W) =
            Cardinality(InGame(q)) + Cardinality(W) - Cardinality(InGame(q) \cap W)
    BY <1>1, FS_Union
  <2>3. Cardinality(InGame(q) \cap W) = 0
    BY <2>1, FS_EmptySet
  <2>4. QED
    BY <1>1, <2>1, <2>2, <2>3
<1>9. QED
  BY <1>1, <1>7, <1>8

\* The number RemoveQueuedPlayer compares with the limit is that of the accounts
\* in the game, without the one whose session goes.
LEMMA OthersOK ==
    ASSUME Registered, NEW q \in Queues, Waiters(q), NEW a \in Listed
    PROVE  /\ Others(q, m_sessions[a] \in Range(q)) = Cardinality(InGame(q) \ {a})
           /\ IsFiniteSet(InGame(q) \ {a})
           /\ Cardinality(InGame(q) \ {a}) \in Nat
           /\ Cardinality(InGame(q) \ {a}) =
                  IF m_sessions[a] \in Range(q) THEN Cardinality(InGame(q))
                  ELSE Cardinality(InGame(q)) - 1
<1>1. /\ IsFiniteSet(InGame(q)) /\ Cardinality(InGame(q)) \in Nat
      /\ Cardinality(Listed) = Cardinality(InGame(q)) + Len(q)
  BY CountOK
<1>2. a \in InGame(q) <=> m_sessions[a] \notin Range(q)
  BY DEF InGame
<1>3. /\ IsFiniteSet(InGame(q) \ {a})
      /\ Cardinality(InGame(q) \ {a}) =
             IF m_sessions[a] \in Range(q) THEN Cardinality(InGame(q)) ELSE Cardinality(InGame(q)) - 1
  BY <1>1, <1>2, FS_RemoveElement
<1>4. Cardinality(InGame(q) \ {a}) \in Nat
  BY <1>3, FS_CardinalityType
<1>5. Len(q) \in Nat
  BY QueueFun
<1>6. Cardinality(Listed) - Len(q) = Cardinality(InGame(q))
  BY <1>1, <1>5
<1>7. QED
  BY <1>1, <1>3, <1>4, <1>6 DEF Others

\* The players who count against the limit.
Limited(F) ==
    (~stopping /\ PlayerLimit > 0) => Cardinality({a \in F : ~Exempt(a)}) <= PlayerLimit

LEMMA LimitedSubset ==
    ASSUME NEW F, IsFiniteSet(F), NEW G \in SUBSET F
    PROVE  /\ Limited(F) => Limited(G)
           /\ Cardinality(G) <= PlayerLimit => Limited(G)
<1> DEFINE N(S) == {a \in S : ~Exempt(a)}
<1>1. IsFiniteSet(G) /\ N(F) \in SUBSET F /\ N(G) \in SUBSET N(F) /\ N(G) \in SUBSET G
  BY FS_Subset
<1>2. IsFiniteSet(N(F)) /\ Cardinality(N(G)) <= Cardinality(N(F)) /\ Cardinality(N(G)) <= Cardinality(G)
  BY <1>1, FS_Subset
<1>3. /\ IsFiniteSet(N(G)) /\ Cardinality(N(F)) \in Nat /\ Cardinality(N(G)) \in Nat
      /\ Cardinality(G) \in Nat
  BY <1>1, <1>2, FS_Subset, FS_CardinalityType
<1>4. PlayerLimit \in Nat
  BY SessionAssumption
<1> HIDE DEF N
<1>5. /\ Cardinality(N(F)) <= PlayerLimit => Cardinality(N(G)) <= PlayerLimit
      /\ Cardinality(G) <= PlayerLimit => Cardinality(N(G)) <= PlayerLimit
  BY <1>2, <1>3, <1>4
<1>6. QED
  BY <1>5 DEF Limited, N

\* After RemoveQueuedPlayer the places are still taken while somebody waits,
\* and not too many are.
LEMMA LeaveCount ==
    ASSUME Registered, NEW q \in Queues, Waiters(q), NEW a \in Listed, NEW r \in Queues,
           Range(r) \subseteq Range(q) \ {m_sessions[a]}, MakesWay(q, r, m_sessions[a]),
           q # <<>> => PlayerLimit > 0 /\ Cardinality(InGame(q)) >= PlayerLimit,
           Limited(InGame(q) \ {a})
    PROVE  /\ q # <<>> => PlayerLimit > 0 /\ Cardinality(InGame(r) \ {a}) >= PlayerLimit
           /\ Limited(InGame(r) \ {a})
<1> DEFINE s == m_sessions[a]
           F == InGame(q) \ {a}
           G == InGame(r) \ {a}
           place == HasPlace(Cardinality(F))
<1>1. /\ IsFiniteSet(F) /\ Cardinality(F) \in Nat /\ Cardinality(InGame(q)) \in Nat
      /\ Cardinality(F) = IF s \in Range(q) THEN Cardinality(InGame(q)) ELSE Cardinality(InGame(q)) - 1
      /\ Others(q, s \in Range(q)) = Cardinality(F)
  BY OthersOK, CountOK
<1>2. PlayerLimit \in Nat
  BY SessionAssumption
<1>3. \/ Range(r) = Range(q) \ {s} /\ (place => r = <<>>)
      \/ place /\ \E h \in Range(q) \ {s} : Range(r) = Range(q) \ {s, h}
  BY <1>1 DEF MakesWay
<1>4. q # <<>> => Range(q) # {}
  <2> SUFFICES ASSUME q # <<>> PROVE Range(q) # {}
    OBVIOUS
  <2>1. Len(q) > 0 /\ Len(q) \in Nat
    BY TailOK, QueueFun
  <2>2. 1 \in 1..Len(q)
    BY <2>1
  <2>3. QED
    BY <2>2, QueueFun
<1>5. CASE Range(r) = Range(q) \ {s} /\ (place => r = <<>>)
  <2>1. G = F
    BY <1>5 DEF InGame, Registered
  <2>2. ASSUME q # <<>> PROVE PlayerLimit > 0 /\ Cardinality(F) >= PlayerLimit
    <3>1. PlayerLimit > 0 /\ Cardinality(InGame(q)) >= PlayerLimit
      BY <2>2
    <3>2. CASE s \in Range(q)
      BY <1>1, <3>1, <3>2
    <3>3. CASE s \notin Range(q)
      <4>1. Range(r) # {}
        BY <1>4, <1>5, <2>2, <3>3
      <4>2. r # <<>>
        BY <4>1 DEF Range
      <4>3. ~place
        BY <1>5, <4>2
      <4>4. QED
        BY <1>1, <1>2, <3>1, <4>3 DEF HasPlace
    <3>4. QED
      BY <3>2, <3>3
  <2>3. QED
    BY <2>1, <2>2
<1>6. CASE place /\ \E h \in Range(q) \ {s} : Range(r) = Range(q) \ {s, h}
  <2>1. PICK h \in Range(q) \ {s} : Range(r) = Range(q) \ {s, h}
    BY <1>6
  <2>2. PICK b \in Listed : m_sessions[b] = h
    BY <2>1 DEF Waiters
  <2>3. G = F \cup {b} /\ b \notin F
    BY <2>1, <2>2 DEF InGame, Registered
  <2>4. IsFiniteSet(G) /\ Cardinality(G) = Cardinality(F) + 1
    BY <1>1, <2>3, FS_AddElement
  <2>5. q # <<>>
    <3>1. Range(q) # {}
      BY <2>1
    <3>2. QED
      BY <3>1 DEF Range
  <2>6. PlayerLimit > 0 /\ Cardinality(InGame(q)) >= PlayerLimit
    BY <2>5
  <2>7. Cardinality(F) < PlayerLimit
    BY <1>6, <2>6 DEF HasPlace
  <2> HIDE DEF F, G
  <2>8. Cardinality(G) = PlayerLimit
    BY <1>1, <1>2, <2>4, <2>6, <2>7
  <2>9. Limited(G)
    BY <1>2, <2>4, <2>8, LimitedSubset
  <2>10. QED
    BY <1>2, <2>6, <2>8, <2>9 DEF G
<1>7. QED
  BY <1>3, <1>5, <1>6

------------------------------------------------------------------------------
(* The inductive invariant.                                                 *)

\* A session that nobody has looked at yet.
Fresh(v) == v.character = "none" /\ v.late = 0 /\ v.expireTime = ExpireTime

Lists ==
    /\ m_QueuedPlayer \in Queues /\ addSessQueue \in Queues
    /\ \A a \in Listed : /\ session[m_sessions[a]] # NoSession
                         /\ session[m_sessions[a]].account = a
    /\ \A s \in Range(addSessQueue) : /\ session[s] # NoSession /\ Fresh(session[s])
                                      /\ \A a \in Accounts : m_sessions[a] # s
    /\ Waiters(m_QueuedPlayer)
    /\ ~stopping => Told(m_QueuedPlayer, session)
    /\ todo \subseteq Listed

\* A session whose socket is lost has spent as much of its time as updates
\* have passed, but for the one that has not come to it.
Timely(v, n) ==
    /\ v.expireTime >= 1 /\ v.late + v.expireTime <= ExpireTime + n
    /\ v.open => v.late = 0 /\ v.expireTime = ExpireTime

Extra(a) == IF pc = "update" /\ a \notin todo THEN 0 ELSE 1

Times == \A a \in Listed : Timely(session[m_sessions[a]], Extra(a))

Balanced ==
    /\ m_QueuedPlayer # <<>> => PlayerLimit > 0 /\ Cardinality(InGame(m_QueuedPlayer)) >= PlayerLimit
    /\ Limited(InGame(m_QueuedPlayer))

IInv == TypeOK /\ Lists /\ Times /\ Balanced

\* The parts of NobodyOvertakes.
Fair ==
    /\ \A x \in Range(m_QueuedPlayer) \cap Range(m_QueuedPlayer') :
           Ahead(m_QueuedPlayer', x) \subseteq Ahead(m_QueuedPlayer, x)
    /\ \A x \in Range(m_QueuedPlayer) \ Range(m_QueuedPlayer') :
           session'[x] # NoSession => Ahead(m_QueuedPlayer, x) \cap Range(m_QueuedPlayer') = {}
    /\ \A a \in Accounts :
           (m_sessions'[a] \notin {None, m_sessions[a]} /\ m_QueuedPlayer # <<>>)
               => Exempt(a) \/ m_sessions'[a] \in Range(m_QueuedPlayer')

LEMMA ListedOK ==
    ASSUME IInv
    PROVE  /\ Registered
           /\ \A a \in Listed : /\ a \in Accounts /\ m_sessions[a] \in Sessions
                                /\ session[m_sessions[a]] \in SessionType
           /\ \A a \in Accounts : a \in Listed <=> m_sessions[a] # None
           /\ \A s \in Sessions : s # None
           /\ \A s \in Sessions : session[s] # NoSession => session[s] \in SessionType
           /\ \A s \in Range(m_QueuedPlayer) : session[s] # NoSession
<1>1. /\ session \in [Sessions -> SessionType \cup {NoSession}]
      /\ m_sessions \in [Accounts -> Sessions \cup {None}]
  BY DEF IInv, TypeOK
<1>2. \A s \in Sessions : s # None
  BY SessionAssumption DEF Sessions
<1>3. \A a \in Listed : /\ session[m_sessions[a]] # NoSession
                        /\ session[m_sessions[a]].account = a
  BY DEF IInv, Lists
<1>4. \A a \in Listed : a \in Accounts /\ m_sessions[a] \in Sessions
  BY <1>1 DEF Listed
<1>5. Registered
  BY <1>3 DEF Registered
<1>6. \A s \in Range(m_QueuedPlayer) : session[s] # NoSession
  BY <1>3 DEF IInv, Lists, Waiters
<1>7. \A a \in Accounts : a \in Listed <=> m_sessions[a] # None
  BY DEF Listed
<1>8. QED
  BY <1>1, <1>2, <1>3, <1>4, <1>5, <1>6, <1>7

LEMMA FairWhenSame ==
    ASSUME UNCHANGED <<m_QueuedPlayer, m_sessions>>
    PROVE  Fair
  BY DEF Fair

LEMMA InitOK == ASSUME Init PROVE IInv
<1>1. <<>> \in Queues /\ Range(<<>>) = {}
  BY DEF Queues, Range, IsInjective
<1>2. Listed = {}
  BY DEF Init, Listed
<1>3. TypeOK
  BY <1>1 DEF Init, TypeOK, Queues
<1>4. Lists
  BY <1>1, <1>2 DEF Init, Lists, Waiters, Told
<1>5. Balanced
  <2>1. InGame(m_QueuedPlayer) = {}
    BY <1>2 DEF InGame
  <2>2. {a \in {} : ~Exempt(a)} = {} /\ Cardinality({}) = 0
    BY FS_EmptySet
  <2>3. m_QueuedPlayer = <<>> /\ 0 <= PlayerLimit
    BY SessionAssumption DEF Init
  <2>4. Limited(InGame(m_QueuedPlayer))
    BY <2>1, <2>2, <2>3 DEF Limited
  <2>5. QED
    BY <2>3, <2>4 DEF Balanced
<1>6. QED
  BY <1>2, <1>3, <1>4, <1>5 DEF IInv, Times

\* The same session in the same place, after a handler.
Kept(v, w) ==
    /\ w \in SessionType
    /\ w.account = v.account /\ w.inQueue = v.inQueue /\ w.told = v.told
    /\ v.inQueue /\ v.character = "none" => w.character = "none"

LEMMA KeptOK ==
    ASSUME IInv,
           UNCHANGED <<m_sessions, m_disconnects, addSessQueue>>,
           \/ UNCHANGED <<m_QueuedPlayer, stopping>>
           \/ m_QueuedPlayer' = <<>> /\ stopping',
           stopping' \in BOOLEAN, pc' \in {"add", "update", "stopped"}, todo' \subseteq Listed,
           session' \in [Sessions -> SessionType \cup {NoSession}],
           \A x \in Sessions : session[x] # NoSession => Kept(session[x], session'[x]),
           \A x \in Sessions : session[x] = NoSession => session'[x] = NoSession,
           \A s \in Range(addSessQueue) : Fresh(session'[s]),
           \A a \in Listed : Timely(session'[m_sessions[a]], Extra(a)')
    PROVE  IInv'
<1> USE NoSessionIsNone
<1>1. Listed' = Listed /\ InGame(m_QueuedPlayer)' = {a \in Listed : m_sessions[a] \notin Range(m_QueuedPlayer')}
  BY DEF Listed, InGame
<1>2. <<>> \in Queues /\ Range(<<>>) = {}
  BY DEF Queues, Range, IsInjective
<1>3. TypeOK'
  BY <1>1, <1>2, ListedOK DEF IInv, TypeOK, Queues
<1>4. \A a \in Listed : /\ session'[m_sessions[a]] # NoSession
                        /\ session'[m_sessions[a]].account = a
  BY ListedOK DEF IInv, Lists, Kept
<1>5. \A s \in Range(addSessQueue) : session'[s] # NoSession
  BY QueueFun DEF IInv, Lists, Kept
<1>6. ASSUME ~stopping' PROVE Told(m_QueuedPlayer', session')
  <2>1. Told(m_QueuedPlayer, session) /\ m_QueuedPlayer' = m_QueuedPlayer
    BY <1>6 DEF IInv, Lists
  <2>2. \A x \in Sessions : session'[x] # NoSession => session[x] # NoSession
    OBVIOUS
  <2>3. QED
    BY <2>1, <2>2 DEF Told, Kept
<1>7. Lists'
  BY <1>1, <1>2, <1>4, <1>5, <1>6 DEF IInv, Lists, Waiters
<1>8. Times'
  BY <1>1 DEF Times
<1>9. Balanced'
  BY <1>1 DEF IInv, Balanced, Limited, InGame, Exempt, HasRecentlyDisconnected
<1>10. QED
  BY <1>3, <1>7, <1>8, <1>9 DEF IInv

------------------------------------------------------------------------------
(* The steps that leave the lists alone.                                    *)

LEMMA ChangedFields ==
    ASSUME NEW v, NEW o, NEW f, NEW e, NEW c, NEW w, NEW n, NEW l
    PROVE  /\ Changed(v, o, f, e, c, w, n, l).account = v.account
           /\ Changed(v, o, f, e, c, w, n, l).open = o
           /\ Changed(v, o, f, e, c, w, n, l).forceExit = f
           /\ Changed(v, o, f, e, c, w, n, l).expireTime = e
           /\ Changed(v, o, f, e, c, w, n, l).character = c
           /\ Changed(v, o, f, e, c, w, n, l).inQueue = w
           /\ Changed(v, o, f, e, c, w, n, l).told = n
           /\ Changed(v, o, f, e, c, w, n, l).late = l
  BY DEF Changed

\* The socket is lost, a player is kicked, an update has passed, and
\* WorldSession::Update.
LEMMA ChangedOpen ==
    ASSUME NEW v, NEW o, NEW f, NEW e, NEW c, NEW w, NEW n, NEW l, NEW x
    PROVE  [Changed(v, o, f, e, c, w, n, l) EXCEPT !.open = x] = Changed(v, x, f, e, c, w, n, l)
  BY DEF Changed

LEMMA ChangedForceExit ==
    ASSUME NEW v, NEW o, NEW f, NEW e, NEW c, NEW w, NEW n, NEW l, NEW x
    PROVE  [Changed(v, o, f, e, c, w, n, l) EXCEPT !.forceExit = x] = Changed(v, o, x, e, c, w, n, l)
  BY DEF Changed

LEMMA ChangedExpireTime ==
    ASSUME NEW v, NEW o, NEW f, NEW e, NEW c, NEW w, NEW n, NEW l, NEW x
    PROVE  [Changed(v, o, f, e, c, w, n, l) EXCEPT !.expireTime = x] = Changed(v, o, f, x, c, w, n, l)
  BY DEF Changed

LEMMA ChangedCharacter ==
    ASSUME NEW v, NEW o, NEW f, NEW e, NEW c, NEW w, NEW n, NEW l, NEW x
    PROVE  [Changed(v, o, f, e, c, w, n, l) EXCEPT !.character = x] = Changed(v, o, f, e, x, w, n, l)
  BY DEF Changed

LEMMA ChangedLate ==
    ASSUME NEW v, NEW o, NEW f, NEW e, NEW c, NEW w, NEW n, NEW l, NEW x
    PROVE  [Changed(v, o, f, e, c, w, n, l) EXCEPT !.late = x] = Changed(v, o, f, e, c, w, n, x)
  BY DEF Changed

LEMMA Edits ==
    ASSUME NEW v \in SessionType, NEW o, NEW f
    PROVE  /\ [v EXCEPT !.open = o] =
                  Changed(v, o, v.forceExit, v.expireTime, v.character, v.inQueue, v.told, v.late)
           /\ [v EXCEPT !.open = o, !.forceExit = f] =
                  Changed(v, o, f, v.expireTime, v.character, v.inQueue, v.told, v.late)
<1> DEFINE u == Changed(v, v.open, v.forceExit, v.expireTime, v.character, v.inQueue, v.told, v.late)
           w1 == [u EXCEPT !.open = o]
           w2 == [w1 EXCEPT !.forceExit = f]
<1>1. v = u
  BY SessionFields
<1>2. [u EXCEPT !.open = o, !.forceExit = f] = w2
  <2> HIDE DEF u
  <2>1. QED
    OBVIOUS
<1>3. w1 = Changed(v, o, v.forceExit, v.expireTime, v.character, v.inQueue, v.told, v.late)
  BY ChangedOpen
<1>4. w2 = Changed(v, o, f, v.expireTime, v.character, v.inQueue, v.told, v.late)
  <2> HIDE DEF w1
  <2>1. QED
    BY <1>3, ChangedForceExit
<1> HIDE DEF u, w2
<1>5. QED
  BY <1>1, <1>2, <1>3, <1>4, Zenon

LEMMA UpdateEdit ==
    ASSUME NEW v \in SessionType, NEW o, NEW f, NEW e, NEW c
    PROVE  [v EXCEPT !.character = c, !.open = o, !.forceExit = f, !.expireTime = e] =
               Changed(v, o, f, e, c, v.inQueue, v.told, v.late)
<1> DEFINE u == Changed(v, v.open, v.forceExit, v.expireTime, v.character, v.inQueue, v.told, v.late)
           w1 == [u EXCEPT !.character = c]
           w2 == [w1 EXCEPT !.open = o]
           w3 == [w2 EXCEPT !.forceExit = f]
           w4 == [w3 EXCEPT !.expireTime = e]
<1>1. v = u
  BY SessionFields
<1>2. [u EXCEPT !.character = c, !.open = o, !.forceExit = f, !.expireTime = e] = w4
  <2> HIDE DEF u
  <2>1. QED
    OBVIOUS
<1>3. w1 = Changed(v, v.open, v.forceExit, v.expireTime, c, v.inQueue, v.told, v.late)
  BY ChangedCharacter
<1>4. w2 = Changed(v, o, v.forceExit, v.expireTime, c, v.inQueue, v.told, v.late)
  <2> HIDE DEF w1
  <2>1. QED
    BY <1>3, ChangedOpen
<1>5. w3 = Changed(v, o, f, v.expireTime, c, v.inQueue, v.told, v.late)
  <2> HIDE DEF w2
  <2>1. QED
    BY <1>4, ChangedForceExit
<1>6. w4 = Changed(v, o, f, e, c, v.inQueue, v.told, v.late)
  <2> HIDE DEF w3
  <2>1. QED
    BY <1>5, ChangedExpireTime
<1> HIDE DEF u, w4
<1>7. QED
  BY <1>1, <1>2, <1>6, Zenon

LEMMA LateEdit ==
    ASSUME NEW v \in SessionType, NEW l
    PROVE  [v EXCEPT !.late = l] =
               Changed(v, v.open, v.forceExit, v.expireTime, v.character, v.inQueue, v.told, l)
<1> DEFINE u == Changed(v, v.open, v.forceExit, v.expireTime, v.character, v.inQueue, v.told, v.late)
<1>1. v = u
  BY SessionFields
<1>2. [u EXCEPT !.late = l] =
          Changed(v, v.open, v.forceExit, v.expireTime, v.character, v.inQueue, v.told, l)
  BY ChangedLate
<1> HIDE DEF u
<1>3. QED
  BY <1>1, <1>2, Zenon

\* The socket of a session that nobody has looked at, or one in the lists, goes.
LEMMA LostSocket ==
    ASSUME NEW v \in SessionType, NEW f \in BOOLEAN, NEW w,
           w \in {[v EXCEPT !.open = FALSE], [v EXCEPT !.open = FALSE, !.forceExit = TRUE]}
    PROVE  /\ w \in SessionType /\ Kept(v, w) /\ (Fresh(v) => Fresh(w))
           /\ \A n \in Nat : Timely(v, n) => Timely(w, n)
<1>1. PICK off \in BOOLEAN, on \in BOOLEAN : off = FALSE /\ on = TRUE
  OBVIOUS
<1>2. PICK force \in BOOLEAN :
          w = Changed(v, off, force, v.expireTime, v.character, v.inQueue, v.told, v.late)
  <2>1. v.forceExit \in BOOLEAN
    BY SessionFields
  <2>2. QED
    BY <1>1, <2>1, Edits
<1>3. w \in SessionType
  BY <1>2, SessionFields, ChangedOK, ZenonT(30)
<1>4. /\ w.account = v.account /\ w.inQueue = v.inQueue /\ w.told = v.told
      /\ w.character = v.character /\ w.late = v.late /\ w.expireTime = v.expireTime
      /\ w.open = off
  BY <1>2, ChangedFields
<1>5. QED
  BY <1>1, <1>3, <1>4 DEF Kept, Fresh, Timely

LEMMA SameOK ==
    ASSUME NEW v \in SessionType
    PROVE  Kept(v, v)
  BY DEF Kept

LEMMA ExtraOK == \A a : Extra(a) \in Nat
  BY DEF Extra

LEMMA CloseSocketOK ==
    ASSUME IInv, NEW s \in Sessions, CloseSocket(s)
    PROVE  IInv' /\ Fair
<1>1. session[s] \in SessionType /\ session[s] # NoSession
  BY ListedOK DEF CloseSocket, Exists
<1> DEFINE w == [session[s] EXCEPT !.open = FALSE]
<1>2. session' = [session EXCEPT ![s] = w]
  BY DEF CloseSocket
<1>3. /\ w \in SessionType /\ Kept(session[s], w) /\ (Fresh(session[s]) => Fresh(w))
      /\ \A n \in Nat : Timely(session[s], n) => Timely(w, n)
  BY <1>1, LostSocket
<1> HIDE DEF w
<1>4. session \in [Sessions -> SessionType \cup {NoSession}]
  BY DEF IInv, TypeOK
<1>5. /\ session' \in [Sessions -> SessionType \cup {NoSession}]
      /\ session'[s] = w /\ \A x \in Sessions \ {s} : session'[x] = session[x]
  BY <1>2, <1>3, <1>4
<1>6. /\ \A x \in Sessions : session[x] # NoSession => Kept(session[x], session'[x])
      /\ \A x \in Sessions : session[x] = NoSession => session'[x] = NoSession
  BY <1>1, <1>3, <1>5, ListedOK, SameOK
<1>7. \A x \in Range(addSessQueue) : Fresh(session'[x])
  <2>1. \A x \in Range(addSessQueue) : x \in Sessions /\ Fresh(session[x])
    BY QueueFun DEF IInv, Lists
  <2>2. QED
    BY <1>3, <1>5, <2>1
<1>8. UNCHANGED <<m_sessions, m_disconnects, addSessQueue, m_QueuedPlayer, stopping, pc, todo>>
  BY DEF CloseSocket
<1>9. \A a \in Listed : Timely(session'[m_sessions[a]], Extra(a)')
  <2>1. \A a \in Listed : m_sessions[a] \in Sessions /\ Timely(session[m_sessions[a]], Extra(a))
    BY ListedOK DEF IInv, Times
  <2>2. \A a \in Listed : Extra(a)' = Extra(a)
    BY <1>8 DEF Extra
  <2>3. QED
    BY <1>3, <1>5, <2>1, <2>2, ExtraOK
<1>10. /\ stopping' \in BOOLEAN /\ pc' \in {"add", "update", "stopped"} /\ todo' \subseteq Listed
  BY <1>8 DEF IInv, TypeOK, Lists
<1>11. IInv'
  BY <1>5, <1>6, <1>7, <1>8, <1>9, <1>10, KeptOK
<1>12. QED
  BY <1>8, <1>11, FairWhenSame

LEMMA KickPlayerOK ==
    ASSUME IInv, NEW a \in Accounts, KickPlayer(a)
    PROVE  IInv' /\ Fair
<1> DEFINE s == m_sessions[a]
           w == [session[s] EXCEPT !.open = FALSE, !.forceExit = TRUE]
<1>1. a \in Listed /\ s \in Sessions /\ session[s] \in SessionType /\ session[s] # NoSession
  BY ListedOK DEF KickPlayer, IInv, Lists
<1>2. session' = [session EXCEPT ![s] = w]
  BY DEF KickPlayer
<1>3. /\ w \in SessionType /\ Kept(session[s], w)
      /\ \A n \in Nat : Timely(session[s], n) => Timely(w, n)
  BY <1>1, LostSocket
<1> HIDE DEF w
<1>4. session \in [Sessions -> SessionType \cup {NoSession}]
  BY DEF IInv, TypeOK
<1>5. /\ session' \in [Sessions -> SessionType \cup {NoSession}]
      /\ session'[s] = w /\ \A x \in Sessions \ {s} : session'[x] = session[x]
  BY <1>1, <1>2, <1>3, <1>4
<1>6. /\ \A x \in Sessions : session[x] # NoSession => Kept(session[x], session'[x])
      /\ \A x \in Sessions : session[x] = NoSession => session'[x] = NoSession
  BY <1>1, <1>3, <1>5, ListedOK, SameOK
<1>7. \A x \in Range(addSessQueue) : Fresh(session'[x])
  <2>1. \A x \in Range(addSessQueue) : x \in Sessions \ {s} /\ Fresh(session[x])
    BY QueueFun DEF IInv, Lists
  <2>2. QED
    BY <1>5, <2>1
<1>8. UNCHANGED <<m_sessions, m_disconnects, addSessQueue, m_QueuedPlayer, stopping, pc, todo>>
  BY DEF KickPlayer
<1>9. \A b \in Listed : Timely(session'[m_sessions[b]], Extra(b)')
  <2>1. \A b \in Listed : m_sessions[b] \in Sessions /\ Timely(session[m_sessions[b]], Extra(b))
    BY ListedOK DEF IInv, Times
  <2>2. \A b \in Listed : Extra(b)' = Extra(b)
    BY <1>8 DEF Extra
  <2>3. QED
    BY <1>3, <1>5, <2>1, <2>2, ExtraOK
<1>10. /\ stopping' \in BOOLEAN /\ pc' \in {"add", "update", "stopped"} /\ todo' \subseteq Listed
  BY <1>8 DEF IInv, TypeOK, Lists
<1>11. IInv'
  BY <1>5, <1>6, <1>7, <1>8, <1>9, <1>10, KeptOK
<1>12. QED
  BY <1>8, <1>11, FairWhenSame

LEMMA StartVisitsOK ==
    ASSUME IInv, StartVisits
    PROVE  IInv' /\ Fair
<1>1. UNCHANGED <<session, m_sessions, m_disconnects, addSessQueue, m_QueuedPlayer, stopping>>
  BY DEF StartVisits
<1>2. todo' \subseteq Listed /\ stopping' \in BOOLEAN /\ pc' \in {"add", "update", "stopped"}
  BY <1>1 DEF StartVisits, IInv, TypeOK
<1>3. \A a \in Listed : Extra(a)' = 1 /\ Extra(a) = 1
  BY DEF StartVisits, Extra
<1>4. \A a \in Listed : Timely(session'[m_sessions[a]], Extra(a)')
  BY <1>1, <1>3 DEF IInv, Times
<1>5. \A x \in Sessions : session[x] # NoSession => Kept(session[x], session'[x])
  BY <1>1, ListedOK, SameOK
<1>6. \A s \in Range(addSessQueue) : Fresh(session'[s])
  BY <1>1 DEF IInv, Lists
<1>7. session' \in [Sessions -> SessionType \cup {NoSession}]
  BY <1>1 DEF IInv, TypeOK
<1>8. IInv'
  BY <1>1, <1>2, <1>4, <1>5, <1>6, <1>7, KeptOK
<1>9. QED
  BY <1>1, <1>8, FairWhenSame

LEMMA StutterOK ==
    ASSUME IInv, UNCHANGED vars
    PROVE  IInv' /\ Fair
<1>1. UNCHANGED <<session, m_sessions, m_disconnects, addSessQueue, m_QueuedPlayer, stopping, pc, todo>>
  BY DEF vars
<1>2. todo' \subseteq Listed /\ stopping' \in BOOLEAN /\ pc' \in {"add", "update", "stopped"}
  BY <1>1 DEF IInv, TypeOK, Lists
<1>3. \A a \in Listed : Timely(session'[m_sessions[a]], Extra(a)')
  BY <1>1 DEF IInv, Times, Extra
<1>4. \A x \in Sessions : session[x] # NoSession => Kept(session[x], session'[x])
  BY <1>1, ListedOK, SameOK
<1>5. \A s \in Range(addSessQueue) : Fresh(session'[s])
  BY <1>1 DEF IInv, Lists
<1>6. session' \in [Sessions -> SessionType \cup {NoSession}]
  BY <1>1 DEF IInv, TypeOK
<1>7. IInv'
  BY <1>1, <1>2, <1>3, <1>4, <1>5, <1>6, KeptOK
<1>8. QED
  BY <1>1, <1>7, FairWhenSame

\* One more update without the socket.
LEMMA LaterOK ==
    ASSUME NEW v \in SessionType, NEW w, w = [v EXCEPT !.late = @ + 1]
    PROVE  /\ w \in SessionType /\ Kept(v, w)
           /\ ~v.open /\ Timely(v, 0) => Timely(w, 1)
<1>1. v.late + 1 \in Nat
  BY SessionFields
<1>2. w = Changed(v, v.open, v.forceExit, v.expireTime, v.character, v.inQueue, v.told, v.late + 1)
  BY LateEdit
<1>3. w \in SessionType
  <2>1. PICK n \in Nat : n = v.late + 1
    BY <1>1
  <2>2. Changed(v, v.open, v.forceExit, v.expireTime, v.character, v.inQueue, v.told, n) \in SessionType
    BY SessionFields, ChangedOK, ZenonT(30)
  <2>3. QED
    BY <1>2, <2>1, <2>2, Zenon
<1>4. /\ w.account = v.account /\ w.inQueue = v.inQueue /\ w.told = v.told
      /\ w.character = v.character /\ w.late = v.late + 1 /\ w.expireTime = v.expireTime
      /\ w.open = v.open
  BY <1>2, ChangedFields
<1>5. v.late \in Nat /\ v.expireTime \in Nat /\ ExpireTime \in Nat
  BY SessionFields, SessionAssumption
<1>6. QED
  BY <1>3, <1>4, <1>5 DEF Kept, Timely

LEMMA EndUpdateOK ==
    ASSUME IInv, EndUpdate
    PROVE  IInv' /\ Fair
<1> DEFINE late(s) == \E a \in Listed : m_sessions[a] = s /\ ~session[s].open
           After(s) == IF late(s) THEN [session[s] EXCEPT !.late = @ + 1] ELSE session[s]
<1>1. UNCHANGED <<m_sessions, m_disconnects, addSessQueue, m_QueuedPlayer, stopping, todo>>
  BY DEF EndUpdate
<1>2. session' = [s \in Sessions |-> After(s)]
  BY DEF EndUpdate
<1>3. /\ todo = {} /\ todo' \subseteq Listed /\ stopping' \in BOOLEAN
      /\ pc = "update" /\ pc' \in {"add", "stopped"}
  BY <1>1 DEF EndUpdate, IInv, TypeOK
<1>4. \A a \in Listed : Extra(a) = 0 /\ Extra(a)' = 1
  BY <1>1, <1>3 DEF Extra
<1>5. \A s \in Sessions : late(s) => session[s] \in SessionType /\ session[s] # NoSession
  BY ListedOK DEF IInv, Lists
<1>6. \A s \in Sessions : session[s] # NoSession => After(s) \in SessionType /\ Kept(session[s], After(s))
  BY ListedOK, SameOK, LaterOK
<1>7. \A s \in Sessions : session[s] = NoSession => After(s) = NoSession
  BY <1>5
<1>8. \A s \in Range(addSessQueue) : s \in Sessions /\ After(s) = session[s] /\ Fresh(session[s])
  BY QueueFun DEF IInv, Lists, Listed
<1>9. ASSUME NEW a \in Listed PROVE Timely(After(m_sessions[a]), 1)
  <2> DEFINE s == m_sessions[a]
             v == session[s]
  <2>1. v \in SessionType /\ Timely(v, 0)
    BY <1>4, ListedOK DEF IInv, Times
  <2>2. late(s) <=> ~v.open
    OBVIOUS
  <2> HIDE DEF s, v, late
  <2>3. CASE ~v.open
    <3>1. After(s) = [v EXCEPT !.late = @ + 1]
      BY <2>2, <2>3 DEF v
    <3>2. QED
      BY <2>1, <2>3, <3>1, LaterOK DEF s
  <2>4. CASE v.open
    <3>1. After(s) = v
      BY <2>2, <2>4 DEF v
    <3>2. v.late \in Nat /\ v.expireTime \in Nat /\ ExpireTime \in Nat
      BY <2>1, SessionFields, SessionAssumption
    <3>3. Timely(v, 1)
      BY <2>1, <3>2 DEF Timely
    <3>4. QED
      BY <3>1, <3>3 DEF s
  <2>5. QED
    BY <2>3, <2>4
<1> HIDE DEF After
<1>10. /\ session' \in [Sessions -> SessionType \cup {NoSession}]
       /\ \A x \in Sessions : session[x] # NoSession => Kept(session[x], session'[x])
       /\ \A x \in Sessions : session[x] = NoSession => session'[x] = NoSession
       /\ \A s \in Range(addSessQueue) : Fresh(session'[s])
  BY <1>2, <1>6, <1>7, <1>8
<1>11. \A a \in Listed : Timely(session'[m_sessions[a]], Extra(a)')
  BY <1>2, <1>4, <1>9, ListedOK
<1>12. pc' \in {"add", "update", "stopped"}
  BY <1>3
<1>13. IInv'
  BY <1>1, <1>3, <1>10, <1>11, <1>12, KeptOK
<1>14. QED
  BY <1>1, <1>13, FairWhenSame

LEMMA KickAllOK ==
    ASSUME IInv, KickAll
    PROVE  IInv'
<1> DEFINE kicked(s) == \E a \in Accounts : m_sessions[a] = s
           After(s) == IF kicked(s) THEN [session[s] EXCEPT !.open = FALSE, !.forceExit = TRUE]
                       ELSE session[s]
<1>1. UNCHANGED <<m_sessions, m_disconnects, addSessQueue, todo>>
  BY DEF KickAll
<1>2. session' = [s \in Sessions |-> After(s)]
  BY DEF KickAll
<1>3. /\ todo' \subseteq Listed /\ stopping' /\ stopping' \in BOOLEAN /\ m_QueuedPlayer' = <<>>
      /\ pc' = "add" /\ pc = "update" /\ todo = {}
  BY <1>1 DEF KickAll
<1>4. \A a \in Listed : Extra(a) = 0 /\ Extra(a)' = 1
  BY <1>1, <1>3 DEF Extra
<1>5. \A s \in Sessions : kicked(s) => session[s] \in SessionType /\ session[s] # NoSession
  BY ListedOK DEF IInv, Lists
<1>6. \A s \in Sessions : session[s] # NoSession => After(s) \in SessionType /\ Kept(session[s], After(s))
  <2> SUFFICES ASSUME NEW s \in Sessions, session[s] # NoSession
               PROVE  After(s) \in SessionType /\ Kept(session[s], After(s))
    OBVIOUS
  <2>1. session[s] \in SessionType /\ session[s].forceExit \in BOOLEAN
    BY ListedOK, SessionFields
  <2>2. QED
    BY <2>1, SameOK, LostSocket
<1>7. \A s \in Sessions : session[s] = NoSession => After(s) = NoSession
  BY <1>5
<1>8. \A s \in Range(addSessQueue) : s \in Sessions /\ After(s) = session[s] /\ Fresh(session[s])
  BY QueueFun DEF IInv, Lists, Listed
<1>9. ASSUME NEW a \in Listed PROVE Timely(After(m_sessions[a]), 1)
  <2> DEFINE s == m_sessions[a]
             v == session[s]
             w == [v EXCEPT !.open = FALSE, !.forceExit = TRUE]
  <2>1. v \in SessionType /\ Timely(v, 0) /\ v.forceExit \in BOOLEAN
    BY <1>4, ListedOK, SessionFields DEF IInv, Times
  <2>2. After(s) = w
    BY ListedOK
  <2> HIDE DEF s, v, After
  <2>3. Timely(w, 0) /\ w \in SessionType
    BY <2>1, LostSocket
  <2> HIDE DEF w
  <2>4. w.late \in Nat /\ w.expireTime \in Nat /\ ExpireTime \in Nat
    BY <2>3, SessionFields, SessionAssumption
  <2>5. Timely(w, 1)
    BY <2>3, <2>4 DEF Timely
  <2>6. QED
    BY <2>2, <2>5 DEF s
<1> HIDE DEF After
<1>10. /\ session' \in [Sessions -> SessionType \cup {NoSession}]
       /\ \A x \in Sessions : session[x] # NoSession => Kept(session[x], session'[x])
       /\ \A x \in Sessions : session[x] = NoSession => session'[x] = NoSession
       /\ \A s \in Range(addSessQueue) : Fresh(session'[s])
  BY <1>2, <1>6, <1>7, <1>8
<1>11. \A a \in Listed : Timely(session'[m_sessions[a]], Extra(a)')
  BY <1>2, <1>4, <1>9, ListedOK
<1>12. pc' \in {"add", "update", "stopped"}
  BY <1>3
<1>13. QED
  BY <1>1, <1>3, <1>10, <1>11, <1>12, KeptOK

\* What WorldSession::Update makes of a session.
Updated(v, c, kicked) ==
    LET open == v.open /\ ~kicked
    IN [v EXCEPT !.character = c, !.open = open, !.forceExit = @ \/ kicked,
                 !.expireTime = IF open \/ @ = 0 THEN @ ELSE @ - 1]

LEMMA UpdatedOK ==
    ASSUME IInv, NEW a \in Listed, NEW c \in CharacterAfter(m_sessions[a]), NEW kicked \in BOOLEAN
    PROVE  LET v == session[m_sessions[a]]
               w == Updated(v, c, kicked)
           IN /\ w \in SessionType /\ Kept(v, w)
              /\ Timely(v, 1) /\ ~Ends(w) => Timely(w, 0)
<1> DEFINE s == m_sessions[a]
           v == session[s]
           w == Updated(v, c, kicked)
           open == v.open /\ ~kicked
           time == IF open \/ v.expireTime = 0 THEN v.expireTime ELSE v.expireTime - 1
           force == v.forceExit \/ kicked
<1>1. s \in Sessions /\ v \in SessionType
  BY ListedOK
<1>2. /\ c \in {"none", "loading", "world"}
      /\ v.inQueue /\ v.character = "none" => c = "none"
  BY <1>1, SessionFields DEF CharacterAfter
<1>3. PICK o \in BOOLEAN, f \in BOOLEAN : o = open /\ f = force
  BY <1>1, SessionFields
<1>4. time \in 0..ExpireTime
  BY <1>1, SessionFields, SessionAssumption
<1>5. w = [v EXCEPT !.character = c, !.open = o, !.forceExit = f, !.expireTime = time]
  BY <1>3, Zenon DEF Updated
<1> HIDE DEF w, open, force, v, s
<1>6. PICK e \in 0..ExpireTime : e = time
  BY <1>4
<1>7. w = [v EXCEPT !.character = c, !.open = o, !.forceExit = f, !.expireTime = e]
  BY <1>5, <1>6, Zenon
<1>8. w = Changed(v, o, f, e, c, v.inQueue, v.told, v.late)
  <2>1. [v EXCEPT !.character = c, !.open = o, !.forceExit = f, !.expireTime = e] =
            Changed(v, o, f, e, c, v.inQueue, v.told, v.late)
    BY <1>1, UpdateEdit
  <2>2. QED
    BY <1>7, <2>1, Zenon
<1> HIDE DEF time
<1>9. w \in SessionType
  BY <1>1, <1>2, <1>8, SessionFields, ChangedOK, ZenonT(30)
<1>10. /\ w.account = v.account /\ w.inQueue = v.inQueue /\ w.told = v.told
       /\ w.character = c /\ w.late = v.late /\ w.expireTime = e /\ w.open = o
  BY <1>8, ChangedFields
<1>11. Kept(v, w)
  BY <1>2, <1>9, <1>10 DEF Kept
<1>12. ASSUME Timely(v, 1), ~Ends(w) PROVE Timely(w, 0)
  <2>1. v.late \in Nat /\ v.expireTime \in Nat /\ ExpireTime \in Nat
    BY <1>1, SessionFields, SessionAssumption
  <2>2. v.expireTime >= 1 /\ v.late + v.expireTime <= ExpireTime + 1
    BY <1>12 DEF Timely
  <2>3. CASE o
    <3>1. v.open /\ e = v.expireTime
      BY <1>3, <1>6, <2>3 DEF open, time
    <3>2. v.late = 0 /\ v.expireTime = ExpireTime
      BY <1>12, <3>1 DEF Timely
    <3>3. QED
      BY <1>10, <2>1, <2>2, <3>1, <3>2 DEF Timely
  <2>4. CASE ~o
    <3>1. ~open /\ v.expireTime # 0
      BY <1>3, <2>1, <2>2, <2>4
    <3> HIDE DEF open
    <3>2. e = v.expireTime - 1
      BY <1>6, <3>1 DEF time
    <3>3. e # 0
      BY <1>10, <1>12, <2>4 DEF Ends
    <3>4. QED
      BY <1>10, <2>1, <2>2, <2>4, <3>2, <3>3 DEF Timely
  <2>5. QED
    BY <2>3, <2>4
<1>13. QED
  BY <1>9, <1>11, <1>12 DEF v, s, w

LEMMA VisitOK ==
    ASSUME IInv, NEW a \in Listed, a \in todo, NEW w, w \in SessionType,
           Kept(session[m_sessions[a]], w), Timely(w, 0),
           pc = "update", todo' = todo \ {a}, session' = [session EXCEPT ![m_sessions[a]] = w],
           UNCHANGED <<m_sessions, m_disconnects, addSessQueue, m_QueuedPlayer, stopping, pc>>
    PROVE  IInv' /\ Fair
<1> DEFINE s == m_sessions[a]
<1>1. s \in Sessions /\ session[s] # NoSession /\ Registered
  BY ListedOK DEF IInv, Lists
<1>2. session \in [Sessions -> SessionType \cup {NoSession}]
  BY DEF IInv, TypeOK
<1>3. /\ session' \in [Sessions -> SessionType \cup {NoSession}]
      /\ session'[s] = w /\ \A x \in Sessions \ {s} : session'[x] = session[x]
  BY <1>1, <1>2
<1>4. /\ \A x \in Sessions : session[x] # NoSession => Kept(session[x], session'[x])
      /\ \A x \in Sessions : session[x] = NoSession => session'[x] = NoSession
  BY <1>1, <1>3, ListedOK, SameOK
<1>5. \A x \in Range(addSessQueue) : Fresh(session'[x])
  <2>1. \A x \in Range(addSessQueue) : x \in Sessions \ {s} /\ Fresh(session[x])
    BY QueueFun DEF IInv, Lists, Listed
  <2>2. QED
    BY <1>3, <2>1
<1>6. \A b \in Listed : Timely(session'[m_sessions[b]], Extra(b)')
  <2> SUFFICES ASSUME NEW b \in Listed PROVE Timely(session'[m_sessions[b]], Extra(b)')
    OBVIOUS
  <2>1. CASE b = a
    <3>1. Extra(b)' = 0
      BY <2>1 DEF Extra
    <3>2. QED
      BY <1>3, <2>1, <3>1
  <2>2. CASE b # a
    <3>1. Extra(b)' = Extra(b)
      BY <2>2 DEF Extra
    <3>2. session'[m_sessions[b]] = session[m_sessions[b]]
      BY <1>1, <1>3, <2>2, ListedOK DEF Registered
    <3>3. QED
      BY <3>1, <3>2 DEF IInv, Times
  <2>3. QED
    BY <2>1, <2>2
<1>7. stopping' \in BOOLEAN /\ pc' \in {"add", "update", "stopped"} /\ todo' \subseteq Listed
  BY DEF IInv, TypeOK, Lists
<1>8. IInv'
  BY <1>3, <1>4, <1>5, <1>6, <1>7, KeptOK
<1>9. QED
  BY <1>8, FairWhenSame

LEMMA HandleAuthSessionOK ==
    ASSUME IInv, NEW a \in Accounts, HandleAuthSession(a)
    PROVE  IInv' /\ Fair
<1> DEFINE s == NewSession
           v == [account |-> a, open |-> TRUE, forceExit |-> FALSE, expireTime |-> ExpireTime,
                 character |-> "none", inQueue |-> FALSE, told |-> 0, late |-> 0]
<1>1. s \in Sessions /\ session[s] = NoSession
  BY DEF HandleAuthSession, NewSession, Exists
<1>2. /\ session' = [session EXCEPT ![s] = v] /\ addSessQueue' = Joins(addSessQueue, s)
      /\ UNCHANGED <<m_sessions, m_QueuedPlayer, m_disconnects, pc, todo, stopping>>
  BY DEF HandleAuthSession, Joins
<1> HIDE DEF s
<1>3. v \in SessionType /\ v # NoSession /\ v.inQueue = FALSE /\ Fresh(v)
  <2>1. PICK on \in BOOLEAN, off \in BOOLEAN : on = TRUE /\ off = FALSE
    OBVIOUS
  <2>2. ExpireTime \in 0..ExpireTime /\ 0 \in Nat
    BY SessionAssumption
  <2>3. [account |-> a, open |-> on, forceExit |-> off, expireTime |-> ExpireTime,
         character |-> "none", inQueue |-> off, told |-> 0, late |-> 0] \in SessionType
    BY <2>2 DEF SessionType
  <2>4. v \in SessionType
    BY <2>1, <2>3, Zenon
  <2>5. v.character = "none" /\ v.late = 0 /\ v.expireTime = ExpireTime /\ v.inQueue = FALSE
    OBVIOUS
  <2> HIDE DEF v
  <2>6. QED
    BY <2>4, <2>5, NoSessionIsNone DEF Fresh
<1> HIDE DEF v
<1>4. session \in [Sessions -> SessionType \cup {NoSession}]
  BY DEF IInv, TypeOK
<1>5. /\ session' \in [Sessions -> SessionType \cup {NoSession}]
      /\ session'[s] = v /\ \A x \in Sessions \ {s} : session'[x] = session[x]
  BY <1>1, <1>2, <1>3, <1>4
<1>6. /\ s \notin Range(addSessQueue) /\ s \notin Range(m_QueuedPlayer)
      /\ \A b \in Accounts : m_sessions[b] # s
  <2>1. \A b \in Accounts : m_sessions[b] # s
    BY <1>1, ListedOK DEF IInv, Lists
  <2>2. QED
    BY <1>1, <2>1 DEF IInv, Lists, Waiters, Listed
<1>7. addSessQueue \in Queues /\ m_QueuedPlayer \in Queues
  BY DEF IInv, Lists
<1>8. addSessQueue' \in Queues /\ Range(addSessQueue') = Range(addSessQueue) \cup {s}
  BY <1>1, <1>2, <1>6, <1>7, JoinOK
<1>9. Listed' = Listed
  BY <1>2 DEF Listed
<1>10. \A b \in Listed : m_sessions[b] \in Sessions \ {s} /\ session'[m_sessions[b]] = session[m_sessions[b]]
  BY <1>5, <1>6, ListedOK DEF Listed
<1>11. TypeOK'
  BY <1>2, <1>5, <1>8 DEF IInv, TypeOK, Queues
<1>12. ASSUME ~stopping' PROVE Told(m_QueuedPlayer', session')
  <2>1. Told(m_QueuedPlayer, session)
    BY <1>2, <1>12 DEF IInv, Lists
  <2>2. QED
    BY <1>2, <1>3, <1>5, <1>6, <2>1 DEF Told
<1>13. \A x \in Range(addSessQueue') : /\ session'[x] # NoSession /\ Fresh(session'[x])
                                       /\ \A b \in Accounts : m_sessions[b] # x
  <2>1. \A x \in Range(addSessQueue) : x \in Sessions \ {s}
    BY <1>6, <1>7, QueueFun
  <2>2. QED
    BY <1>3, <1>5, <1>6, <1>8, <2>1 DEF IInv, Lists
<1>14. Lists'
  BY <1>2, <1>8, <1>9, <1>10, <1>12, <1>13 DEF IInv, Lists, Waiters
<1>15. Times'
  BY <1>2, <1>9, <1>10 DEF IInv, Times, Extra
<1>16. Balanced'
  BY <1>2, <1>9 DEF IInv, Balanced, InGame, Limited, Exempt, HasRecentlyDisconnected
<1>17. QED
  BY <1>2, <1>11, <1>14, <1>15, <1>16, FairWhenSame DEF IInv

------------------------------------------------------------------------------
(* The steps that change the lists.                                         *)

\* Queue and sessions after s has been taken out.
Gone(q, ss, r, tt, s) ==
    /\ StOK(r, tt) /\ SameSessions(ss, tt)
    /\ Told(q, ss) => Told(r, tt)
    /\ s \notin Range(r)
    /\ InOrder(q, r) /\ LetIn(q, r, s)

LEMMA GoneTwice ==
    ASSUME NEW q, NEW ss, NEW r, NEW tt, NEW r2, NEW tt2, NEW s,
           Gone(q, ss, r, tt, s), Gone(r, tt, r2, tt2, s),
           \A x \in Sessions : ss[x] # NoSession => ss[x] \in SessionType
    PROVE  Gone(q, ss, r2, tt2, s)
<1>1. InOrder(q, r2)
  BY InOrderTwice DEF Gone
<1>2. SameSessions(ss, tt2)
  <2> SUFFICES ASSUME NEW x \in Sessions
               PROVE  IF ss[x] = NoSession THEN tt2[x] = NoSession ELSE Alike(ss[x], tt2[x])
    BY DEF SameSessions
  <2>1. /\ IF ss[x] = NoSession THEN tt[x] = NoSession ELSE Alike(ss[x], tt[x])
        /\ IF tt[x] = NoSession THEN tt2[x] = NoSession ELSE Alike(tt[x], tt2[x])
    BY DEF Gone, SameSessions
  <2>2. QED
    BY <2>1, NoSessionIsNone DEF Alike
<1>3. LetIn(q, r2, s)
  <2> SUFFICES ASSUME NEW x \in Range(q) \ Range(r2), x # s
               PROVE  Ahead(q, x) \cap Range(r2) = {}
    BY DEF LetIn
  <2>1. Range(r2) \subseteq Range(r)
    BY DEF Gone, InOrder
  <2>2. CASE x \notin Range(r)
    BY <2>1, <2>2 DEF Gone, LetIn
  <2>3. CASE x \in Range(r)
    <3>1. Ahead(r, x) = Ahead(q, x) \cap Range(r)
      BY <2>3 DEF Gone, InOrder
    <3>2. Ahead(r, x) \cap Range(r2) = {}
      BY <2>3 DEF Gone, LetIn
    <3>3. QED
      BY <2>1, <3>1, <3>2
  <2>4. QED
    BY <2>2, <2>3
<1>4. QED
  BY <1>1, <1>2, <1>3 DEF Gone

\* What is left when account a has lost its session: r and uu, of which not
\* too few and not too many are in the game.
Without(r, uu, a) ==
    LET q == m_QueuedPlayer
        s == m_sessions[a]
    IN
    /\ r \in Queues /\ Range(r) \subseteq Range(q) \ {s}
    /\ uu \in [Sessions -> SessionType \cup {NoSession}]
    /\ \A x \in Sessions \ {s} :
           IF session[x] = NoSession THEN uu[x] = NoSession ELSE Alike(session[x], uu[x])
    /\ s \in Sessions => uu[s] = NoSession
    /\ ~stopping => Told(r, uu)
    /\ \A x \in Range(r) : Ahead(r, x) \subseteq Ahead(q, x)
    /\ \A x \in Range(q) \ Range(r) : uu[x] # NoSession => Ahead(q, x) \cap Range(r) = {}

LEMMA WithoutOK ==
    ASSUME IInv, NEW a \in Listed, NEW r, NEW tt,
           Gone(m_QueuedPlayer, session, r, tt, m_sessions[a])
    PROVE  Without(r, [tt EXCEPT ![m_sessions[a]] = NoSession], a)
<1> DEFINE s == m_sessions[a]
           uu == [tt EXCEPT ![s] = NoSession]
           q == m_QueuedPlayer
<1>1. s \in Sessions /\ q \in Queues
  BY ListedOK DEF IInv, Lists
<1>2. r \in Queues /\ Range(r) \subseteq Range(q) \ {s} /\ tt \in [Sessions -> SessionType \cup {NoSession}]
  BY DEF Gone, StOK, InOrder
<1> HIDE DEF s
<1>3. /\ uu \in [Sessions -> SessionType \cup {NoSession}]
      /\ uu[s] = NoSession /\ \A x \in Sessions \ {s} : uu[x] = tt[x]
  BY <1>1, <1>2
<1> HIDE DEF uu
<1>4. \A x \in Sessions \ {s} :
          IF session[x] = NoSession THEN uu[x] = NoSession ELSE Alike(session[x], uu[x])
  BY <1>3 DEF Gone, SameSessions
<1>5. ASSUME ~stopping PROVE Told(r, uu)
  <2>1. Told(r, tt)
    BY <1>5 DEF Gone, IInv, Lists
  <2>2. QED
    BY <1>3, <2>1 DEF Told
<1>6. \A x \in Range(r) : Ahead(r, x) \subseteq Ahead(q, x)
  BY DEF Gone, InOrder
<1>7. \A x \in Range(q) \ Range(r) : uu[x] # NoSession => Ahead(q, x) \cap Range(r) = {}
  BY <1>3 DEF Gone, LetIn, s
<1>8. QED
  BY <1>1, <1>2, <1>3, <1>4, <1>5, <1>6, <1>7 DEF Without, s, uu, q

LEMMA OnceOK ==
    ASSUME IInv, NEW a \in Listed
    PROVE  LET once == RemoveQueuedPlayer(World, m_sessions[a]) IN
           /\ Gone(m_QueuedPlayer, session, once.queue, once.session, m_sessions[a])
           /\ once.found = (m_sessions[a] \in Range(m_QueuedPlayer))
           /\ m_QueuedPlayer # <<>> =>
                  PlayerLimit > 0 /\ Cardinality(InGame(once.queue) \ {a}) >= PlayerLimit
           /\ Limited(InGame(once.queue) \ {a})
           /\ Waiters(once.queue)
<1> DEFINE s == m_sessions[a]
           q == m_QueuedPlayer
           once == RemoveQueuedPlayer(World, s)
           r == once.queue
<1>1. World.queue = q /\ World.session = session
  BY DEF World
<1>2. s \in Sessions /\ StOK(q, session) /\ Registered /\ Waiters(q) /\ q \in Queues
  BY ListedOK DEF IInv, Lists, StOK, TypeOK
<1>3. /\ StOK(r, once.session) /\ SameSessions(session, once.session)
      /\ Told(q, session) => Told(r, once.session)
      /\ once.found = (s \in Range(q)) /\ s \notin Range(r)
      /\ InOrder(q, r) /\ LetIn(q, r, s) /\ MakesWay(q, r, s)
  <2> HIDE DEF s, q
  <2>1. StOK(World.queue, World.session)
    BY <1>1, <1>2
  <2>2. QED
    BY <1>1, <1>2, <2>1, LeaveOK
<1> HIDE DEF once
<1>4. r \in Queues /\ Range(r) \subseteq Range(q) \ {s}
  BY <1>3 DEF StOK, InOrder
<1>5. q # <<>> => PlayerLimit > 0 /\ Cardinality(InGame(q)) >= PlayerLimit
  BY DEF IInv, Balanced
<1>6. Limited(InGame(q) \ {a})
  <2>1. IsFiniteSet(InGame(q)) /\ InGame(q) \ {a} \in SUBSET InGame(q)
    BY <1>2, CountOK
  <2>2. Limited(InGame(q))
    BY DEF IInv, Balanced
  <2>3. QED
    BY <2>1, <2>2, LimitedSubset
<1>7. /\ q # <<>> => PlayerLimit > 0 /\ Cardinality(InGame(r) \ {a}) >= PlayerLimit
      /\ Limited(InGame(r) \ {a})
  BY <1>2, <1>3, <1>4, <1>5, <1>6, LeaveCount
<1>8. Waiters(r)
  BY <1>2, <1>4 DEF Waiters
<1>9. QED
  BY <1>3, <1>7, <1>8 DEF Gone, once

LEMMA TwiceOK ==
    ASSUME IInv, NEW a \in Listed
    PROVE  LET twice == RemoveQueuedPlayer(RemoveQueuedPlayer(World, m_sessions[a]), m_sessions[a]) IN
           /\ Gone(m_QueuedPlayer, session, twice.queue, twice.session, m_sessions[a])
           /\ twice.queue # <<>> =>
                  PlayerLimit > 0 /\ Cardinality(InGame(twice.queue) \ {a}) >= PlayerLimit
           /\ Limited(InGame(twice.queue) \ {a})
<1> DEFINE s == m_sessions[a]
           once == RemoveQueuedPlayer(World, s)
           q == once.queue
           twice == RemoveQueuedPlayer(once, s)
           r == twice.queue
<1>1. /\ Gone(m_QueuedPlayer, session, q, once.session, s)
      /\ m_QueuedPlayer # <<>> => PlayerLimit > 0 /\ Cardinality(InGame(q) \ {a}) >= PlayerLimit
      /\ Limited(InGame(q) \ {a}) /\ Waiters(q)
  BY OnceOK
<1>2. s \in Sessions /\ StOK(q, once.session) /\ Registered /\ q \in Queues
  BY <1>1, ListedOK DEF Gone, StOK
<1> HIDE DEF once
<1>3. /\ StOK(r, twice.session) /\ SameSessions(once.session, twice.session)
      /\ Told(q, once.session) => Told(r, twice.session)
      /\ s \notin Range(r)
      /\ InOrder(q, r) /\ LetIn(q, r, s) /\ MakesWay(q, r, s)
  <2> HIDE DEF s
  <2>1. QED
    BY <1>2, LeaveOK
<1> HIDE DEF twice
<1>4. r \in Queues /\ Range(r) \subseteq Range(q) \ {s}
  BY <1>3 DEF StOK, InOrder
<1>5. q # <<>> => PlayerLimit > 0 /\ Cardinality(InGame(q)) >= PlayerLimit
  <2> SUFFICES ASSUME q # <<>> PROVE PlayerLimit > 0 /\ Cardinality(InGame(q)) >= PlayerLimit
    OBVIOUS
  <2>1. m_QueuedPlayer # <<>>
    <3>1. q[1] \in Range(q)
      <4>1. Len(q) \in Nat /\ Len(q) > 0
        BY <1>2, TailOK, QueueFun
      <4>2. QED
        BY <1>2, <4>1, QueueFun
    <3>2. Range(m_QueuedPlayer) # {}
      BY <1>1, <3>1 DEF Gone, InOrder
    <3>3. QED
      BY <3>2 DEF Range
  <2>2. PlayerLimit > 0 /\ Cardinality(InGame(q) \ {a}) >= PlayerLimit
    BY <1>1, <2>1
  <2>3. /\ IsFiniteSet(InGame(q)) /\ Cardinality(InGame(q)) \in Nat
        /\ InGame(q) \ {a} \in SUBSET InGame(q)
    BY <1>1, <1>2, CountOK
  <2>4. Cardinality(InGame(q) \ {a}) <= Cardinality(InGame(q)) /\ Cardinality(InGame(q) \ {a}) \in Nat
    BY <2>3, FS_Subset, FS_CardinalityType
  <2>5. PlayerLimit \in Nat
    BY SessionAssumption
  <2>6. QED
    BY <2>2, <2>3, <2>4, <2>5
<1>6. /\ q # <<>> => PlayerLimit > 0 /\ Cardinality(InGame(r) \ {a}) >= PlayerLimit
      /\ Limited(InGame(r) \ {a})
  BY <1>1, <1>2, <1>3, <1>4, <1>5, LeaveCount
<1>7. r # <<>> => q # <<>>
  <2>1. r # <<>> => Range(r) # {}
    <3>1. r # <<>> => Len(r) \in Nat /\ Len(r) > 0
      BY <1>4, TailOK, QueueFun
    <3>2. QED
      BY <1>4, <3>1, QueueFun
  <2>2. Range(q) # {} => q # <<>>
    BY DEF Range
  <2>3. QED
    BY <1>4, <2>1, <2>2
<1>8. Gone(q, once.session, r, twice.session, s)
  BY <1>3 DEF Gone
<1>9. Gone(m_QueuedPlayer, session, r, twice.session, s)
  <2>1. \A x \in Sessions : session[x] # NoSession => session[x] \in SessionType
    BY ListedOK
  <2> HIDE DEF s, q, r
  <2>2. QED
    BY <1>1, <1>8, <2>1, GoneTwice
<1>10. QED
  BY <1>6, <1>7, <1>9 DEF once, twice

\* A session ends in UpdateSessions.
LEMMA EndOK ==
    ASSUME IInv, NEW a \in Listed, NEW r, NEW uu, Without(r, uu, a),
           r # <<>> => PlayerLimit > 0 /\ Cardinality(InGame(r) \ {a}) >= PlayerLimit,
           Limited(InGame(r) \ {a}),
           m_sessions' = [m_sessions EXCEPT ![a] = None],
           m_QueuedPlayer' = r, session' = uu, todo' = todo \ {a},
           m_disconnects' \in {m_disconnects, m_disconnects \cup {a}},
           UNCHANGED <<addSessQueue, pc, stopping>>
    PROVE  IInv' /\ Fair
<1> DEFINE s == m_sessions[a]
           q == m_QueuedPlayer
<1>1. s \in Sessions /\ Registered /\ q \in Queues /\ a \in Accounts
  BY ListedOK DEF IInv, Lists
<1>2. m_sessions \in [Accounts -> Sessions \cup {None}]
  BY DEF IInv, TypeOK
<1>3. /\ m_sessions' \in [Accounts -> Sessions \cup {None}]
      /\ m_sessions'[a] = None /\ \A b \in Accounts \ {a} : m_sessions'[b] = m_sessions[b]
  BY <1>1, <1>2
<1>4. Listed' = Listed \ {a}
  BY <1>3 DEF Listed
<1>5. \A b \in Listed \ {a} : b \in Accounts /\ m_sessions'[b] = m_sessions[b] /\ m_sessions[b] \in Sessions \ {s}
  BY <1>1, <1>3, ListedOK DEF Registered
<1>6. /\ r \in Queues /\ Range(r) \subseteq Range(q) \ {s}
      /\ uu \in [Sessions -> SessionType \cup {NoSession}]
      /\ \A x \in Sessions \ {s} :
             IF session[x] = NoSession THEN uu[x] = NoSession ELSE Alike(session[x], uu[x])
      /\ ~stopping => Told(r, uu)
  BY DEF Without
<1>7. TypeOK'
  BY <1>1, <1>3, <1>6 DEF IInv, TypeOK, Queues
<1>8. \A b \in Listed \ {a} : /\ session'[m_sessions'[b]] # NoSession
                              /\ session'[m_sessions'[b]].account = b
                              /\ Alike(session[m_sessions[b]], session'[m_sessions'[b]])
  BY <1>5, <1>6, NoSessionIsNone DEF IInv, Lists, Alike
<1>9. \A x \in Range(addSessQueue) : /\ session'[x] # NoSession /\ Fresh(session'[x])
                                     /\ \A b \in Accounts : m_sessions'[b] # x
  <2> SUFFICES ASSUME NEW x \in Range(addSessQueue)
               PROVE  /\ session'[x] # NoSession /\ Fresh(session'[x])
                      /\ \A b \in Accounts : m_sessions'[b] # x
    OBVIOUS
  <2>1. /\ x \in Sessions \ {s} /\ session[x] # NoSession /\ Fresh(session[x])
        /\ \A b \in Accounts : m_sessions[b] # x
    BY <1>1, QueueFun DEF IInv, Lists
  <2>2. Alike(session[x], session'[x])
    BY <1>6, <2>1
  <2>3. \A b \in Accounts : m_sessions'[b] # x
    BY <1>3, <2>1, ListedOK
  <2>4. QED
    BY <2>1, <2>2, <2>3, NoSessionIsNone DEF Alike, Fresh
<1>10. Waiters(m_QueuedPlayer)'
  BY <1>4, <1>5, <1>6 DEF IInv, Lists, Waiters
<1>11. Lists'
  BY <1>4, <1>6, <1>8, <1>9, <1>10 DEF IInv, Lists
<1>12. Times'
  <2> SUFFICES ASSUME NEW b \in Listed \ {a}
               PROVE  Timely(session'[m_sessions'[b]], Extra(b)')
    BY <1>4 DEF Times
  <2>1. Timely(session[m_sessions[b]], Extra(b)) /\ Extra(b)' = Extra(b)
    BY DEF IInv, Times, Extra
  <2>2. Alike(session[m_sessions[b]], session'[m_sessions'[b]])
    BY <1>8
  <2>3. QED
    BY <2>1, <2>2 DEF Alike, Timely
<1>13. InGame(m_QueuedPlayer)' = InGame(r) \ {a}
  BY <1>4, <1>5 DEF InGame
<1>14. Limited(InGame(r) \ {a})'
  <2> DEFINE N == {b \in InGame(r) \ {a} : ~Exempt(b)}
             N2 == {b \in (InGame(r) \ {a})' : ~Exempt(b)'}
  <2>1. (InGame(r) \ {a})' = InGame(r) \ {a}
    BY <1>4, <1>5 DEF InGame
  <2>2. N2 \in SUBSET N
    BY <2>1 DEF Exempt, HasRecentlyDisconnected
  <2>3. IsFiniteSet(N)
    <3>1. Waiters(r)
      BY <1>6 DEF IInv, Lists, Waiters
    <3>2. IsFiniteSet(InGame(r))
      BY <1>1, <1>6, <3>1, CountOK
    <3>3. N \in SUBSET InGame(r)
      OBVIOUS
    <3>4. QED
      BY <3>2, <3>3, FS_Subset
  <2> HIDE DEF N, N2
  <2>4. Cardinality(N2) <= Cardinality(N) /\ IsFiniteSet(N2)
    BY <2>2, <2>3, FS_Subset
  <2>5. Cardinality(N2) \in Nat /\ Cardinality(N) \in Nat /\ PlayerLimit \in Nat
    BY <2>3, <2>4, SessionAssumption, FS_CardinalityType
  <2>6. (~stopping /\ PlayerLimit > 0) => Cardinality(N) <= PlayerLimit
    BY DEF Limited, N
  <2>7. (~stopping' /\ PlayerLimit > 0) => Cardinality(N2) <= PlayerLimit
    BY <2>4, <2>5, <2>6
  <2>8. QED
    BY <2>7 DEF Limited, N2
<1>15. Balanced'
  <2>1. (InGame(r) \ {a})' = InGame(r) \ {a}
    BY <1>4, <1>5 DEF InGame
  <2>2. Limited(InGame(m_QueuedPlayer))'
    BY <1>13, <1>14, <2>1 DEF Limited
  <2>3. QED
    BY <1>13, <2>2 DEF Balanced
<1>16. Fair
  BY <1>3 DEF Fair, Without
<1>17. QED
  BY <1>7, <1>11, <1>12, <1>15, <1>16 DEF IInv

LEMMA UpdateSessionOK ==
    ASSUME IInv, NEW a \in Accounts, UpdateSession(a)
    PROVE  IInv' /\ Fair
<1> DEFINE s == m_sessions[a]
           once == RemoveQueuedPlayer(World, s)
           twice == RemoveQueuedPlayer(once, s)
<1>1. pc = "update" /\ a \in todo /\ todo' = todo \ {a} /\ UNCHANGED <<addSessQueue, pc, stopping>>
  BY DEF UpdateSession
<1>2. a \in Listed
  BY <1>1 DEF IInv, Lists
<1>3. PICK c \in CharacterAfter(s), kicked \in BOOLEAN :
          \/ /\ ~Ends(Updated(session[s], c, kicked))
             /\ session' = [session EXCEPT ![s] = Updated(session[s], c, kicked)]
             /\ UNCHANGED <<m_sessions, m_QueuedPlayer, m_disconnects>>
          \/ /\ m_disconnects' = IF ~once.found /\ Tolerance THEN m_disconnects \cup {a}
                                 ELSE m_disconnects
             /\ m_QueuedPlayer' = twice.queue
             /\ session' = [twice.session EXCEPT ![s] = NoSession]
             /\ m_sessions' = [m_sessions EXCEPT ![a] = None]
  BY ZenonT(30) DEF UpdateSession, Updated
<1> DEFINE v == Updated(session[s], c, kicked)
<1>4. CASE /\ ~Ends(v) /\ session' = [session EXCEPT ![s] = v]
           /\ UNCHANGED <<m_sessions, m_QueuedPlayer, m_disconnects>>
  <2>1. v \in SessionType /\ Kept(session[s], v) /\ (Timely(session[s], 1) /\ ~Ends(v) => Timely(v, 0))
    BY <1>2, UpdatedOK
  <2>2. Timely(session[s], 1)
    BY <1>1, <1>2 DEF IInv, Times, Extra
  <2> HIDE DEF v
  <2>3. QED
    BY <1>1, <1>2, <1>4, <2>1, <2>2, VisitOK
<1>5. CASE /\ m_disconnects' = IF ~once.found /\ Tolerance THEN m_disconnects \cup {a}
                               ELSE m_disconnects
           /\ m_QueuedPlayer' = twice.queue
           /\ session' = [twice.session EXCEPT ![s] = NoSession]
           /\ m_sessions' = [m_sessions EXCEPT ![a] = None]
  <2>1. /\ Gone(m_QueuedPlayer, session, twice.queue, twice.session, s)
        /\ twice.queue # <<>> =>
               PlayerLimit > 0 /\ Cardinality(InGame(twice.queue) \ {a}) >= PlayerLimit
        /\ Limited(InGame(twice.queue) \ {a})
    BY <1>2, TwiceOK
  <2> DEFINE r == twice.queue
             uu == [twice.session EXCEPT ![s] = NoSession]
  <2>2. Without(r, uu, a)
    BY <1>2, <2>1, WithoutOK
  <2>3. m_disconnects' \in {m_disconnects, m_disconnects \cup {a}}
    <3> HIDE DEF once
    <3>1. QED
      BY <1>5
  <2>4. m_QueuedPlayer' = r /\ session' = uu /\ m_sessions' = [m_sessions EXCEPT ![a] = None]
    BY <1>5
  <2>5. /\ r # <<>> => PlayerLimit > 0 /\ Cardinality(InGame(r) \ {a}) >= PlayerLimit
        /\ Limited(InGame(r) \ {a})
    BY <2>1
  <2> HIDE DEF r, uu
  <2>6. QED
    BY <1>1, <1>2, <2>2, <2>3, <2>4, <2>5, EndOK
<1>6. QED
  BY <1>3, <1>4, <1>5

\* The first of the sessions that arrive.
LEMMA ArrivalOK ==
    ASSUME IInv, addSessQueue # <<>>
    PROVE  LET s == Head(addSessQueue) IN
           /\ s \in Range(addSessQueue) /\ s \in Sessions
           /\ session[s] \in SessionType /\ Fresh(session[s]) /\ session[s].account \in Accounts
           /\ \A b \in Accounts : m_sessions[b] # s
           /\ s \notin Range(m_QueuedPlayer)
           /\ Tail(addSessQueue) \in Queues /\ Range(Tail(addSessQueue)) = Range(addSessQueue) \ {s}
<1> DEFINE s == Head(addSessQueue)
<1>1. addSessQueue \in Queues
  BY DEF IInv, Lists
<1>2. /\ Tail(addSessQueue) \in Queues /\ Len(addSessQueue) > 0 /\ s = addSessQueue[1]
      /\ Range(Tail(addSessQueue)) = Range(addSessQueue) \ {s}
  BY <1>1, TailOK
<1>3. s \in Range(addSessQueue) /\ s \in Sessions
  <2>1. Len(addSessQueue) \in Nat /\ 1 \in 1..Len(addSessQueue)
    BY <1>1, <1>2, QueueFun
  <2>2. QED
    BY <1>1, <1>2, <2>1, QueueFun
<1>4. session[s] # NoSession /\ Fresh(session[s]) /\ \A b \in Accounts : m_sessions[b] # s
  BY <1>3 DEF IInv, Lists
<1>5. session[s] \in SessionType /\ session[s].account \in Accounts
  BY <1>3, <1>4, ListedOK, SessionFields
<1>6. s \notin Range(m_QueuedPlayer)
  BY <1>4, ListedOK DEF IInv, Lists, Waiters
<1>7. QED
  BY <1>2, <1>3, <1>4, <1>5, <1>6

\* A session is refused because its account loads a character.
LEMMA RefusedOK ==
    ASSUME IInv, addSessQueue # <<>>, addSessQueue' = Tail(addSessQueue),
           session' = [session EXCEPT ![Head(addSessQueue)] = NoSession],
           UNCHANGED <<m_sessions, m_QueuedPlayer, m_disconnects, pc, todo, stopping>>
    PROVE  IInv' /\ Fair
<1> DEFINE s == Head(addSessQueue)
<1>1. /\ s \in Sessions /\ \A b \in Accounts : m_sessions[b] # s
      /\ s \notin Range(m_QueuedPlayer)
      /\ addSessQueue' \in Queues /\ Range(addSessQueue') = Range(addSessQueue) \ {s}
  BY ArrivalOK
<1>2. session \in [Sessions -> SessionType \cup {NoSession}]
  BY DEF IInv, TypeOK
<1> HIDE DEF s
<1>3. /\ session' \in [Sessions -> SessionType \cup {NoSession}]
      /\ session'[s] = NoSession /\ \A x \in Sessions \ {s} : session'[x] = session[x]
  BY <1>1, <1>2 DEF s
<1>4. Listed' = Listed
  BY DEF Listed
<1>5. \A b \in Listed : m_sessions[b] \in Sessions \ {s} /\ session'[m_sessions[b]] = session[m_sessions[b]]
  BY <1>1, <1>3, ListedOK DEF Listed
<1>6. TypeOK'
  BY <1>1, <1>3 DEF IInv, TypeOK, Queues
<1>7. ASSUME ~stopping' PROVE Told(m_QueuedPlayer', session')
  <2>1. Told(m_QueuedPlayer, session)
    BY <1>7 DEF IInv, Lists
  <2>2. QED
    BY <1>3, <2>1 DEF Told
<1>8. \A x \in Range(addSessQueue') : session'[x] = session[x] /\ x \in Range(addSessQueue)
  BY <1>1, <1>3, QueueFun
<1>9. Lists'
  BY <1>1, <1>4, <1>5, <1>7, <1>8 DEF IInv, Lists, Waiters
<1>10. Times'
  BY <1>4, <1>5 DEF IInv, Times, Extra
<1>11. Balanced'
  BY <1>4 DEF IInv, Balanced, InGame, Limited, Exempt, HasRecentlyDisconnected
<1>12. QED
  BY <1>6, <1>9, <1>10, <1>11, FairWhenSame DEF IInv

\* A session takes the place of the last one of its account, if there is one:
\* qq and vv are the queue and the sessions after that.
Entered(s, a, r, uu, waits, qq, vv) ==
    /\ IF waits THEN qq = Joins(r, s) ELSE qq = r
    /\ vv \in [Sessions -> SessionType \cup {NoSession}]
    /\ \A x \in Sessions \ {s} : vv[x] = uu[x]
    /\ Alike(uu[s], vv[s])
    /\ IF waits THEN vv[s].inQueue /\ vv[s].told = Position(Joins(r, s), s)
       ELSE vv[s] = uu[s]

LEMMA EnteredOK ==
    ASSUME NEW r \in Queues, NEW uu \in [Sessions -> SessionType \cup {NoSession}],
           NEW s \in Sessions \ Range(r), uu[s] \in SessionType, NEW a, NEW f, NEW waits \in BOOLEAN,
           NEW after, after = IF waits THEN AddQueuedPlayer([found |-> f, queue |-> r, session |-> uu], s)
                              ELSE [found |-> f, queue |-> r, session |-> uu]
    PROVE  Entered(s, a, r, uu, waits, after.queue, after.session)
<1> DEFINE n == Position(Joins(r, s), s)
           w == [uu[s] EXCEPT !.inQueue = TRUE, !.told = n]
<1>1. CASE waits
  <2>1. n \in Nat
    <3>1. Joins(r, s) \in Queues /\ s \in Range(Joins(r, s))
      BY JoinOK
    <3>2. QED
      BY <3>1, PositionOK
  <2>2. after.queue = Joins(r, s) /\ after.session = [uu EXCEPT ![s] = w]
    BY <1>1 DEF AddQueuedPlayer
  <2> HIDE DEF n
  <2>3. w.inQueue = TRUE /\ w.told = n /\ Alike(uu[s], w)
    BY <2>1, FlagSet
  <2> HIDE DEF w
  <2>4. w \in SessionType
    BY <2>3 DEF Alike
  <2>5. /\ after.session \in [Sessions -> SessionType \cup {NoSession}]
        /\ after.session[s] = w /\ \A x \in Sessions \ {s} : after.session[x] = uu[x]
    BY <2>2, <2>4
  <2>6. QED
    BY <1>1, <2>2, <2>3, <2>5 DEF Entered, n
<1>2. CASE ~waits
  <2>1. after.queue = r /\ after.session = uu
    BY <1>2
  <2>2. Alike(uu[s], uu[s])
    BY QueuedOK
  <2>3. QED
    BY <1>2, <2>1, <2>2 DEF Entered
<1>3. QED
  BY <1>1, <1>2

\* The number AddSession_ compares with the limit.
LEMMA SessionsOK ==
    ASSUME IInv, NEW a \in Accounts
    PROVE  LET q == m_QueuedPlayer
               sessions == Cardinality(Listed \cup {a}) - (IF m_sessions[a] \in Range(q) THEN 0 ELSE 1)
           IN /\ q = <<>> => sessions = Cardinality(Listed \ {a})
              /\ q # <<>> => PlayerLimit > 0 /\ sessions >= PlayerLimit
              /\ sessions \in Int
<1> DEFINE q == m_QueuedPlayer
           found == m_sessions[a] \in Range(q)
<1>1. Registered /\ q \in Queues /\ Waiters(q)
  BY ListedOK DEF IInv, Lists
<1>2. /\ IsFiniteSet(Listed) /\ Cardinality(Listed) \in Nat /\ Cardinality(InGame(q)) \in Nat
      /\ Cardinality(Listed) = Cardinality(InGame(q)) + Len(q) /\ Len(q) \in Nat
  BY <1>1, CountOK, QueueFun
<1>3. q # <<>> => PlayerLimit > 0 /\ Cardinality(InGame(q)) >= PlayerLimit /\ Len(q) > 0
  BY <1>1, TailOK DEF IInv, Balanced
<1>4. q = <<>> => ~found
  BY DEF Range
<1>5. PlayerLimit \in Nat
  BY SessionAssumption
<1>6. CASE a \in Listed
  <2>1. Cardinality(Listed \cup {a}) = Cardinality(Listed)
    BY <1>6, <1>2, FS_AddElement
  <2>2. Cardinality(Listed \ {a}) = Cardinality(Listed) - 1
    BY <1>6, <1>2, FS_RemoveElement
  <2> HIDE DEF found, q
  <2>3. QED
    BY <1>2, <1>3, <1>4, <1>5, <2>1, <2>2 DEF found, q
<1>7. CASE a \notin Listed
  <2>1. Cardinality(Listed \cup {a}) = Cardinality(Listed) + 1
    BY <1>7, <1>2, FS_AddElement
  <2>2. Cardinality(Listed \ {a}) = Cardinality(Listed)
    BY <1>7, <1>2, FS_RemoveElement
  <2>3. ~found
    BY <1>1, <1>7, ListedOK, QueueFun
  <2> HIDE DEF found, q
  <2>4. QED
    BY <1>2, <1>3, <1>4, <1>5, <2>1, <2>2, <2>3 DEF found, q
<1>8. QED
  BY <1>6, <1>7

LEMMA WithoutNobody ==
    ASSUME IInv, NEW a \in Accounts \ Listed
    PROVE  /\ Without(m_QueuedPlayer, session, a)
           /\ InGame(m_QueuedPlayer) \ {a} = InGame(m_QueuedPlayer)
           /\ m_sessions[a] = None /\ m_sessions[a] \notin Range(m_QueuedPlayer)
<1> DEFINE q == m_QueuedPlayer
<1>1. q \in Queues /\ Range(q) \subseteq Sessions
  BY QueueFun DEF IInv, Lists
<1>2. m_sessions[a] = None /\ None \notin Sessions
  BY ListedOK
<1>3. session \in [Sessions -> SessionType \cup {NoSession}]
  BY DEF IInv, TypeOK
<1>4. \A x \in Sessions : session[x] # NoSession => Alike(session[x], session[x])
  BY ListedOK, QueuedOK
<1>5. ~stopping => Told(q, session)
  BY DEF IInv, Lists
<1>6. QED
  BY <1>1, <1>2, <1>3, <1>4, <1>5 DEF Without, InGame

\* Not too few and not too many are in the game when a has come in.
LEMMA EnterCount ==
    ASSUME IInv, NEW a \in Accounts, NEW r \in Queues,
           Range(r) \subseteq Range(m_QueuedPlayer) \ {m_sessions[a]},
           NEW sessions,
           sessions = Cardinality(Listed \cup {a})
                          - (IF m_sessions[a] \in Range(m_QueuedPlayer) THEN 0 ELSE 1),
           m_QueuedPlayer # <<>> => PlayerLimit > 0 /\ Cardinality(InGame(r) \ {a}) >= PlayerLimit,
           Limited(InGame(r) \ {a})
    PROVE  LET G == InGame(r) \ {a}
               waits == PlayerLimit > 0 /\ sessions >= PlayerLimit /\ ~Exempt(a)
           IN /\ waits => PlayerLimit > 0 /\ Cardinality(G) >= PlayerLimit
              /\ r # <<>> /\ ~waits => PlayerLimit > 0 /\ Cardinality(G \cup {a}) >= PlayerLimit
              /\ ~waits => Limited(G \cup {a})
              /\ m_QueuedPlayer # <<>> => waits \/ Exempt(a)
<1> DEFINE q == m_QueuedPlayer
           G == InGame(r) \ {a}
           waits == PlayerLimit > 0 /\ sessions >= PlayerLimit /\ ~Exempt(a)
<1>1. /\ q = <<>> => sessions = Cardinality(Listed \ {a})
      /\ q # <<>> => PlayerLimit > 0 /\ sessions >= PlayerLimit
      /\ sessions \in Int
  BY SessionsOK
<1>2. IsFiniteSet(G) /\ Cardinality(G) \in Nat /\ IsFiniteSet(G \cup {a})
      /\ Cardinality(G \cup {a}) = Cardinality(G) + 1
  <2>1. Registered /\ Waiters(r)
    BY ListedOK DEF IInv, Lists, Waiters
  <2>2. IsFiniteSet(InGame(r))
    BY <2>1, CountOK
  <2>3. IsFiniteSet(G)
    BY <2>2, FS_Subset
  <2>4. a \notin G
    OBVIOUS
  <2> HIDE DEF G
  <2>5. QED
    BY <2>3, <2>4, FS_CardinalityType, FS_AddElement
<1>3. q = <<>> => r = <<>> /\ Cardinality(G) = sessions
  <2> SUFFICES ASSUME q = <<>> PROVE r = <<>> /\ Cardinality(G) = sessions
    OBVIOUS
  <2>1. Range(q) = {}
    BY DEF Range
  <2>2. Range(r) = {}
    BY <2>1
  <2>3. r = <<>>
    <3>1. ASSUME r # <<>> PROVE FALSE
      <4>1. Len(r) \in Nat /\ Len(r) > 0
        BY <3>1, TailOK, QueueFun
      <4>2. r[1] \in Range(r)
        BY <4>1, QueueFun
      <4>3. QED
        BY <2>2, <4>2
    <3>2. QED
      BY <3>1
  <2>4. G = Listed \ {a}
    BY <2>2 DEF InGame
  <2>5. QED
    BY <1>1, <2>3, <2>4
<1>4. PlayerLimit \in Nat
  BY SessionAssumption
<1>5. q # <<>> => PlayerLimit > 0 /\ Cardinality(G) >= PlayerLimit
  OBVIOUS
<1> HIDE DEF q, G
<1>6. waits => PlayerLimit > 0 /\ Cardinality(G) >= PlayerLimit
  BY <1>1, <1>3, <1>5
<1>7. r # <<>> /\ ~waits => PlayerLimit > 0 /\ Cardinality(G \cup {a}) >= PlayerLimit
  BY <1>2, <1>3, <1>4, <1>5
<1>8. q # <<>> => waits \/ Exempt(a)
  BY <1>1
<1>9. ASSUME ~waits PROVE Limited(G \cup {a})
  <2>1. CASE Exempt(a)
    <3>1. {b \in G \cup {a} : ~Exempt(b)} = {b \in G : ~Exempt(b)}
      BY <2>1
    <3>2. QED
      BY <3>1 DEF Limited, G
  <2>2. CASE ~Exempt(a) /\ PlayerLimit > 0
    <3>1. sessions < PlayerLimit
      BY <1>1, <1>4, <1>9, <2>2
    <3>2. q = <<>>
      BY <1>1, <1>4, <3>1
    <3>3. Cardinality(G \cup {a}) <= PlayerLimit
      BY <1>1, <1>2, <1>3, <1>4, <3>1, <3>2
    <3>4. QED
      BY <1>2, <3>3, LimitedSubset
  <2>3. CASE ~(PlayerLimit > 0)
    BY <2>3 DEF Limited
  <2>4. QED
    BY <2>1, <2>2, <2>3
<1> HIDE DEF waits
<1>10. QED
  BY <1>6, <1>7, <1>8, <1>9 DEF q, G, waits

LEMMA EnterOK ==
    ASSUME IInv, pc = "add", addSessQueue # <<>>, addSessQueue' = Tail(addSessQueue),
           NEW s, s = Head(addSessQueue), NEW a \in Accounts, a = session[s].account,
           NEW r, NEW uu, Without(r, uu, a), NEW sessions,
           sessions = Cardinality(Listed \cup {a})
                          - (IF m_sessions[a] \in Range(m_QueuedPlayer) THEN 0 ELSE 1),
           m_QueuedPlayer # <<>> => PlayerLimit > 0 /\ Cardinality(InGame(r) \ {a}) >= PlayerLimit,
           Limited(InGame(r) \ {a}),
           NEW waits \in BOOLEAN, waits = (PlayerLimit > 0 /\ sessions >= PlayerLimit /\ ~Exempt(a)),
           Entered(s, a, r, uu, waits, m_QueuedPlayer', session'),
           m_sessions' = [m_sessions EXCEPT ![a] = s],
           UNCHANGED <<m_disconnects, pc, todo, stopping>>
    PROVE  IInv' /\ Fair
<1> DEFINE old == m_sessions[a]
           q == m_QueuedPlayer
           r2 == m_QueuedPlayer'
           vv == session'
<1>1. /\ s \in Range(addSessQueue) /\ s \in Sessions
      /\ session[s] \in SessionType /\ Fresh(session[s]) /\ session[s] # NoSession
      /\ \A b \in Accounts : m_sessions[b] # s
      /\ s \notin Range(q)
      /\ addSessQueue' \in Queues /\ Range(addSessQueue') = Range(addSessQueue) \ {s}
  BY ArrivalOK, NoSessionIsNone
<1>2. /\ r \in Queues /\ Range(r) \subseteq Range(q) \ {old}
      /\ uu \in [Sessions -> SessionType \cup {NoSession}]
      /\ \A x \in Sessions \ {old} :
             IF session[x] = NoSession THEN uu[x] = NoSession ELSE Alike(session[x], uu[x])
      /\ ~stopping => Told(r, uu)
  BY DEF Without
<1>3. /\ IF waits THEN r2 = Joins(r, s) ELSE r2 = r
      /\ vv \in [Sessions -> SessionType \cup {NoSession}]
      /\ \A x \in Sessions \ {s} : vv[x] = uu[x]
      /\ Alike(uu[s], vv[s])
      /\ IF waits THEN vv[s].inQueue /\ vv[s].told = Position(Joins(r, s), s) ELSE vv[s] = uu[s]
  BY DEF Entered
<1>4. s \notin Range(r) /\ s # old /\ Alike(session[s], uu[s])
  BY <1>1, <1>2
<1>5. /\ r2 \in Queues /\ Range(r2) = IF waits THEN Range(r) \cup {s} ELSE Range(r)
      /\ \A x \in Range(r) : Position(r2, x) = Position(r, x) /\ Ahead(r2, x) = Ahead(r, x)
  BY <1>1, <1>2, <1>3, <1>4, JoinOK, SMTT(30)
<1>6. m_sessions \in [Accounts -> Sessions \cup {None}]
  BY DEF IInv, TypeOK
<1>7. /\ m_sessions' \in [Accounts -> Sessions \cup {None}]
      /\ m_sessions'[a] = s /\ \A b \in Accounts \ {a} : m_sessions'[b] = m_sessions[b]
  BY <1>1, <1>6
<1>8. s # None
  BY <1>1, ListedOK
<1>9. Listed' = Listed \cup {a}
  BY <1>7, <1>8 DEF Listed
<1>10. \A b \in Listed \ {a} : /\ b \in Accounts /\ m_sessions'[b] = m_sessions[b]
                               /\ m_sessions[b] \in Sessions \ {s, old}
  BY <1>1, <1>7, ListedOK DEF Registered
<1>11. Alike(session[s], vv[s])
  BY <1>3, <1>4 DEF Alike
<1>12. \A x \in Sessions \ {s, old} :
           IF session[x] = NoSession THEN vv[x] = NoSession ELSE Alike(session[x], vv[x])
  BY <1>2, <1>3
<1> HIDE DEF r2, vv, old, q
<1>13. TypeOK'
  BY <1>1, <1>3, <1>5, <1>7 DEF IInv, TypeOK, Queues, r2, vv
<1>14. \A b \in Listed \ {a} : /\ vv[m_sessions'[b]] # NoSession
                               /\ vv[m_sessions'[b]].account = b
                               /\ Alike(session[m_sessions[b]], vv[m_sessions'[b]])
  BY <1>10, <1>12, NoSessionIsNone, SMTT(30) DEF IInv, Lists, Alike
<1>15. vv[s] # NoSession /\ vv[s].account = a
  BY <1>11, NoSessionIsNone DEF Alike
<1>16. \A x \in Range(addSessQueue') : /\ vv[x] # NoSession /\ Fresh(vv[x])
                                       /\ \A b \in Accounts : m_sessions'[b] # x
  <2> SUFFICES ASSUME NEW x \in Range(addSessQueue')
               PROVE  /\ vv[x] # NoSession /\ Fresh(vv[x])
                      /\ \A b \in Accounts : m_sessions'[b] # x
    OBVIOUS
  <2>1. /\ x \in Sessions \ {s, old} /\ session[x] # NoSession /\ Fresh(session[x])
        /\ \A b \in Accounts : m_sessions[b] # x
    BY <1>1, QueueFun DEF IInv, Lists, old
  <2>2. Alike(session[x], vv[x])
    BY <1>12, <2>1
  <2>3. \A b \in Accounts : m_sessions'[b] # x
    BY <1>7, <2>1
  <2>4. QED
    BY <2>1, <2>2, <2>3, NoSessionIsNone DEF Alike, Fresh
<1>17. Waiters(m_QueuedPlayer)'
  <2> SUFFICES ASSUME NEW x \in Range(r2) PROVE \E b \in Listed \cup {a} : m_sessions'[b] = x
    BY <1>9 DEF Waiters, r2
  <2>1. CASE x = s
    BY <1>7, <2>1
  <2>2. CASE x # s
    <3>1. x \in Range(q) /\ x # old
      BY <1>2, <1>5, <2>2
    <3>2. PICK b \in Listed : m_sessions[b] = x
      BY <3>1 DEF IInv, Lists, Waiters, q
    <3>3. b # a
      BY <3>1, <3>2 DEF old
    <3>4. QED
      BY <1>10, <3>2, <3>3
  <2>3. QED
    BY <2>1, <2>2
<1>18. ASSUME ~stopping' PROVE Told(r2, vv)
  <2>1. Told(r, uu)
    BY <1>2, <1>18
  <2> SUFFICES ASSUME NEW x \in Sessions, vv[x] # NoSession
               PROVE  /\ vv[x].inQueue <=> x \in Range(r2)
                      /\ vv[x].inQueue => vv[x].character = "none" /\ vv[x].told = Position(r2, x)
    BY DEF Told
  <2>2. CASE x # s
    <3>1. vv[x] = uu[x] /\ (x \in Range(r2) <=> x \in Range(r))
      BY <1>3, <1>5, <2>2
    <3>2. x \in Range(r) => Position(r2, x) = Position(r, x)
      BY <1>5
    <3>3. /\ uu[x].inQueue <=> x \in Range(r)
          /\ uu[x].inQueue => uu[x].character = "none" /\ uu[x].told = Position(r, x)
      BY <2>1, <3>1 DEF Told
    <3>4. QED
      BY <3>1, <3>2, <3>3
  <2>3. CASE x = s /\ waits
    <3>1. vv[s].character = "none"
      BY <1>1, <1>11 DEF Alike, Fresh
    <3>2. QED
      BY <1>3, <1>5, <2>3, <3>1
  <2>4. CASE x = s /\ ~waits
    <3>1. vv[s] = uu[s] /\ r2 = r
      BY <1>3, <2>4
    <3>2. QED
      BY <2>1, <2>4, <3>1 DEF Told
  <2>5. QED
    BY <2>2, <2>3, <2>4
<1>19. Lists'
  <2>1. todo' \subseteq Listed'
    BY <1>9 DEF IInv, Lists
  <2>2. \A b \in Listed' : vv[m_sessions'[b]] # NoSession /\ vv[m_sessions'[b]].account = b
    BY <1>7, <1>9, <1>14, <1>15
  <2>3. QED
    BY <1>1, <1>5, <1>16, <1>17, <1>18, <2>1, <2>2 DEF Lists, r2, vv
<1>20. Times'
  <2> SUFFICES ASSUME NEW b \in Listed \cup {a}
               PROVE  Timely(vv[m_sessions'[b]], Extra(b)')
    BY <1>9 DEF Times, vv
  <2>1. Extra(b)' = 1 /\ Extra(b) = 1
    BY DEF Extra
  <2>2. CASE b # a
    <3>1. Timely(session[m_sessions[b]], 1)
      BY <2>1, <2>2 DEF IInv, Times
    <3>2. Alike(session[m_sessions[b]], vv[m_sessions'[b]])
      BY <1>14, <2>2
    <3>3. QED
      BY <2>1, <3>1, <3>2 DEF Alike, Timely
  <2>3. CASE b = a
    <3>1. vv[s].late = 0 /\ vv[s].expireTime = ExpireTime
      BY <1>1, <1>11 DEF Alike, Fresh
    <3>2. ExpireTime \in Nat \ {0}
      BY SessionAssumption
    <3>3. QED
      BY <1>7, <2>1, <2>3, <3>1, <3>2, SMTT(30) DEF Timely
  <2>4. QED
    BY <2>2, <2>3
<1> DEFINE G == InGame(r) \ {a}
<1>21. InGame(m_QueuedPlayer)' = IF waits THEN G ELSE G \cup {a}
  BY <1>1, <1>5, <1>7, <1>9, <1>10, <1>4, <1>2 DEF InGame, r2
<1>22. /\ waits => PlayerLimit > 0 /\ Cardinality(G) >= PlayerLimit
       /\ r # <<>> /\ ~waits => PlayerLimit > 0 /\ Cardinality(G \cup {a}) >= PlayerLimit
       /\ ~waits => Limited(G \cup {a})
       /\ m_QueuedPlayer # <<>> => waits \/ Exempt(a)
  BY <1>2, EnterCount DEF q, old
<1>23. Limited(G)
  OBVIOUS
<1> HIDE DEF G
<1>24. Balanced'
  <2>1. \A F : Limited(F) => ((~stopping' /\ PlayerLimit > 0) => Cardinality({b \in F : ~Exempt(b)'}) <= PlayerLimit)
    BY DEF Limited, Exempt, HasRecentlyDisconnected
  <2>2. Limited(InGame(m_QueuedPlayer))'
    <3>1. CASE waits
      BY <1>21, <1>23, <2>1, <3>1 DEF Limited
    <3>2. CASE ~waits
      BY <1>21, <1>22, <2>1, <3>2 DEF Limited
    <3>3. QED
      BY <3>1, <3>2
  <2>3. m_QueuedPlayer' # <<>> =>
            PlayerLimit > 0 /\ Cardinality(InGame(m_QueuedPlayer)') >= PlayerLimit
    BY <1>3, <1>21, <1>22 DEF r2
  <2>4. QED
    BY <2>2, <2>3 DEF Balanced
<1>25. Fair
  <2>1. ASSUME NEW x \in Range(q) \cap Range(r2) PROVE Ahead(r2, x) \subseteq Ahead(q, x)
    <3>1. x \in Range(r)
      BY <1>1, <1>5
    <3>2. QED
      BY <1>5, <3>1 DEF Without, q
  <2>2. ASSUME NEW x \in Range(q) \ Range(r2), vv[x] # NoSession
        PROVE  Ahead(q, x) \cap Range(r2) = {}
    <3>1. x \in Range(q) \ Range(r) /\ x # s /\ x \in Sessions /\ q \in Queues
      BY <1>1, <1>5, QueueFun DEF IInv, Lists, q
    <3>2. uu[x] # NoSession
      BY <1>3, <2>2, <3>1
    <3>3. Ahead(q, x) \cap Range(r) = {}
      BY <3>1, <3>2 DEF Without, q
    <3>4. Ahead(q, x) \subseteq Range(q)
      <4>1. PICK k \in 1..Len(q) : q[k] = x
        BY <3>1, QueueFun
      <4>2. \A y \in Ahead(q, x) : \E j \in 1..(k - 1) : q[j] = y
        BY <3>1, <4>1, AheadOK
      <4>3. QED
        BY <3>1, <4>2, QueueFun
    <3>5. QED
      BY <1>1, <1>5, <3>3, <3>4
  <2>3. ASSUME NEW b \in Accounts, m_sessions'[b] \notin {None, m_sessions[b]}, q # <<>>
        PROVE  Exempt(b) \/ m_sessions'[b] \in Range(r2)
    <3>1. b = a
      BY <1>7, <2>3
    <3>2. QED
      BY <1>5, <1>7, <1>22, <2>3, <3>1 DEF q
  <2>4. QED
    BY <2>1, <2>2, <2>3 DEF Fair, q, r2, vv
<1>26. QED
  BY <1>13, <1>19, <1>20, <1>24, <1>25 DEF IInv

LEMMA AddSession_OK ==
    ASSUME IInv, AddSession_
    PROVE  IInv' /\ Fair
<1> DEFINE s == Head(addSessQueue)
           a == session[s].account
           old == m_sessions[a]
           st == IF old = None THEN World ELSE Replaced(old)
           sessions == Cardinality(Listed \cup {a}) - (IF st.found THEN 0 ELSE 1)
           waits == PlayerLimit > 0 /\ sessions >= PlayerLimit /\ ~Exempt(a)
           after == IF waits THEN AddQueuedPlayer(st, s) ELSE st
<1>1. /\ pc = "add" /\ addSessQueue # <<>> /\ addSessQueue' = Tail(addSessQueue)
      /\ UNCHANGED <<m_disconnects, pc, todo, stopping>>
      /\ \/ /\ session' = [session EXCEPT ![s] = NoSession]
            /\ UNCHANGED <<m_sessions, m_QueuedPlayer>>
         \/ /\ m_sessions' = [m_sessions EXCEPT ![a] = s]
            /\ m_QueuedPlayer' = after.queue
            /\ session' = after.session
  BY Zenon DEF AddSession_
<1>2. CASE /\ session' = [session EXCEPT ![s] = NoSession]
           /\ UNCHANGED <<m_sessions, m_QueuedPlayer>>
  BY <1>1, <1>2, RefusedOK
<1>3. CASE /\ m_sessions' = [m_sessions EXCEPT ![a] = s]
           /\ m_QueuedPlayer' = after.queue
           /\ session' = after.session
  <2>1. /\ a \in Accounts /\ s \in Sessions /\ session[s] \in SessionType
        /\ s \notin Range(m_QueuedPlayer) /\ \A b \in Accounts : m_sessions[b] # s
    BY <1>1, ArrivalOK
  <2> HIDE DEF s, a
  <2>2. PICK f, r, uu :
            /\ st = [found |-> f, queue |-> r, session |-> uu]
            /\ f = (old \in Range(m_QueuedPlayer))
            /\ Without(r, uu, a)
            /\ m_QueuedPlayer # <<>> => PlayerLimit > 0 /\ Cardinality(InGame(r) \ {a}) >= PlayerLimit
            /\ Limited(InGame(r) \ {a})
    <3>1. CASE a \notin Listed
      <4>1. /\ Without(m_QueuedPlayer, session, a)
            /\ InGame(m_QueuedPlayer) \ {a} = InGame(m_QueuedPlayer)
            /\ old = None /\ old \notin Range(m_QueuedPlayer)
        BY <2>1, <3>1, WithoutNobody
      <4>2. st = [found |-> FALSE, queue |-> m_QueuedPlayer, session |-> session]
        BY <4>1 DEF World
      <4>3. FALSE = (old \in Range(m_QueuedPlayer))
        BY <4>1
      <4>4. Balanced
        BY DEF IInv
      <4>5. /\ m_QueuedPlayer # <<>> =>
                   PlayerLimit > 0 /\ Cardinality(InGame(m_QueuedPlayer) \ {a}) >= PlayerLimit
            /\ Limited(InGame(m_QueuedPlayer) \ {a})
        BY <4>1, <4>4 DEF Balanced
      <4> HIDE DEF st, old
      <4>6. QED
        BY <4>1, <4>2, <4>3, <4>5
    <3>2. CASE a \in Listed
      <4> DEFINE once == RemoveQueuedPlayer(World, old)
                 uu == [once.session EXCEPT ![old] = NoSession]
      <4>1. /\ Gone(m_QueuedPlayer, session, once.queue, once.session, old)
            /\ once.found = (old \in Range(m_QueuedPlayer))
            /\ m_QueuedPlayer # <<>> =>
                   PlayerLimit > 0 /\ Cardinality(InGame(once.queue) \ {a}) >= PlayerLimit
            /\ Limited(InGame(once.queue) \ {a})
        BY <3>2, OnceOK
      <4>2. Without(once.queue, uu, a)
        BY <3>2, <4>1, WithoutOK
      <4>3. old # None
        BY <3>2 DEF Listed
      <4>4. st = [once EXCEPT !.session[old] = NoSession]
        BY <4>3 DEF Replaced
      <4>5. once = [found |-> once.found, queue |-> once.queue, session |-> once.session]
        BY DEF RemoveQueuedPlayer
      <4> HIDE DEF st, old, once
      <4>6. st = [found |-> once.found, queue |-> once.queue, session |-> uu]
        BY <4>4, <4>5
      <4> HIDE DEF uu
      <4>7. QED
        BY <4>1, <4>2, <4>6
    <3>3. QED
      BY <3>1, <3>2
  <2>3. st.found = f
    BY <2>2
  <2>4. sessions = Cardinality(Listed \cup {a}) - (IF old \in Range(m_QueuedPlayer) THEN 0 ELSE 1)
    <3>1. f = (old \in Range(m_QueuedPlayer))
      BY <2>2
    <3> HIDE DEF st, old
    <3>2. sessions = Cardinality(Listed \cup {a}) - (IF f THEN 0 ELSE 1)
      BY <2>3
    <3>3. QED
      BY <3>1, <3>2
  <2> HIDE DEF st, sessions
  <2>5. PICK w \in BOOLEAN : w = waits
    OBVIOUS
  <2> HIDE DEF waits
  <2>6. after = IF w THEN AddQueuedPlayer([found |-> f, queue |-> r, session |-> uu], s)
                ELSE [found |-> f, queue |-> r, session |-> uu]
    BY <2>2, <2>5
  <2>7. /\ r \in Queues /\ uu \in [Sessions -> SessionType \cup {NoSession}]
        /\ s \in Sessions \ Range(r) /\ uu[s] \in SessionType
    BY <2>1, <2>2, NoSessionIsNone DEF Without, Alike
  <2> HIDE DEF after
  <2>8. Entered(s, a, r, uu, w, after.queue, after.session)
    BY <2>6, <2>7, EnteredOK
  <2>9. Entered(s, a, r, uu, w, m_QueuedPlayer', session')
    BY <1>3, <2>8
  <2>10. w = (PlayerLimit > 0 /\ sessions >= PlayerLimit /\ ~Exempt(a))
    BY <2>5 DEF waits
  <2>11. m_sessions' = [m_sessions EXCEPT ![a] = s]
    BY <1>3
  <2>12. s = Head(addSessQueue) /\ a = session[s].account
    BY DEF s, a
  <2> HIDE DEF old
  <2>13. sessions = Cardinality(Listed \cup {a})
                       - (IF m_sessions[a] \in Range(m_QueuedPlayer) THEN 0 ELSE 1)
    BY <2>4 DEF old
  <2>14. QED
    BY <1>1, <2>1, <2>2, <2>9, <2>10, <2>11, <2>12, <2>13, EnterOK
<1>4. QED
  BY <1>1, <1>2, <1>3

------------------------------------------------------------------------------
(* The theorems.                                                            *)

LEMMA NextOK ==
    ASSUME IInv, [Next]_vars
    PROVE  IInv' /\ (~stopping' => Fair)
<1>1. ASSUME NEW a \in Accounts, HandleAuthSession(a) PROVE IInv' /\ Fair
  BY <1>1, HandleAuthSessionOK
<1>2. ASSUME NEW a \in Accounts, KickPlayer(a) PROVE IInv' /\ Fair
  BY <1>2, KickPlayerOK
<1>3. ASSUME NEW s \in Sessions, CloseSocket(s) PROVE IInv' /\ Fair
  BY <1>3, CloseSocketOK
<1>4. CASE AddSession_
  BY <1>4, AddSession_OK
<1>5. CASE StartVisits
  BY <1>5, StartVisitsOK
<1>6. ASSUME NEW a \in Accounts, UpdateSession(a) PROVE IInv' /\ Fair
  BY <1>6, UpdateSessionOK
<1>7. CASE EndUpdate
  BY <1>7, EndUpdateOK
<1>8. CASE KickAll
  <2>1. stopping'
    BY <1>8 DEF KickAll
  <2>2. QED
    BY <1>8, <2>1, KickAllOK
<1>9. CASE UNCHANGED vars
  BY <1>9, StutterOK
<1>10. QED
  BY <1>1, <1>2, <1>3, <1>4, <1>5, <1>6, <1>7, <1>8, <1>9 DEF Next, UpdateSessions

LEMMA Inductive == Spec => []IInv
<1>1. Init => IInv
  BY InitOK
<1>2. IInv /\ [Next]_vars => IInv'
  BY NextOK
<1>3. QED
  BY <1>1, <1>2, PTL DEF Spec

\* The queue of those who wait and the lists of sessions agree: nobody waits
\* twice, who waits has a session of his own and no character in the world,
\* and knows the position he has in the queue (World::RemoveQueuedPlayer and
\* AddSession_).
THEOREM QueueStaysConsistent == Spec => []QueueIsConsistent
<1>1. IInv => QueueIsConsistent
  <2> SUFFICES ASSUME IInv PROVE QueueIsConsistent
    OBVIOUS
  <2>1. TypeOK
    BY DEF IInv
  <2>2. \A a \in Listed : Exists(m_sessions[a]) /\ session[m_sessions[a]].account = a
    BY DEF IInv, Lists, Exists
  <2>3. \A s \in Range(addSessQueue) : Exists(s) /\ \A a \in Accounts : m_sessions[a] # s
    BY DEF IInv, Lists, Exists
  <2>4. IsInjective(m_QueuedPlayer) /\ IsInjective(addSessQueue)
    BY DEF IInv, Lists, Queues
  <2>5. \A s \in Range(m_QueuedPlayer) : \E a \in Listed : m_sessions[a] = s
    BY DEF IInv, Lists, Waiters
  <2>6. ~stopping =>
            \A s \in Sessions : Exists(s) =>
                /\ session[s].inQueue <=> s \in Range(m_QueuedPlayer)
                /\ session[s].inQueue => /\ session[s].character = "none"
                                         /\ session[s].told = Position(m_QueuedPlayer, s)
    BY DEF IInv, Lists, Told, Exists
  <2>7. QED
    BY <2>1, <2>2, <2>3, <2>4, <2>5, <2>6 DEF QueueIsConsistent
<1>2. QED
  BY <1>1, Inductive, PTL

\* No more players are in the game than the limit allows, but for the exempt;
\* nobody waits while there is a place; and a session whose socket is lost is
\* gone after ExpireTime updates (World::UpdateSessions, WorldSession::Update).
THEOREM PlacesStayShared == Spec => []PlacesAreShared
<1>1. IInv => PlacesAreShared
  <2> SUFFICES ASSUME IInv PROVE PlacesAreShared
    OBVIOUS
  <2>1. InGame(m_QueuedPlayer) = Active
    BY DEF InGame, Active
  <2>2. (PlayerLimit > 0 /\ ~stopping) => Cardinality({a \in Active : ~Exempt(a)}) <= PlayerLimit
    BY <2>1 DEF IInv, Balanced, Limited
  <2>3. m_QueuedPlayer # <<>> => PlayerLimit > 0 /\ Cardinality(Active) >= PlayerLimit
    BY <2>1 DEF IInv, Balanced
  <2>4. ASSUME NEW a \in Listed PROVE session[m_sessions[a]].late <= ExpireTime
    <3> DEFINE v == session[m_sessions[a]]
    <3>1. v \in SessionType /\ Timely(v, Extra(a))
      BY ListedOK DEF IInv, Times
    <3> HIDE DEF v
    <3>2. /\ v.late \in Nat /\ v.expireTime \in Nat /\ ExpireTime \in Nat
          /\ v.expireTime >= 1 /\ v.late + v.expireTime <= ExpireTime + Extra(a)
      BY <3>1, SessionFields, SessionAssumption DEF Timely
    <3>3. Extra(a) \in 0..1
      BY DEF Extra
    <3>4. QED
      BY <3>2, <3>3 DEF v
  <2>5. QED
    BY <2>2, <2>3, <2>4 DEF PlacesAreShared
<1>2. QED
  BY <1>1, Inductive, PTL

\* In every step until the server stops, whoever waits is overtaken by nobody
\* (World::AddQueuedPlayer and RemoveQueuedPlayer).
THEOREM QueueIsFair == Spec => NobodyOvertakes
<1> DEFINE Body ==
        ~stopping' =>
            /\ \A x \in Range(m_QueuedPlayer) \cap Range(m_QueuedPlayer') :
                   \A k \in 1..(Position(m_QueuedPlayer', x) - 1) :
                       \E j \in 1..(Position(m_QueuedPlayer, x) - 1) :
                           m_QueuedPlayer[j] = m_QueuedPlayer'[k]
            /\ \A x \in Range(m_QueuedPlayer) \ Range(m_QueuedPlayer') :
                   session'[x] # NoSession =>
                       \A j \in 1..(Position(m_QueuedPlayer, x) - 1) :
                           m_QueuedPlayer[j] \notin Range(m_QueuedPlayer')
            /\ \A a \in Accounts :
                   (m_sessions'[a] \notin {None, m_sessions[a]} /\ m_QueuedPlayer # <<>>)
                       => Exempt(a) \/ m_sessions'[a] \in Range(m_QueuedPlayer')
<1>1. IInv /\ [Next]_vars => [Body]_vars
  <2> SUFFICES ASSUME IInv, [Next]_vars, ~stopping' PROVE Body
    OBVIOUS
  <2>1. Fair
    BY NextOK
  <2>2. \A x \in Range(m_QueuedPlayer) \cap Range(m_QueuedPlayer') :
            \A k \in 1..(Position(m_QueuedPlayer', x) - 1) :
                \E j \in 1..(Position(m_QueuedPlayer, x) - 1) :
                    m_QueuedPlayer[j] = m_QueuedPlayer'[k]
    BY <2>1 DEF Fair, Ahead
  <2>3. \A x \in Range(m_QueuedPlayer) \ Range(m_QueuedPlayer') :
            session'[x] # NoSession =>
                \A j \in 1..(Position(m_QueuedPlayer, x) - 1) :
                    m_QueuedPlayer[j] \notin Range(m_QueuedPlayer')
    BY <2>1 DEF Fair, Ahead
  <2>4. QED
    BY <2>1, <2>2, <2>3 DEF Fair
<1>2. QED
  BY <1>1, Inductive, PTL DEF Spec, NobodyOvertakes

================================================================================
