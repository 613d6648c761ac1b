----------------------- MODULE BattlegroundQueueProofs -----------------------
(***************************************************************************)
(* Proofs about BattlegroundQueue, for any players, battlegrounds and      *)
(* sizes.  First what the folds of the model select, then what each step   *)
(* does to the queue's groups, the battlegrounds and their counts, then    *)
(* the invariant IInv, one action at a time, and the theorems.             *)
(***************************************************************************)
EXTENDS BattlegroundQueue, SequenceTheorems, FiniteSetTheorems, WellFoundedInduction, TLAPS

(* What the queue, the battlegrounds and the players know of each other.  q is *)
(* a queue, b battlegrounds, told what each player was invited to.            *)

GroupType ==
    [players : SUBSET Players, bg : Instances \cup {NoBattleground}, left : 0..InviteWait]

GroupsIn(q) == UNION {ToSet(q[k][t]) : k \in Kinds, t \in Teams}
Members(S) == UNION {g.players : g \in S}

\* Who is in the queue, and who of them is invited to i; those who are invited
\* to NoBattleground still wait.
InQueue(q) == Members(GroupsIn(q))
Invitees(q, i) == Members({g \in GroupsIn(q) : g.bg = i})

QueueOK(q) ==
    /\ q \in [Kinds -> [Teams -> Seq(GroupType)]]
    /\ \A k \in Kinds, t \in Teams : \A g \in ToSet(q[k][t]) :
           g.players # {} /\ \A p \in g.players : Team[p] = t

\* Nobody is in two groups.
OneGroupEach(q) == \A g, h \in GroupsIn(q) : g # h => g.players \cap h.players = {}

BattlegroundType ==
    [status : {"none", "join", "progress", "leave"}, players : SUBSET Players,
     invited : [Teams -> Int], offline : Seq(Players)]

\* Who is in an offline queue is a player of a battle that goes on.
OfflineOK(b) ==
    \A i \in Instances : b[i].status \in {"join", "progress"} =>
        /\ \A n \in 1..Len(b[i].offline) :
               ~online[b[i].offline[n]] /\ b[i].offline[n] \in b[i].players
        /\ \A m, n \in 1..Len(b[i].offline) : m # n => b[i].offline[m] # b[i].offline[n]

BattlegroundsOK(b) ==
    /\ b \in [Instances \cup {0} -> BattlegroundType \cup [max : Capacities]]
    /\ b[0] \in [max : Capacities] /\ \A i \in Instances : b[i] \in BattlegroundType
    /\ \A i \in Instances : b[i].status = "none" => b[i] = Deleted
    /\ OfflineOK(b)

PlayersOK ==
    /\ used \in [Players -> BOOLEAN] /\ online \in [Players -> BOOLEAN]
    /\ bgId \in [Players -> Instances \cup {NoBattleground}]
    /\ where \in [Players -> {"world", "teleport", "battleground"}]

\* Who waits is connected and not in a battle; his slot names his invitation.
QueuedOK(q, told) ==
    /\ told \in [Players -> Instances \cup {NoBattleground}]
    /\ \A i \in Instances \cup {NoBattleground} : \A p \in Invitees(q, i) :
           online[p] /\ used[p] /\ where[p] = "world" /\ told[p] = i

\* Who travels or fights has a slot for the battleground.
BusyOK(b, told) ==
    /\ \A p \in Players : where[p] = "teleport" =>
           online[p] /\ used[p] /\ bgId[p] \in Instances /\ told[p] = bgId[p]
    /\ \A p \in Players : (where[p] = "battleground" /\ online[p]) =>
           used[p] /\ bgId[p] \in Instances /\ told[p] = bgId[p] /\ p \in b[bgId[p]].players
    /\ \A i \in Instances : \A p \in b[i].players : where[p] = "battleground" /\ bgId[p] = i

\* A slot is for waiting, travelling or fighting.
SlotsOK(q) ==
    \A p \in Players : used[p] =>
        online[p] /\ (where[p] # "world" \/ p \in InQueue(q))

\* Who has a place in battleground i.
Expected(q, b, i) ==
    Invitees(q, i) \cup {p \in Players : where[p] = "teleport" /\ bgId[p] = i} \cup b[i].players

OfTeam(S, t) == {p \in S : Team[p] = t}

CountsOK(q, b) ==
    \A i \in Instances, t \in Teams :
        /\ b[i].invited[t] = Cardinality(OfTeam(Expected(q, b, i), t))
        /\ b[i].invited[t] <= b[0].max

Consistent(q, b, told) ==
    /\ QueueOK(q) /\ OneGroupEach(q) /\ BattlegroundsOK(b)
    /\ QueuedOK(q, told) /\ BusyOK(b, told) /\ SlotsOK(q) /\ CountsOK(q, b)

EventType == [player : Players, bg : Instances, left : 0..InviteWait]

IInv ==
    /\ Consistent(queue, bg, invitedTo) /\ PlayersOK
    /\ freeSlots \in Seq(Instances) /\ events \in SUBSET EventType /\ scheduled \in BOOLEAN

------------------------------------------------------------------------------
(* Folds.  A fold over a list is a recursive function on the sets of its       *)
(* places, which takes the last place out; that there is one, and what it      *)
(* gives, follows by induction on the length.                                  *)

\* A set of natural numbers has a least one.
LEMMA LeastNumber ==
    ASSUME NEW T, T \subseteq Nat, T # {}
    PROVE  \E m \in T : \A k \in T : m <= k
<1> DEFINE Below == {p \in Nat \X Nat : p[1] < p[2]}
<1>1. IsWellFoundedOn(Below, Nat)
  BY ONLY NatLessThanWellFounded, Zenon DEF OpToRel
<1> HIDE DEF Below
<1>2. \E m \in T : \A k \in T : <<k, m>> \notin Below
  BY <1>1, WFMin
<1>3. PICK m \in T : \A k \in T : <<k, m>> \notin Below
  BY <1>2
<1>4. ASSUME NEW k \in T PROVE m <= k
  <2>1. k \in Nat /\ m \in Nat /\ <<k, m>> \in Nat \X Nat /\ ~(<<k, m>> \in Below)
    BY <1>3
  <2>2. ~(k < m)
    BY <2>1 DEF Below
  <2>3. QED
    BY <2>1, <2>2
<1>5. QED
  BY <1>4

\* The greatest of some places, which a fold takes last.
LEMMA TopIs ==
    ASSUME NEW n \in Nat, NEW T \in SUBSET (1..n), T # {}
    PROVE  Max(T) \in T /\ \A k \in T : k <= Max(T)
<1> DEFINE D == {n - k : k \in T}
<1>1. D \subseteq Nat /\ D # {}
  <2>1. \A k \in T : k \in 1..n /\ n - k \in Nat
    OBVIOUS
  <2>2. QED
    BY <2>1
<1>2. PICK m \in D : \A k \in D : m <= k
  BY <1>1, LeastNumber
<1>3. PICK x \in T : m = n - x
  BY <1>2
<1>4. \A k \in T : k <= x
  <2> SUFFICES ASSUME NEW k \in T PROVE k <= x
    OBVIOUS
  <2>1. n - k \in D
    OBVIOUS
  <2>2. m <= n - k
    BY <1>2, <2>1
  <2>3. QED
    BY <1>3, <2>2
<1>5. \E z \in T : \A k \in T : z >= k
  BY <1>4
<1>6. QED
  BY <1>5 DEF Max

\* What holds of no place, and of places when it holds without the last, holds
\* of all; Good are the sets of places of which it holds.
LEMMA FoldInduct ==
    ASSUME NEW n \in Nat, NEW Good, {} \in Good,
           \A T \in SUBSET (1..n) : T # {} /\ T \ {Max(T)} \in Good => T \in Good
    PROVE  SUBSET (1..n) \subseteq Good
<1> DEFINE Bad == {k \in 0..n : ~(SUBSET (1..k) \subseteq Good)}
<1> SUFFICES ASSUME Bad # {} PROVE FALSE
  <2>1. n \notin Bad
    OBVIOUS
  <2>2. QED
    BY <2>1
<1>1. PICK k \in Bad : \A m \in Bad : k <= m
  <2>1. Bad \subseteq Nat
    OBVIOUS
  <2> HIDE DEF Bad
  <2>2. QED
    BY <2>1, LeastNumber
<1>2. PICK T \in SUBSET (1..k) : T \notin Good
  OBVIOUS
<1>3. k \in 0..n /\ T # {} /\ T \in SUBSET (1..n)
  BY <1>2
<1>4. Max(T) \in T /\ \A j \in T : j <= Max(T)
  BY <1>3, TopIs
<1>5. T \ {Max(T)} \in SUBSET (1..(Max(T) - 1)) /\ Max(T) - 1 \in 0..n /\ Max(T) - 1 < k
  <2>1. PICK top : top = Max(T)
    OBVIOUS
  <2>2. top \in 1..k /\ \A j \in T : j \in 1..k /\ j <= top
    BY <1>2, <1>4, <2>1
  <2>3. \A j \in T \ {top} : j \in 1..(top - 1)
    BY <1>3, <2>2
  <2>4. T \ {top} \in SUBSET (1..(top - 1))
    BY <2>3
  <2>5. top - 1 \in 0..n /\ top - 1 < k
    BY <1>3, <2>2
  <2>6. QED
    BY <2>1, <2>4, <2>5
<1>6. Max(T) - 1 \notin Bad
  <2> HIDE DEF Bad
  <2>1. ASSUME Max(T) - 1 \in Bad PROVE FALSE
    <3>1. k <= Max(T) - 1
      BY <1>1, <2>1
    <3>2. QED
      BY <1>3, <1>5, <3>1
  <2>2. QED
    BY <2>1
<1>7. T \ {Max(T)} \in Good
  BY <1>5, <1>6
<1>8. QED
  BY <1>2, <1>3, <1>7

\* The fold of a step that stays in X.
Folder(X, n, base, step, f) ==
    /\ f \in [SUBSET (1..n) -> X]
    /\ \A T \in SUBSET (1..n) :
           f[T] = IF T = {} THEN base ELSE step[<<f[T \ {Max(T)}], Max(T)>>]

\* The folds of the community modules have the recursion they are defined by.
LEMMA FolderExists ==
    ASSUME NEW X, NEW n \in Nat, NEW base \in X, NEW step \in [X \X (1..n) -> X]
    PROVE  \E f : Folder(X, n, base, step, f)
<1> DEFINE Is(k, f) == \A T \in SUBSET (1..k) :
               f[T] = IF T = {} THEN base ELSE step[<<f[T \ {Max(T)}], Max(T)>>]
           Bad == {k \in 0..n : ~ \E f \in [SUBSET (1..k) -> X] : Is(k, f)}
<1> SUFFICES Bad = {}
  <2> HIDE DEF Is
  <2>1. n \in 0..n
    OBVIOUS
  <2>2. \E f \in [SUBSET (1..n) -> X] : Is(n, f)
    BY <2>1
  <2>3. QED
    BY <2>2, Zenon DEF Is, Folder
<1> SUFFICES ASSUME Bad # {} PROVE FALSE
  OBVIOUS
<1>1. PICK k \in Bad : \A m \in Bad : k <= m
  <2>1. Bad \subseteq Nat
    OBVIOUS
  <2> HIDE DEF Bad
  <2>2. QED
    BY <2>1, LeastNumber
<1>2. k # 0
  <2>1. ASSUME k = 0 PROVE FALSE
    <3> DEFINE f == [T \in SUBSET (1..k) |-> base]
    <3>1. f \in [SUBSET (1..k) -> X] /\ \A T \in SUBSET (1..k) : T = {} /\ f[T] = base
      BY <2>1
    <3>2. Is(k, f)
      BY <3>1
    <3>3. QED
      BY <3>1, <3>2
  <2>2. QED
    BY <2>1
<1>3. k \in 1..n /\ k - 1 \in 0..n /\ k - 1 \notin Bad
  <2>1. k \in 0..n
    OBVIOUS
  <2> HIDE DEF Bad
  <2>2. k \in 1..n /\ k - 1 \in 0..n /\ ~(k <= k - 1)
    BY <1>2, <2>1
  <2>3. QED
    BY <1>1, <2>2
<1>4. PICK f \in [SUBSET (1..(k - 1)) -> X] : Is(k - 1, f)
  BY <1>3
<1> DEFINE h == [T \in SUBSET (1..k) |-> IF k \in T THEN step[<<f[T \ {k}], k>>] ELSE f[T]]
<1>5. \A T \in SUBSET (1..k) : T \ {k} \in SUBSET (1..(k - 1)) /\ (k \notin T => T \in SUBSET (1..(k - 1)))
  BY <1>3
<1>6. h \in [SUBSET (1..k) -> X]
  <2> SUFFICES ASSUME NEW T \in SUBSET (1..k) PROVE h[T] \in X
    OBVIOUS
  <2>1. f[T \ {k}] \in X
    BY <1>5
  <2>2. <<f[T \ {k}], k>> \in X \X (1..n)
    BY <1>3, <2>1
  <2>3. step[<<f[T \ {k}], k>>] \in X
    BY <2>2
  <2>4. QED
    BY <1>5, <2>3
<1>7. Is(k, h)
  <2> SUFFICES ASSUME NEW T \in SUBSET (1..k)
               PROVE  h[T] = IF T = {} THEN base ELSE step[<<h[T \ {Max(T)}], Max(T)>>]
    OBVIOUS
  <2>0. k \in Nat
    BY <1>3
  <2>1. CASE k \in T
    <3>1. Max(T) \in T /\ \A j \in T : j <= Max(T)
      BY <2>0, <2>1, TopIs
    <3>2. Max(T) = k
      <4>1. PICK top : top = Max(T)
        OBVIOUS
      <4>2. top \in 1..k /\ k <= top
        BY <2>1, <3>1, <4>1
      <4>3. QED
        BY <2>0, <4>1, <4>2
    <3>3. T \ {k} \in SUBSET (1..k) /\ k \notin T \ {k}
      OBVIOUS
    <3>4. h[T \ {k}] = f[T \ {k}] /\ h[T] = step[<<f[T \ {k}], k>>]
      BY <2>1, <3>3
    <3>5. QED
      BY <2>1, <3>2, <3>4
  <2>2. CASE k \notin T
    <3>1. T \in SUBSET (1..(k - 1))
      BY <1>5, <2>2
    <3>2. T \ {Max(T)} \in SUBSET (1..k) /\ k \notin T \ {Max(T)}
      BY <2>2
    <3>3. h[T] = f[T] /\ h[T \ {Max(T)}] = f[T \ {Max(T)}]
      BY <2>2, <3>2
    <3>4. f[T] = IF T = {} THEN base ELSE step[<<f[T \ {Max(T)}], Max(T)>>]
      BY <1>4, <3>1
    <3>5. QED
      BY <3>3, <3>4
  <2>3. QED
    BY <2>1, <2>2
<1>8. QED
  BY <1>3, <1>6, <1>7

\* What Within folds.
Keeper(list, S, f) ==
    f = [T \in SUBSET (DOMAIN list) |->
            IF T = {} THEN <<>>
            ELSE IF list[Max(T)] \in S THEN Append(f[T \ {Max(T)}], list[Max(T)])
            ELSE f[T \ {Max(T)}]]

\* Within takes the places of a list one at a time.
LEMMA WithinUnfolds ==
    ASSUME NEW list, NEW S
    PROVE  Within(list, S) = (CHOOSE f : Keeper(list, S, f))[DOMAIN list]
  BY DEF Within, FoldLeft, MapThenFoldSet, Keeper

\* Within is such a fold.
LEMMA KeeperExists ==
    ASSUME NEW X, NEW list \in Seq(X), NEW S
    PROVE  \E f : Keeper(list, S, f)
<1> DEFINE n == Len(list)
           Y == Seq(X)
           step == [w \in Y \X (1..n) |->
                        IF list[w[2]] \in S THEN Append(w[1], list[w[2]]) ELSE w[1]]
<1>1. n \in Nat /\ DOMAIN list = 1..n /\ <<>> \in Y /\ \A i \in 1..n : list[i] \in X
  OBVIOUS
<1>2. step \in [Y \X (1..n) -> Y]
  <2> SUFFICES ASSUME NEW w \in Y \X (1..n) PROVE step[w] \in Y
    OBVIOUS
  <2>1. w[1] \in Seq(X) /\ list[w[2]] \in X
    BY <1>1
  <2>2. Append(w[1], list[w[2]]) \in Seq(X)
    BY <2>1, AppendProperties
  <2>3. QED
    BY <2>1, <2>2
<1> HIDE DEF step
<1>3. PICK f \in [SUBSET (1..n) -> Y] : \A T \in SUBSET (1..n) :
          f[T] = IF T = {} THEN <<>> ELSE step[<<f[T \ {Max(T)}], Max(T)>>]
  <2> HIDE DEF n, Y
  <2>1. <<>> \in Y /\ n \in Nat /\ step \in [Y \X (1..n) -> Y]
    BY <1>1, <1>2
  <2>2. \E f : Folder(Y, n, <<>>, step, f)
    BY <2>1, FolderExists
  <2>3. QED
    BY <2>2 DEF Folder
<1>4. ASSUME NEW T \in SUBSET (1..n), T # {}
      PROVE  f[T] = IF list[Max(T)] \in S THEN Append(f[T \ {Max(T)}], list[Max(T)])
                    ELSE f[T \ {Max(T)}]
  <2>1. Max(T) \in 1..n
    BY <1>1, <1>4, TopIs
  <2>2. f[T \ {Max(T)}] \in Y
    BY <1>3
  <2>3. <<f[T \ {Max(T)}], Max(T)>> \in Y \X (1..n)
    BY <2>1, <2>2
  <2>4. step[<<f[T \ {Max(T)}], Max(T)>>] =
            IF list[Max(T)] \in S THEN Append(f[T \ {Max(T)}], list[Max(T)]) ELSE f[T \ {Max(T)}]
    <3> DEFINE w == <<f[T \ {Max(T)}], Max(T)>>
    <3>1. w \in Y \X (1..n) /\ w[1] = f[T \ {Max(T)}] /\ w[2] = Max(T)
      BY <2>3
    <3> HIDE DEF w
    <3>2. step[w] = IF list[w[2]] \in S THEN Append(w[1], list[w[2]]) ELSE w[1]
      BY <3>1 DEF step
    <3>3. QED
      BY <3>1, <3>2 DEF w
  <2>5. QED
    BY <1>3, <1>4, <2>4
<1>5. \A T \in SUBSET (DOMAIN list) :
          f[T] = IF T = {} THEN <<>>
                 ELSE IF list[Max(T)] \in S THEN Append(f[T \ {Max(T)}], list[Max(T)])
                 ELSE f[T \ {Max(T)}]
  BY <1>1, <1>3, <1>4
<1>6. f = [T \in SUBSET (DOMAIN list) |-> f[T]]
  BY <1>1, <1>3
<1>7. QED
  BY <1>5, <1>6 DEF Keeper

Places(s) == 1..Len(s)
Distinct(s) == \A m, n \in Places(s) : m # n => s[m] # s[n]

\* An element is added that is not there yet.
LEMMA AppendSet ==
    ASSUME NEW X, NEW s \in Seq(X), NEW x \in X
    PROVE  /\ Append(s, x) \in Seq(X) /\ ToSet(Append(s, x)) = ToSet(s) \cup {x}
           /\ Distinct(s) /\ x \notin ToSet(s) => Distinct(Append(s, x))
<1> DEFINE a == Append(s, x)
           n == Len(s)
<1>1. /\ a \in Seq(X) /\ n \in Nat /\ Len(a) = n + 1 /\ DOMAIN s = 1..n /\ DOMAIN a = 1..(n + 1)
      /\ a[n + 1] = x /\ \A i \in 1..n : a[i] = s[i]
  BY AppendProperties
<1> HIDE DEF a, n
<1>2. \A i \in 1..(n + 1) : i = n + 1 \/ i \in 1..n
  BY <1>1
<1>3. ToSet(a) = ToSet(s) \cup {x}
  <2>1. \A y \in ToSet(a) : y \in ToSet(s) \cup {x}
    BY <1>1, <1>2 DEF ToSet
  <2>2. \A y \in ToSet(s) : y \in ToSet(a)
    BY <1>1 DEF ToSet
  <2>3. x \in ToSet(a)
    BY <1>1 DEF ToSet
  <2>4. QED
    BY <2>1, <2>2, <2>3
<1>4. ASSUME Distinct(s), x \notin ToSet(s), NEW i \in 1..(n + 1), NEW j \in 1..(n + 1), i # j
      PROVE  a[i] # a[j]
  <2>1. \A k \in 1..n : s[k] # x
    BY <1>1, <1>4 DEF ToSet
  <2>2. CASE i = n + 1
    BY <1>1, <1>2, <1>4, <2>1, <2>2
  <2>3. CASE j = n + 1
    BY <1>1, <1>2, <1>4, <2>1, <2>3
  <2>4. CASE i \in 1..n /\ j \in 1..n
    BY <1>1, <1>4, <2>4 DEF Distinct, Places, n
  <2>5. QED
    BY <1>2, <2>2, <2>3, <2>4
<1>5. QED
  BY <1>1, <1>3, <1>4 DEF Distinct, Places, a

\* What Within gives.
LEMMA WithinOK ==
    ASSUME NEW X, NEW list \in Seq(X), NEW S
    PROVE  /\ Within(list, S) \in Seq(X) /\ ToSet(Within(list, S)) = ToSet(list) \cap S
           /\ Distinct(list) => Distinct(Within(list, S))
<1> DEFINE n == Len(list)
           At(T) == {list[i] : i \in T} \cap S
<1>1. n \in Nat /\ DOMAIN list = 1..n /\ \A i \in 1..n : list[i] \in X
  OBVIOUS
<1>2. PICK f : Keeper(list, S, f) /\ Within(list, S) = f[DOMAIN list]
  BY KeeperExists, WithinUnfolds
<1> DEFINE Good == {T \in SUBSET (1..n) :
                        /\ f[T] \in Seq(X) /\ ToSet(f[T]) = At(T)
                        /\ Distinct(list) => Distinct(f[T])}
<1>3. {} \in Good
  <2>1. f[{}] = <<>>
    BY <1>1, <1>2 DEF Keeper
  <2>2. <<>> \in Seq(X) /\ ToSet(<<>>) = {} /\ Distinct(<<>>)
    BY DEF ToSet, Distinct, Places
  <2>3. At({}) = {}
    OBVIOUS
  <2>4. QED
    BY <2>1, <2>2, <2>3
<1>4. ASSUME NEW T \in SUBSET (1..n), T # {}, T \ {Max(T)} \in Good
      PROVE  T \in Good
  <2> DEFINE R == T \ {Max(T)}
             x == list[Max(T)]
  <2>1. Max(T) \in T /\ x \in X
    BY <1>1, <1>4, TopIs
  <2>2. f[T] = IF x \in S THEN Append(f[R], x) ELSE f[R]
    BY <1>1, <1>2, <1>4 DEF Keeper
  <2>3. f[R] \in Seq(X) /\ ToSet(f[R]) = At(R) /\ (Distinct(list) => Distinct(f[R]))
    BY <1>4
  <2>4. At(T) = IF x \in S THEN At(R) \cup {x} ELSE At(R)
    BY <2>1
  <2>5. Distinct(list) => x \notin At(R)
    <3> SUFFICES ASSUME Distinct(list), NEW i \in R PROVE list[i] # x
      OBVIOUS
    <3>1. i \in 1..n /\ Max(T) \in 1..n /\ i # Max(T)
      BY <2>1
    <3>2. QED
      BY <3>1 DEF Distinct, Places
  <2> HIDE DEF At, R, x, n
  <2>6. /\ f[T] \in Seq(X) /\ ToSet(f[T]) = At(T)
        /\ Distinct(list) => Distinct(f[T])
    <3>1. CASE x \in S
      <4>1. PICK s : s = f[R]
        OBVIOUS
      <4>2. s \in Seq(X) /\ f[T] = Append(s, x)
        BY <2>2, <2>3, <3>1, <4>1
      <4>3. /\ Append(s, x) \in Seq(X) /\ ToSet(Append(s, x)) = ToSet(s) \cup {x}
            /\ Distinct(s) /\ x \notin ToSet(s) => Distinct(Append(s, x))
        BY <2>1, <4>2, AppendSet
      <4>4. QED
        BY <2>3, <2>4, <2>5, <3>1, <4>1, <4>2, <4>3
    <3>2. CASE x \notin S
      BY <2>2, <2>3, <2>4, <3>2
    <3>3. QED
      BY <3>1, <3>2
  <2>7. QED
    BY <1>4, <2>6
<1>5. SUBSET (1..n) \subseteq Good
  <2> HIDE DEF Good, n
  <2>1. \A T \in SUBSET (1..n) : T # {} /\ T \ {Max(T)} \in Good => T \in Good
    BY <1>4
  <2>2. QED
    BY <1>1, <1>3, <2>1, FoldInduct
<1>6. 1..n \in Good
  BY <1>5
<1>7. At(1..n) = ToSet(list) \cap S
  BY <1>1 DEF ToSet
<1>8. QED
  BY <1>1, <1>2, <1>6, <1>7

------------------------------------------------------------------------------
(* The groups that are selected, from G and for at most lim players.           *)

PoolType == [groups : SUBSET GroupType, count : Int, full : BOOLEAN]

Selection(G, lim) ==
    {pool \in PoolType : /\ pool.groups \subseteq {g \in G : g.bg = NoBattleground}
                         /\ Cardinality(Members(pool.groups)) <= pool.count
                         /\ pool.count <= lim}

\* Any set of players can be counted.
LEMMA FinitePlayers ==
    ASSUME NEW S \in SUBSET Players
    PROVE  IsFiniteSet(S) /\ Cardinality(S) \in Nat
  BY QueueAssumption, FS_Subset, FS_CardinalityType

\* The pool a selection begins with.
LEMMA PoolSelected == ASSUME NEW G, NEW lim \in Nat PROVE Pool \in Selection(G, lim)
<1>1. Members({}) = {} /\ Cardinality({}) = 0
  BY FS_EmptySet DEF Members
<1>2. Pool \in PoolType /\ Pool.groups = {} /\ Pool.count = 0
  BY DEF Pool, PoolType
<1>3. QED
  BY <1>1, <1>2 DEF Selection

\* SelectionPool::AddGroup keeps a pool right and within its size.
LEMMA SelectGroupOK ==
    ASSUME NEW G \in SUBSET GroupType, NEW lim \in Nat, NEW pool \in Selection(G, lim),
           NEW g \in G, NEW desired \in Int, desired <= lim
    PROVE  SelectGroup(pool, g, desired) \in Selection(G, lim)
<1> DEFINE out == SelectGroup(pool, g, desired)
<1>1. /\ pool \in PoolType /\ pool.count \in Int /\ pool.groups \in SUBSET GroupType
      /\ pool.groups \subseteq {h \in G : h.bg = NoBattleground}
      /\ Cardinality(Members(pool.groups)) <= pool.count /\ pool.count <= lim
  BY DEF Selection, PoolType
<1>2. g \in GroupType /\ g.players \in SUBSET Players
  BY DEF GroupType
<1>3. IsFiniteSet(g.players) /\ Size(g) \in Nat
  BY <1>2, FinitePlayers DEF Size
<1>4. CASE g.bg = NoBattleground /\ desired >= pool.count + Size(g)
  <2>1. out = [pool EXCEPT !.groups = @ \cup {g}, !.count = @ + Size(g)]
    BY <1>4 DEF SelectGroup
  <2>2. out \in PoolType /\ out.groups = pool.groups \cup {g} /\ out.count = pool.count + Size(g)
    <3>1. PICK S, c : S = pool.groups \cup {g} /\ c = pool.count + Size(g)
      OBVIOUS
    <3>2. S \in SUBSET GroupType /\ c \in Int
      BY <1>1, <1>2, <1>3, <3>1
    <3>3. out = [pool EXCEPT !.groups = S, !.count = c]
      BY <2>1, <3>1
    <3> HIDE DEF out
    <3>4. out \in PoolType /\ out.groups = S /\ out.count = c
      BY <1>1, <3>2, <3>3 DEF PoolType
    <3>5. QED
      BY <3>1, <3>4
  <2>3. Cardinality(Members(out.groups)) <= out.count
    <3> DEFINE M == Members(pool.groups)
    <3>1. Members(out.groups) = M \cup g.players
      BY <2>2 DEF Members
    <3>2. M \in SUBSET Players
      BY <1>1 DEF Members, GroupType
    <3>3. IsFiniteSet(M) /\ Cardinality(M) \in Nat
      BY <3>2, FinitePlayers
    <3>4. Cardinality(M \cap g.players) \in Nat
      BY <3>2, FinitePlayers
    <3> HIDE DEF M
    <3>5. Cardinality(M \cup g.players) =
              Cardinality(M) + Cardinality(g.players) - Cardinality(M \cap g.players)
      BY <1>3, <3>3, FS_Union
    <3>6. Cardinality(M) <= pool.count
      BY <1>1 DEF M
    <3>7. Cardinality(Members(out.groups)) <= Cardinality(M) + Size(g)
      BY <1>3, <3>1, <3>3, <3>4, <3>5 DEF Size
    <3>8. PICK a, c, d : a = Cardinality(Members(out.groups)) /\ c = Cardinality(M) /\ d = Size(g)
      OBVIOUS
    <3>9. a \in Nat /\ c \in Nat /\ d \in Nat /\ a <= c + d /\ c <= pool.count
      <4>1. Members(out.groups) \in SUBSET Players
        BY <1>2, <3>1, <3>2 DEF M
      <4>2. QED
        BY <1>3, <3>3, <3>6, <3>7, <3>8, <4>1, FinitePlayers
    <3>10. QED
      BY <1>1, <2>2, <3>8, <3>9
  <2>4. out.count <= lim
    BY <1>1, <1>3, <1>4, <2>2
  <2>5. QED
    BY <1>1, <1>4, <2>2, <2>3, <2>4 DEF Selection
<1>5. CASE ~(g.bg = NoBattleground /\ desired >= pool.count + Size(g))
  <2>1. out = [pool EXCEPT !.full = pool.count >= desired]
    BY <1>5 DEF SelectGroup
  <2>2. out \in PoolType /\ out.groups = pool.groups /\ out.count = pool.count
    <3>1. PICK v : v = (pool.count >= desired)
      OBVIOUS
    <3>2. v \in BOOLEAN /\ out = [pool EXCEPT !.full = v]
      BY <2>1, <3>1
    <3> HIDE DEF out
    <3>3. QED
      BY <1>1, <3>2 DEF PoolType
  <2>3. QED
    BY <1>1, <2>2 DEF Selection
<1>6. QED
  BY <1>4, <1>5

\* What SelectAll folds.
Selector(pool, list, desired, f) ==
    f = [T \in SUBSET (DOMAIN list) |->
            IF T = {} THEN pool
            ELSE IF f[T \ {Max(T)}].full THEN f[T \ {Max(T)}]
            ELSE SelectGroup(f[T \ {Max(T)}], list[Max(T)], desired)]

\* SelectAll takes the groups one at a time.
LEMMA SelectAllUnfolds ==
    ASSUME NEW pool, NEW list, NEW desired
    PROVE  SelectAll(pool, list, desired) = (CHOOSE f : Selector(pool, list, desired, f))[DOMAIN list]
  BY DEF SelectAll, FoldLeft, MapThenFoldSet, Selector

\* What SelectAll selects waits in the list, is counted, and has a place.
LEMMA SelectAllOK ==
    ASSUME NEW G \in SUBSET GroupType, NEW lim \in Nat, NEW pool \in Selection(G, lim),
           NEW list \in Seq(G), NEW desired \in Int, desired <= lim
    PROVE  SelectAll(pool, list, desired) \in Selection(G, lim)
<1> DEFINE n == Len(list)
           Y == Selection(G, lim)
           step == [w \in Y \X (1..n) |->
                        IF w[1].full THEN w[1] ELSE SelectGroup(w[1], list[w[2]], desired)]
<1>1. n \in Nat /\ DOMAIN list = 1..n /\ \A i \in 1..n : list[i] \in G
  OBVIOUS
<1>2. step \in [Y \X (1..n) -> Y]
  <2> SUFFICES ASSUME NEW w \in Y \X (1..n) PROVE step[w] \in Y
    OBVIOUS
  <2>1. w[1] \in Y /\ list[w[2]] \in G
    BY <1>1
  <2> HIDE DEF Y, n
  <2>2. SelectGroup(w[1], list[w[2]], desired) \in Y
    BY <2>1, SelectGroupOK DEF Y
  <2>3. QED
    BY <2>1, <2>2
<1> HIDE DEF step, Y
<1>3. PICK f : Folder(Y, n, pool, step, f)
  <2>1. pool \in Y
    BY DEF Y
  <2>2. QED
    BY <1>1, <1>2, <2>1, FolderExists
<1>4. ASSUME NEW T \in SUBSET (1..n), T # {}
      PROVE  f[T] = IF f[T \ {Max(T)}].full THEN f[T \ {Max(T)}]
                    ELSE SelectGroup(f[T \ {Max(T)}], list[Max(T)], desired)
  <2> DEFINE w == <<f[T \ {Max(T)}], Max(T)>>
  <2>1. Max(T) \in 1..n
    BY <1>1, <1>4, TopIs
  <2>2. f[T \ {Max(T)}] \in Y
    BY <1>3 DEF Folder
  <2>3. w \in Y \X (1..n) /\ w[1] = f[T \ {Max(T)}] /\ w[2] = Max(T)
    BY <2>1, <2>2
  <2>4. f[T] = step[w]
    BY <1>3, <1>4 DEF Folder
  <2> HIDE DEF w
  <2>5. step[w] = IF w[1].full THEN w[1] ELSE SelectGroup(w[1], list[w[2]], desired)
    BY <2>3 DEF step
  <2>6. QED
    BY <2>3, <2>4, <2>5
<1>5. Selector(pool, list, desired, f)
  <2>1. f[{}] = pool /\ f = [T \in SUBSET (1..n) |-> f[T]]
    BY <1>3 DEF Folder
  <2>2. QED
    BY <1>1, <1>4, <2>1 DEF Selector
<1>6. PICK h : Selector(pool, list, desired, h) /\ SelectAll(pool, list, desired) = h[DOMAIN list]
  BY <1>5, SelectAllUnfolds
<1> DEFINE Good == {T \in SUBSET (1..n) : h[T] \in Y}
<1>7. {} \in Good
  <2>1. h[{}] = pool
    BY <1>1, <1>6 DEF Selector
  <2>2. QED
    BY <2>1 DEF Y
<1>8. ASSUME NEW T \in SUBSET (1..n), T # {}, T \ {Max(T)} \in Good
      PROVE  T \in Good
  <2>1. h[T] = IF h[T \ {Max(T)}].full THEN h[T \ {Max(T)}]
               ELSE SelectGroup(h[T \ {Max(T)}], list[Max(T)], desired)
    BY <1>1, <1>6, <1>8 DEF Selector
  <2>2. list[Max(T)] \in G /\ h[T \ {Max(T)}] \in Y
    BY <1>1, <1>8, TopIs
  <2>3. SelectGroup(h[T \ {Max(T)}], list[Max(T)], desired) \in Y
    BY <2>2, SelectGroupOK DEF Y
  <2>4. QED
    BY <1>8, <2>1, <2>2, <2>3
<1>9. SUBSET (1..n) \subseteq Good
  <2> HIDE DEF Good, n
  <2>1. \A T \in SUBSET (1..n) : T # {} /\ T \ {Max(T)} \in Good => T \in Good
    BY <1>8
  <2>2. QED
    BY <1>1, <1>7, <2>1, FoldInduct
<1>10. QED
  BY <1>1, <1>6, <1>9 DEF Y

\* The same for SelectEnough.
Collector(list, f) ==
    f = [T \in SUBSET (DOMAIN list) |->
            IF T = {} THEN Pool
            ELSE IF f[T \ {Max(T)}].count >= MinPlayersPerTeam THEN f[T \ {Max(T)}]
            ELSE SelectGroup(f[T \ {Max(T)}], list[Max(T)], MaxPlayersPerTeam)]

\* SelectEnough takes the groups one at a time.
LEMMA SelectEnoughUnfolds ==
    ASSUME NEW list
    PROVE  SelectEnough(list) = (CHOOSE f : Collector(list, f))[DOMAIN list]
  BY DEF SelectEnough, FoldLeft, MapThenFoldSet, Collector

\* What SelectEnough selects waits in the list, is counted, and has a place.
LEMMA SelectEnoughOK ==
    ASSUME NEW G \in SUBSET GroupType, NEW lim \in Nat, NEW list \in Seq(G),
           MaxPlayersPerTeam \in Int, MaxPlayersPerTeam <= lim
    PROVE  SelectEnough(list) \in Selection(G, lim)
<1> DEFINE n == Len(list)
           Y == Selection(G, lim)
           step == [w \in Y \X (1..n) |->
                        IF w[1].count >= MinPlayersPerTeam THEN w[1] ELSE SelectGroup(w[1], list[w[2]], MaxPlayersPerTeam)]
<1>1. n \in Nat /\ DOMAIN list = 1..n /\ \A i \in 1..n : list[i] \in G
  OBVIOUS
<1>2. step \in [Y \X (1..n) -> Y]
  <2> SUFFICES ASSUME NEW w \in Y \X (1..n) PROVE step[w] \in Y
    OBVIOUS
  <2>1. w[1] \in Y /\ list[w[2]] \in G
    BY <1>1
  <2> HIDE DEF Y, n
  <2>2. SelectGroup(w[1], list[w[2]], MaxPlayersPerTeam) \in Y
    BY <2>1, SelectGroupOK DEF Y
  <2>3. QED
    BY <2>1, <2>2
<1> HIDE DEF step, Y
<1>3. PICK f : Folder(Y, n, Pool, step, f)
  <2>1. Pool \in Y
    BY PoolSelected DEF Y
  <2>2. QED
    BY <1>1, <1>2, <2>1, FolderExists
<1>4. ASSUME NEW T \in SUBSET (1..n), T # {}
      PROVE  f[T] = IF f[T \ {Max(T)}].count >= MinPlayersPerTeam THEN f[T \ {Max(T)}]
                    ELSE SelectGroup(f[T \ {Max(T)}], list[Max(T)], MaxPlayersPerTeam)
  <2> DEFINE w == <<f[T \ {Max(T)}], Max(T)>>
  <2>1. Max(T) \in 1..n
    BY <1>1, <1>4, TopIs
  <2>2. f[T \ {Max(T)}] \in Y
    BY <1>3 DEF Folder
  <2>3. w \in Y \X (1..n) /\ w[1] = f[T \ {Max(T)}] /\ w[2] = Max(T)
    BY <2>1, <2>2
  <2>4. f[T] = step[w]
    BY <1>3, <1>4 DEF Folder
  <2> HIDE DEF w
  <2>5. step[w] = IF w[1].count >= MinPlayersPerTeam THEN w[1] ELSE SelectGroup(w[1], list[w[2]], MaxPlayersPerTeam)
    BY <2>3 DEF step
  <2>6. QED
    BY <2>3, <2>4, <2>5
<1>5. Collector(list, f)
  <2>1. f[{}] = Pool /\ f = [T \in SUBSET (1..n) |-> f[T]]
    BY <1>3 DEF Folder
  <2>2. QED
    BY <1>1, <1>4, <2>1 DEF Collector
<1>6. PICK h : Collector(list, h) /\ SelectEnough(list) = h[DOMAIN list]
  BY <1>5, SelectEnoughUnfolds
<1> DEFINE Good == {T \in SUBSET (1..n) : h[T] \in Y}
<1>7. {} \in Good
  <2>1. h[{}] = Pool
    BY <1>1, <1>6 DEF Collector
  <2>2. QED
    BY <2>1, PoolSelected DEF Y
<1>8. ASSUME NEW T \in SUBSET (1..n), T # {}, T \ {Max(T)} \in Good
      PROVE  T \in Good
  <2>1. h[T] = IF h[T \ {Max(T)}].count >= MinPlayersPerTeam THEN h[T \ {Max(T)}]
               ELSE SelectGroup(h[T \ {Max(T)}], list[Max(T)], MaxPlayersPerTeam)
    BY <1>1, <1>6, <1>8 DEF Collector
  <2>2. list[Max(T)] \in G /\ h[T \ {Max(T)}] \in Y
    BY <1>1, <1>8, TopIs
  <2>3. SelectGroup(h[T \ {Max(T)}], list[Max(T)], MaxPlayersPerTeam) \in Y
    BY <2>2, SelectGroupOK DEF Y
  <2>4. QED
    BY <1>8, <2>1, <2>2, <2>3
<1>9. SUBSET (1..n) \subseteq Good
  <2> HIDE DEF Good, n
  <2>1. \A T \in SUBSET (1..n) : T # {} /\ T \ {Max(T)} \in Good => T \in Good
    BY <1>8
  <2>2. QED
    BY <1>1, <1>7, <2>1, FoldInduct
<1>10. QED
  BY <1>1, <1>6, <1>9 DEF Y

------------------------------------------------------------------------------
(* Lists of groups, and who is in them.                                        *)

LEMMA QueueRows ==
    ASSUME NEW q, QueueOK(q), NEW k \in Kinds, NEW t \in Teams
    PROVE  /\ q[k][t] \in Seq(GroupType) /\ ToSet(q[k][t]) \subseteq GroupsIn(q)
           /\ \A g \in ToSet(q[k][t]) : g \in GroupType /\ g.players # {} /\ \A p \in g.players : Team[p] = t
<1>1. q[k][t] \in Seq(GroupType)
  BY DEF QueueOK
<1>2. \A g \in ToSet(q[k][t]) : g \in GroupType
  BY <1>1 DEF ToSet
<1>3. ToSet(q[k][t]) \subseteq GroupsIn(q)
  BY DEF GroupsIn
<1>4. \A g \in ToSet(q[k][t]) : g.players # {} /\ \A p \in g.players : Team[p] = t
  BY DEF QueueOK
<1>5. QED
  BY <1>1, <1>2, <1>3, <1>4

\* A group of the queue.
LEMMA GroupsTyped ==
    ASSUME NEW q, QueueOK(q), NEW g \in GroupsIn(q)
    PROVE  /\ g \in GroupType /\ g.players \in SUBSET Players /\ g.players # {}
           /\ g.bg \in Instances \cup {NoBattleground}
           /\ \E k \in Kinds, t \in Teams : g \in ToSet(q[k][t])
<1>1. PICK k \in Kinds, t \in Teams : g \in ToSet(q[k][t])
  BY DEF GroupsIn
<1>2. g \in GroupType /\ g.players # {}
  BY <1>1, QueueRows
<1>3. QED
  BY <1>1, <1>2 DEF GroupType

\* Everybody in the queue waits or is invited to one battleground.
LEMMA InviteesOK ==
    ASSUME NEW q, QueueOK(q)
    PROVE  /\ InQueue(q) \in SUBSET Players
           /\ \A i : Invitees(q, i) \in SUBSET InQueue(q)
           /\ \A p \in InQueue(q) : \E i \in Instances \cup {NoBattleground} : p \in Invitees(q, i)
<1>1. ASSUME NEW p \in InQueue(q)
      PROVE  p \in Players /\ \E i \in Instances \cup {NoBattleground} : p \in Invitees(q, i)
  <2>1. PICK g \in GroupsIn(q) : p \in g.players
    BY DEF InQueue, Members
  <2>2. g.players \in SUBSET Players /\ g.bg \in Instances \cup {NoBattleground}
    BY GroupsTyped
  <2>3. p \in Invitees(q, g.bg)
    BY <2>1 DEF Invitees, Members
  <2>4. QED
    BY <2>1, <2>2, <2>3
<1>2. \A i : Invitees(q, i) \in SUBSET InQueue(q)
  BY DEF Invitees, InQueue, Members
<1>3. QED
  BY <1>1, <1>2

\* Every group of a list is changed by F.
LEMMA MapRow ==
    ASSUME NEW row \in Seq(GroupType), NEW F, \A g \in GroupType : F[g] \in GroupType,
           NEW new, new = [n \in DOMAIN row |-> F[row[n]]]
    PROVE  new \in Seq(GroupType) /\ ToSet(new) = {F[g] : g \in ToSet(row)}
<1>1. Len(row) \in Nat /\ DOMAIN row = 1..Len(row) /\ \A n \in 1..Len(row) : row[n] \in GroupType
  OBVIOUS
<1>2. new \in [1..Len(row) -> GroupType]
  BY <1>1
<1>3. new \in Seq(GroupType) /\ DOMAIN new = DOMAIN row
  BY <1>1, <1>2
<1>4. QED
  BY <1>3 DEF ToSet

\* Every group is changed by F, takes nobody in, and goes when it is empty.
Changed(q, F) == {F[g] : g \in GroupsIn(q)}
Shrinks(F) == \A g \in GroupType : F[g] \in GroupType /\ F[g].players \subseteq g.players
RowsChanged(q, F, new) ==
    \A k \in Kinds, t \in Teams :
        ToSet(new[k][t]) = {g \in {F[h] : h \in ToSet(q[k][t])} : g.players # {}}

\* Every group of the queue is changed by F.
LEMMA MapQueue ==
    ASSUME NEW q, QueueOK(q), OneGroupEach(q), NEW F, Shrinks(F),
           NEW new, new \in [Kinds -> [Teams -> Seq(GroupType)]],
           RowsChanged(q, F, new)
    PROVE  /\ QueueOK(new) /\ OneGroupEach(new)
           /\ GroupsIn(new) = {g \in Changed(q, F) : g.players # {}}
<1>1. ASSUME NEW k \in Kinds, NEW t \in Teams, NEW g \in ToSet(new[k][t])
      PROVE  g.players # {} /\ \A p \in g.players : Team[p] = t
  <2>0. ToSet(new[k][t]) = {x \in {F[h] : h \in ToSet(q[k][t])} : x.players # {}}
    BY DEF RowsChanged
  <2>1. PICK h \in ToSet(q[k][t]) : g = F[h] /\ g.players # {}
    BY <1>1, <2>0
  <2>2. h \in GroupType /\ \A p \in h.players : Team[p] = t
    BY <2>1, QueueRows
  <2>3. QED
    BY <2>1, <2>2 DEF Shrinks
<1>2. QueueOK(new)
  BY <1>1 DEF QueueOK
<1>3. GroupsIn(new) = {g \in Changed(q, F) : g.players # {}}
  <2>1. ASSUME NEW g \in GroupsIn(new) PROVE g \in Changed(q, F) /\ g.players # {}
    <3>1. PICK k \in Kinds, t \in Teams : g \in ToSet(new[k][t])
      BY DEF GroupsIn
    <3>0. ToSet(new[k][t]) = {x \in {F[h] : h \in ToSet(q[k][t])} : x.players # {}}
      BY <3>1 DEF RowsChanged
    <3>2. PICK h \in ToSet(q[k][t]) : g = F[h] /\ g.players # {}
      BY <3>0, <3>1
    <3>3. h \in GroupsIn(q)
      BY <3>1, <3>2 DEF GroupsIn
    <3>4. QED
      BY <3>2, <3>3 DEF Changed
  <2>2. ASSUME NEW g \in Changed(q, F), g.players # {} PROVE g \in GroupsIn(new)
    <3>1. PICK h \in GroupsIn(q) : g = F[h]
      BY DEF Changed
    <3>2. PICK k \in Kinds, t \in Teams : h \in ToSet(q[k][t])
      BY DEF GroupsIn
    <3>3. g \in ToSet(new[k][t])
      BY <2>2, <3>1, <3>2 DEF RowsChanged
    <3>4. QED
      BY <3>2, <3>3 DEF GroupsIn
  <2>3. QED
    BY <2>1, <2>2
<1>4. OneGroupEach(new)
  <2> SUFFICES ASSUME NEW g \in GroupsIn(new), NEW h \in GroupsIn(new), g # h
               PROVE  g.players \cap h.players = {}
    BY DEF OneGroupEach
  <2>1. PICK x \in GroupsIn(q), y \in GroupsIn(q) : g = F[x] /\ h = F[y]
    BY <1>3 DEF Changed
  <2>2. x # y /\ x \in GroupType /\ y \in GroupType
    BY <2>1, GroupsTyped
  <2>3. x.players \cap y.players = {}
    BY <2>2 DEF OneGroupEach
  <2>4. g.players \subseteq x.players /\ h.players \subseteq y.players
    BY <2>1, <2>2 DEF Shrinks
  <2>5. QED
    BY <2>3, <2>4
<1>5. QED
  BY <1>2, <1>3, <1>4

\* A change that keeps the members and invitations of every group.
LEMMA QueueSame ==
    ASSUME NEW q, NEW new, NEW F, GroupsIn(new) = Changed(q, F),
           \A g \in GroupsIn(q) : F[g].players = g.players /\ F[g].bg = g.bg
    PROVE  InQueue(new) = InQueue(q) /\ \A i : Invitees(new, i) = Invitees(q, i)
  BY DEF Changed, InQueue, Invitees, Members

------------------------------------------------------------------------------
(* What the handlers do to the queue.                                          *)

LEMMA WithoutQueue ==
    ASSUME QueueOK(queue), OneGroupEach(queue), NEW p \in Players
    PROVE  /\ QueueOK(WithoutPlayer(p)) /\ OneGroupEach(WithoutPlayer(p))
           /\ InQueue(WithoutPlayer(p)) = InQueue(queue) \ {p}
           /\ \A i : Invitees(WithoutPlayer(p), i) = Invitees(queue, i) \ {p}
<1> DEFINE F == [g \in GroupType |-> [g EXCEPT !.players = @ \ {p}]]
           new == WithoutPlayer(p)
<1>1. \A g \in GroupType :
          F[g] \in GroupType /\ F[g].players = g.players \ {p} /\ F[g].bg = g.bg
  BY DEF GroupType
<1>2. ASSUME NEW k \in Kinds, NEW t \in Teams
      PROVE  /\ new[k][t] \in Seq(GroupType)
             /\ ToSet(new[k][t]) = {g \in {F[h] : h \in ToSet(queue[k][t])} : g.players # {}}
  <2> DEFINE row == queue[k][t]
             rest == [n \in DOMAIN row |-> [row[n] EXCEPT !.players = @ \ {p}]]
             S == {g \in ToSet(rest) : g.players # {}}
  <2>1. row \in Seq(GroupType)
    BY QueueRows
  <2>2. rest = [n \in DOMAIN row |-> F[row[n]]]
    <3>1. \A n \in DOMAIN row : row[n] \in GroupType
      BY <2>1
    <3>2. QED
      BY <3>1
  <2>3. new[k][t] = Within(rest, S)
    BY DEF WithoutPlayer
  <2> HIDE DEF F, new, S, row
  <2>4. rest \in Seq(GroupType) /\ ToSet(rest) = {F[g] : g \in ToSet(row)}
    <3>1. \A g \in GroupType : F[g] \in GroupType
      BY <1>1
    <3> HIDE DEF rest
    <3>2. QED
      BY <2>1, <2>2, <3>1, MapRow
  <2> HIDE DEF rest
  <2>5. Within(rest, S) \in Seq(GroupType) /\ ToSet(Within(rest, S)) = ToSet(rest) \cap S
    BY <2>4, WithinOK
  <2>6. ToSet(rest) \cap S = {g \in {F[h] : h \in ToSet(row)} : g.players # {}}
    BY <2>4 DEF S
  <2>7. QED
    BY <2>3, <2>5, <2>6 DEF row
<1>3. new \in [Kinds -> [Teams -> Seq(GroupType)]]
  <2>1. new = [k \in Kinds |-> [t \in Teams |-> new[k][t]]]
    BY DEF WithoutPlayer
  <2> HIDE DEF new
  <2>2. QED
    BY <1>2, <2>1
<1> HIDE DEF F, new
<1>4. Shrinks(F)
  BY <1>1 DEF Shrinks
<1>5. QueueOK(new) /\ OneGroupEach(new) /\ GroupsIn(new) = {g \in Changed(queue, F) : g.players # {}}
  <2>1. RowsChanged(queue, F, new)
    BY <1>2 DEF RowsChanged
  <2>2. QED
    BY <1>3, <1>4, <2>1, MapQueue
<1>6. \A h \in GroupsIn(queue) : F[h].players = h.players \ {p} /\ F[h].bg = h.bg
  BY <1>1, GroupsTyped
<1>7. InQueue(new) = InQueue(queue) \ {p}
  <2>1. \A x \in InQueue(new) : x \in InQueue(queue) \ {p}
    BY <1>5, <1>6 DEF Changed, InQueue, Members
  <2>2. ASSUME NEW x \in InQueue(queue) \ {p} PROVE x \in InQueue(new)
    <3>1. PICK h \in GroupsIn(queue) : x \in h.players
      BY DEF InQueue, Members
    <3>2. x \in F[h].players /\ F[h] \in GroupsIn(new)
      BY <1>5, <1>6, <3>1 DEF Changed
    <3>3. QED
      BY <3>2 DEF InQueue, Members
  <2>3. QED
    BY <2>1, <2>2
<1>8. ASSUME NEW i PROVE Invitees(new, i) = Invitees(queue, i) \ {p}
  <2>1. ASSUME NEW x \in Invitees(new, i) PROVE x \in Invitees(queue, i) \ {p}
    <3>1. PICK g \in GroupsIn(new) : g.bg = i /\ x \in g.players
      BY DEF Invitees, Members
    <3>2. PICK h \in GroupsIn(queue) : g = F[h]
      BY <1>5 DEF Changed
    <3>3. h.bg = i /\ x \in h.players \ {p}
      BY <1>6, <3>1, <3>2
    <3>4. QED
      BY <3>3 DEF Invitees, Members
  <2>2. ASSUME NEW x \in Invitees(queue, i) \ {p} PROVE x \in Invitees(new, i)
    <3>1. PICK h \in GroupsIn(queue) : h.bg = i /\ x \in h.players
      BY DEF Invitees, Members
    <3>2. x \in F[h].players /\ F[h] \in GroupsIn(new) /\ F[h].bg = i
      BY <1>5, <1>6, <3>1, <2>2 DEF Changed
    <3>3. QED
      BY <3>2 DEF Invitees, Members
  <2>3. QED
    BY <2>1, <2>2
<1>9. QED
  BY <1>5, <1>7, <1>8 DEF new

\* F changes groups, and keeps their members.
Keeps(F) == \A g \in GroupType : F[g] \in GroupType /\ F[g].players = g.players
Mapped(q, F) == [k \in Kinds |-> [t \in Teams |-> [n \in DOMAIN q[k][t] |-> F[q[k][t][n]]]]]

\* A change of the groups that keeps their members keeps who is in the queue.
LEMMA MarkQueue ==
    ASSUME NEW q, QueueOK(q), OneGroupEach(q), NEW F, Keeps(F),
           NEW new, new = Mapped(q, F)
    PROVE  /\ QueueOK(new) /\ OneGroupEach(new) /\ GroupsIn(new) = Changed(q, F)
           /\ InQueue(new) = InQueue(q)
<1>0. \A g \in GroupType : F[g] \in GroupType /\ F[g].players = g.players
  BY DEF Keeps
<1>1. ASSUME NEW k \in Kinds, NEW t \in Teams
      PROVE  /\ new[k][t] \in Seq(GroupType)
             /\ ToSet(new[k][t]) = {F[h] : h \in ToSet(q[k][t])}
  <2>1. PICK row, rest : row = q[k][t] /\ rest = new[k][t]
    OBVIOUS
  <2>2. row \in Seq(GroupType)
    BY <2>1, QueueRows
  <2>3. rest = [n \in DOMAIN row |-> F[row[n]]]
    BY <2>1 DEF Mapped
  <2>4. rest \in Seq(GroupType) /\ ToSet(rest) = {F[h] : h \in ToSet(row)}
    <3>1. \A g \in GroupType : F[g] \in GroupType
      BY <1>0
    <3>2. QED
      BY <2>2, <2>3, <3>1, MapRow
  <2>5. QED
    BY <2>1, <2>4
<1>2. new \in [Kinds -> [Teams -> Seq(GroupType)]]
  <2>1. new = [k \in Kinds |-> [t \in Teams |-> new[k][t]]]
    BY DEF Mapped
  <2>2. QED
    BY <1>1, <2>1
<1>3. ASSUME NEW k \in Kinds, NEW t \in Teams
      PROVE  ToSet(new[k][t]) = {g \in {F[h] : h \in ToSet(q[k][t])} : g.players # {}}
  <2>1. \A h \in ToSet(q[k][t]) : h \in GroupType /\ h.players # {}
    BY QueueRows
  <2>2. \A h \in ToSet(q[k][t]) : F[h].players # {}
    BY <1>0, <2>1
  <2>3. ToSet(new[k][t]) = {F[h] : h \in ToSet(q[k][t])}
    BY <1>1
  <2>4. QED
    BY <2>2, <2>3
<1>4. Shrinks(F)
  BY <1>0 DEF Shrinks
<1>5. QueueOK(new) /\ OneGroupEach(new) /\ GroupsIn(new) = {g \in Changed(q, F) : g.players # {}}
  <2>1. RowsChanged(q, F, new)
    BY <1>3 DEF RowsChanged
  <2>2. QED
    BY <1>2, <1>4, <2>1, MapQueue
<1>6. \A h \in GroupsIn(q) : F[h].players = h.players /\ h.players # {}
  <2>1. \A h \in GroupsIn(q) : h \in GroupType /\ h.players # {}
    BY GroupsTyped
  <2>2. QED
    BY <1>0, <2>1
<1>7. GroupsIn(new) = Changed(q, F)
  BY <1>5, <1>6 DEF Changed
<1>8. InQueue(new) = InQueue(q)
  BY <1>6, <1>7 DEF Changed, InQueue, Members
<1>9. QED
  BY <1>5, <1>7, <1>8

\* Time changes no group's members and no invitation.
LEMMA TickQueue ==
    ASSUME QueueOK(queue), OneGroupEach(queue), ClockTick
    PROVE  /\ QueueOK(queue') /\ OneGroupEach(queue') /\ InQueue(queue') = InQueue(queue)
           /\ \A i : Invitees(queue', i) = Invitees(queue, i)
<1> DEFINE F == [g \in GroupType |-> [g EXCEPT !.left = IF @ > 0 THEN @ - 1 ELSE 0]]
<1>1. \A g \in GroupType : F[g] \in GroupType /\ F[g].players = g.players /\ F[g].bg = g.bg
  <2>1. \A x \in 0..InviteWait : (IF x > 0 THEN x - 1 ELSE 0) \in 0..InviteWait
    BY QueueAssumption
  <2>2. QED
    BY <2>1 DEF GroupType
<1>2. queue' = [k \in Kinds |-> [t \in Teams |-> [n \in DOMAIN queue[k][t] |-> F[queue[k][t][n]]]]]
  <2>1. \A k \in Kinds, t \in Teams : \A n \in DOMAIN queue[k][t] : queue[k][t][n] \in GroupType
    <3> SUFFICES ASSUME NEW k \in Kinds, NEW t \in Teams PROVE \A n \in DOMAIN queue[k][t] : queue[k][t][n] \in GroupType
      OBVIOUS
    <3>1. queue[k][t] \in Seq(GroupType)
      BY QueueRows
    <3>2. QED
      BY <3>1
  <2>2. queue' = [k \in Kinds |-> [t \in Teams |-> [n \in DOMAIN queue[k][t] |->
                    [queue[k][t][n] EXCEPT !.left = IF @ > 0 THEN @ - 1 ELSE 0]]]]
    BY DEF ClockTick
  <2>3. QED
    BY <2>1, <2>2
<1> HIDE DEF F
<1>3. PICK new : new = queue'
  OBVIOUS
<1>4. /\ QueueOK(new) /\ OneGroupEach(new) /\ GroupsIn(new) = Changed(queue, F)
      /\ InQueue(new) = InQueue(queue)
  <2>1. Keeps(F)
    BY <1>1 DEF Keeps
  <2>2. new = Mapped(queue, F)
    BY <1>2, <1>3 DEF Mapped
  <2>3. QED
    BY <2>1, <2>2, MarkQueue
<1>5. \A g \in GroupsIn(queue) : F[g].players = g.players /\ F[g].bg = g.bg
  <2>1. \A g \in GroupsIn(queue) : g \in GroupType
    BY GroupsTyped
  <2>2. QED
    BY <1>1, <2>1
<1>6. \A i : Invitees(new, i) = Invitees(queue, i)
  BY <1>4, <1>5, QueueSame
<1>7. QED
  BY <1>3, <1>4, <1>6

\* The groups S are invited to i.
Called(q, S, i) ==
    [k \in Kinds |-> [t \in Teams |-> [n \in DOMAIN q[k][t] |->
        IF q[k][t][n] \in S THEN [q[k][t][n] EXCEPT !.bg = i, !.left = InviteWait]
        ELSE q[k][t][n]]]]

\* InviteGroupToBG moves the members of the groups from those who wait to those
\* invited to i.
LEMMA InviteQueue ==
    ASSUME NEW q, QueueOK(q), OneGroupEach(q), NEW i \in Instances,
           NEW S, S \subseteq {g \in GroupsIn(q) : g.bg = NoBattleground},
           NEW new, new = Called(q, S, i)
    PROVE  /\ QueueOK(new) /\ OneGroupEach(new) /\ InQueue(new) = InQueue(q)
           /\ Invitees(new, i) = Invitees(q, i) \cup Members(S)
           /\ Invitees(new, NoBattleground) = Invitees(q, NoBattleground) \ Members(S)
           /\ \A j \in Instances \ {i} : Invitees(new, j) = Invitees(q, j)
           /\ Members(S) \in SUBSET Invitees(q, NoBattleground)
<1> DEFINE F == [g \in GroupType |-> IF g \in S THEN [g EXCEPT !.bg = i, !.left = InviteWait] ELSE g]
<1>0. i # NoBattleground
  BY QueueAssumption
<1>1. \A g \in GroupType :
          /\ F[g] \in GroupType /\ F[g].players = g.players
          /\ F[g].bg = IF g \in S THEN i ELSE g.bg
  <2> SUFFICES ASSUME NEW g \in GroupType
               PROVE  /\ F[g] \in GroupType /\ F[g].players = g.players
                      /\ F[g].bg = IF g \in S THEN i ELSE g.bg
    OBVIOUS
  <2>1. InviteWait \in 0..InviteWait
    <3>1. InviteWait \in Nat
      BY QueueAssumption
    <3>2. QED
      BY <3>1
  <2>2. CASE g \in S
    <3>1. F[g] = [g EXCEPT !.bg = i, !.left = InviteWait]
      BY <2>2
    <3>2. QED
      BY <2>1, <2>2, <3>1 DEF GroupType
  <2>3. CASE g \notin S
    BY <2>3
  <2>4. QED
    BY <2>2, <2>3
<1>2. new = Mapped(q, F)
  <2>1. \A k \in Kinds, t \in Teams : \A n \in DOMAIN q[k][t] : q[k][t][n] \in GroupType
    <3> SUFFICES ASSUME NEW k \in Kinds, NEW t \in Teams PROVE \A n \in DOMAIN q[k][t] : q[k][t][n] \in GroupType
      OBVIOUS
    <3>1. q[k][t] \in Seq(GroupType)
      BY QueueRows
    <3>2. QED
      BY <3>1
  <2>2. QED
    BY <2>1 DEF Called, Mapped
<1> HIDE DEF F
<1>3. Keeps(F)
  BY <1>1 DEF Keeps
<1>4. /\ QueueOK(new) /\ OneGroupEach(new) /\ GroupsIn(new) = Changed(q, F)
      /\ InQueue(new) = InQueue(q)
  BY <1>2, <1>3, MarkQueue
<1>5. \A g \in GroupsIn(q) : F[g].players = g.players /\ F[g].bg = IF g \in S THEN i ELSE g.bg
  <2>1. \A g \in GroupsIn(q) : g \in GroupType
    BY GroupsTyped
  <2>2. QED
    BY <1>1, <2>1
<1>6. ASSUME NEW j, NEW p
      PROVE  p \in Invitees(new, j) <=>
                 \E g \in GroupsIn(q) : p \in g.players /\ (IF g \in S THEN i ELSE g.bg) = j
  <2>1. p \in Invitees(new, j) <=> \E g \in Changed(q, F) : g.bg = j /\ p \in g.players
    BY <1>4 DEF Invitees, Members
  <2>2. (\E g \in Changed(q, F) : g.bg = j /\ p \in g.players)
            <=> \E g \in GroupsIn(q) : F[g].bg = j /\ p \in F[g].players
    BY DEF Changed
  <2>3. QED
    BY <1>5, <2>1, <2>2
<1>60. ASSUME NEW j, NEW p
       PROVE  p \in Invitees(q, j) <=> \E g \in GroupsIn(q) : p \in g.players /\ g.bg = j
  BY DEF Invitees, Members
<1>61. ASSUME NEW p PROVE p \in Members(S) <=> \E g \in S : p \in g.players
  BY DEF Members
<1>62. S \subseteq GroupsIn(q) /\ \A g \in S : g.bg = NoBattleground
  OBVIOUS
<1>7. Invitees(new, i) = Invitees(q, i) \cup Members(S)
  BY <1>6, <1>60, <1>61, <1>62
<1>8. ASSUME NEW j \in Instances \ {i} PROVE Invitees(new, j) = Invitees(q, j)
  <2>1. j # NoBattleground /\ j # i
    BY QueueAssumption
  <2>2. ASSUME NEW p PROVE p \in Invitees(new, j) <=> p \in Invitees(q, j)
    BY <1>6, <1>60, <1>62, <2>1
  <2>3. QED
    BY <2>2
<1>9. Invitees(new, NoBattleground) = Invitees(q, NoBattleground) \ Members(S)
  <2>1. ASSUME NEW g \in GroupsIn(q) \ S, NEW p \in g.players PROVE p \notin Members(S)
    <3> SUFFICES ASSUME NEW h \in S, p \in h.players PROVE FALSE
      BY <1>61
    <3>1. g # h /\ h \in GroupsIn(q)
      BY <1>62
    <3>2. QED
      BY <3>1 DEF OneGroupEach
  <2>2. ASSUME NEW p PROVE p \in Invitees(new, NoBattleground) => p \in Invitees(q, NoBattleground) \ Members(S)
    BY <1>0, <1>6, <1>60, <2>1
  <2>3. ASSUME NEW p PROVE p \in Invitees(q, NoBattleground) \ Members(S) => p \in Invitees(new, NoBattleground)
    BY <1>6, <1>60, <1>61
  <2>4. QED
    BY <2>2, <2>3
<1>10. Members(S) \in SUBSET Invitees(q, NoBattleground)
  BY <1>60, <1>61, <1>62
<1>11. QED
  BY <1>4, <1>7, <1>8, <1>9, <1>10

\* A change of the rows that keeps all groups.
LEMMA SameGroups ==
    ASSUME NEW q, NEW new, OneGroupEach(q), GroupsIn(new) = GroupsIn(q)
    PROVE  /\ OneGroupEach(new) /\ InQueue(new) = InQueue(q)
           /\ \A i : Invitees(new, i) = Invitees(q, i)
  BY DEF OneGroupEach, InQueue, Invitees

Belongs(g, t) == g.players # {} /\ \A p \in g.players : Team[p] = t

\* The members of a new group wait.
LEMMA JoinQueue ==
    ASSUME QueueOK(queue), OneGroupEach(queue), NEW members \in SUBSET Players, members # {},
           \A p, q \in members : Team[p] = Team[q], members \cap InQueue(queue) = {},
           NEW premade, AddGroup(members, premade)
    PROVE  /\ QueueOK(queue') /\ OneGroupEach(queue')
           /\ InQueue(queue') = InQueue(queue) \cup members
           /\ Invitees(queue', NoBattleground) = Invitees(queue, NoBattleground) \cup members
           /\ \A i \in Instances : Invitees(queue', i) = Invitees(queue, i)
<1>1. PICK t0 : t0 = CHOOSE t \in Teams : \A p \in members : Team[p] = t
  OBVIOUS
<1>2. t0 \in Teams /\ \A p \in members : Team[p] = t0
  <2>1. PICK p \in members : TRUE
    OBVIOUS
  <2>2. Team[p] \in Teams /\ \A q \in members : Team[q] = Team[p]
    BY QueueAssumption, <2>1
  <2>3. QED
    BY <1>1, <2>2
<1>3. PICK k0 \in Kinds : k0 = IF premade THEN "premade" ELSE "normal"
  BY DEF Kinds
<1>4. PICK new, g0 : new = queue' /\ g0 = Group(members)
  OBVIOUS
<1>5. new = [queue EXCEPT ![k0][t0] = Append(@, g0)]
  BY <1>1, <1>3, <1>4 DEF AddGroup
<1>6. g0 \in GroupType /\ g0.players = members /\ g0.bg = NoBattleground
  BY <1>4, QueueAssumption DEF Group, GroupType
<1>7. queue \in [Kinds -> [Teams -> Seq(GroupType)]]
  BY DEF QueueOK
<1>8. PICK row, more : row = queue[k0][t0] /\ more = Append(row, g0)
  OBVIOUS
<1>9. row \in Seq(GroupType) /\ more \in Seq(GroupType) /\ ToSet(more) = ToSet(row) \cup {g0}
  <2>1. row \in Seq(GroupType)
    BY <1>2, <1>7, <1>8
  <2>2. QED
    BY <1>6, <1>8, <2>1, AppendSet
<1>10. /\ new \in [Kinds -> [Teams -> Seq(GroupType)]]
       /\ new[k0][t0] = more
       /\ \A k \in Kinds, t \in Teams : <<k, t>> # <<k0, t0>> => new[k][t] = queue[k][t]
  BY <1>2, <1>5, <1>7, <1>8, <1>9
<1>11. ASSUME NEW k \in Kinds, NEW t \in Teams, NEW g \in ToSet(new[k][t])
       PROVE  g \in GroupsIn(queue) \cup {g0} /\ Belongs(g, t)
  <2>1. CASE <<k, t>> = <<k0, t0>>
    <3>1. g \in ToSet(row) \/ g = g0
      BY <1>9, <1>10, <1>11, <2>1
    <3>2. CASE g \in ToSet(row)
      BY <1>8, <2>1, <3>2, QueueRows DEF Belongs
    <3>3. CASE g = g0
      BY <1>2, <1>6, <2>1, <3>3 DEF Belongs
    <3>4. QED
      BY <3>1, <3>2, <3>3
  <2>2. CASE <<k, t>> # <<k0, t0>>
    <3>1. g \in ToSet(queue[k][t])
      BY <1>10, <1>11, <2>2
    <3>2. QED
      BY <3>1, QueueRows DEF Belongs
  <2>3. QED
    BY <2>1, <2>2
<1>12. QueueOK(new)
  BY <1>10, <1>11 DEF QueueOK, Belongs
<1>13. GroupsIn(new) = GroupsIn(queue) \cup {g0}
  <2>1. GroupsIn(new) \subseteq GroupsIn(queue) \cup {g0}
    BY <1>11 DEF GroupsIn
  <2>2. g0 \in GroupsIn(new)
    <3>1. g0 \in ToSet(new[k0][t0])
      BY <1>9, <1>10
    <3>2. QED
      BY <1>2, <3>1 DEF GroupsIn
  <2>3. ASSUME NEW g \in GroupsIn(queue) PROVE g \in GroupsIn(new)
    <3>1. PICK k \in Kinds, t \in Teams : g \in ToSet(queue[k][t])
      BY DEF GroupsIn
    <3>2. g \in ToSet(new[k][t])
      BY <1>8, <1>9, <1>10, <3>1
    <3>3. QED
      BY <3>1, <3>2 DEF GroupsIn
  <2>4. QED
    BY <2>1, <2>2, <2>3
<1>14. OneGroupEach(new)
  <2>1. \A g \in GroupsIn(queue) : g.players \cap g0.players = {}
    BY <1>6 DEF InQueue, Members
  <2>2. QED
    BY <1>13, <2>1 DEF OneGroupEach
<1>15. InQueue(new) = InQueue(queue) \cup members
  BY <1>6, <1>13 DEF InQueue, Members
<1>16. Invitees(new, NoBattleground) = Invitees(queue, NoBattleground) \cup members
  BY <1>6, <1>13 DEF Invitees, Members
<1>17. \A i \in Instances : i # NoBattleground
  BY QueueAssumption
<1>18. \A i \in Instances : Invitees(new, i) = Invitees(queue, i)
  <2> SUFFICES ASSUME NEW i \in Instances PROVE Invitees(new, i) = Invitees(queue, i)
    OBVIOUS
  <2>1. {g \in GroupsIn(new) : g.bg = i} = {g \in GroupsIn(queue) : g.bg = i}
    BY <1>6, <1>13, <1>17
  <2>2. QED
    BY <2>1 DEF Invitees
<1>19. QED
  BY <1>4, <1>12, <1>14, <1>15, <1>16, <1>18

\* The group a player is in, and where it is invited to.
LEMMA GroupOfPlayer ==
    ASSUME NEW q, QueueOK(q), OneGroupEach(q), NEW p
    PROVE  /\ (\E g \in GroupsIn(q) : p \in g.players) <=> p \in InQueue(q)
           /\ \A g : g = (CHOOSE h \in GroupsIn(q) : p \in h.players) =>
                  /\ p \in InQueue(q) =>
                         /\ g \in GroupsIn(q) /\ g.bg \in Instances \cup {NoBattleground}
                         /\ p \in Invitees(q, g.bg)
                  /\ \A i : p \in Invitees(q, i) => p \in InQueue(q) /\ g.bg = i
<1>1. (\E g \in GroupsIn(q) : p \in g.players) <=> p \in InQueue(q)
  BY DEF InQueue, Members
<1>2. ASSUME NEW g, g = CHOOSE h \in GroupsIn(q) : p \in h.players, p \in InQueue(q)
      PROVE  g \in GroupsIn(q) /\ g.bg \in Instances \cup {NoBattleground} /\ p \in g.players
             /\ p \in Invitees(q, g.bg)
  <2>1. g \in GroupsIn(q) /\ p \in g.players
    BY <1>1, <1>2
  <2>2. g.bg \in Instances \cup {NoBattleground}
    BY <2>1, GroupsTyped
  <2>3. QED
    BY <2>1, <2>2 DEF Invitees, Members
<1>3. ASSUME NEW g, g = CHOOSE h \in GroupsIn(q) : p \in h.players, NEW i, p \in Invitees(q, i)
      PROVE  p \in InQueue(q) /\ g.bg = i
  <2>1. PICK h \in GroupsIn(q) : h.bg = i /\ p \in h.players
    BY <1>3 DEF Invitees, Members
  <2>2. p \in InQueue(q)
    BY <1>1, <2>1
  <2>3. g \in GroupsIn(q) /\ p \in g.players
    BY <1>2, <1>3, <2>2
  <2>4. g = h
    BY <2>1, <2>3 DEF OneGroupEach
  <2>5. QED
    BY <2>1, <2>2, <2>4
<1>4. QED
  BY <1>1, <1>2, <1>3

\* The operators of the model in terms of who is in the queue and invited
\* where.
LEMMA QueuedPlayers ==
    ASSUME QueueOK(queue), OneGroupEach(queue), NEW p
    PROVE  /\ Queued(p) <=> p \in InQueue(queue)
           /\ Queued(p) => GroupOf(p) \in GroupsIn(queue) /\ p \in Invitees(queue, GroupOf(p).bg)
                           /\ GroupOf(p).bg \in Instances \cup {NoBattleground}
           /\ \A i : p \in Invitees(queue, i) => Queued(p) /\ GroupOf(p).bg = i
           /\ Invited(p) <=> \E i \in Instances : p \in Invitees(queue, i)
<1>1. Groups = GroupsIn(queue)
  BY DEF Groups, GroupsIn
<1>2. PICK g : g = GroupOf(p)
  OBVIOUS
<1>3. g = CHOOSE h \in GroupsIn(queue) : p \in h.players
  BY <1>1, <1>2 DEF GroupOf
<1>4. Queued(p) <=> p \in InQueue(queue)
  BY <1>1, GroupOfPlayer DEF Queued
<1>5. p \in InQueue(queue) => g \in GroupsIn(queue) /\ g.bg \in Instances \cup {NoBattleground}
                              /\ p \in Invitees(queue, g.bg)
  BY <1>3, GroupOfPlayer
<1>6. \A i : p \in Invitees(queue, i) => p \in InQueue(queue) /\ g.bg = i
  BY <1>3, GroupOfPlayer
<1>7. NoBattleground \notin Instances
  BY QueueAssumption
<1>8. QED
  BY <1>2, <1>4, <1>5, <1>6, <1>7 DEF Invited

------------------------------------------------------------------------------
(* Who has a place, by team.                                                   *)

LEMMA TeamCounts ==
    ASSUME NEW A \in SUBSET Players, NEW t
    PROVE  /\ IsFiniteSet(OfTeam(A, t)) /\ Cardinality(OfTeam(A, t)) \in Nat
           /\ OfTeam(A, t) \in SUBSET Players
           /\ (\A p \in A : Team[p] # t) => Cardinality(OfTeam(A, t)) = 0
           /\ (\A p \in A : Team[p] = t) => OfTeam(A, t) = A
<1>1. OfTeam(A, t) \in SUBSET Players
  BY DEF OfTeam
<1>2. (\A p \in A : Team[p] # t) => OfTeam(A, t) = {}
  BY DEF OfTeam
<1>3. (\A p \in A : Team[p] = t) => OfTeam(A, t) = A
  BY DEF OfTeam
<1>4. QED
  BY <1>1, <1>2, <1>3, FinitePlayers, FS_EmptySet

\* Two sets of players without a common one are counted together.
LEMMA TeamUnion ==
    ASSUME NEW A \in SUBSET Players, NEW B \in SUBSET Players, A \cap B = {}, NEW t
    PROVE  Cardinality(OfTeam(A \cup B, t)) = Cardinality(OfTeam(A, t)) + Cardinality(OfTeam(B, t))
<1>1. PICK X, Y : X = OfTeam(A, t) /\ Y = OfTeam(B, t)
  OBVIOUS
<1>2. IsFiniteSet(X) /\ IsFiniteSet(Y) /\ Cardinality(X) \in Nat /\ Cardinality(Y) \in Nat
  BY <1>1, TeamCounts
<1>3. X \cap Y = {} /\ OfTeam(A \cup B, t) = X \cup Y
  BY <1>1 DEF OfTeam
<1>4. Cardinality(X \cup Y) = Cardinality(X) + Cardinality(Y) - Cardinality(X \cap Y)
  BY <1>2, FS_Union
<1>5. Cardinality(X \cap Y) = 0
  BY <1>3, FS_EmptySet
<1>6. Cardinality(X \cup Y) = Cardinality(X) + Cardinality(Y)
  BY <1>2, <1>4, <1>5
<1>7. QED
  BY <1>1, <1>3, <1>6

\* Those who leave are counted off.
LEMMA TeamMinus ==
    ASSUME NEW A \in SUBSET Players, NEW B \in SUBSET A, NEW t
    PROVE  Cardinality(OfTeam(A \ B, t)) = Cardinality(OfTeam(A, t)) - Cardinality(OfTeam(B, t))
<1>1. PICK C \in SUBSET Players : C = A \ B
  OBVIOUS
<1>2. B \in SUBSET Players /\ B \cap C = {} /\ A = B \cup C
  BY <1>1
<1>3. Cardinality(OfTeam(A, t)) = Cardinality(OfTeam(B, t)) + Cardinality(OfTeam(C, t))
  BY <1>2, TeamUnion
<1>4. Cardinality(OfTeam(B, t)) \in Nat /\ Cardinality(OfTeam(C, t)) \in Nat
  BY <1>2, TeamCounts
<1>5. QED
  BY <1>1, <1>3, <1>4

\* One player is counted off.
LEMMA TeamMinusOne ==
    ASSUME NEW A \in SUBSET Players, NEW p \in A, NEW t
    PROVE  Cardinality(OfTeam(A \ {p}, t)) = Cardinality(OfTeam(A, t)) - (IF Team[p] = t THEN 1 ELSE 0)
<1>1. {p} \in SUBSET A /\ {p} \in SUBSET Players
  OBVIOUS
<1>2. Cardinality(OfTeam(A \ {p}, t)) = Cardinality(OfTeam(A, t)) - Cardinality(OfTeam({p}, t))
  BY <1>1, TeamMinus
<1>3. Cardinality(OfTeam({p}, t)) = IF Team[p] = t THEN 1 ELSE 0
  <2>1. CASE Team[p] = t
    <3>1. OfTeam({p}, t) = {p}
      BY <2>1 DEF OfTeam
    <3>2. QED
      BY <2>1, <3>1, FS_Singleton
  <2>2. CASE Team[p] # t
    <3>1. OfTeam({p}, t) = {}
      BY <2>2 DEF OfTeam
    <3>2. QED
      BY <2>2, <3>1, FS_EmptySet
  <2>3. QED
    BY <2>1, <2>2
<1>4. QED
  BY <1>2, <1>3

\* Who has a place is a player.
LEMMA ExpectedOK ==
    ASSUME NEW q, NEW b, QueueOK(q), BattlegroundsOK(b), NEW i \in Instances
    PROVE  Expected(q, b, i) \in SUBSET Players
<1>1. Invitees(q, i) \in SUBSET Players
  BY InviteesOK
<1>2. b[i].players \in SUBSET Players
  BY DEF BattlegroundsOK, BattlegroundType
<1>3. QED
  BY <1>1, <1>2 DEF Expected

\* A battleground that does not exist is empty.
LEMMA DeletedIsEmpty ==
    /\ Deleted \in BattlegroundType /\ Deleted.status = "none"
    /\ Deleted.players = {} /\ Deleted.offline = <<>> /\ \A t \in Teams : Deleted.invited[t] = 0
  BY DEF Deleted, BattlegroundType

------------------------------------------------------------------------------
(* The update of the queue: what it works on stays consistent.                 *)

StageType ==
    [queue : [Kinds -> [Teams -> Seq(GroupType)]],
     bg : [Instances \cup {0} -> BattlegroundType \cup [max : Capacities]],
     freeSlots : Seq(Instances), events : SUBSET EventType,
     invitedTo : [Players -> Instances \cup {NoBattleground}]]

Stages ==
    {s \in StageType : /\ Consistent(s.queue, s.bg, s.invitedTo)
                       /\ s.bg[0] = bg[0] /\ events \subseteq s.events}

\* What GetFreeSlotsForTeam offers is free, and a deleted battleground has none.
LEMMA FreeSlotsOK ==
    ASSUME BattlegroundsOK(bg), NEW b, BattlegroundsOK(b), b[0] = bg[0], NEW i \in Instances,
           NEW t \in Teams, \A u \in Teams : b[i].invited[u] \in Nat /\ b[i].invited[u] <= b[0].max,
           NEW free, free = GetFreeSlotsForTeam(b, i, t)
    PROVE  /\ free \in Nat /\ free <= b[0].max - b[i].invited[t]
           /\ b[i].status = "none" => free = 0
<1>1. PICK m, mine, theirs : m = bg[0].max /\ mine = b[i].invited[t] /\ theirs = b[i].invited[Other(t)]
  OBVIOUS
<1>2. m \in Nat /\ mine \in Nat /\ theirs \in Nat /\ mine <= m
  <2>1. bg[0] \in [max : Capacities]
    BY DEF BattlegroundsOK
  <2>2. bg[0].max \in Nat
    BY <2>1, QueueAssumption
  <2>3. Other(t) \in Teams
    BY DEF Other, Teams
  <2>4. QED
    BY <1>1, <2>2, <2>3
<1>3. ASSUME NEW u PROVE Count(i, u) \in Nat
  <2>1. bg[i].players \in SUBSET Players
    BY DEF BattlegroundsOK, BattlegroundType
  <2>2. {p \in bg[i].players : Team[p] = u} \in SUBSET Players
    BY <2>1
  <2>3. QED
    BY <2>2, FinitePlayers DEF Count
<1>4. PICK x, y : x = Count(i, t) /\ y = Count(i, Other(t))
  OBVIOUS
<1>5. x \in Nat /\ y \in Nat
  BY <1>3, <1>4
<1>6. PICK room : room = IF mine < m THEN m - mine ELSE 0
  OBVIOUS
<1>7. PICK byPlayers : byPlayers = IF y < x /\ mine <= MinPlayersPerTeam THEN MinPlayersPerTeam - mine + 1
                                   ELSE Balance(x, y)
  OBVIOUS
<1>8. free = CASE b[i].status = "join" -> room
               [] b[i].status = "progress" -> Smaller(Smaller(Balance(mine, theirs), room), byPlayers)
               [] OTHER -> 0
  <2>1. m = MaxPlayersPerTeam
    BY <1>1 DEF MaxPlayersPerTeam
  <2>2. QED
    BY <1>1, <1>4, <1>6, <1>7, <2>1 DEF GetFreeSlotsForTeam
<1>9. room \in Nat /\ room = m - mine
  BY <1>2, <1>6
<1>10. byPlayers \in Nat
  BY <1>2, <1>5, <1>7, QueueAssumption DEF Balance
<1>11. PICK even : even = Balance(mine, theirs)
  OBVIOUS
<1>12. even \in Nat
  BY <1>2, <1>11 DEF Balance
<1>13. /\ Smaller(Smaller(even, room), byPlayers) \in Nat
       /\ Smaller(Smaller(even, room), byPlayers) <= room
  BY <1>9, <1>10, <1>12 DEF Smaller
<1>14. free \in Nat /\ free <= m - mine /\ (b[i].status = "none" => free = 0)
  <2>1. CASE b[i].status = "join"
    BY <1>8, <1>9, <2>1
  <2>2. CASE b[i].status = "progress"
    BY <1>8, <1>9, <1>11, <1>13, <2>2
  <2>3. CASE b[i].status # "join" /\ b[i].status # "progress"
    BY <1>2, <1>8, <2>3
  <2>4. QED
    BY <2>1, <2>2, <2>3
<1>15. QED
  BY <1>1, <1>14

\* A right count is a number of players.
LEMMA CountsAreNat ==
    ASSUME NEW q, NEW b, NEW told, Consistent(q, b, told), NEW i \in Instances, NEW t \in Teams
    PROVE  /\ b[i].invited[t] \in Nat /\ b[i].invited[t] <= b[0].max
           /\ b[i].invited[t] = Cardinality(OfTeam(Expected(q, b, i), t))
<1>1. Expected(q, b, i) \in SUBSET Players
  BY ExpectedOK DEF Consistent
<1>2. /\ b[i].invited[t] = Cardinality(OfTeam(Expected(q, b, i), t))
      /\ b[i].invited[t] <= b[0].max
  BY DEF Consistent, CountsOK
<1>3. PICK A \in SUBSET Players : A = Expected(q, b, i)
  BY <1>1
<1>4. Cardinality(OfTeam(A, t)) \in Nat
  BY TeamCounts
<1>5. QED
  BY <1>2, <1>3, <1>4

\* The capacity is a number.
LEMMA CapacityIsNat == ASSUME NEW b, BattlegroundsOK(b) PROVE b[0].max \in Nat
<1>1. b[0] \in [max : Capacities]
  BY DEF BattlegroundsOK
<1>2. b[0].max \in Capacities /\ Capacities \subseteq Nat
  BY <1>1, QueueAssumption
<1>3. QED
  BY <1>2

Booked(b, S, i) ==
    [b EXCEPT ![i].invited = [t \in Teams |-> @[t] + Cardinality(OfTeam(Members(S), t))]]
Told(told, S, i) == [p \in Players |-> IF p \in Members(S) THEN i ELSE told[p]]

\* The players of groups that wait are invited to i, which has room for them.
LEMMA InviteStage ==
    ASSUME PlayersOK, NEW q, NEW b, NEW told, Consistent(q, b, told), NEW i \in Instances,
           NEW S, S \subseteq {g \in GroupsIn(q) : g.bg = NoBattleground},
           b[i].status = "none" => Members(S) = {},
           \A t \in Teams : Cardinality(OfTeam(Members(S), t)) <= b[0].max - b[i].invited[t],
           NEW q2, q2 = Called(q, S, i),
           NEW b2, b2 = Booked(b, S, i), NEW told2, told2 = Told(told, S, i)
    PROVE  Consistent(q2, b2, told2) /\ b2[0] = b[0]
<1>1. /\ QueueOK(q) /\ OneGroupEach(q) /\ BattlegroundsOK(b) /\ QueuedOK(q, told)
      /\ BusyOK(b, told) /\ SlotsOK(q) /\ CountsOK(q, b)
  BY DEF Consistent
<1>2. PICK M : M = Members(S)
  OBVIOUS
<1>3. /\ QueueOK(q2) /\ OneGroupEach(q2) /\ InQueue(q2) = InQueue(q)
      /\ Invitees(q2, i) = Invitees(q, i) \cup M
      /\ Invitees(q2, NoBattleground) = Invitees(q, NoBattleground) \ M
      /\ \A j \in Instances \ {i} : Invitees(q2, j) = Invitees(q, j)
      /\ M \in SUBSET Invitees(q, NoBattleground)
  BY <1>1, <1>2, InviteQueue
<1>4. M \in SUBSET Players /\ NoBattleground \notin Instances /\ 0 \notin Instances
  BY <1>1, <1>3, InviteesOK, QueueAssumption DEF NoBattleground
<1>5. \A p \in M : online[p] /\ used[p] /\ where[p] = "world" /\ told[p] = NoBattleground
  BY <1>1, <1>3 DEF QueuedOK
<1>6. PICK more : more = [t \in Teams |-> Cardinality(OfTeam(M, t))]
  OBVIOUS
<1>7. \A t \in Teams : more[t] \in Nat
  BY <1>4, <1>6, TeamCounts
<1>8. PICK inv : inv = [t \in Teams |-> b[i].invited[t] + more[t]]
  OBVIOUS
<1>9. /\ DOMAIN b = Instances \cup {0} /\ b[i] \in BattlegroundType
      /\ b2 = [b EXCEPT ![i] = [b[i] EXCEPT !.invited = inv]]
  <2>1. DOMAIN b = Instances \cup {0} /\ b[i] \in BattlegroundType
    BY <1>1 DEF BattlegroundsOK
  <2>2. inv = [t \in Teams |-> b[i].invited[t] + Cardinality(OfTeam(Members(S), t))]
    BY <1>2, <1>6, <1>8
  <2>3. QED
    BY <2>1, <2>2 DEF Booked
<1>10. inv \in [Teams -> Int]
  BY <1>7, <1>8, <1>9 DEF BattlegroundType
<1>11. PICK new : new = [b[i] EXCEPT !.invited = inv]
  OBVIOUS
<1>12. /\ new \in BattlegroundType /\ new.invited = inv /\ new.players = b[i].players
       /\ new.offline = b[i].offline /\ new.status = b[i].status
  BY <1>9, <1>10, <1>11 DEF BattlegroundType
<1>13. b2[i] = new /\ DOMAIN b2 = DOMAIN b /\ \A j \in (Instances \cup {0}) \ {i} : b2[j] = b[j]
  BY <1>9, <1>11
<1>14. /\ b2[0] = b[0]
       /\ \A j \in Instances : b2[j].players = b[j].players /\ b2[j].offline = b[j].offline
                               /\ b2[j].status = b[j].status
  BY <1>4, <1>12, <1>13
<1>15. BattlegroundsOK(b2)
  <2>1. /\ b2[0] \in [max : Capacities] /\ \A j \in Instances : b2[j] \in BattlegroundType
    BY <1>1, <1>4, <1>12, <1>13 DEF BattlegroundsOK
  <2>2. b2 \in [Instances \cup {0} -> BattlegroundType \cup [max : Capacities]]
    <3>1. b2 = [j \in Instances \cup {0} |-> b2[j]]
      BY <1>9
    <3>2. QED
      BY <2>1, <3>1
  <2>3. ASSUME NEW j \in Instances, b2[j].status = "none" PROVE b2[j] = Deleted
    <3>1. b[j] = Deleted
      BY <1>1, <1>14, <2>3 DEF BattlegroundsOK
    <3>2. CASE j = i
      <4>1. M = {}
        BY <1>2, <1>14, <2>3, <3>2
      <4>2. \A t \in Teams : more[t] = 0
        BY <4>1, <1>6, <1>4, TeamCounts
      <4>3. b[i].invited \in [Teams -> Int]
        BY <1>9 DEF BattlegroundType
      <4>4. inv = b[i].invited
        BY <1>8, <4>2, <4>3
      <4>5. new = b[i]
        BY <1>9, <1>11, <4>4 DEF BattlegroundType
      <4>6. QED
        BY <1>13, <3>1, <3>2, <4>5
    <3>3. CASE j # i
      BY <1>13, <3>1, <3>3
    <3>4. QED
      BY <3>2, <3>3
  <2>4. OfflineOK(b2)
    BY <1>1, <1>14 DEF BattlegroundsOK, OfflineOK
  <2>5. QED
    BY <2>1, <2>2, <2>3, <2>4 DEF BattlegroundsOK
<1>16. QueuedOK(q2, told2)
  <2>1. told2 \in [Players -> Instances \cup {NoBattleground}]
    <3>1. told \in [Players -> Instances \cup {NoBattleground}]
      BY <1>1 DEF QueuedOK
    <3>2. QED
      BY <3>1 DEF Told
  <2>2. ASSUME NEW j \in Instances \cup {NoBattleground}, NEW p \in Invitees(q2, j)
        PROVE  online[p] /\ used[p] /\ where[p] = "world" /\ told2[p] = j
    <3>1. \A k \in Instances \cup {NoBattleground} : \A r \in Invitees(q, k) :
              r \in Players /\ online[r] /\ used[r] /\ where[r] = "world" /\ told[r] = k
      BY <1>1, InviteesOK DEF QueuedOK
    <3>2. \A r \in Players : told2[r] = IF r \in M THEN i ELSE told[r]
      BY <1>2 DEF Told
    <3>3. CASE j = i
      <4>1. p \in Invitees(q, i) \/ p \in M
        BY <1>3, <2>2, <3>3
      <4>2. QED
        BY <1>4, <1>5, <3>1, <3>2, <3>3, <4>1
    <3>4. CASE j = NoBattleground
      <4>1. p \in Invitees(q, NoBattleground) /\ p \notin M
        BY <1>3, <2>2, <3>4
      <4>2. QED
        BY <3>1, <3>2, <3>4, <4>1
    <3>5. CASE j \in Instances \ {i}
      <4>1. p \in Invitees(q, j)
        BY <1>3, <2>2, <3>5
      <4>2. p \notin M
        BY <1>4, <1>5, <3>1, <3>5, <4>1
      <4>3. QED
        BY <3>1, <3>2, <4>1, <4>2
    <3>6. QED
      BY <3>3, <3>4, <3>5
  <2>3. QED
    BY <2>1, <2>2 DEF QueuedOK
<1>17. BusyOK(b2, told2)
  <2>1. \A p \in Players : where[p] # "world" => told2[p] = told[p]
    BY <1>2, <1>5 DEF Told
  <2>2. ASSUME NEW p \in Players, where[p] = "teleport"
        PROVE  online[p] /\ used[p] /\ bgId[p] \in Instances /\ told2[p] = bgId[p]
    BY <1>1, <2>1, <2>2 DEF BusyOK
  <2>3. ASSUME NEW p \in Players, where[p] = "battleground", online[p]
        PROVE  used[p] /\ bgId[p] \in Instances /\ told2[p] = bgId[p] /\ p \in b2[bgId[p]].players
    BY <1>1, <1>14, <2>1, <2>3 DEF BusyOK
  <2>4. \A j \in Instances : \A p \in b2[j].players : where[p] = "battleground" /\ bgId[p] = j
    BY <1>1, <1>14 DEF BusyOK
  <2>5. QED
    BY <2>2, <2>3, <2>4 DEF BusyOK
<1>18. SlotsOK(q2)
  BY <1>1, <1>3 DEF SlotsOK
<1>19. CountsOK(q2, b2)
  <2> SUFFICES ASSUME NEW j \in Instances, NEW t \in Teams
               PROVE  /\ b2[j].invited[t] = Cardinality(OfTeam(Expected(q2, b2, j), t))
                      /\ b2[j].invited[t] <= b2[0].max
    BY DEF CountsOK
  <2>1. b[j].invited[t] = Cardinality(OfTeam(Expected(q, b, j), t)) /\ b[j].invited[t] <= b[0].max
    BY <1>1 DEF CountsOK
  <2>2. CASE j # i
    <3>1. Expected(q2, b2, j) = Expected(q, b, j)
      BY <1>3, <1>14, <2>2 DEF Expected
    <3>2. QED
      BY <1>13, <1>14, <2>1, <2>2, <3>1
  <2>3. CASE j = i
    <3>1. PICK E \in SUBSET Players : E = Expected(q, b, i)
      BY <1>1, ExpectedOK
    <3>2. Expected(q2, b2, i) = E \cup M
      BY <1>3, <1>14, <3>1 DEF Expected
    <3>3. E \cap M = {}
      <4> SUFFICES ASSUME NEW p \in M, p \in Expected(q, b, i) PROVE FALSE
        BY <3>1
      <4>1. p \notin Invitees(q, i)
        BY <1>1, <1>4, <1>5 DEF QueuedOK
      <4>2. where[p] = "world" /\ p \notin b[i].players
        BY <1>1, <1>5 DEF BusyOK
      <4>3. QED
        BY <4>1, <4>2 DEF Expected
    <3>4. Cardinality(OfTeam(E \cup M, t)) = Cardinality(OfTeam(E, t)) + Cardinality(OfTeam(M, t))
      BY <1>4, <3>1, <3>3, TeamUnion
    <3>5. b2[i].invited[t] = b[i].invited[t] + more[t] /\ more[t] = Cardinality(OfTeam(M, t))
      BY <1>6, <1>8, <1>12, <1>13
    <3>6. b[i].invited[t] \in Nat /\ b[0].max \in Int
      <4>1. b[i].invited[t] \in Nat
        BY CountsAreNat
      <4>2. b[0].max \in Nat
        BY <1>1, CapacityIsNat
      <4>3. QED
        BY <4>1, <4>2
    <3>7. Cardinality(OfTeam(M, t)) <= b[0].max - b[i].invited[t] /\ Cardinality(OfTeam(M, t)) \in Nat
      BY <1>2, <1>4, TeamCounts
    <3>8. b2[i].invited[t] = Cardinality(OfTeam(Expected(q2, b2, i), t))
      BY <2>1, <2>3, <3>1, <3>2, <3>4, <3>5
    <3>9. b2[i].invited[t] <= b2[0].max
      BY <1>14, <3>5, <3>6, <3>7
    <3>10. QED
      BY <2>3, <3>8, <3>9
  <2>4. QED
    BY <2>2, <2>3
<1>20. QED
  BY <1>3, <1>14, <1>15, <1>16, <1>17, <1>18, <1>19 DEF Consistent

\* The record that one part of the update hands to the next.
LEMMA StageUnfolds ==
    ASSUME NEW s \in Stages
    PROVE  /\ s \in StageType /\ Consistent(s.queue, s.bg, s.invitedTo)
           /\ s.bg[0] = bg[0] /\ events \subseteq s.events
           /\ QueueOK(s.queue) /\ OneGroupEach(s.queue) /\ BattlegroundsOK(s.bg)
  BY DEF Stages, Consistent

\* Inviting groups that have places keeps queue, battlegrounds and slots
\* consistent.
LEMMA InviteGroupsOK ==
    ASSUME PlayersOK, NEW s \in Stages, NEW i \in Instances,
           NEW S, S \subseteq {g \in GroupsIn(s.queue) : g.bg = NoBattleground},
           s.bg[i].status = "none" => Members(S) = {},
           \A t \in Teams : Cardinality(OfTeam(Members(S), t)) <= s.bg[0].max - s.bg[i].invited[t]
    PROVE  InviteGroups(s, S, i) \in Stages
<1>1. PICK q, b, told, fs, ev : q = s.queue /\ b = s.bg /\ told = s.invitedTo
                                /\ fs = s.freeSlots /\ ev = s.events
  OBVIOUS
<1>2. /\ Consistent(q, b, told) /\ b[0] = bg[0] /\ events \subseteq ev
      /\ QueueOK(q) /\ OneGroupEach(q) /\ BattlegroundsOK(b)
      /\ fs \in Seq(Instances) /\ ev \in SUBSET EventType
  BY <1>1, StageUnfolds DEF StageType
<1>3. PICK M : M = Members(S)
  OBVIOUS
<1>4. M \in SUBSET Players /\ \A p \in M : online[p]
  <2>1. M \in SUBSET Invitees(q, NoBattleground)
    BY <1>1, <1>3 DEF Members, Invitees
  <2>2. Invitees(q, NoBattleground) \in SUBSET Players
    BY <1>2, InviteesOK
  <2>3. \A p \in Invitees(q, NoBattleground) : online[p]
    BY <1>2 DEF Consistent, QueuedOK
  <2>4. QED
    BY <2>1, <2>2, <2>3
<1>5. {p \in UNION {g.players : g \in S} : online[p]} = M
  BY <1>3, <1>4 DEF Members
<1>6. PICK q2, b2, told2, ev2 :
        /\ q2 = Called(q, S, i)
        /\ b2 = Booked(b, S, i)
        /\ told2 = Told(told, S, i)
        /\ ev2 = ev \cup {[player |-> p, bg |-> i, left |-> InviteWait] : p \in Members(S)}
  OBVIOUS
<1>7. InviteGroups(s, S, i) = [queue |-> q2, bg |-> b2, freeSlots |-> fs, events |-> ev2, invitedTo |-> told2]
  <2>1. \A t : OfTeam(Members(S), t) = {p \in M : Team[p] = t}
    BY <1>3 DEF OfTeam
  <2>2. QED
    BY <1>1, <1>3, <1>5, <1>6, <2>1 DEF InviteGroups, Called, Booked, Told
<1>8. Consistent(q2, b2, told2) /\ b2[0] = b[0]
  <2>1. S \subseteq {g \in GroupsIn(q) : g.bg = NoBattleground}
    BY <1>1
  <2>2. b[i].status = "none" => Members(S) = {}
    BY <1>1
  <2>3. \A t \in Teams : Cardinality(OfTeam(Members(S), t)) <= b[0].max - b[i].invited[t]
    BY <1>1
  <2>4. QED
    BY <1>2, <1>6, <2>1, <2>2, <2>3, InviteStage
<1>9. ev2 \in SUBSET EventType /\ events \subseteq ev2
  <2>1. InviteWait \in 0..InviteWait
    <3>1. InviteWait \in Nat
      BY QueueAssumption
    <3>2. QED
      BY <3>1
  <2>2. \A p \in M : [player |-> p, bg |-> i, left |-> InviteWait] \in EventType
    BY <1>4, <2>1 DEF EventType
  <2>3. QED
    BY <1>2, <1>3, <1>6, <2>2
<1>10. [queue |-> q2, bg |-> b2, freeSlots |-> fs, events |-> ev2, invitedTo |-> told2] \in StageType
  <2>1. q2 \in [Kinds -> [Teams -> Seq(GroupType)]]
    BY <1>8 DEF Consistent, QueueOK
  <2>2. b2 \in [Instances \cup {0} -> BattlegroundType \cup [max : Capacities]]
    BY <1>8 DEF Consistent, BattlegroundsOK
  <2>3. told2 \in [Players -> Instances \cup {NoBattleground}]
    BY <1>8 DEF Consistent, QueuedOK
  <2>4. QED
    BY <1>2, <1>9, <2>1, <2>2, <2>3 DEF StageType
<1>11. QED
  BY <1>2, <1>7, <1>8, <1>9, <1>10 DEF Stages

\* Only the list of battlegrounds with free places changes.
LEMMA FreeSlotsChange ==
    ASSUME NEW s \in Stages, NEW fs \in Seq(Instances), NEW s2, s2 = [s EXCEPT !.freeSlots = fs]
    PROVE  s2 \in Stages
<1>1. s \in StageType
  BY StageUnfolds
<1>2. s2 \in StageType /\ s2.queue = s.queue /\ s2.bg = s.bg /\ s2.events = s.events
      /\ s2.invitedTo = s.invitedTo
  BY <1>1 DEF StageType
<1>3. QED
  BY <1>2 DEF Stages

\* The groups of a team.
TeamGroups(q, t) == UNION {ToSet(q[k][t]) : k \in Kinds}

\* Groups of one team have members of that team only.
LEMMA TeamGroupsOK ==
    ASSUME NEW q, QueueOK(q), NEW t \in Teams
    PROVE  /\ TeamGroups(q, t) \in SUBSET GroupsIn(q) /\ TeamGroups(q, t) \in SUBSET GroupType
           /\ \A g \in TeamGroups(q, t) : \A p \in g.players : Team[p] = t
           /\ \A k \in Kinds : q[k][t] \in Seq(TeamGroups(q, t))
<1>1. ASSUME NEW g \in TeamGroups(q, t)
      PROVE  g \in GroupsIn(q) /\ g \in GroupType /\ \A p \in g.players : Team[p] = t
  <2>1. PICK k \in Kinds : g \in ToSet(q[k][t])
    BY DEF TeamGroups
  <2>2. QED
    BY <2>1, QueueRows
<1>2. ASSUME NEW k \in Kinds PROVE q[k][t] \in Seq(TeamGroups(q, t))
  <2>1. q[k][t] \in Seq(GroupType)
    BY QueueRows
  <2>2. PICK row : row = q[k][t]
    OBVIOUS
  <2>3. \A n \in 1..Len(row) : row[n] \in TeamGroups(q, t)
    <3>1. DOMAIN row = 1..Len(row)
      BY <2>1, <2>2
    <3>2. QED
      BY <2>2, <3>1 DEF TeamGroups, ToSet
  <2>4. row \in Seq(TeamGroups(q, t))
    BY <2>1, <2>2, <2>3
  <2>5. QED
    BY <2>2, <2>4
<1>3. QED
  BY <1>1, <1>2

\* Groups selected for each team go where there is room for them.
LEMMA InviteSelected ==
    ASSUME PlayersOK, NEW s \in Stages, NEW i \in Instances, NEW lim \in [Teams -> Nat],
           \A t \in Teams : /\ lim[t] <= s.bg[0].max - s.bg[i].invited[t]
                            /\ s.bg[i].status = "none" => lim[t] = 0,
           NEW pools, \A t \in Teams : pools[t] \in Selection(TeamGroups(s.queue, t), lim[t]),
           NEW S, S = UNION {pools[t].groups : t \in Teams}
    PROVE  InviteGroups(s, S, i) \in Stages
<1>1. PICK q : q = s.queue
  OBVIOUS
<1>2. QueueOK(q) /\ BattlegroundsOK(s.bg) /\ Consistent(s.queue, s.bg, s.invitedTo)
  BY <1>1, StageUnfolds
<1>3. ASSUME NEW t \in Teams
      PROVE  /\ pools[t].groups \in SUBSET {g \in TeamGroups(q, t) : g.bg = NoBattleground}
             /\ Cardinality(Members(pools[t].groups)) <= lim[t]
             /\ Members(pools[t].groups) \in SUBSET Players
             /\ \A p \in Members(pools[t].groups) : Team[p] = t
  <2>1. pools[t] \in Selection(TeamGroups(q, t), lim[t])
    BY <1>1
  <2>2. PICK P : P = pools[t].groups
    OBVIOUS
  <2>3. P \in SUBSET {g \in TeamGroups(q, t) : g.bg = NoBattleground}
    BY <2>1, <2>2 DEF Selection
  <2>4. \A g \in P : g.players \in SUBSET Players /\ \A p \in g.players : Team[p] = t
    BY <1>2, <2>3, TeamGroupsOK DEF GroupType
  <2>5. Members(P) \in SUBSET Players /\ \A p \in Members(P) : Team[p] = t
    BY <2>4 DEF Members
  <2>6. Cardinality(Members(P)) <= lim[t]
    <3>1. Cardinality(Members(P)) <= pools[t].count /\ pools[t].count <= lim[t] /\ pools[t].count \in Int
      BY <2>1, <2>2 DEF Selection, PoolType
    <3>2. Cardinality(Members(P)) \in Nat /\ lim[t] \in Nat
      BY <2>5, FinitePlayers
    <3>3. QED
      BY <3>1, <3>2
  <2>7. QED
    BY <2>2, <2>3, <2>5, <2>6
<1>4. S \subseteq {g \in GroupsIn(q) : g.bg = NoBattleground}
  <2>1. \A t \in Teams : TeamGroups(q, t) \in SUBSET GroupsIn(q)
    BY <1>2, TeamGroupsOK
  <2>2. QED
    BY <1>3, <2>1
<1>5. ASSUME NEW t \in Teams PROVE OfTeam(Members(S), t) = Members(pools[t].groups)
  <2>1. \A p : p \in Members(S) <=> \E u \in Teams : p \in Members(pools[u].groups)
    BY DEF Members
  <2>2. \A p : p \in OfTeam(Members(S), t) => p \in Members(pools[t].groups)
    BY <1>3, <2>1 DEF OfTeam
  <2>3. \A p : p \in Members(pools[t].groups) => p \in OfTeam(Members(S), t)
    BY <1>3, <2>1 DEF OfTeam
  <2>4. QED
    BY <2>2, <2>3
<1>6. ASSUME NEW t \in Teams
      PROVE  Cardinality(OfTeam(Members(S), t)) <= s.bg[0].max - s.bg[i].invited[t]
  <2>1. PICK x : x = Cardinality(Members(pools[t].groups))
    OBVIOUS
  <2>2. x \in Nat /\ x <= lim[t] /\ lim[t] \in Nat
    BY <1>3, <2>1, FinitePlayers
  <2>3. lim[t] <= s.bg[0].max - s.bg[i].invited[t]
    OBVIOUS
  <2>4. s.bg[0].max \in Int /\ s.bg[i].invited[t] \in Int
    <3>1. s.bg[i].invited[t] \in Nat
      BY <1>2, CountsAreNat
    <3>2. s.bg[0].max \in Nat
      BY <1>2, CapacityIsNat
    <3>3. Nat \subseteq Int
      OBVIOUS
    <3>4. QED
      BY ONLY <3>1, <3>2, <3>3
  <2>5. x <= s.bg[0].max - s.bg[i].invited[t]
    BY <2>2, <2>3, <2>4
  <2>6. QED
    BY <1>5, <2>1, <2>5
<1>7. ASSUME s.bg[i].status = "none" PROVE Members(S) = {}
  <2>1. ASSUME NEW t \in Teams PROVE Members(pools[t].groups) = {}
    <3>1. PICK M \in SUBSET Players : M = Members(pools[t].groups)
      BY <1>3
    <3>2. Cardinality(M) <= 0 /\ Cardinality(M) \in Nat /\ IsFiniteSet(M)
      BY <1>3, <1>7, <3>1, FinitePlayers
    <3>3. QED
      BY <3>1, <3>2, FS_EmptySet
  <2>2. QED
    BY <2>1 DEF Members
<1>8. QED
  BY <1>1, <1>4, <1>6, <1>7, InviteGroupsOK

\* FillPlayersToBG gives a battleground no more players than it has places.
LEMMA FillPlayersOK ==
    ASSUME PlayersOK, BattlegroundsOK(bg), NEW s \in Stages, NEW i \in Instances
    PROVE  FillPlayersToBG(s, i) \in Stages
<1>1. PICK lim, pools, S :
        /\ lim = [t \in Teams |-> GetFreeSlotsForTeam(s.bg, i, t)]
        /\ pools = [t \in Teams |-> SelectAll(Pool, s.queue["normal"][t], GetFreeSlotsForTeam(s.bg, i, t))]
        /\ S = UNION {pools[t].groups : t \in Teams}
  OBVIOUS
<1>2. Consistent(s.queue, s.bg, s.invitedTo) /\ BattlegroundsOK(s.bg) /\ s.bg[0] = bg[0] /\ QueueOK(s.queue)
  BY StageUnfolds
<1>3. ASSUME NEW t \in Teams
      PROVE  /\ lim[t] \in Nat /\ lim[t] <= s.bg[0].max - s.bg[i].invited[t]
             /\ s.bg[i].status = "none" => lim[t] = 0
  <2>1. \A u \in Teams : s.bg[i].invited[u] \in Nat /\ s.bg[i].invited[u] <= s.bg[0].max
    BY <1>2, CountsAreNat
  <2>2. lim[t] = GetFreeSlotsForTeam(s.bg, i, t)
    BY <1>1
  <2>3. PICK b, free : b = s.bg /\ free = GetFreeSlotsForTeam(b, i, t)
    OBVIOUS
  <2>4. BattlegroundsOK(b) /\ b[0] = bg[0] /\ \A u \in Teams : b[i].invited[u] \in Nat /\ b[i].invited[u] <= b[0].max
    BY <1>2, <2>1, <2>3
  <2>5. free \in Nat /\ free <= b[0].max - b[i].invited[t] /\ (b[i].status = "none" => free = 0)
    BY <2>3, <2>4, FreeSlotsOK
  <2>6. QED
    BY <2>2, <2>3, <2>5
<1>4. lim \in [Teams -> Nat]
  BY <1>1, <1>3
<1>5. ASSUME NEW t \in Teams PROVE pools[t] \in Selection(TeamGroups(s.queue, t), lim[t])
  <2>1. PICK G, list, d : G = TeamGroups(s.queue, t) /\ list = s.queue["normal"][t] /\ d = lim[t]
    OBVIOUS
  <2>2. "normal" \in Kinds
    BY DEF Kinds
  <2>3. G \in SUBSET GroupType /\ list \in Seq(G) /\ d \in Nat
    BY <1>2, <1>3, <2>1, <2>2, TeamGroupsOK
  <2>4. Pool \in Selection(G, d)
    BY <2>3, PoolSelected
  <2>5. SelectAll(Pool, list, d) \in Selection(G, d)
    BY <2>3, <2>4, SelectAllOK
  <2>6. QED
    BY <1>1, <2>1, <2>5
<1>6. PICK filled : filled = InviteGroups(s, S, i)
  OBVIOUS
<1>7. filled \in Stages
  <2>1. \A t \in Teams : /\ lim[t] <= s.bg[0].max - s.bg[i].invited[t]
                         /\ s.bg[i].status = "none" => lim[t] = 0
    BY <1>3
  <2>2. S = UNION {pools[t].groups : t \in Teams}
    BY <1>1
  <2>3. \A t \in Teams : pools[t] \in Selection(TeamGroups(s.queue, t), lim[t])
    BY <1>5
  <2>4. QED
    BY <1>4, <1>6, <2>1, <2>2, <2>3, InviteSelected
<1>8. FillPlayersToBG(s, i) = IF HasFreeSlots(i) THEN filled
                              ELSE [filled EXCEPT !.freeSlots = Within(@, Instances \ {i})]
  <2>1. S = UNION {SelectAll(Pool, s.queue["normal"][t], GetFreeSlotsForTeam(s.bg, i, t)).groups : t \in Teams}
    BY <1>1
  <2>2. QED
    BY <1>6, <2>1 DEF FillPlayersToBG
<1>9. PICK fs : fs = Within(filled.freeSlots, Instances \ {i})
  OBVIOUS
<1>10. fs \in Seq(Instances)
  <2>1. PICK old : old = filled.freeSlots
    OBVIOUS
  <2>2. old \in Seq(Instances)
    BY <1>7, <2>1, StageUnfolds DEF StageType
  <2>3. Within(old, Instances \ {i}) \in Seq(Instances)
    BY <2>2, WithinOK
  <2>4. QED
    BY <1>9, <2>1, <2>3
<1>11. PICK less : less = [filled EXCEPT !.freeSlots = fs]
  OBVIOUS
<1>12. less \in Stages
  BY <1>7, <1>10, <1>11, FreeSlotsChange
<1>13. QED
  BY <1>7, <1>8, <1>9, <1>11, <1>12

\* What the loop over the battlegrounds with free places folds.
Filler(s, list, f) ==
    f = [T \in SUBSET (DOMAIN list) |->
            IF T = {} THEN s ELSE FillPlayersToBG(f[T \ {Max(T)}], list[Max(T)])]

\* The battlegrounds with free slots are filled one at a time.
LEMMA FillAllUnfolds ==
    ASSUME NEW s, NEW list
    PROVE  FoldLeft(FillPlayersToBG, s, list) = (CHOOSE f : Filler(s, list, f))[DOMAIN list]
  BY DEF FoldLeft, MapThenFoldSet, Filler

\* So all of them are filled rightly.
LEMMA FillAllOK ==
    ASSUME PlayersOK, BattlegroundsOK(bg), NEW s \in Stages, NEW list \in Seq(Instances)
    PROVE  FoldLeft(FillPlayersToBG, s, list) \in Stages
<1> DEFINE n == Len(list)
           step == [w \in Stages \X (1..n) |-> FillPlayersToBG(w[1], list[w[2]])]
<1>1. n \in Nat /\ DOMAIN list = 1..n /\ \A i \in 1..n : list[i] \in Instances
  OBVIOUS
<1>2. step \in [Stages \X (1..n) -> Stages]
  <2> SUFFICES ASSUME NEW w \in Stages \X (1..n) PROVE step[w] \in Stages
    OBVIOUS
  <2>1. w[1] \in Stages /\ list[w[2]] \in Instances
    BY <1>1
  <2> HIDE DEF n
  <2>2. FillPlayersToBG(w[1], list[w[2]]) \in Stages
    BY <2>1, FillPlayersOK
  <2>3. QED
    BY <2>2
<1> HIDE DEF step
<1>3. PICK f : Folder(Stages, n, s, step, f)
  BY <1>1, <1>2, FolderExists
<1>4. ASSUME NEW T \in SUBSET (1..n), T # {}
      PROVE  f[T] = FillPlayersToBG(f[T \ {Max(T)}], list[Max(T)])
  <2> DEFINE w == <<f[T \ {Max(T)}], Max(T)>>
  <2>1. Max(T) \in 1..n
    BY <1>1, <1>4, TopIs
  <2>2. f[T \ {Max(T)}] \in Stages
    BY <1>3 DEF Folder
  <2>3. w \in Stages \X (1..n) /\ w[1] = f[T \ {Max(T)}] /\ w[2] = Max(T)
    BY <2>1, <2>2
  <2>4. f[T] = step[w]
    BY <1>3, <1>4 DEF Folder
  <2> HIDE DEF w
  <2>5. step[w] = FillPlayersToBG(w[1], list[w[2]])
    BY <2>3 DEF step
  <2>6. QED
    BY <2>3, <2>4, <2>5
<1>5. Filler(s, list, f)
  <2>1. f[{}] = s /\ f = [T \in SUBSET (1..n) |-> f[T]]
    BY <1>3 DEF Folder
  <2>2. QED
    BY <1>1, <1>4, <2>1 DEF Filler
<1>6. PICK h : Filler(s, list, h) /\ FoldLeft(FillPlayersToBG, s, list) = h[DOMAIN list]
  BY <1>5, FillAllUnfolds
<1> DEFINE Good == {T \in SUBSET (1..n) : h[T] \in Stages}
<1>7. {} \in Good
  <2>1. h[{}] = s
    BY <1>1, <1>6 DEF Filler
  <2>2. QED
    BY <2>1
<1>8. ASSUME NEW T \in SUBSET (1..n), T # {}, T \ {Max(T)} \in Good
      PROVE  T \in Good
  <2>1. h[T] = FillPlayersToBG(h[T \ {Max(T)}], list[Max(T)])
    BY <1>1, <1>6, <1>8 DEF Filler
  <2>2. list[Max(T)] \in Instances /\ h[T \ {Max(T)}] \in Stages
    BY <1>1, <1>8, TopIs
  <2>3. FillPlayersToBG(h[T \ {Max(T)}], list[Max(T)]) \in Stages
    BY <2>2, FillPlayersOK
  <2>4. QED
    BY <1>8, <2>1, <2>3
<1>9. SUBSET (1..n) \subseteq Good
  <2> HIDE DEF Good, n
  <2>1. \A T \in SUBSET (1..n) : T # {} /\ T \ {Max(T)} \in Good => T \in Good
    BY <1>8
  <2>2. QED
    BY <1>1, <1>7, <2>1, FoldInduct
<1>10. QED
  BY <1>1, <1>6, <1>9

\* A new battleground.
Opened == [Deleted EXCEPT !.status = "join"]

\* A battleground that is created is empty.
LEMMA OpenedIs ==
    /\ Opened \in BattlegroundType /\ Opened.status = "join"
    /\ Opened.players = {} /\ Opened.offline = <<>> /\ \A t \in Teams : Opened.invited[t] = 0
<1>1. PICK none : none = [t \in Teams |-> 0]
  OBVIOUS
<1>2. Opened = [status |-> "join", players |-> {}, invited |-> none, offline |-> <<>>]
  <2>1. Deleted = [status |-> "none", players |-> {}, invited |-> none, offline |-> <<>>]
    BY <1>1, Zenon DEF Deleted
  <2>2. PICK d : d = Deleted
    OBVIOUS
  <2>3. Opened = [d EXCEPT !.status = "join"]
    BY <2>2 DEF Opened
  <2>4. QED
    BY <2>1, <2>2, <2>3
<1>3. none \in [Teams -> Int] /\ <<>> \in Seq(Players) /\ \A t \in Teams : none[t] = 0
  BY <1>1
<1>4. QED
  BY <1>2, <1>3 DEF BattlegroundType

\* An empty battleground with no place taken.
Vacant(x) == x.players = {} /\ \A t \in Teams : x.invited[t] = 0
Empty(x) == Vacant(x) /\ x.offline = <<>>

Placed(b, i, x) == [b EXCEPT ![i] = x]

\* The battleground i is put into, or taken from, its place when nobody is in it.
LEMMA EmptyChange ==
    ASSUME NEW q, NEW b, NEW told, Consistent(q, b, told), NEW i \in Instances,
           Vacant(b[i]),
           NEW x \in BattlegroundType, Empty(x), x.status = "none" => x = Deleted,
           NEW b2, b2 = Placed(b, i, x)
    PROVE  Consistent(q, b2, told)
<1>0. /\ x.players = {} /\ x.offline = <<>> /\ \A t \in Teams : x.invited[t] = 0
      /\ b[i].players = {} /\ \A t \in Teams : b[i].invited[t] = 0
  BY DEF Empty, Vacant
<1>1. /\ QueueOK(q) /\ OneGroupEach(q) /\ BattlegroundsOK(b) /\ QueuedOK(q, told)
      /\ BusyOK(b, told) /\ SlotsOK(q) /\ CountsOK(q, b)
  BY DEF Consistent
<1>2. b \in [Instances \cup {0} -> BattlegroundType \cup [max : Capacities]] /\ 0 \notin Instances
  BY <1>1, QueueAssumption DEF BattlegroundsOK, NoBattleground
<1>3. /\ b2 \in [Instances \cup {0} -> BattlegroundType \cup [max : Capacities]]
      /\ b2[i] = x /\ b2[0] = b[0] /\ \A j \in Instances \ {i} : b2[j] = b[j]
  BY <1>2 DEF Placed
<1>4. \A j \in Instances : b2[j].players = b[j].players
  BY <1>0, <1>3
<1>5. \A j \in Instances, t \in Teams : b2[j].invited[t] = b[j].invited[t]
  BY <1>0, <1>3
<1>6. BattlegroundsOK(b2)
  <2>1. b2[0] \in [max : Capacities] /\ \A j \in Instances : b2[j] \in BattlegroundType
    BY <1>1, <1>3 DEF BattlegroundsOK
  <2>2. \A j \in Instances : b2[j].status = "none" => b2[j] = Deleted
    BY <1>1, <1>3 DEF BattlegroundsOK
  <2>3. Len(<<>>) = 0
    OBVIOUS
  <2>4. OfflineOK(b2)
    <3> SUFFICES ASSUME NEW j \in Instances, b2[j].status \in {"join", "progress"}
                 PROVE  /\ \A n \in 1..Len(b2[j].offline) :
                               ~online[b2[j].offline[n]] /\ b2[j].offline[n] \in b2[j].players
                        /\ \A m, n \in 1..Len(b2[j].offline) : m # n => b2[j].offline[m] # b2[j].offline[n]
      BY DEF OfflineOK
    <3>1. CASE j = i
      <4>1. Len(b2[j].offline) = 0
        BY <1>0, <1>3, <2>3, <3>1
      <4>2. \A n \in 1..Len(b2[j].offline) : FALSE
        BY <4>1
      <4>3. QED
        BY <4>2
    <3>2. CASE j # i
      BY <1>1, <1>3, <3>2 DEF BattlegroundsOK, OfflineOK
    <3>3. QED
      BY <3>1, <3>2
  <2>5. QED
    BY <1>3, <2>1, <2>2, <2>4 DEF BattlegroundsOK
<1>7. BusyOK(b2, told)
  BY <1>1, <1>4 DEF BusyOK
<1>8. CountsOK(q, b2)
  <2>1. \A j \in Instances : Expected(q, b2, j) = Expected(q, b, j)
    BY <1>4 DEF Expected
  <2>2. \A j \in Instances, t \in Teams :
            /\ b[j].invited[t] = Cardinality(OfTeam(Expected(q, b, j), t))
            /\ b[j].invited[t] <= b[0].max
    BY <1>1 DEF CountsOK
  <2>3. \A j \in Instances, t \in Teams :
            /\ b2[j].invited[t] = Cardinality(OfTeam(Expected(q, b2, j), t))
            /\ b2[j].invited[t] <= b2[0].max
    <3> SUFFICES ASSUME NEW j \in Instances, NEW t \in Teams
                 PROVE  /\ b2[j].invited[t] = Cardinality(OfTeam(Expected(q, b2, j), t))
                        /\ b2[j].invited[t] <= b2[0].max
      OBVIOUS
    <3>1. b2[j].invited[t] = b[j].invited[t] /\ b2[0].max = b[0].max /\ Expected(q, b2, j) = Expected(q, b, j)
      BY <1>3, <1>5, <2>1
    <3>2. b[j].invited[t] = Cardinality(OfTeam(Expected(q, b, j), t)) /\ b[j].invited[t] <= b[0].max
      BY <2>2
    <3>3. QED
      BY <3>1, <3>2
  <2>4. QED
    BY <2>3 DEF CountsOK
<1>9. QED
  BY <1>1, <1>3, <1>6, <1>7, <1>8 DEF Consistent

\* CreateNewBattleground and the invitations of those who were selected for it.
LEMMA StartWithOK ==
    ASSUME PlayersOK, NEW s \in Stages,
           NEW pools, \A t \in Teams : pools[t] \in Selection(TeamGroups(s.queue, t), s.bg[0].max),
           NEW S, S = UNION {pools[t].groups : t \in Teams}
    PROVE  StartWith(s, S) \in Stages
<1>1. PICK free : free = {i \in Instances : s.bg[i].status = "none"}
  OBVIOUS
<1>2. PICK i : i = CHOOSE m \in free : \A k \in free : m <= k
  OBVIOUS
<1>3. PICK new : new = [s EXCEPT !.bg[i] = Opened]
  OBVIOUS
<1>4. PICK called : called = InviteGroups(new, S, i)
  OBVIOUS
<1>5. StartWith(s, S) = IF free = {} THEN s ELSE [called EXCEPT !.freeSlots = <<i>> \o @]
  BY <1>1, <1>2, <1>3, <1>4 DEF StartWith, Opened
<1>6. CASE free = {}
  BY <1>5, <1>6
<1>7. CASE free # {}
  <2>1. i \in Instances /\ s.bg[i].status = "none"
    <3>1. free \subseteq Nat
      BY <1>1, QueueAssumption
    <3>2. \E m \in free : \A k \in free : m <= k
      BY <1>7, <3>1, LeastNumber
    <3>3. i \in free
      BY <1>2, <3>2
    <3>4. QED
      BY <1>1, <3>3
  <2>2. PICK b, b2 : b = s.bg /\ b2 = [b EXCEPT ![i] = Opened]
    OBVIOUS
  <2>3. /\ s \in StageType /\ Consistent(s.queue, b, s.invitedTo) /\ b[0] = bg[0]
        /\ events \subseteq s.events /\ QueueOK(s.queue) /\ BattlegroundsOK(b)
    BY <2>2, StageUnfolds
  <2>4. new = [s EXCEPT !.bg = b2]
    BY <1>3, <2>2, <2>3 DEF StageType
  <2>5. b[i] = Deleted
    BY <2>1, <2>2, <2>3 DEF BattlegroundsOK
  <2>6. /\ Consistent(s.queue, b2, s.invitedTo) /\ b2[0] = b[0] /\ b2[i] = Opened
        /\ b2 \in [Instances \cup {0} -> BattlegroundType \cup [max : Capacities]]
    <3>1. Vacant(b[i])
      BY <2>5, DeletedIsEmpty DEF Vacant
    <3>2. PICK x : x = Opened
      OBVIOUS
    <3>3. x \in BattlegroundType /\ Empty(x) /\ (x.status = "none" => x = Deleted)
      BY <3>2, OpenedIs DEF Empty, Vacant
    <3>4. b2 = Placed(b, i, x)
      BY <2>2, <3>2 DEF Placed
    <3>5. /\ Consistent(s.queue, b2, s.invitedTo) /\ b2[0] = b[0] /\ b2[i] = x
          /\ b2 \in [Instances \cup {0} -> BattlegroundType \cup [max : Capacities]]
      <4>1. PICK q, told : q = s.queue /\ told = s.invitedTo
        OBVIOUS
      <4>2. Consistent(q, b, told)
        BY <2>3, <4>1
      <4>3. i \in Instances
        BY <2>1
      <4>4. Consistent(q, b2, told)
        BY <3>1, <3>3, <3>4, <4>2, <4>3, EmptyChange
      <4>5. 0 \notin Instances /\ b \in [Instances \cup {0} -> BattlegroundType \cup [max : Capacities]]
        BY <2>3, QueueAssumption DEF BattlegroundsOK, NoBattleground
      <4>6. b2[0] = b[0] /\ b2[i] = x
        BY <3>4, <4>3, <4>5 DEF Placed
      <4>7. b2 \in [Instances \cup {0} -> BattlegroundType \cup [max : Capacities]]
        BY <4>4 DEF Consistent, BattlegroundsOK
      <4>8. QED
        BY <4>1, <4>4, <4>6, <4>7
    <3>6. QED
      BY <3>2, <3>5
  <2>7. /\ new \in Stages /\ new.queue = s.queue /\ new.bg = b2
    <3>1. /\ new \in StageType /\ new.queue = s.queue /\ new.bg = b2 /\ new.events = s.events
          /\ new.invitedTo = s.invitedTo
      BY <2>3, <2>4, <2>6 DEF StageType
    <3>2. QED
      BY <2>3, <2>6, <3>1 DEF Stages
  <2>8. PICK lim : lim = [t \in Teams |-> b2[0].max]
    OBVIOUS
  <2>9. lim \in [Teams -> Nat] /\ \A t \in Teams : lim[t] = s.bg[0].max
    <3>1. b[0].max \in Nat
      BY <2>3, CapacityIsNat
    <3>2. QED
      BY <2>2, <2>6, <2>8, <3>1
  <2>10. called \in Stages
    <3>1. \A t \in Teams : /\ lim[t] <= new.bg[0].max - new.bg[i].invited[t]
                           /\ new.bg[i].status = "none" => lim[t] = 0
      <4> SUFFICES ASSUME NEW t \in Teams
                   PROVE  /\ lim[t] <= new.bg[0].max - new.bg[i].invited[t]
                          /\ new.bg[i].status = "none" => lim[t] = 0
        OBVIOUS
      <4>1. new.bg[i] = Opened /\ Opened.invited[t] = 0 /\ Opened.status = "join"
        BY <2>6, <2>7, OpenedIs
      <4>2. lim[t] = new.bg[0].max /\ lim[t] \in Nat
        BY <2>2, <2>6, <2>7, <2>9
      <4>3. lim[t] <= new.bg[0].max - new.bg[i].invited[t]
        BY <4>1, <4>2
      <4>4. QED
        BY <4>1, <4>3
    <3>2. \A t \in Teams : pools[t] \in Selection(TeamGroups(new.queue, t), lim[t])
      BY <2>7, <2>9
    <3>3. QED
      BY <1>4, <2>1, <2>7, <2>9, <3>1, <3>2, InviteSelected
  <2>11. PICK fs : fs = <<i>> \o called.freeSlots
    OBVIOUS
  <2>12. fs \in Seq(Instances)
    <3>1. called.freeSlots \in Seq(Instances)
      BY <2>10, StageUnfolds DEF StageType
    <3>2. QED
      BY <2>1, <2>11, <3>1
  <2>13. PICK out : out = [called EXCEPT !.freeSlots = fs]
    OBVIOUS
  <2>14. out \in Stages
    BY <2>10, <2>12, <2>13, FreeSlotsChange
  <2>15. QED
    BY <1>5, <1>7, <2>11, <2>13, <2>14
<1>8. QED
  BY <1>6, <1>7

\* CheckNormalMatch.
LEMMA CheckNormalOK ==
    ASSUME PlayersOK, NEW s \in Stages PROVE CheckNormalMatch(s) \in Stages
<1>1. PICK pools, S :
        /\ pools = [t \in Teams |-> SelectEnough(Waiting(s.queue["normal"][t]))]
        /\ S = UNION {pools[t].groups : t \in Teams}
  OBVIOUS
<1>2. QueueOK(s.queue) /\ BattlegroundsOK(s.bg) /\ s.bg[0] = bg[0]
  BY StageUnfolds
<1>3. MaxPlayersPerTeam = s.bg[0].max /\ s.bg[0].max \in Nat
  BY <1>2, CapacityIsNat DEF MaxPlayersPerTeam
<1>4. ASSUME NEW t \in Teams PROVE pools[t] \in Selection(TeamGroups(s.queue, t), s.bg[0].max)
  <2>1. PICK G, row, list, m : /\ G = TeamGroups(s.queue, t) /\ row = s.queue["normal"][t]
                               /\ list = Waiting(row) /\ m = s.bg[0].max
    OBVIOUS
  <2>2. "normal" \in Kinds
    BY DEF Kinds
  <2>3. G \in SUBSET GroupType /\ row \in Seq(G)
    BY <1>2, <2>1, <2>2, TeamGroupsOK
  <2>4. list \in Seq(G)
    BY <2>1, <2>3, WithinOK DEF Waiting
  <2>5. m \in Nat /\ MaxPlayersPerTeam \in Int /\ MaxPlayersPerTeam <= m
    BY <1>3, <2>1
  <2>6. SelectEnough(list) \in Selection(G, m)
    BY <2>3, <2>4, <2>5, SelectEnoughOK
  <2>7. QED
    BY <1>1, <2>1, <2>6
<1>5. StartWith(s, S) \in Stages
  BY <1>1, <1>4, StartWithOK
<1>6. S = UNION {SelectEnough(Waiting(s.queue["normal"][t])).groups : t \in Teams}
  BY <1>1
<1>7. CheckNormalMatch(s) \in {s, StartWith(s, S)}
  BY <1>6 DEF CheckNormalMatch
<1>8. QED
  BY <1>5, <1>7

\* A list is its head and its tail.
LEMMA HeadAndTail ==
    ASSUME NEW X, NEW row \in Seq(X), row # <<>>
    PROVE  /\ Head(row) \in X /\ Head(row) \in ToSet(row) /\ Tail(row) \in Seq(X)
           /\ ToSet(row) = {Head(row)} \cup ToSet(Tail(row))
<1>1. PICK n \in Nat : n = Len(row)
  OBVIOUS
<1>2. n >= 1 /\ DOMAIN row = 1..n /\ Head(row) = row[1] /\ \A m \in 1..n : row[m] \in X
  BY <1>1
<1>3. PICK t : t = Tail(row)
  OBVIOUS
<1>4. t \in Seq(X) /\ Len(t) = n - 1 /\ \A m \in 1..(n - 1) : t[m] = row[m + 1]
  BY <1>1, <1>2, <1>3
<1>5. DOMAIN t = 1..(n - 1)
  BY <1>4
<1>6. ASSUME NEW x \in ToSet(row) PROVE x = Head(row) \/ x \in ToSet(t)
  <2>1. PICK m \in 1..n : x = row[m]
    BY <1>2 DEF ToSet
  <2>2. CASE m = 1
    BY <1>2, <2>1, <2>2
  <2>3. CASE m # 1
    <3>1. m - 1 \in 1..(n - 1) /\ t[m - 1] = row[(m - 1) + 1] /\ (m - 1) + 1 = m
      BY <1>4, <2>3
    <3>2. QED
      BY <1>5, <2>1, <3>1 DEF ToSet
  <2>4. QED
    BY <2>2, <2>3
<1>7. ASSUME NEW x \in ToSet(t) PROVE x \in ToSet(row)
  <2>1. PICK m \in 1..(n - 1) : x = t[m]
    BY <1>5 DEF ToSet
  <2>2. m + 1 \in 1..n /\ x = row[m + 1]
    BY <1>4, <2>1
  <2>3. QED
    BY <1>2, <2>2 DEF ToSet
<1>8. Head(row) \in ToSet(row)
  BY <1>2 DEF ToSet
<1>9. Head(row) \in X
  BY <1>2
<1>10. QED
  BY <1>3, <1>4, <1>6, <1>7, <1>8, <1>9

\* A list with a new first element.
LEMMA PutFirst ==
    ASSUME NEW X, NEW row \in Seq(X), NEW g \in X, NEW new, new = <<g>> \o row
    PROVE  new \in Seq(X) /\ ToSet(new) = {g} \cup ToSet(row)
<1>1. PICK n \in Nat : n = Len(row)
  OBVIOUS
<1>2. /\ new \in Seq(X) /\ Len(new) = n + 1 /\ DOMAIN row = 1..n /\ DOMAIN new = 1..(n + 1)
      /\ new[1] = g /\ \A m \in 1..n : new[m + 1] = row[m]
  BY <1>1
<1>3. ASSUME NEW x \in ToSet(new) PROVE x = g \/ x \in ToSet(row)
  <2>1. PICK m \in 1..(n + 1) : x = new[m]
    BY <1>2 DEF ToSet
  <2>2. CASE m = 1
    BY <1>2, <2>1, <2>2
  <2>3. CASE m # 1
    <3>1. m - 1 \in 1..n /\ (m - 1) + 1 = m
      BY <2>3
    <3>2. x = row[m - 1]
      BY <1>2, <2>1, <3>1
    <3>3. QED
      BY <1>2, <3>1, <3>2 DEF ToSet
  <2>4. QED
    BY <2>2, <2>3
<1>4. g \in ToSet(new)
  <2>1. 1 \in 1..(n + 1)
    OBVIOUS
  <2>2. QED
    BY <1>2, <2>1 DEF ToSet
<1>5. ASSUME NEW x \in ToSet(row) PROVE x \in ToSet(new)
  <2>1. PICK m \in 1..n : x = row[m]
    BY <1>2 DEF ToSet
  <2>2. m + 1 \in 1..(n + 1) /\ x = new[m + 1]
    BY <1>2, <2>1
  <2>3. QED
    BY <1>2, <2>2 DEF ToSet
<1>6. QED
  BY <1>2, <1>3, <1>4, <1>5

\* The first premade groups of the teams in moving wait in the normal queue.
MovedRow(q, moving, k, t) ==
    CASE t \notin moving -> q[k][t]
      [] t \in moving /\ k = "premade" -> Tail(q[k][t])
      [] t \in moving /\ k = "normal" -> <<Head(q["premade"][t])>> \o q[k][t]

Moved(q, moving) == [k \in Kinds |-> [t \in Teams |-> MovedRow(q, moving, k, t)]]

\* Moving a premade group to the normal queue changes nobody's place.
LEMMA MoveQueue ==
    ASSUME NEW q, QueueOK(q), NEW moving, \A t \in moving : t \in Teams /\ q["premade"][t] # <<>>,
           NEW new, new = Moved(q, moving)
    PROVE  QueueOK(new) /\ GroupsIn(new) = GroupsIn(q)
<1>1. "premade" \in Kinds /\ "normal" \in Kinds /\ \A k \in Kinds : k = "premade" \/ k = "normal"
  BY DEF Kinds
<1>2. \A k \in Kinds, t \in Teams : q[k][t] \in Seq(GroupType)
  BY QueueRows
<1>3. ASSUME NEW t \in moving
      PROVE  /\ new["premade"][t] \in Seq(GroupType) /\ new["normal"][t] \in Seq(GroupType)
             /\ ToSet(q["premade"][t]) = {Head(q["premade"][t])} \cup ToSet(new["premade"][t])
             /\ ToSet(new["normal"][t]) = {Head(q["premade"][t])} \cup ToSet(q["normal"][t])
  <2>1. t \in Teams
    OBVIOUS
  <2>2. PICK pre, row, less, more :
            /\ pre = q["premade"][t] /\ row = q["normal"][t]
            /\ less = new["premade"][t] /\ more = new["normal"][t]
    OBVIOUS
  <2>3. pre \in Seq(GroupType) /\ row \in Seq(GroupType) /\ pre # <<>>
    BY <1>1, <1>2, <2>1, <2>2
  <2>4. less = Tail(pre) /\ more = <<Head(pre)>> \o row
    BY <1>1, <2>1, <2>2 DEF Moved, MovedRow
  <2>5. /\ Head(pre) \in GroupType /\ less \in Seq(GroupType)
        /\ ToSet(pre) = {Head(pre)} \cup ToSet(less)
    BY <2>3, <2>4, HeadAndTail
  <2>6. PICK h \in GroupType : h = Head(pre)
    BY <2>5
  <2>7. more \in Seq(GroupType) /\ ToSet(more) = {h} \cup ToSet(row)
    <3>1. more = <<h>> \o row
      BY <2>4, <2>6
    <3>2. h \in GroupType /\ row \in Seq(GroupType)
      BY <2>3, <2>6
    <3>3. QED
      BY ONLY <3>1, <3>2, PutFirst
  <2>8. QED
    BY <2>2, <2>5, <2>6, <2>7
<1>4. ASSUME NEW k \in Kinds, NEW t \in Teams \ moving PROVE new[k][t] = q[k][t]
  <2>1. new[k][t] = CASE t \notin moving -> q[k][t]
                      [] t \in moving /\ k = "premade" -> Tail(q[k][t])
                      [] t \in moving /\ k = "normal" -> <<Head(q["premade"][t])>> \o q[k][t]
    BY DEF Moved, MovedRow
  <2>2. QED
    BY <2>1
<1>5. \A k \in Kinds, t \in Teams : new[k][t] \in Seq(GroupType)
  <2> SUFFICES ASSUME NEW k \in Kinds, NEW t \in Teams PROVE new[k][t] \in Seq(GroupType)
    OBVIOUS
  <2>1. CASE t \in moving
    BY <1>1, <1>3, <2>1
  <2>2. CASE t \notin moving
    BY <1>2, <1>4, <2>2
  <2>3. QED
    BY <2>1, <2>2
<1>6. new \in [Kinds -> [Teams -> Seq(GroupType)]]
  <2>1. DOMAIN new = Kinds /\ new = [k \in DOMAIN new |-> new[k]]
    BY DEF Moved
  <2>2. ASSUME NEW k \in Kinds PROVE new[k] \in [Teams -> Seq(GroupType)]
    <3>1. PICK rows : rows = new[k]
      OBVIOUS
    <3>2. DOMAIN rows = Teams /\ rows = [t \in DOMAIN rows |-> rows[t]]
      BY <3>1 DEF Moved
    <3>3. \A t \in Teams : rows[t] \in Seq(GroupType)
      BY <1>5, <3>1
    <3>4. QED
      BY <3>1, <3>2, <3>3
  <2>3. QED
    BY <2>1, <2>2
<1>7. ASSUME NEW k \in Kinds, NEW t \in Teams, NEW g \in ToSet(new[k][t])
      PROVE  \E j \in Kinds : g \in ToSet(q[j][t])
  <2>1. CASE t \in moving
    <3>1. CASE k = "premade"
      BY <1>1, <1>3, <1>7, <2>1, <3>1
    <3>2. CASE k = "normal"
      <4>1. g \in {Head(q["premade"][t])} \cup ToSet(q["normal"][t])
        BY <1>3, <1>7, <2>1, <3>2
      <4>2. Head(q["premade"][t]) \in ToSet(q["premade"][t])
        BY <1>3, <2>1
      <4>3. QED
        BY <1>1, <4>1, <4>2
    <3>3. QED
      BY <1>1, <3>1, <3>2
  <2>2. CASE t \notin moving
    BY <1>4, <1>7, <2>2
  <2>3. QED
    BY <2>1, <2>2
<1>8. ASSUME NEW k \in Kinds, NEW t \in Teams, NEW g \in ToSet(q[k][t])
      PROVE  \E j \in Kinds : g \in ToSet(new[j][t])
  <2>1. CASE t \in moving
    <3>1. CASE k = "premade"
      <4>1. g \in {Head(q["premade"][t])} \cup ToSet(new["premade"][t])
        BY <1>3, <1>8, <2>1, <3>1
      <4>2. Head(q["premade"][t]) \in ToSet(new["normal"][t])
        BY <1>3, <2>1
      <4>3. QED
        BY <1>1, <4>1, <4>2
    <3>2. CASE k = "normal"
      <4>1. g \in ToSet(new["normal"][t])
        BY <1>3, <1>8, <2>1, <3>2
      <4>2. QED
        BY <1>1, <4>1
    <3>3. QED
      BY <1>1, <3>1, <3>2
  <2>2. CASE t \notin moving
    BY <1>4, <1>8, <2>2
  <2>3. QED
    BY <2>1, <2>2
<1>9. QueueOK(new)
  <2>1. ASSUME NEW k \in Kinds, NEW t \in Teams, NEW g \in ToSet(new[k][t])
        PROVE  g.players # {} /\ \A p \in g.players : Team[p] = t
    <3>1. PICK j \in Kinds : g \in ToSet(q[j][t])
      BY <1>7
    <3>2. QED
      BY <3>1, QueueRows
  <2>2. QED
    BY <1>6, <2>1 DEF QueueOK
<1>10. GroupsIn(new) = GroupsIn(q)
  <2>1. \A g \in GroupsIn(new) : g \in GroupsIn(q)
    BY <1>7 DEF GroupsIn
  <2>2. \A g \in GroupsIn(q) : g \in GroupsIn(new)
    BY <1>8 DEF GroupsIn
  <2>3. QED
    BY <2>1, <2>2
<1>11. QED
  BY <1>9, <1>10

\* CheckPremadeMatch.
LEMMA CheckPremadeOK ==
    ASSUME PlayersOK, NEW s \in Stages, NEW late PROVE CheckPremadeMatch(s, late) \in Stages
<1>1. PICK first, room, pools, S :
        /\ first = [t \in Teams |-> SelectGroup(Pool, Head(Waiting(s.queue["premade"][t])), MaxPlayersPerTeam)]
        /\ room = Smaller(first["alliance"].count, first["horde"].count)
        /\ pools = [t \in Teams |-> SelectAll(first[t], Waiting(s.queue["normal"][t]), room)]
        /\ S = UNION {pools[t].groups : t \in Teams}
  OBVIOUS
<1>2. PICK moving : moving =
        {t \in Teams : /\ s.queue["premade"][t] # <<>>
                       /\ Head(s.queue["premade"][t]).bg = NoBattleground
                       /\ t \in late \/ Size(Head(s.queue["premade"][t])) < MinPlayersPerTeam}
  OBVIOUS
<1>3. PICK q, b, told : q = s.queue /\ b = s.bg /\ told = s.invitedTo
  OBVIOUS
<1>4. /\ s \in StageType /\ Consistent(q, b, told) /\ b[0] = bg[0] /\ events \subseteq s.events
      /\ QueueOK(q) /\ OneGroupEach(q) /\ BattlegroundsOK(b)
  BY <1>3, StageUnfolds
<1>5. PICK q2, moved : q2 = Moved(q, moving) /\ moved = [s EXCEPT !.queue = q2]
  OBVIOUS
<1>6. "premade" \in Kinds /\ "normal" \in Kinds
  BY DEF Kinds
<1>7. CheckPremadeMatch(s, late) = IF \A t \in Teams : Waiting(q["premade"][t]) # <<>>
                                   THEN StartWith(s, S) ELSE moved
  <2>1. S = UNION {SelectAll(SelectGroup(Pool, Head(Waiting(s.queue["premade"][t])), MaxPlayersPerTeam),
                             Waiting(s.queue["normal"][t]), room).groups : t \in Teams}
    BY <1>1
  <2>2. room = Smaller(SelectGroup(Pool, Head(Waiting(s.queue["premade"]["alliance"])), MaxPlayersPerTeam).count,
                       SelectGroup(Pool, Head(Waiting(s.queue["premade"]["horde"])), MaxPlayersPerTeam).count)
    BY <1>1 DEF Teams
  <2> DEFINE Moves(t) == /\ s.queue["premade"][t] # <<>>
                         /\ Head(s.queue["premade"][t]).bg = NoBattleground
                         /\ t \in late \/ Size(Head(s.queue["premade"][t])) < MinPlayersPerTeam
             Row(k, t) == CASE ~Moves(t) -> s.queue[k][t]
                            [] Moves(t) /\ k = "premade" -> Tail(s.queue[k][t])
                            [] Moves(t) /\ k = "normal" -> <<Head(s.queue["premade"][t])>> \o s.queue[k][t]
  <2>3. CheckPremadeMatch(s, late) =
            IF \A t \in Teams : Waiting(s.queue["premade"][t]) # <<>>
            THEN StartWith(s, S) ELSE [s EXCEPT !.queue = [k \in Kinds |-> [t \in Teams |-> Row(k, t)]]]
    BY <2>1, <2>2 DEF CheckPremadeMatch
  <2>4. \A t \in Teams : Moves(t) <=> t \in moving
    BY <1>2
  <2> HIDE DEF Moves
  <2>5. ASSUME NEW k \in Kinds, NEW t \in Teams PROVE Row(k, t) = MovedRow(q, moving, k, t)
    <3>1. k = "premade" \/ k = "normal"
      BY DEF Kinds
    <3>2. CASE t \notin moving
      BY <1>3, <2>4, <3>2 DEF MovedRow
    <3>3. CASE t \in moving /\ k = "premade"
      BY <1>3, <2>4, <3>3 DEF MovedRow
    <3>4. CASE t \in moving /\ k = "normal"
      BY <1>3, <2>4, <3>4 DEF MovedRow
    <3>5. QED
      BY <3>1, <3>2, <3>3, <3>4
  <2> HIDE DEF Row
  <2>6. [k \in Kinds |-> [t \in Teams |-> Row(k, t)]] = q2
    BY <1>5, <2>5 DEF Moved
  <2>7. QED
    BY <1>3, <1>5, <2>3, <2>6
<1>8. moved \in Stages
  <2>1. \A t \in moving : t \in Teams /\ q["premade"][t] # <<>>
    BY <1>2, <1>3
  <2>2. QueueOK(q2) /\ GroupsIn(q2) = GroupsIn(q)
    BY <1>4, <1>5, <2>1, MoveQueue
  <2>3. OneGroupEach(q2) /\ InQueue(q2) = InQueue(q) /\ \A i : Invitees(q2, i) = Invitees(q, i)
    BY <1>4, <2>2, SameGroups
  <2>4. \A i : Expected(q2, b, i) = Expected(q, b, i)
    BY <2>3 DEF Expected
  <2>5. QueuedOK(q2, told) /\ BusyOK(b, told) /\ SlotsOK(q2)
    BY <1>4, <2>3 DEF Consistent, QueuedOK, SlotsOK
  <2>6. CountsOK(q2, b)
    BY <1>4, <2>4 DEF Consistent, CountsOK
  <2>7. Consistent(q2, b, told)
    BY <1>4, <2>2, <2>3, <2>5, <2>6 DEF Consistent
  <2>8. q2 \in [Kinds -> [Teams -> Seq(GroupType)]]
    BY <2>2 DEF QueueOK
  <2>9. moved \in StageType /\ moved.queue = q2 /\ moved.bg = b /\ moved.events = s.events
        /\ moved.invitedTo = told
    BY <1>3, <1>4, <1>5, <2>8 DEF StageType
  <2>10. QED
    BY <1>4, <2>7, <2>9 DEF Stages
<1>9. ASSUME \A t \in Teams : Waiting(q["premade"][t]) # <<>>
      PROVE  StartWith(s, S) \in Stages
  <2>1. PICK m : m = b[0].max
    OBVIOUS
  <2>2. m \in Nat /\ m = MaxPlayersPerTeam
    BY <1>4, <2>1, CapacityIsNat DEF MaxPlayersPerTeam
  <2>3. ASSUME NEW t \in Teams PROVE first[t] \in Selection(TeamGroups(q, t), m)
    <3>1. PICK G, row, list, g : /\ G = TeamGroups(q, t) /\ row = q["premade"][t]
                                 /\ list = Waiting(row) /\ g = Head(list)
      OBVIOUS
    <3>2. G \in SUBSET GroupType /\ row \in Seq(G)
      BY <1>4, <1>6, <3>1, TeamGroupsOK
    <3>3. list \in Seq(G) /\ list # <<>>
      BY <1>9, <3>1, <3>2, WithinOK DEF Waiting
    <3>4. g \in G
      BY <3>1, <3>3, HeadAndTail
    <3>5. Pool \in Selection(G, m)
      BY <2>2, PoolSelected
    <3>6. SelectGroup(Pool, g, m) \in Selection(G, m)
      BY <2>2, <3>2, <3>4, <3>5, SelectGroupOK
    <3>7. QED
      BY <1>1, <1>3, <2>2, <3>1, <3>6
  <2>4. ASSUME NEW t \in Teams PROVE first[t].count \in Int /\ first[t].count <= m
    BY <2>3 DEF Selection, PoolType
  <2>5. room \in Int /\ room <= m
    <3>1. "alliance" \in Teams /\ "horde" \in Teams
      BY DEF Teams
    <3>2. PICK x, y : x = first["alliance"].count /\ y = first["horde"].count
      OBVIOUS
    <3>3. x \in Int /\ y \in Int /\ x <= m /\ y <= m
      BY <2>4, <3>1, <3>2
    <3>4. QED
      BY <1>1, <3>2, <3>3 DEF Smaller
  <2>6. ASSUME NEW t \in Teams PROVE pools[t] \in Selection(TeamGroups(q, t), m)
    <3>1. PICK G, row, list, pool : /\ G = TeamGroups(q, t) /\ row = q["normal"][t]
                                    /\ list = Waiting(row) /\ pool = first[t]
      OBVIOUS
    <3>2. G \in SUBSET GroupType /\ row \in Seq(G)
      BY <1>4, <1>6, <3>1, TeamGroupsOK
    <3>3. list \in Seq(G)
      BY <3>1, <3>2, WithinOK DEF Waiting
    <3>4. pool \in Selection(G, m)
      BY <2>3, <3>1
    <3>5. SelectAll(pool, list, room) \in Selection(G, m)
      BY <2>2, <2>5, <3>2, <3>3, <3>4, SelectAllOK
    <3>6. QED
      BY <1>1, <1>3, <3>1, <3>5
  <2>7. QED
    <3>1. \A t \in Teams : pools[t] \in Selection(TeamGroups(s.queue, t), s.bg[0].max)
      BY <1>3, <2>1, <2>6
    <3>2. S = UNION {pools[t].groups : t \in Teams}
      BY <1>1
    <3>3. QED
      BY <3>1, <3>2, StartWithOK
<1>10. QED
  BY <1>7, <1>8, <1>9

------------------------------------------------------------------------------
(* From what a step leaves to the invariant of the next state.                 *)

LEMMA NextIsConsistent ==
    ASSUME NEW q, NEW b, NEW told, Consistent(q, b, told), q = queue', b = bg', told = invitedTo',
           UNCHANGED <<used, bgId, where, online>>
    PROVE  Consistent(queue, bg, invitedTo)'
<1>0. GroupsIn(queue)' = GroupsIn(q)
  BY DEF GroupsIn, ToSet
<1>1. QueueOK(queue)' /\ OneGroupEach(queue)'
  <2>1. QueueOK(queue)'
    <3>1. q \in [Kinds -> [Teams -> Seq(GroupType)]]
      BY DEF Consistent, QueueOK
    <3>2. \A k \in Kinds, t \in Teams : \A g \in ToSet(q[k][t]) :
              g.players # {} /\ \A p \in g.players : Team[p] = t
      BY DEF Consistent, QueueOK
    <3>3. queue' \in [Kinds -> [Teams -> Seq(GroupType)]]
      BY <3>1
    <3>4. \A k \in Kinds, t \in Teams : \A g \in ToSet(queue[k][t])' :
              g.players # {} /\ \A p \in g.players : Team[p] = t
      BY <3>2 DEF ToSet
    <3>5. QED
      BY <3>3, <3>4 DEF QueueOK
  <2>2. OneGroupEach(queue)'
    BY <1>0 DEF Consistent, OneGroupEach
  <2>3. QED
    BY <2>1, <2>2
<1>2. OfflineOK(bg)'
  BY DEF Consistent, BattlegroundsOK, OfflineOK
<1>3. BattlegroundsOK(bg)'
  BY <1>2 DEF Consistent, BattlegroundsOK
<1>4. QueuedOK(queue, invitedTo)'
  BY DEF Consistent, QueuedOK, Invitees
<1>5. BusyOK(bg, invitedTo)'
  BY DEF Consistent, BusyOK
<1>6. SlotsOK(queue)'
  BY DEF Consistent, SlotsOK, InQueue
<1>7. CountsOK(queue, bg)'
  BY DEF Consistent, CountsOK, Expected, Invitees, OfTeam
<1>8. QED
  BY <1>1, <1>3, <1>4, <1>5, <1>6, <1>7 DEF Consistent

\* BattlegroundQueueUpdate as a whole; no event is lost.
LEMMA UpdateKeeps ==
    ASSUME IInv, BattlegroundQueueUpdate
    PROVE  IInv' /\ events \subseteq events'
<1>1. /\ Consistent(queue, bg, invitedTo) /\ PlayersOK /\ BattlegroundsOK(bg)
      /\ freeSlots \in Seq(Instances) /\ events \in SUBSET EventType
  BY DEF IInv, Consistent
<1>2. PICK now : now = [queue |-> queue, bg |-> bg, freeSlots |-> freeSlots, events |-> events,
                        invitedTo |-> invitedTo]
  OBVIOUS
<1>3. now \in Stages
  <2>1. /\ queue \in [Kinds -> [Teams -> Seq(GroupType)]]
        /\ bg \in [Instances \cup {0} -> BattlegroundType \cup [max : Capacities]]
        /\ invitedTo \in [Players -> Instances \cup {NoBattleground}]
    BY <1>1 DEF Consistent, QueueOK, BattlegroundsOK, QueuedOK
  <2>2. now \in StageType
    BY <1>1, <1>2, <2>1 DEF StageType
  <2>3. QED
    BY <1>1, <1>2, <2>2 DEF Stages
<1>4. PICK filled : filled = FoldLeft(FillPlayersToBG, now, freeSlots)
  OBVIOUS
<1>5. filled \in Stages
  BY <1>1, <1>3, <1>4, FillAllOK
<1>6. PICK late \in SUBSET Teams :
        LET s == CheckNormalMatch(CheckPremadeMatch(filled, late))
        IN /\ queue' = s.queue /\ bg' = s.bg /\ freeSlots' = s.freeSlots
           /\ events' = s.events /\ invitedTo' = s.invitedTo
  BY <1>2, <1>4 DEF BattlegroundQueueUpdate
<1>7. PICK next : next = CheckPremadeMatch(filled, late)
  OBVIOUS
<1>8. next \in Stages
  BY <1>1, <1>5, <1>7, CheckPremadeOK
<1>9. PICK s : s = CheckNormalMatch(next)
  OBVIOUS
<1>10. s \in Stages
  BY <1>1, <1>8, <1>9, CheckNormalOK
<1>11. /\ queue' = s.queue /\ bg' = s.bg /\ freeSlots' = s.freeSlots
       /\ events' = s.events /\ invitedTo' = s.invitedTo
  BY <1>6, <1>7, <1>9
<1>12. UNCHANGED <<used, bgId, where, online>> /\ scheduled' = FALSE
  BY DEF BattlegroundQueueUpdate
<1>13. Consistent(queue, bg, invitedTo)'
  <2>1. PICK q, b, told : q = s.queue /\ b = s.bg /\ told = s.invitedTo
    OBVIOUS
  <2>2. Consistent(q, b, told)
    BY <1>10, <2>1, StageUnfolds
  <2>3. q = queue' /\ b = bg' /\ told = invitedTo'
    BY <1>11, <2>1
  <2>4. QED
    BY <1>12, <2>2, <2>3, NextIsConsistent
<1>14. PlayersOK'
  BY <1>1, <1>12 DEF PlayersOK
<1>15. s.freeSlots \in Seq(Instances) /\ s.events \in SUBSET EventType /\ events \subseteq s.events
  BY <1>10, StageUnfolds DEF StageType
<1>16. QED
  BY <1>11, <1>12, <1>13, <1>14, <1>15 DEF IInv, EventType

\* The parts of the invariant, of what the next state will be.
OfflineIn(b, on) ==
    \A i \in Instances : b[i].status \in {"join", "progress"} =>
        /\ \A n \in 1..Len(b[i].offline) : ~on[b[i].offline[n]] /\ b[i].offline[n] \in b[i].players
        /\ Distinct(b[i].offline)
BattlesIn(b) ==
    /\ b \in [Instances \cup {0} -> BattlegroundType \cup [max : Capacities]]
    /\ b[0] = bg[0] /\ \A i \in Instances : b[i] \in BattlegroundType
    /\ \A i \in Instances : b[i].status = "none" => b[i] = Deleted
QueuedIn(q, told, on, us, wh) ==
    /\ told \in [Players -> Instances \cup {NoBattleground}]
    /\ \A i \in Instances \cup {NoBattleground} : \A p \in Invitees(q, i) :
           on[p] /\ us[p] /\ wh[p] = "world" /\ told[p] = i
TravelIn(told, on, us, id, wh) ==
    \A p \in Players : wh[p] = "teleport" => on[p] /\ us[p] /\ id[p] \in Instances /\ told[p] = id[p]
FightIn(b, told, on, us, id, wh) ==
    /\ \A p \in Players : (wh[p] = "battleground" /\ on[p]) =>
           us[p] /\ id[p] \in Instances /\ told[p] = id[p] /\ p \in b[id[p]].players
    /\ \A i \in Instances : \A p \in b[i].players : wh[p] = "battleground" /\ id[p] = i
SlotsIn(q, on, us, wh) ==
    \A p \in Players : us[p] => on[p] /\ (wh[p] # "world" \/ p \in InQueue(q))
ExpectedIn(q, b, i, id, wh) ==
    Invitees(q, i) \cup {p \in Players : wh[p] = "teleport" /\ id[p] = i} \cup b[i].players
CountsIn(q, b, id, wh) ==
    \A i \in Instances, t \in Teams :
        /\ b[i].invited[t] = Cardinality(OfTeam(ExpectedIn(q, b, i, id, wh), t))
        /\ b[i].invited[t] <= b[0].max
PlayersIn(on, us, id, wh) ==
    /\ us \in [Players -> BOOLEAN] /\ on \in [Players -> BOOLEAN]
    /\ id \in [Players -> Instances \cup {NoBattleground}]
    /\ wh \in [Players -> {"world", "teleport", "battleground"}]

\* The invariant gives all of its parts.
LEMMA NowIn ==
    ASSUME IInv
    PROVE  /\ QueueOK(queue) /\ OneGroupEach(queue)
           /\ OfflineIn(bg, online) /\ BattlesIn(bg) /\ QueuedIn(queue, invitedTo, online, used, where)
           /\ TravelIn(invitedTo, online, used, bgId, where)
           /\ FightIn(bg, invitedTo, online, used, bgId, where)
           /\ SlotsIn(queue, online, used, where) /\ CountsIn(queue, bg, bgId, where)
           /\ PlayersIn(online, used, bgId, where)
           /\ freeSlots \in Seq(Instances) /\ events \in SUBSET EventType /\ scheduled \in BOOLEAN
<1>1. /\ QueueOK(queue) /\ OneGroupEach(queue) /\ BattlegroundsOK(bg) /\ QueuedOK(queue, invitedTo)
      /\ BusyOK(bg, invitedTo) /\ SlotsOK(queue) /\ CountsOK(queue, bg) /\ PlayersOK
      /\ freeSlots \in Seq(Instances) /\ events \in SUBSET EventType /\ scheduled \in BOOLEAN
  BY DEF IInv, Consistent
<1>2. OfflineIn(bg, online)
  BY <1>1 DEF BattlegroundsOK, OfflineOK, OfflineIn, Distinct, Places
<1>3. BattlesIn(bg)
  BY <1>1 DEF BattlegroundsOK, BattlesIn
<1>4. QueuedIn(queue, invitedTo, online, used, where)
  BY <1>1 DEF QueuedOK, QueuedIn
<1>5. TravelIn(invitedTo, online, used, bgId, where) /\ FightIn(bg, invitedTo, online, used, bgId, where)
  BY <1>1 DEF BusyOK, TravelIn, FightIn
<1>6. SlotsIn(queue, online, used, where)
  BY <1>1 DEF SlotsOK, SlotsIn
<1>7. CountsIn(queue, bg, bgId, where)
  BY <1>1 DEF CountsOK, CountsIn, Expected, ExpectedIn
<1>8. PlayersIn(online, used, bgId, where)
  BY <1>1 DEF PlayersOK, PlayersIn
<1>9. QED
  BY <1>1, <1>2, <1>3, <1>4, <1>5, <1>6, <1>7, <1>8

\* And all parts for the next state give the invariant.
LEMMA NextIn ==
    ASSUME IInv, NEW q, NEW b, NEW told, NEW on, NEW us, NEW id, NEW wh,
           QueueOK(q), OneGroupEach(q), OfflineIn(b, on), BattlesIn(b), QueuedIn(q, told, on, us, wh),
           TravelIn(told, on, us, id, wh), FightIn(b, told, on, us, id, wh), SlotsIn(q, on, us, wh),
           CountsIn(q, b, id, wh), PlayersIn(on, us, id, wh),
           q = queue', b = bg', told = invitedTo', on = online', us = used', id = bgId', wh = where',
           freeSlots' \in Seq(Instances), events' \in SUBSET EventType, scheduled' \in BOOLEAN
    PROVE  IInv'
<1>0. GroupsIn(queue)' = GroupsIn(q)
  BY DEF GroupsIn, ToSet
<1>1. QueueOK(queue)' /\ OneGroupEach(queue)'
  <2>1. QueueOK(queue)'
    <3>1. q \in [Kinds -> [Teams -> Seq(GroupType)]]
      BY DEF QueueOK
    <3>2. \A k \in Kinds, t \in Teams : \A g \in ToSet(q[k][t]) :
              g.players # {} /\ \A p \in g.players : Team[p] = t
      BY DEF QueueOK
    <3>3. queue' \in [Kinds -> [Teams -> Seq(GroupType)]]
      BY <3>1
    <3>4. \A k \in Kinds, t \in Teams : \A g \in ToSet(queue[k][t])' :
              g.players # {} /\ \A p \in g.players : Team[p] = t
      BY <3>2 DEF ToSet
    <3>5. QED
      BY <3>3, <3>4 DEF QueueOK
  <2>2. OneGroupEach(queue)'
    BY <1>0 DEF OneGroupEach
  <2>3. QED
    BY <2>1, <2>2
<1>2. OfflineOK(bg)'
  BY DEF OfflineIn, OfflineOK, Distinct, Places
<1>3. BattlegroundsOK(bg)'
  <2>1. bg[0] \in [max : Capacities]
    BY DEF IInv, Consistent, BattlegroundsOK
  <2>2. QED
    BY <1>2, <2>1 DEF BattlesIn, BattlegroundsOK
<1>4. QueuedOK(queue, invitedTo)'
  BY DEF QueuedIn, QueuedOK, Invitees
<1>5. BusyOK(bg, invitedTo)'
  BY DEF TravelIn, FightIn, BusyOK
<1>6. SlotsOK(queue)'
  BY DEF SlotsIn, SlotsOK, InQueue
<1>7. CountsOK(queue, bg)'
  <2>1. \A i \in Instances : Expected(queue, bg, i)' = ExpectedIn(q, b, i, id, wh)
    BY DEF ExpectedIn, Expected, Invitees
  <2>2. \A i \in Instances, t \in Teams : OfTeam(Expected(queue, bg, i), t)' = OfTeam(ExpectedIn(q, b, i, id, wh), t)
    BY <2>1 DEF OfTeam
  <2>3. \A i \in Instances, t \in Teams :
            /\ bg'[i].invited[t] = Cardinality(OfTeam(Expected(queue, bg, i), t)')
            /\ bg'[i].invited[t] <= bg'[0].max
    BY <2>2 DEF CountsIn
  <2>4. QED
    BY <2>3 DEF CountsOK
<1>8. PlayersOK'
  BY DEF PlayersIn, PlayersOK
<1>9. Consistent(queue, bg, invitedTo)'
  BY <1>1, <1>3, <1>4, <1>5, <1>6, <1>7 DEF Consistent
<1>10. QED
  BY <1>8, <1>9 DEF IInv, EventType

\* The same, when only the queue, battlegrounds or lists changed.
LEMMA ExpectedInOK ==
    ASSUME NEW q, NEW b, QueueOK(q), BattlesIn(b), NEW i \in Instances, NEW id, NEW wh
    PROVE  ExpectedIn(q, b, i, id, wh) \in SUBSET Players
<1>1. Invitees(q, i) \in SUBSET Players
  BY InviteesOK
<1>2. b[i].players \in SUBSET Players
  BY DEF BattlesIn, BattlegroundType
<1>3. QED
  BY <1>1, <1>2 DEF ExpectedIn

------------------------------------------------------------------------------
(* One battleground is changed.                                                *)

LEMMA PlacedIs ==
    ASSUME NEW b, BattlesIn(b), NEW i \in Instances, NEW x \in BattlegroundType,
           x.status = "none" => x = Deleted, NEW b2, b2 = Placed(b, i, x)
    PROVE  /\ BattlesIn(b2) /\ b2[i] = x /\ b2[0] = b[0]
           /\ \A j \in Instances \ {i} : b2[j] = b[j]
<1>1. /\ b \in [Instances \cup {0} -> BattlegroundType \cup [max : Capacities]]
      /\ b[0] = bg[0] /\ \A j \in Instances : b[j] \in BattlegroundType
      /\ \A j \in Instances : b[j].status = "none" => b[j] = Deleted
  BY DEF BattlesIn
<1>2. 0 \notin Instances
  BY QueueAssumption DEF NoBattleground
<1>3. /\ b2 \in [Instances \cup {0} -> BattlegroundType \cup [max : Capacities]]
      /\ b2[i] = x /\ b2[0] = b[0] /\ \A j \in Instances \ {i} : b2[j] = b[j]
  BY <1>1, <1>2 DEF Placed
<1>4. BattlesIn(b2)
  BY <1>1, <1>3 DEF BattlesIn
<1>5. QED
  BY <1>3, <1>4

\* The fields of one battleground.
LEMMA BattleTyped ==
    ASSUME NEW b, BattlesIn(b), NEW i \in Instances
    PROVE  /\ b[i] \in BattlegroundType /\ b[i].players \in SUBSET Players
           /\ b[i].invited \in [Teams -> Int] /\ b[i].offline \in Seq(Players)
           /\ b[i].status \in {"none", "join", "progress", "leave"}
           /\ b[i].status = "none" => b[i] = Deleted
<1>1. b[i] \in BattlegroundType /\ (b[i].status = "none" => b[i] = Deleted)
  BY DEF BattlesIn
<1>2. QED
  BY <1>1 DEF BattlegroundType

\* The counts of a set of players that has a place.
Counted(inv, E, m) ==
    /\ inv \in [Teams -> Int]
    /\ \A t \in Teams : inv[t] = Cardinality(OfTeam(E, t)) /\ inv[t] <= m

\* The counts of one battleground.
LEMMA CountsOfOne ==
    ASSUME NEW q, NEW b, NEW id, NEW wh, CountsIn(q, b, id, wh), BattlesIn(b), NEW i \in Instances
    PROVE  Counted(b[i].invited, ExpectedIn(q, b, i, id, wh), bg[0].max)
<1>1. b[i].invited \in [Teams -> Int]
  BY BattleTyped
<1>2. b[0] = bg[0]
  BY DEF BattlesIn
<1>3. QED
  BY <1>1, <1>2 DEF CountsIn, Counted

\* The counts when one player is gone.
LEMMA OneCountedOff ==
    ASSUME NEW E \in SUBSET Players, NEW p \in E, NEW m \in Nat, NEW inv, Counted(inv, E, m),
           NEW inv2, inv2 = [inv EXCEPT ![Team[p]] = @ - 1]
    PROVE  Counted(inv2, E \ {p}, m)
<1>1. inv \in [Teams -> Int] /\ \A t \in Teams : inv[t] = Cardinality(OfTeam(E, t)) /\ inv[t] <= m
  BY DEF Counted
<1>2. Team[p] \in Teams
  BY QueueAssumption
<1>3. inv2 \in [Teams -> Int] /\ \A t \in Teams : inv2[t] = inv[t] - (IF Team[p] = t THEN 1 ELSE 0)
  BY <1>1, <1>2
<1>4. ASSUME NEW t \in Teams
      PROVE  inv2[t] = Cardinality(OfTeam(E \ {p}, t)) /\ inv2[t] <= m
  <2>1. Cardinality(OfTeam(E \ {p}, t)) = Cardinality(OfTeam(E, t)) - (IF Team[p] = t THEN 1 ELSE 0)
    BY TeamMinusOne
  <2>2. inv[t] \in Int /\ inv2[t] = inv[t] - (IF Team[p] = t THEN 1 ELSE 0) /\ inv[t] <= m
    BY <1>1, <1>3
  <2>3. inv[t] = Cardinality(OfTeam(E, t))
    BY <1>1
  <2>4. inv2[t] <= m
    BY <2>2
  <2>5. QED
    BY <2>1, <2>2, <2>3, <2>4
<1>5. QED
  BY <1>3, <1>4 DEF Counted

\* The counts stay right when one battleground counts who is left, and the
\* others are left alone.
LEMMA CountsStay ==
    ASSUME NEW q, NEW b, NEW id, NEW wh, BattlesIn(b), NEW i \in Instances,
           Counted(b[i].invited, ExpectedIn(q, b, i, id, wh), bg[0].max),
           NEW q0, NEW b0, NEW id0, NEW wh0, CountsIn(q0, b0, id0, wh0), BattlesIn(b0),
           \A j \in Instances \ {i} : b[j] = b0[j]
                /\ ExpectedIn(q, b, j, id, wh) = ExpectedIn(q0, b0, j, id0, wh0)
    PROVE  CountsIn(q, b, id, wh)
<1>1. b[0] = bg[0]
  BY DEF BattlesIn
<1>2. ASSUME NEW j \in Instances, NEW t \in Teams
      PROVE  /\ b[j].invited[t] = Cardinality(OfTeam(ExpectedIn(q, b, j, id, wh), t))
             /\ b[j].invited[t] <= b[0].max
  <2>1. Counted(b[j].invited, ExpectedIn(q, b, j, id, wh), bg[0].max)
    <3>1. CASE j = i
      BY <3>1
    <3>2. CASE j # i
      <4>1. Counted(b0[j].invited, ExpectedIn(q0, b0, j, id0, wh0), bg[0].max)
        BY CountsOfOne
      <4>2. b[j] = b0[j] /\ ExpectedIn(q, b, j, id, wh) = ExpectedIn(q0, b0, j, id0, wh0)
        BY <3>2
      <4>3. QED
        BY <4>1, <4>2
    <3>3. QED
      BY <3>1, <3>2
  <2>2. QED
    BY <1>1, <2>1 DEF Counted
<1>3. QED
  BY <1>2 DEF CountsIn

\* Who leaves the queue gives his place back, if he had one.
LEMMA QuitQueue ==
    ASSUME IInv, NEW p \in Players, NEW q, q = WithoutPlayer(p), NEW b, b = DecreaseInvitedCount(bg, p)
    PROVE  /\ QueueOK(q) /\ OneGroupEach(q) /\ InQueue(q) = InQueue(queue) \ {p}
           /\ \A i : Invitees(q, i) = Invitees(queue, i) \ {p}
           /\ BattlesIn(b) /\ CountsIn(q, b, bgId, where)
           /\ \A i \in Instances : b[i].players = bg[i].players /\ b[i].offline = bg[i].offline
                                   /\ b[i].status = bg[i].status
<1>1. /\ QueueOK(queue) /\ OneGroupEach(queue) /\ BattlesIn(bg)
      /\ QueuedIn(queue, invitedTo, online, used, where)
      /\ FightIn(bg, invitedTo, online, used, bgId, where) /\ CountsIn(queue, bg, bgId, where)
  BY NowIn
<1>2. /\ QueueOK(q) /\ OneGroupEach(q) /\ InQueue(q) = InQueue(queue) \ {p}
      /\ \A i : Invitees(q, i) = Invitees(queue, i) \ {p}
  <2>1. PICK w : w = WithoutPlayer(p)
    OBVIOUS
  <2>2. QED
    BY <1>1, WithoutQueue
<1>3. Invited(p) <=> \E i \in Instances : p \in Invitees(queue, i)
  BY <1>1, QueuedPlayers
<1>4. \A i : p \in Invitees(queue, i) => GroupOf(p).bg = i
  BY <1>1, QueuedPlayers
<1>5. CASE ~Invited(p)
  <2>1. b = bg
    BY <1>5 DEF DecreaseInvitedCount
  <2>2. \A i \in Instances : Invitees(q, i) = Invitees(queue, i)
    BY <1>2, <1>3, <1>5
  <2>3. \A i \in Instances : ExpectedIn(q, b, i, bgId, where) = ExpectedIn(queue, bg, i, bgId, where)
    BY <2>1, <2>2 DEF ExpectedIn
  <2>4. CountsIn(q, b, bgId, where)
    BY <1>1, <2>1, <2>3 DEF CountsIn
  <2>5. QED
    BY <1>1, <1>2, <2>1, <2>4
<1>6. CASE Invited(p)
  <2>1. PICK i \in Instances : p \in Invitees(queue, i)
    BY <1>3, <1>6
  <2>2. GroupOf(p).bg = i
    BY <1>4, <2>1
  <2>3. PICK E \in SUBSET Players : E = ExpectedIn(queue, bg, i, bgId, where)
    BY <1>1, ExpectedInOK
  <2>4. p \in E
    BY <2>1, <2>3 DEF ExpectedIn
  <2>5. Counted(bg[i].invited, E, bg[0].max)
    BY <1>1, <2>3, CountsOfOne
  <2>6. bg[0].max \in Nat
    BY CapacityIsNat DEF IInv, Consistent
  <2>7. PICK inv : inv = [bg[i].invited EXCEPT ![Team[p]] = @ - 1]
    OBVIOUS
  <2>8. Counted(inv, E \ {p}, bg[0].max)
    BY <2>4, <2>5, <2>6, <2>7, OneCountedOff
  <2>9. bg[i].status # "none"
    <3> SUFFICES ASSUME bg[i].status = "none" PROVE FALSE
      OBVIOUS
    <3>1. bg[i] = Deleted
      BY <1>1, BattleTyped
    <3>2. PICK t \in Teams : t = Team[p]
      BY QueueAssumption
    <3>3. bg[i].invited[t] = 0
      BY <3>1, DeletedIsEmpty
    <3>4. Cardinality(OfTeam(E, t)) = 0 /\ IsFiniteSet(OfTeam(E, t))
      BY <2>5, <3>3, TeamCounts DEF Counted
    <3>5. p \in OfTeam(E, t)
      BY <2>4, <3>2 DEF OfTeam
    <3>6. QED
      BY <3>4, <3>5, FS_EmptySet
  <2>10. PICK x : x = [bg[i] EXCEPT !.invited = inv]
    OBVIOUS
  <2>11. /\ x \in BattlegroundType /\ x.invited = inv /\ x.players = bg[i].players
         /\ x.offline = bg[i].offline /\ x.status = bg[i].status
    <3>1. inv \in [Teams -> Int] /\ bg[i] \in BattlegroundType
      BY <1>1, <2>8, BattleTyped DEF Counted
    <3>2. QED
      BY <2>10, <3>1 DEF BattlegroundType
  <2>12. b = Placed(bg, i, x)
    <3>1. Exists(i)
      BY <2>9 DEF Exists
    <3>2. b = [bg EXCEPT ![i].invited[Team[p]] = @ - 1]
      BY <1>6, <2>2, <3>1 DEF DecreaseInvitedCount
    <3>3. QED
      BY <2>7, <2>10, <3>2 DEF Placed
  <2>13. BattlesIn(b) /\ b[i] = x /\ \A j \in Instances \ {i} : b[j] = bg[j]
    BY <1>1, <2>9, <2>11, <2>12, PlacedIs
  <2>14. \A j \in Instances : b[j].players = bg[j].players /\ b[j].offline = bg[j].offline
                              /\ b[j].status = bg[j].status
    BY <2>11, <2>13
  <2>15. ExpectedIn(q, b, i, bgId, where) = E \ {p}
    <3>1. where[p] = "world"
      BY <1>1, <2>1 DEF QueuedIn
    <3>2. p \notin bg[i].players
      BY <1>1, <3>1 DEF FightIn
    <3>3. Invitees(q, i) = Invitees(queue, i) \ {p}
      BY <1>2
    <3>4. b[i].players = bg[i].players
      BY <2>14
    <3>5. QED
      BY <2>3, <3>1, <3>2, <3>3, <3>4 DEF ExpectedIn
  <2>16. \A j \in Instances \ {i} : b[j] = bg[j]
             /\ ExpectedIn(q, b, j, bgId, where) = ExpectedIn(queue, bg, j, bgId, where)
    <3> SUFFICES ASSUME NEW j \in Instances \ {i}
                 PROVE  ExpectedIn(q, b, j, bgId, where) = ExpectedIn(queue, bg, j, bgId, where)
      BY <2>13
    <3>1. p \notin Invitees(queue, j)
      BY <1>4, <2>2
    <3>2. Invitees(q, j) = Invitees(queue, j)
      BY <1>2, <3>1
    <3>3. b[j].players = bg[j].players
      BY <2>14
    <3>4. QED
      BY <3>2, <3>3 DEF ExpectedIn
  <2>17. CountsIn(q, b, bgId, where)
    <3>1. Counted(b[i].invited, ExpectedIn(q, b, i, bgId, where), bg[0].max)
      BY <2>8, <2>11, <2>13, <2>15
    <3>2. QED
      BY <1>1, <2>13, <2>16, <3>1, CountsStay
  <2>18. QED
    BY <1>2, <2>13, <2>14, <2>17
<1>7. QED
  BY <1>5, <1>6

\* A queued player gives up the queue.
LEMMA QuitKeeps ==
    ASSUME IInv, NEW p \in Players, Queued(p), RemoveQueueId(p),
           queue' = WithoutPlayer(p), bg' = DecreaseInvitedCount(bg, p),
           UNCHANGED <<bgId, where, online>>,
           freeSlots' \in Seq(Instances), events' \in SUBSET EventType, scheduled' \in BOOLEAN
    PROVE  IInv'
<1>1. /\ QueueOK(queue) /\ OneGroupEach(queue) /\ OfflineIn(bg, online) /\ BattlesIn(bg)
      /\ QueuedIn(queue, invitedTo, online, used, where) /\ TravelIn(invitedTo, online, used, bgId, where)
      /\ FightIn(bg, invitedTo, online, used, bgId, where) /\ SlotsIn(queue, online, used, where)
      /\ PlayersIn(online, used, bgId, where)
  BY NowIn
<1>2. PICK q, b, told, us : q = WithoutPlayer(p) /\ b = DecreaseInvitedCount(bg, p)
                            /\ told = [invitedTo EXCEPT ![p] = NoBattleground]
                            /\ us = [used EXCEPT ![p] = FALSE]
  OBVIOUS
<1>3. q = queue' /\ b = bg' /\ told = invitedTo' /\ us = used' /\ online = online' /\ bgId = bgId' /\ where = where'
  BY <1>2 DEF RemoveQueueId
<1>4. /\ QueueOK(q) /\ OneGroupEach(q) /\ InQueue(q) = InQueue(queue) \ {p}
      /\ \A i : Invitees(q, i) = Invitees(queue, i) \ {p}
      /\ BattlesIn(b) /\ CountsIn(q, b, bgId, where)
      /\ \A i \in Instances : b[i].players = bg[i].players /\ b[i].offline = bg[i].offline
                              /\ b[i].status = bg[i].status
  BY <1>2, QuitQueue
<1>5. where[p] = "world"
  <2>1. p \in Invitees(queue, GroupOf(p).bg) /\ GroupOf(p).bg \in Instances \cup {NoBattleground}
    BY <1>1, QueuedPlayers
  <2>2. QED
    BY <1>1, <2>1 DEF QueuedIn
<1>6. /\ told \in [Players -> Instances \cup {NoBattleground}] /\ us \in [Players -> BOOLEAN]
      /\ us[p] = FALSE /\ \A x \in Players \ {p} : told[x] = invitedTo[x] /\ us[x] = used[x]
  BY <1>1, <1>2 DEF QueuedIn, PlayersIn
<1>7. OfflineIn(b, online)
  BY <1>1, <1>4 DEF OfflineIn
<1>8. QueuedIn(q, told, online, us, where)
  <2>1. ASSUME NEW i \in Instances \cup {NoBattleground}, NEW x \in Invitees(q, i)
        PROVE  online[x] /\ us[x] /\ where[x] = "world" /\ told[x] = i
    <3>1. x \in Invitees(queue, i) /\ x # p
      BY <1>4
    <3>2. x \in Players
      BY <1>1, <3>1, InviteesOK
    <3>3. QED
      BY <1>1, <1>6, <3>1, <3>2 DEF QueuedIn
  <2>2. QED
    BY <1>6, <2>1 DEF QueuedIn
<1>9. TravelIn(told, online, us, bgId, where)
  BY <1>1, <1>5, <1>6 DEF TravelIn
<1>10. FightIn(b, told, online, us, bgId, where)
  BY <1>1, <1>4, <1>5, <1>6 DEF FightIn
<1>11. SlotsIn(q, online, us, where)
  BY <1>1, <1>4, <1>6 DEF SlotsIn
<1>12. PlayersIn(online, us, bgId, where)
  BY <1>1, <1>6 DEF PlayersIn
<1>13. QED
  BY <1>3, <1>4, <1>7, <1>8, <1>9, <1>10, <1>11, <1>12, NextIn

\* He declines or leaves the queue.
LEMMA LeaveQueueKeeps ==
    ASSUME IInv, NEW p \in Players, LeaveQueue(p) PROVE IInv'
<1>1. /\ Queued(p) /\ RemoveQueueId(p) /\ queue' = WithoutPlayer(p) /\ bg' = DecreaseInvitedCount(bg, p)
      /\ UNCHANGED <<bgId, where, online>> /\ UNCHANGED <<freeSlots, events>> /\ scheduled' = TRUE
  BY DEF LeaveQueue
<1>2. freeSlots' \in Seq(Instances) /\ events' \in SUBSET EventType /\ scheduled' \in BOOLEAN
  BY <1>1, NowIn
<1>3. QED
  BY <1>1, <1>2, QuitKeeps

\* Nothing the invariant speaks of changes.
LEMMA StillKeeps ==
    ASSUME IInv, UNCHANGED <<queue, bg, invitedTo, online, used, bgId, where>>,
           freeSlots' \in Seq(Instances), events' \in SUBSET EventType, scheduled' \in BOOLEAN
    PROVE  IInv'
<1>1. PICK q, b, told, on, us, id, wh :
        /\ q = queue /\ b = bg /\ told = invitedTo /\ on = online /\ us = used /\ id = bgId /\ wh = where
  OBVIOUS
<1>2. /\ QueueOK(q) /\ OneGroupEach(q) /\ OfflineIn(b, on) /\ BattlesIn(b) /\ QueuedIn(q, told, on, us, wh)
      /\ TravelIn(told, on, us, id, wh) /\ FightIn(b, told, on, us, id, wh) /\ SlotsIn(q, on, us, wh)
      /\ CountsIn(q, b, id, wh) /\ PlayersIn(on, us, id, wh)
  BY <1>1, NowIn
<1>3. q = queue' /\ b = bg' /\ told = invitedTo' /\ on = online' /\ us = used' /\ id = bgId' /\ wh = where'
  BY <1>1
<1>4. QED
  BY <1>2, <1>3, NextIn

\* His invitation runs out, or the event comes too late to matter.
LEMMA RemoveEventKeeps ==
    ASSUME IInv, NEW e \in events, RemoveEvent(e) PROVE IInv'
<1>1. e \in EventType /\ freeSlots' \in Seq(Instances) /\ events' \in SUBSET EventType
  BY NowIn DEF RemoveEvent
<1>2. e.player \in Players
  BY <1>1 DEF EventType
<1>3. UNCHANGED <<bgId, where, online>>
  BY DEF RemoveEvent
<1>4. CASE online[e.player] /\ used[e.player] /\ IsPlayerInvited(e.player, e.bg, e.left)
  <2>1. /\ RemoveQueueId(e.player) /\ queue' = WithoutPlayer(e.player)
        /\ bg' = DecreaseInvitedCount(bg, e.player)
        /\ scheduled' = (scheduled \/ (Exists(e.bg) /\ bg[e.bg].status # "leave"))
    BY <1>4 DEF RemoveEvent
  <2>2. scheduled' \in BOOLEAN
    BY <2>1
  <2>3. Queued(e.player)
    BY <1>4 DEF IsPlayerInvited
  <2>4. PICK p \in Players : p = e.player
    BY <1>2
  <2>5. /\ Queued(p) /\ RemoveQueueId(p) /\ queue' = WithoutPlayer(p) /\ bg' = DecreaseInvitedCount(bg, p)
    BY <2>1, <2>3, <2>4
  <2>6. QED
    BY <1>1, <1>3, <2>2, <2>5, QuitKeeps
<1>5. CASE ~(online[e.player] /\ used[e.player] /\ IsPlayerInvited(e.player, e.bg, e.left))
  <2>1. UNCHANGED <<queue, bg, scheduled, used, invitedTo>>
    BY <1>5 DEF RemoveEvent
  <2>2. scheduled' \in BOOLEAN
    BY <2>1, NowIn
  <2>3. QED
    BY <1>1, <1>3, <2>1, <2>2, StillKeeps
<1>6. QED
  BY <1>4, <1>5

\* The player travels to the battleground and keeps his place.
LEMMA EnterBattleKeeps ==
    ASSUME IInv, NEW p \in Players, EnterBattle(p) PROVE IInv'
<1>1. /\ QueueOK(queue) /\ OneGroupEach(queue) /\ OfflineIn(bg, online) /\ BattlesIn(bg)
      /\ QueuedIn(queue, invitedTo, online, used, where) /\ TravelIn(invitedTo, online, used, bgId, where)
      /\ FightIn(bg, invitedTo, online, used, bgId, where) /\ SlotsIn(queue, online, used, where)
      /\ CountsIn(queue, bg, bgId, where) /\ PlayersIn(online, used, bgId, where)
      /\ freeSlots \in Seq(Instances) /\ events \in SUBSET EventType /\ scheduled \in BOOLEAN
  BY NowIn
<1>2. PICK q, id, wh, i : /\ q = WithoutPlayer(p) /\ i = GroupOf(p).bg
                          /\ id = [bgId EXCEPT ![p] = i] /\ wh = [where EXCEPT ![p] = "teleport"]
  OBVIOUS
<1>3. q = queue' /\ id = bgId' /\ wh = where' /\ UNCHANGED <<bg, freeSlots, events, scheduled, used, invitedTo, online>>
      /\ Queued(p) /\ Invited(p) /\ online[p] /\ used[p]
  BY <1>2 DEF EnterBattle, Invited
<1>4. i \in Instances /\ p \in Invitees(queue, i) /\ \A j : p \in Invitees(queue, j) => j = i
  <2>1. \E j \in Instances : p \in Invitees(queue, j)
    BY <1>1, <1>3, QueuedPlayers
  <2>2. \A j : p \in Invitees(queue, j) => i = j
    BY <1>1, <1>2, QueuedPlayers
  <2>3. QED
    BY <2>1, <2>2
<1>5. where[p] = "world" /\ invitedTo[p] = i
  BY <1>1, <1>4 DEF QueuedIn
<1>6. /\ QueueOK(q) /\ OneGroupEach(q) /\ InQueue(q) = InQueue(queue) \ {p}
      /\ \A j : Invitees(q, j) = Invitees(queue, j) \ {p}
  BY <1>1, <1>2, WithoutQueue
<1>7. /\ id \in [Players -> Instances \cup {NoBattleground}]
      /\ wh \in [Players -> {"world", "teleport", "battleground"}]
      /\ id[p] = i /\ wh[p] = "teleport" /\ \A x \in Players \ {p} : id[x] = bgId[x] /\ wh[x] = where[x]
  BY <1>1, <1>2, <1>4 DEF PlayersIn
<1>8. QueuedIn(q, invitedTo, online, used, wh)
  <2>1. ASSUME NEW j \in Instances \cup {NoBattleground}, NEW x \in Invitees(q, j)
        PROVE  online[x] /\ used[x] /\ wh[x] = "world" /\ invitedTo[x] = j
    <3>1. x \in Invitees(queue, j) /\ x # p
      BY <1>6
    <3>2. x \in Players
      BY <1>1, <3>1, InviteesOK
    <3>3. QED
      BY <1>1, <1>7, <3>1, <3>2 DEF QueuedIn
  <2>2. QED
    BY <1>1, <2>1 DEF QueuedIn
<1>9. TravelIn(invitedTo, online, used, id, wh)
  BY <1>1, <1>3, <1>4, <1>5, <1>7 DEF TravelIn
<1>10. FightIn(bg, invitedTo, online, used, id, wh)
  <2>1. ASSUME NEW j \in Instances, NEW x \in bg[j].players
        PROVE  wh[x] = "battleground" /\ id[x] = j
    <3>1. x \in Players /\ where[x] = "battleground" /\ bgId[x] = j
      BY <1>1, BattleTyped DEF FightIn
    <3>2. QED
      BY <1>5, <1>7, <3>1
  <2>2. ASSUME NEW x \in Players, wh[x] = "battleground", online[x]
        PROVE  used[x] /\ id[x] \in Instances /\ invitedTo[x] = id[x] /\ x \in bg[id[x]].players
    BY <1>1, <1>7, <2>2 DEF FightIn
  <2>3. QED
    BY <2>1, <2>2 DEF FightIn
<1>11. SlotsIn(q, online, used, wh)
  BY <1>1, <1>3, <1>6, <1>7 DEF SlotsIn
<1>12. \A j \in Instances : ExpectedIn(q, bg, j, id, wh) = ExpectedIn(queue, bg, j, bgId, where)
  <2> SUFFICES ASSUME NEW j \in Instances
               PROVE  ExpectedIn(q, bg, j, id, wh) = ExpectedIn(queue, bg, j, bgId, where)
    OBVIOUS
  <2>1. Invitees(q, j) = Invitees(queue, j) \ {p}
    BY <1>6
  <2>2. CASE j = i
    <3>1. {x \in Players : wh[x] = "teleport" /\ id[x] = j}
              = {x \in Players : where[x] = "teleport" /\ bgId[x] = j} \cup {p}
      BY <1>7, <2>2
    <3>2. QED
      BY <1>4, <2>1, <2>2, <3>1 DEF ExpectedIn
  <2>3. CASE j # i
    <3>1. {x \in Players : wh[x] = "teleport" /\ id[x] = j}
              = {x \in Players : where[x] = "teleport" /\ bgId[x] = j}
      BY <1>5, <1>7, <2>3
    <3>2. p \notin Invitees(queue, j)
      BY <1>4, <2>3
    <3>3. QED
      BY <2>1, <3>1, <3>2 DEF ExpectedIn
  <2>4. QED
    BY <2>2, <2>3
<1>13. CountsIn(q, bg, id, wh)
  BY <1>1, <1>12 DEF CountsIn
<1>14. PlayersIn(online, used, id, wh)
  BY <1>1, <1>7 DEF PlayersIn
<1>15. PICK b, told, on, us : b = bg /\ told = invitedTo /\ on = online /\ us = used
  OBVIOUS
<1>16. QED
  <2>1. /\ QueueOK(q) /\ OneGroupEach(q) /\ OfflineIn(b, on) /\ BattlesIn(b) /\ QueuedIn(q, told, on, us, wh)
        /\ TravelIn(told, on, us, id, wh) /\ FightIn(b, told, on, us, id, wh) /\ SlotsIn(q, on, us, wh)
        /\ CountsIn(q, b, id, wh) /\ PlayersIn(on, us, id, wh)
    BY <1>1, <1>6, <1>8, <1>9, <1>10, <1>11, <1>13, <1>14, <1>15
  <2>2. q = queue' /\ b = bg' /\ told = invitedTo' /\ on = online' /\ us = used' /\ id = bgId' /\ wh = where'
    BY <1>3, <1>15
  <2>3. freeSlots' \in Seq(Instances) /\ events' \in SUBSET EventType /\ scheduled' \in BOOLEAN
    BY <1>1, <1>3
  <2>4. QED
    BY <2>1, <2>2, <2>3, NextIn

\* The player has arrived and counts as one of the battleground's players.
LEMMA WorldportKeeps ==
    ASSUME IInv, NEW p \in Players, WorldportAck(p) PROVE IInv'
<1>1. /\ QueueOK(queue) /\ OneGroupEach(queue) /\ OfflineIn(bg, online) /\ BattlesIn(bg)
      /\ QueuedIn(queue, invitedTo, online, used, where) /\ TravelIn(invitedTo, online, used, bgId, where)
      /\ FightIn(bg, invitedTo, online, used, bgId, where) /\ SlotsIn(queue, online, used, where)
      /\ CountsIn(queue, bg, bgId, where) /\ PlayersIn(online, used, bgId, where)
      /\ freeSlots \in Seq(Instances) /\ events \in SUBSET EventType /\ scheduled \in BOOLEAN
  BY NowIn
<1>2. /\ online[p] /\ where[p] = "teleport" /\ Exists(bgId[p])
      /\ where' = [where EXCEPT ![p] = "battleground"]
      /\ bg' = IF invitedTo[p] = bgId[p] THEN [bg EXCEPT ![bgId[p]].players = @ \cup {p}] ELSE bg
      /\ UNCHANGED <<queue, freeSlots, events, scheduled, used, invitedTo, bgId, online>>
  BY DEF WorldportAck
<1>3. PICK i \in Instances : i = bgId[p]
  BY <1>2 DEF Exists
<1>4. used[p] /\ invitedTo[p] = i
  BY <1>1, <1>2, <1>3 DEF TravelIn
<1>5. PICK x, b, wh : /\ x = [bg[i] EXCEPT !.players = @ \cup {p}] /\ b = Placed(bg, i, x)
                      /\ wh = [where EXCEPT ![p] = "battleground"]
  OBVIOUS
<1>6. /\ bg[i] \in BattlegroundType /\ bg[i].players \in SUBSET Players
      /\ bg[i].status # "none"
  BY <1>1, <1>2, <1>3, BattleTyped DEF Exists
<1>7. /\ x \in BattlegroundType /\ x.players = bg[i].players \cup {p} /\ x.offline = bg[i].offline
      /\ x.status = bg[i].status /\ x.invited = bg[i].invited
  BY <1>5, <1>6 DEF BattlegroundType
<1>8. BattlesIn(b) /\ b[i] = x /\ \A j \in Instances \ {i} : b[j] = bg[j]
  <2>1. BattlesIn(bg) /\ b = Placed(bg, i, x)
    BY <1>1, <1>5
  <2>2. x \in BattlegroundType /\ (x.status = "none" => x = Deleted)
    BY <1>6, <1>7
  <2>3. QED
    BY <2>1, <2>2, PlacedIs
<1>9. b = bg' /\ wh = where'
  BY <1>2, <1>3, <1>4, <1>5 DEF Placed
<1>10. /\ wh \in [Players -> {"world", "teleport", "battleground"}]
       /\ wh[p] = "battleground" /\ \A y \in Players \ {p} : wh[y] = where[y]
  BY <1>1, <1>5 DEF PlayersIn
<1>11. \A j \in Instances : /\ b[j].offline = bg[j].offline /\ b[j].status = bg[j].status
                            /\ bg[j].players \subseteq b[j].players
                            /\ b[j].invited = bg[j].invited
  BY <1>7, <1>8
<1>12. OfflineIn(b, online)
  BY <1>1, <1>11 DEF OfflineIn
<1>13. QueuedIn(queue, invitedTo, online, used, wh)
  <2>1. ASSUME NEW j \in Instances \cup {NoBattleground}, NEW y \in Invitees(queue, j)
        PROVE  online[y] /\ used[y] /\ wh[y] = "world" /\ invitedTo[y] = j
    <3>1. y \in Players
      BY <1>1, InviteesOK
    <3>2. online[y] /\ used[y] /\ where[y] = "world" /\ invitedTo[y] = j
      BY <1>1 DEF QueuedIn
    <3>3. y # p
      BY <1>2, <3>2
    <3>4. QED
      BY <1>10, <3>1, <3>2, <3>3
  <2>2. QED
    BY <1>1, <2>1 DEF QueuedIn
<1>14. TravelIn(invitedTo, online, used, bgId, wh)
  BY <1>1, <1>10 DEF TravelIn
<1>15. FightIn(b, invitedTo, online, used, bgId, wh)
  <2>1. ASSUME NEW y \in Players, wh[y] = "battleground", online[y]
        PROVE  used[y] /\ bgId[y] \in Instances /\ invitedTo[y] = bgId[y] /\ y \in b[bgId[y]].players
    <3>1. CASE y = p
      BY <1>3, <1>4, <1>7, <1>8, <3>1
    <3>2. CASE y # p
      BY <1>1, <1>10, <1>11, <2>1, <3>2 DEF FightIn
    <3>3. QED
      BY <3>1, <3>2
  <2>2. ASSUME NEW j \in Instances, NEW y \in b[j].players
        PROVE  wh[y] = "battleground" /\ bgId[y] = j
    <3>1. CASE y = p
      <4>1. where[p] # "battleground"
        BY <1>2
      <4>2. p \notin bg[j].players
        BY <1>1, <4>1 DEF FightIn
      <4>3. j = i
        BY <1>8, <2>2, <3>1, <4>2
      <4>4. QED
        BY <1>3, <1>10, <3>1, <4>3
    <3>2. CASE y # p
      <4>1. y \in bg[j].players
        BY <1>7, <1>8, <2>2, <3>2
      <4>2. y \in Players /\ where[y] = "battleground" /\ bgId[y] = j
        BY <1>1, <4>1, BattleTyped DEF FightIn
      <4>3. QED
        BY <1>10, <3>2, <4>2
    <3>3. QED
      BY <3>1, <3>2
  <2>3. QED
    BY <2>1, <2>2 DEF FightIn
<1>16. SlotsIn(queue, online, used, wh)
  BY <1>1, <1>2, <1>10 DEF SlotsIn
<1>17. \A j \in Instances : ExpectedIn(queue, b, j, bgId, wh) = ExpectedIn(queue, bg, j, bgId, where)
  <2> SUFFICES ASSUME NEW j \in Instances
               PROVE  ExpectedIn(queue, b, j, bgId, wh) = ExpectedIn(queue, bg, j, bgId, where)
    OBVIOUS
  <2>1. CASE j = i
    <3>1. {y \in Players : where[y] = "teleport" /\ bgId[y] = j}
              = {y \in Players : wh[y] = "teleport" /\ bgId[y] = j} \cup {p}
      BY <1>2, <1>3, <1>10, <2>1
    <3>2. b[j].players = bg[j].players \cup {p}
      BY <1>7, <1>8, <2>1
    <3>3. QED
      BY <3>1, <3>2 DEF ExpectedIn
  <2>2. CASE j # i
    <3>1. {y \in Players : where[y] = "teleport" /\ bgId[y] = j}
              = {y \in Players : wh[y] = "teleport" /\ bgId[y] = j}
      BY <1>3, <1>10, <2>2
    <3>2. b[j].players = bg[j].players
      BY <1>8, <2>2
    <3>3. QED
      BY <3>1, <3>2 DEF ExpectedIn
  <2>3. QED
    BY <2>1, <2>2
<1>18. CountsIn(queue, b, bgId, wh)
  <2>1. b[0] = bg[0]
    BY <1>8 DEF BattlesIn
  <2>2. ASSUME NEW j \in Instances, NEW t \in Teams
        PROVE  /\ b[j].invited[t] = Cardinality(OfTeam(ExpectedIn(queue, b, j, bgId, wh), t))
               /\ b[j].invited[t] <= b[0].max
    <3>1. /\ bg[j].invited[t] = Cardinality(OfTeam(ExpectedIn(queue, bg, j, bgId, where), t))
          /\ bg[j].invited[t] <= bg[0].max
      BY <1>1 DEF CountsIn
    <3>2. b[j].invited = bg[j].invited
          /\ ExpectedIn(queue, b, j, bgId, wh) = ExpectedIn(queue, bg, j, bgId, where)
      BY <1>11, <1>17
    <3>3. QED
      BY <2>1, <3>1, <3>2
  <2>3. QED
    BY <2>2 DEF CountsIn
<1>19. PlayersIn(online, used, bgId, wh)
  BY <1>1, <1>10 DEF PlayersIn
<1>20. PICK q, told, on, us, id : q = queue /\ told = invitedTo /\ on = online /\ us = used /\ id = bgId
  OBVIOUS
<1>21. QED
  <2>1. /\ QueueOK(q) /\ OneGroupEach(q) /\ OfflineIn(b, on) /\ BattlesIn(b) /\ QueuedIn(q, told, on, us, wh)
        /\ TravelIn(told, on, us, id, wh) /\ FightIn(b, told, on, us, id, wh) /\ SlotsIn(q, on, us, wh)
        /\ CountsIn(q, b, id, wh) /\ PlayersIn(on, us, id, wh)
    BY <1>1, <1>8, <1>12, <1>13, <1>14, <1>15, <1>16, <1>18, <1>19, <1>20
  <2>2. q = queue' /\ b = bg' /\ told = invitedTo' /\ on = online' /\ us = used' /\ id = bgId' /\ wh = where'
    BY <1>2, <1>9, <1>20
  <2>3. freeSlots' \in Seq(Instances) /\ events' \in SUBSET EventType /\ scheduled' \in BOOLEAN
    BY <1>1, <1>2
  <2>4. QED
    BY <2>1, <2>2, <2>3, NextIn

\* The queue of free slots names battlegrounds.
LEMMA FreeSlotQueueOK ==
    ASSUME freeSlots \in Seq(Instances), NEW i \in Instances, AddToBGFreeSlotQueue(i)
    PROVE  freeSlots' \in Seq(Instances) /\ scheduled' \in BOOLEAN
<1>1. <<i>> \o freeSlots \in Seq(Instances)
  BY PutFirst
<1>2. QED
  BY <1>1 DEF AddToBGFreeSlotQueue

\* Several players are counted off.
LEMMA CountedOff ==
    ASSUME NEW E \in SUBSET Players, NEW L \in SUBSET E, NEW m \in Nat, NEW inv, Counted(inv, E, m),
           NEW inv2, inv2 = [t \in Teams |-> inv[t] - Cardinality(OfTeam(L, t))]
    PROVE  Counted(inv2, E \ L, m)
<1>1. inv \in [Teams -> Int] /\ \A t \in Teams : inv[t] = Cardinality(OfTeam(E, t)) /\ inv[t] <= m
  BY DEF Counted
<1>2. L \in SUBSET Players
  OBVIOUS
<1>3. ASSUME NEW t \in Teams
      PROVE  inv2[t] \in Int /\ inv2[t] = Cardinality(OfTeam(E \ L, t)) /\ inv2[t] <= m
  <2>1. PICK c : c = Cardinality(OfTeam(L, t))
    OBVIOUS
  <2>2. c \in Nat
    BY <1>2, <2>1, TeamCounts
  <2>3. Cardinality(OfTeam(E \ L, t)) = Cardinality(OfTeam(E, t)) - c
    BY <2>1, TeamMinus
  <2>4. inv2[t] = inv[t] - c
    BY <2>1
  <2>5. inv[t] \in Int /\ inv[t] = Cardinality(OfTeam(E, t)) /\ inv[t] <= m
    BY <1>1
  <2>6. inv[t] - c \in Int /\ inv[t] - c <= m
    BY <2>2, <2>5
  <2>7. QED
    BY <2>3, <2>4, <2>5, <2>6
<1>4. inv2 \in [Teams -> Int]
  BY <1>3
<1>5. QED
  BY <1>3, <1>4 DEF Counted

\* RemovePlayerAtLeave: the places of those who leave are given back, and their
\* slots when they are connected.  Nobody is away while the battle goes on
\* without being in its offline queue, so only connected players leave then.
LEMMA LeavingKeeps ==
    ASSUME IInv, NEW i \in Instances, NEW leaving \in SUBSET bg[i].players, bg[i].status # "none",
           bg[i].status # "leave" => \A p \in leaving : online[p],
           RemovePlayersAtLeave(i, leaving)
    PROVE  IInv'
<1>1. /\ QueueOK(queue) /\ OneGroupEach(queue) /\ OfflineIn(bg, online) /\ BattlesIn(bg)
      /\ QueuedIn(queue, invitedTo, online, used, where) /\ TravelIn(invitedTo, online, used, bgId, where)
      /\ FightIn(bg, invitedTo, online, used, bgId, where) /\ SlotsIn(queue, online, used, where)
      /\ CountsIn(queue, bg, bgId, where) /\ PlayersIn(online, used, bgId, where)
      /\ freeSlots \in Seq(Instances) /\ events \in SUBSET EventType /\ scheduled \in BOOLEAN
  BY NowIn
<1>2. PICK there : there = {p \in leaving : online[p]}
  OBVIOUS
<1>3. /\ bg[i] \in BattlegroundType /\ bg[i].players \in SUBSET Players /\ bg[i].invited \in [Teams -> Int]
      /\ bg[i].status \in {"join", "progress", "leave"}
  BY <1>1, BattleTyped
<1>4. leaving \in SUBSET Players /\ there \in SUBSET leaving
      /\ \A p \in leaving : where[p] = "battleground" /\ bgId[p] = i
  BY <1>1, <1>2, <1>3 DEF FightIn
<1>5. PICK inv : inv = [t \in Teams |-> bg[i].invited[t] - Cardinality(OfTeam(leaving, t))]
  OBVIOUS
<1>6. PICK x, b, us, told, id, wh :
        /\ x = [bg[i] EXCEPT !.players = @ \ leaving, !.invited = inv]
        /\ b = Placed(bg, i, x)
        /\ us = [p \in Players |-> used[p] /\ p \notin there]
        /\ told = [p \in Players |-> IF p \in there THEN NoBattleground ELSE invitedTo[p]]
        /\ id = [p \in Players |-> IF p \in there THEN NoBattleground ELSE bgId[p]]
        /\ wh = [p \in Players |-> IF p \in there THEN "world" ELSE where[p]]
  OBVIOUS
<1>7. /\ b = bg' /\ us = used' /\ told = invitedTo' /\ id = bgId' /\ wh = where'
      /\ UNCHANGED <<queue, events, online>>
  <2>1. /\ bg' = [bg EXCEPT ![i].players = @ \ leaving,
                            ![i].invited = [t \in Teams |-> @[t] - Cardinality({p \in leaving : Team[p] = t})]]
        /\ UNCHANGED <<queue, events, online>>
    BY DEF RemovePlayersAtLeave
  <2>2. us = used' /\ told = invitedTo' /\ id = bgId' /\ wh = where'
    BY <1>2, <1>6 DEF RemovePlayersAtLeave
  <2>3. inv = [t \in Teams |-> bg[i].invited[t] - Cardinality({p \in leaving : Team[p] = t})]
    BY <1>5 DEF OfTeam
  <2>4. DOMAIN bg = Instances \cup {0}
    BY <1>1 DEF BattlesIn
  <2>5. bg' = [bg EXCEPT ![i] = [bg[i] EXCEPT !.players = @ \ leaving, !.invited = inv]]
    BY <1>3, <2>1, <2>3, <2>4 DEF BattlegroundType
  <2>6. QED
    BY <1>6, <2>1, <2>2, <2>5 DEF Placed
<1>8. freeSlots' \in Seq(Instances) /\ scheduled' \in BOOLEAN
  <2>1. CASE bg[i].status \in {"join", "progress"}
    <3>1. AddToBGFreeSlotQueue(i)
      BY <2>1 DEF RemovePlayersAtLeave
    <3>2. QED
      BY <1>1, <3>1, FreeSlotQueueOK
  <2>2. CASE ~(bg[i].status \in {"join", "progress"})
    <3>1. UNCHANGED <<freeSlots, scheduled>>
      BY <2>2 DEF RemovePlayersAtLeave
    <3>2. QED
      BY <1>1, <3>1
  <2>3. QED
    BY <2>1, <2>2
<1>9. /\ us \in [Players -> BOOLEAN] /\ told \in [Players -> Instances \cup {NoBattleground}]
      /\ id \in [Players -> Instances \cup {NoBattleground}]
      /\ wh \in [Players -> {"world", "teleport", "battleground"}]
      /\ \A p \in there : us[p] = FALSE /\ wh[p] = "world"
      /\ \A p \in Players \ there : us[p] = used[p] /\ told[p] = invitedTo[p] /\ id[p] = bgId[p] /\ wh[p] = where[p]
  <2>1. /\ used \in [Players -> BOOLEAN] /\ invitedTo \in [Players -> Instances \cup {NoBattleground}]
        /\ bgId \in [Players -> Instances \cup {NoBattleground}]
        /\ where \in [Players -> {"world", "teleport", "battleground"}]
    BY <1>1 DEF PlayersIn, QueuedIn
  <2>2. there \in SUBSET Players
    BY <1>4
  <2>3. us \in [Players -> BOOLEAN] /\ (\A p \in there : us[p] = FALSE) /\ \A p \in Players \ there : us[p] = used[p]
    BY <1>6, <2>1, <2>2
  <2>4. told \in [Players -> Instances \cup {NoBattleground}] /\ \A p \in Players \ there : told[p] = invitedTo[p]
    BY <1>6, <2>1
  <2>5. id \in [Players -> Instances \cup {NoBattleground}] /\ \A p \in Players \ there : id[p] = bgId[p]
    BY <1>6, <2>1
  <2>6. /\ wh \in [Players -> {"world", "teleport", "battleground"}]
        /\ (\A p \in there : wh[p] = "world") /\ \A p \in Players \ there : wh[p] = where[p]
    BY <1>6, <2>1, <2>2
  <2>7. QED
    BY <2>3, <2>4, <2>5, <2>6
<1>10. PICK E \in SUBSET Players : E = ExpectedIn(queue, bg, i, bgId, where)
  BY <1>1, ExpectedInOK
<1>11. Counted(inv, E \ leaving, bg[0].max)
  <2>1. leaving \in SUBSET E
    BY <1>10 DEF ExpectedIn
  <2>2. PICK old, m : old = bg[i].invited /\ m = bg[0].max
    OBVIOUS
  <2>3. m \in Nat /\ Counted(old, E, m)
    BY <1>1, <1>10, <2>2, CountsOfOne, CapacityIsNat DEF IInv, Consistent
  <2>4. inv = [t \in Teams |-> old[t] - Cardinality(OfTeam(leaving, t))]
    BY <1>5, <2>2
  <2>5. QED
    BY <2>1, <2>2, <2>3, <2>4, CountedOff
<1>12. /\ x \in BattlegroundType /\ x.players = bg[i].players \ leaving /\ x.offline = bg[i].offline
       /\ x.status = bg[i].status /\ x.invited = inv
  <2>1. inv \in [Teams -> Int]
    BY <1>11 DEF Counted
  <2>2. QED
    BY <1>3, <1>6, <2>1 DEF BattlegroundType
<1>13. BattlesIn(b) /\ b[i] = x /\ \A j \in Instances \ {i} : b[j] = bg[j]
  <2>1. BattlesIn(bg) /\ b = Placed(bg, i, x)
    BY <1>1, <1>6
  <2>2. x \in BattlegroundType /\ (x.status = "none" => x = Deleted)
    BY <1>3, <1>12
  <2>3. QED
    BY <2>1, <2>2, PlacedIs
<1>14. \A j \in Instances \ {i} : \A p \in bg[j].players : p \in Players \ there
  <2> SUFFICES ASSUME NEW j \in Instances \ {i}, NEW p \in bg[j].players PROVE p \in Players \ there
    OBVIOUS
  <2>1. p \in Players /\ bgId[p] = j
    BY <1>1, BattleTyped DEF FightIn
  <2>2. QED
    BY <1>4, <2>1
<1>15. OfflineIn(b, online)
  <2> SUFFICES ASSUME NEW j \in Instances, b[j].status \in {"join", "progress"}
               PROVE  /\ \A n \in 1..Len(b[j].offline) :
                             ~online[b[j].offline[n]] /\ b[j].offline[n] \in b[j].players
                      /\ Distinct(b[j].offline)
    BY DEF OfflineIn
  <2>1. CASE j = i
    <3>1. \A p \in leaving : online[p]
      BY <1>12, <1>13, <2>1
    <3>2. /\ \A n \in 1..Len(bg[j].offline) :
                 ~online[bg[j].offline[n]] /\ bg[j].offline[n] \in bg[j].players
          /\ Distinct(bg[j].offline)
      BY <1>1, <1>12, <1>13, <2>1 DEF OfflineIn
    <3>3. b[j].offline = bg[j].offline /\ b[j].players = bg[j].players \ leaving
      BY <1>12, <1>13, <2>1
    <3>4. QED
      BY <3>1, <3>2, <3>3
  <2>2. CASE j # i
    BY <1>1, <1>13, <2>2 DEF OfflineIn
  <2>3. QED
    BY <2>1, <2>2
<1>16. QueuedIn(queue, told, online, us, wh)
  <2>1. ASSUME NEW j \in Instances \cup {NoBattleground}, NEW y \in Invitees(queue, j)
        PROVE  online[y] /\ us[y] /\ wh[y] = "world" /\ told[y] = j
    <3>1. y \in Players
      BY <1>1, InviteesOK
    <3>2. online[y] /\ used[y] /\ where[y] = "world" /\ invitedTo[y] = j
      BY <1>1 DEF QueuedIn
    <3>3. y \notin there
      BY <1>4, <3>2
    <3>4. QED
      BY <1>9, <3>1, <3>2, <3>3
  <2>2. QED
    BY <1>9, <2>1 DEF QueuedIn
<1>17. TravelIn(told, online, us, id, wh)
  <2> SUFFICES ASSUME NEW y \in Players, wh[y] = "teleport"
               PROVE  online[y] /\ us[y] /\ id[y] \in Instances /\ told[y] = id[y]
    BY DEF TravelIn
  <2>1. y \in Players \ there
    BY <1>9
  <2>2. us[y] = used[y] /\ told[y] = invitedTo[y] /\ id[y] = bgId[y] /\ wh[y] = where[y]
    BY <1>9, <2>1
  <2>3. QED
    BY <1>1, <2>2 DEF TravelIn
<1>18. FightIn(b, told, online, us, id, wh)
  <2>1. ASSUME NEW y \in Players, wh[y] = "battleground", online[y]
        PROVE  us[y] /\ id[y] \in Instances /\ told[y] = id[y] /\ y \in b[id[y]].players
    <3>1. y \in Players \ there
      BY <1>9, <2>1
    <3>2. us[y] = used[y] /\ told[y] = invitedTo[y] /\ id[y] = bgId[y] /\ wh[y] = where[y]
      BY <1>9, <3>1
    <3>3. used[y] /\ bgId[y] \in Instances /\ invitedTo[y] = bgId[y] /\ y \in bg[bgId[y]].players
      BY <1>1, <2>1, <3>2 DEF FightIn
    <3>4. y \notin leaving
      BY <1>2, <2>1, <3>1
    <3>5. y \in b[bgId[y]].players
      BY <1>12, <1>13, <3>3, <3>4
    <3>6. QED
      BY <3>2, <3>3, <3>5
  <2>2. ASSUME NEW j \in Instances, NEW y \in b[j].players
        PROVE  wh[y] = "battleground" /\ id[y] = j
    <3>1. y \in bg[j].players /\ y \in Players
      BY <1>1, <1>12, <1>13, <2>2, BattleTyped
    <3>2. y \notin there
      BY <1>4, <1>12, <1>13, <1>14, <2>2
    <3>3. where[y] = "battleground" /\ bgId[y] = j
      BY <1>1, <3>1 DEF FightIn
    <3>4. QED
      BY <1>9, <3>1, <3>2, <3>3
  <2>3. QED
    BY <2>1, <2>2 DEF FightIn
<1>19. SlotsIn(queue, online, us, wh)
  <2> SUFFICES ASSUME NEW y \in Players, us[y]
               PROVE  online[y] /\ (wh[y] # "world" \/ y \in InQueue(queue))
    BY DEF SlotsIn
  <2>1. y \in Players \ there
    BY <1>9
  <2>2. QED
    BY <1>1, <1>9, <2>1 DEF SlotsIn
<1>20. ASSUME NEW j \in Instances
       PROVE  {y \in Players : wh[y] = "teleport" /\ id[y] = j} = {y \in Players : where[y] = "teleport" /\ bgId[y] = j}
  BY <1>4, <1>9
<1>21. ExpectedIn(queue, b, i, id, wh) = E \ leaving
  <2>1. \A y \in leaving : y \notin Invitees(queue, i) /\ where[y] # "teleport"
    BY <1>1, <1>4 DEF QueuedIn
  <2>2. b[i].players = bg[i].players \ leaving
    BY <1>12, <1>13
  <2>3. QED
    BY <1>10, <1>20, <2>1, <2>2 DEF ExpectedIn
<1>22. \A j \in Instances \ {i} : b[j] = bg[j]
           /\ ExpectedIn(queue, b, j, id, wh) = ExpectedIn(queue, bg, j, bgId, where)
  BY <1>13, <1>20 DEF ExpectedIn
<1>23. CountsIn(queue, b, id, wh)
  <2>1. Counted(b[i].invited, ExpectedIn(queue, b, i, id, wh), bg[0].max)
    BY <1>11, <1>12, <1>13, <1>21
  <2>2. QED
    BY <1>1, <1>13, <1>22, <2>1, CountsStay
<1>24. PlayersIn(online, us, id, wh)
  BY <1>1, <1>9 DEF PlayersIn
<1>25. PICK q, on : q = queue /\ on = online
  OBVIOUS
<1>26. QED
  <2>1. /\ QueueOK(q) /\ OneGroupEach(q) /\ OfflineIn(b, on) /\ BattlesIn(b) /\ QueuedIn(q, told, on, us, wh)
        /\ TravelIn(told, on, us, id, wh) /\ FightIn(b, told, on, us, id, wh) /\ SlotsIn(q, on, us, wh)
        /\ CountsIn(q, b, id, wh) /\ PlayersIn(on, us, id, wh)
    BY <1>1, <1>13, <1>15, <1>16, <1>17, <1>18, <1>19, <1>23, <1>24, <1>25
  <2>2. q = queue' /\ b = bg' /\ told = invitedTo' /\ on = online' /\ us = used' /\ id = bgId' /\ wh = where'
    BY <1>7, <1>25
  <2>3. events' \in SUBSET EventType
    BY <1>1, <1>7
  <2>4. QED
    BY <1>8, <2>1, <2>2, <2>3, NextIn

\* One player leaves his battle.
LEMMA LeaveBattlegroundKeeps ==
    ASSUME IInv, NEW p \in Players, LeaveBattleground(p) PROVE IInv'
<1>1. /\ online[p] /\ Exists(bgId[p]) /\ p \in bg[bgId[p]].players /\ RemovePlayersAtLeave(bgId[p], {p})
  BY DEF LeaveBattleground
<1>2. PICK i \in Instances : i = bgId[p] /\ bg[i].status # "none"
  BY <1>1 DEF Exists
<1>3. PICK L \in SUBSET bg[i].players : L = {p}
  BY <1>1, <1>2
<1>4. RemovePlayersAtLeave(i, L)
  BY <1>1, <1>2, <1>3
<1>5. bg[i].status # "leave" => \A y \in L : online[y]
  BY <1>1, <1>3
<1>6. QED
  BY <1>2, <1>4, <1>5, LeavingKeeps

\* All are sent away when the battleground closes.
LEMMA ProcessLeaveKeeps ==
    ASSUME IInv, NEW i \in Instances, ProcessLeave(i) PROVE IInv'
<1>1. bg[i].status = "leave" /\ RemovePlayersAtLeave(i, bg[i].players)
  BY DEF ProcessLeave
<1>2. PICK L \in SUBSET bg[i].players : L = bg[i].players
  OBVIOUS
<1>3. RemovePlayersAtLeave(i, L)
  BY <1>1, <1>2
<1>4. bg[i].status # "none" /\ (bg[i].status # "leave" => \A y \in L : online[y])
  BY <1>1
<1>5. QED
  BY <1>3, <1>4, LeavingKeeps

\* A battleground whose players and places stay as they are.
LEMMA QuietChange ==
    ASSUME IInv, NEW i \in Instances, NEW x \in BattlegroundType, x.status = "none" => x = Deleted,
           x.players = bg[i].players, \A t \in Teams : x.invited[t] = bg[i].invited[t],
           NEW b, b = Placed(bg, i, x), OfflineIn(b, online), b = bg',
           UNCHANGED <<queue, invitedTo, online, used, bgId, where>>,
           freeSlots' \in Seq(Instances), events' \in SUBSET EventType, scheduled' \in BOOLEAN
    PROVE  IInv'
<1>1. PICK q, told, on, us, id, wh :
        q = queue /\ told = invitedTo /\ on = online /\ us = used /\ id = bgId /\ wh = where
  OBVIOUS
<1>2. /\ QueueOK(q) /\ OneGroupEach(q) /\ BattlesIn(bg) /\ QueuedIn(q, told, on, us, wh)
      /\ TravelIn(told, on, us, id, wh) /\ FightIn(bg, told, on, us, id, wh) /\ SlotsIn(q, on, us, wh)
      /\ CountsIn(q, bg, id, wh) /\ PlayersIn(on, us, id, wh)
  BY <1>1, NowIn
<1>3. BattlesIn(b) /\ b[i] = x /\ \A j \in Instances \ {i} : b[j] = bg[j]
  <2>1. BattlesIn(bg) /\ b = Placed(bg, i, x) /\ x \in BattlegroundType /\ (x.status = "none" => x = Deleted)
    BY <1>2
  <2>2. i \in Instances
    OBVIOUS
  <2>3. QED
    BY ONLY <2>1, <2>2, PlacedIs
<1>4. \A j \in Instances : b[j].players = bg[j].players
  BY <1>3
<1>5. FightIn(b, told, on, us, id, wh)
  BY <1>2, <1>4 DEF FightIn
<1>6. \A j \in Instances : ExpectedIn(q, b, j, id, wh) = ExpectedIn(q, bg, j, id, wh)
  BY <1>4 DEF ExpectedIn
<1>7. CountsIn(q, b, id, wh)
  <2>1. Counted(bg[i].invited, ExpectedIn(q, bg, i, id, wh), bg[0].max)
    BY <1>2, CountsOfOne
  <2>2. x.invited \in [Teams -> Int]
    BY DEF BattlegroundType
  <2>3. Counted(b[i].invited, ExpectedIn(q, b, i, id, wh), bg[0].max)
    BY <1>3, <1>6, <2>1, <2>2 DEF Counted
  <2>4. \A j \in Instances \ {i} : b[j] = bg[j] /\ ExpectedIn(q, b, j, id, wh) = ExpectedIn(q, bg, j, id, wh)
    BY <1>3, <1>6
  <2>5. QED
    BY <1>2, <1>3, <2>3, <2>4, CountsStay
<1>8. OfflineIn(b, on)
  BY <1>1
<1>9. q = queue' /\ b = bg' /\ told = invitedTo' /\ on = online' /\ us = used' /\ id = bgId' /\ wh = where'
  BY <1>1
<1>10. QED
  BY <1>2, <1>3, <1>5, <1>7, <1>8, <1>9, NextIn

\* A battleground is taken off the queue of free slots.
LEMMA FreeSlotsWithin ==
    ASSUME freeSlots \in Seq(Instances), NEW S PROVE Within(freeSlots, S) \in Seq(Instances)
  BY WithinOK

\* A battleground nobody has a place in is deleted.
LEMMA DeleteKeeps ==
    ASSUME IInv, NEW i \in Instances, DeleteBattleground(i) PROVE IInv'
<1>1. /\ BattlesIn(bg) /\ OfflineIn(bg, online)
      /\ freeSlots \in Seq(Instances) /\ events \in SUBSET EventType /\ scheduled \in BOOLEAN
  BY NowIn
<1>2. /\ bg[i].players = {} /\ \A t \in Teams : bg[i].invited[t] = 0
      /\ bg' = [bg EXCEPT ![i] = Deleted] /\ freeSlots' = Within(freeSlots, Instances \ {i})
      /\ UNCHANGED <<queue, invitedTo, online, used, bgId, where>> /\ UNCHANGED <<events, scheduled>>
  BY DEF DeleteBattleground, playerVars
<1>3. PICK x, b : x = Deleted /\ b = Placed(bg, i, x)
  OBVIOUS
<1>4. /\ x \in BattlegroundType /\ x.status = "none" /\ x.players = {} /\ \A t \in Teams : x.invited[t] = 0
  BY <1>3, DeletedIsEmpty
<1>5. BattlesIn(b) /\ b[i] = x /\ \A j \in Instances \ {i} : b[j] = bg[j]
  <2>1. x.status = "none" => x = Deleted
    BY <1>3
  <2>2. QED
    BY <1>1, <1>3, <1>4, <2>1, PlacedIs
<1>6. OfflineIn(b, online)
  <2> SUFFICES ASSUME NEW j \in Instances, b[j].status \in {"join", "progress"}
               PROVE  /\ \A n \in 1..Len(b[j].offline) :
                             ~online[b[j].offline[n]] /\ b[j].offline[n] \in b[j].players
                      /\ Distinct(b[j].offline)
    BY DEF OfflineIn
  <2>1. j # i
    BY <1>4, <1>5
  <2>2. b[j] = bg[j]
    BY <1>5, <2>1
  <2>3. QED
    BY <1>1, <2>2 DEF OfflineIn
<1>7. freeSlots' \in Seq(Instances) /\ events' \in SUBSET EventType /\ scheduled' \in BOOLEAN
  BY <1>1, <1>2, FreeSlotsWithin
<1>8. QED
  <2>1. x.players = bg[i].players /\ (\A t \in Teams : x.invited[t] = bg[i].invited[t])
        /\ (x.status = "none" => x = Deleted)
    BY <1>2, <1>3, <1>4
  <2>2. b = bg'
    BY <1>2, <1>3 DEF Placed
  <2>3. QED
    BY <1>2, <1>3, <1>4, <1>6, <1>7, <2>1, <2>2, QuietChange

\* The status changes from one of a battle that goes on, or to its end.
LEMMA StatusKeeps ==
    ASSUME IInv, NEW i \in Instances, NEW st \in {"progress", "leave"},
           bg[i].status \in {"join", "progress"}, bg' = [bg EXCEPT ![i].status = st],
           UNCHANGED <<queue, invitedTo, online, used, bgId, where>>,
           freeSlots' \in Seq(Instances), events' \in SUBSET EventType, scheduled' \in BOOLEAN
    PROVE  IInv'
<1>1. BattlesIn(bg) /\ OfflineIn(bg, online)
  BY NowIn
<1>2. bg[i] \in BattlegroundType
  BY <1>1, BattleTyped
<1>3. PICK x, b : x = [bg[i] EXCEPT !.status = st] /\ b = Placed(bg, i, x)
  OBVIOUS
<1>4. /\ x \in BattlegroundType /\ x.status = st /\ x.players = bg[i].players /\ x.invited = bg[i].invited
      /\ x.offline = bg[i].offline
  BY <1>2, <1>3 DEF BattlegroundType
<1>5. b = bg'
  BY <1>3 DEF Placed
<1>6. x.status = "none" => x = Deleted
  BY <1>4
<1>7. BattlesIn(b) /\ b[i] = x /\ \A j \in Instances \ {i} : b[j] = bg[j]
  <2>1. BattlesIn(bg) /\ b = Placed(bg, i, x) /\ x \in BattlegroundType
    BY <1>1, <1>3, <1>4
  <2>2. QED
    BY <1>6, <2>1, PlacedIs
<1>8. OfflineIn(b, online)
  <2> SUFFICES ASSUME NEW j \in Instances, b[j].status \in {"join", "progress"}
               PROVE  /\ \A n \in 1..Len(b[j].offline) :
                             ~online[b[j].offline[n]] /\ b[j].offline[n] \in b[j].players
                      /\ Distinct(b[j].offline)
    BY DEF OfflineIn
  <2>1. b[j].offline = bg[j].offline /\ b[j].players = bg[j].players
    BY <1>4, <1>7
  <2>2. bg[j].status \in {"join", "progress"}
    BY <1>7
  <2>3. QED
    BY <1>1, <2>1, <2>2 DEF OfflineIn
<1>9. \A t \in Teams : x.invited[t] = bg[i].invited[t]
  BY <1>4
<1>10. QED
  BY <1>3, <1>4, <1>5, <1>6, <1>8, <1>9, QuietChange

\* The doors open.
LEMMA StartFightKeeps ==
    ASSUME IInv, NEW i \in Instances, StartFight(i) PROVE IInv'
<1>1. /\ bg[i].status = "join" /\ bg' = [bg EXCEPT ![i].status = "progress"]
      /\ UNCHANGED <<queue, invitedTo, online, used, bgId, where>> /\ UNCHANGED <<freeSlots, events, scheduled>>
  BY DEF StartFight, playerVars
<1>2. PICK st \in {"progress", "leave"} : st = "progress"
  OBVIOUS
<1>3. bg[i].status \in {"join", "progress"} /\ bg' = [bg EXCEPT ![i].status = st]
  BY <1>1, <1>2
<1>4. freeSlots' \in Seq(Instances) /\ events' \in SUBSET EventType /\ scheduled' \in BOOLEAN
  BY <1>1, NowIn
<1>5. QED
  BY <1>1, <1>3, <1>4, StatusKeeps

\* The battle is over.
LEMMA EndBattlegroundKeeps ==
    ASSUME IInv, NEW i \in Instances, EndBattleground(i) PROVE IInv'
<1>1. /\ bg[i].status \in {"join", "progress"} /\ bg' = [bg EXCEPT ![i].status = "leave"]
      /\ freeSlots' = Within(freeSlots, Instances \ {i})
      /\ UNCHANGED <<queue, invitedTo, online, used, bgId, where>> /\ UNCHANGED <<events, scheduled>>
  BY DEF EndBattleground, playerVars
<1>2. PICK st \in {"progress", "leave"} : st = "leave"
  OBVIOUS
<1>3. bg' = [bg EXCEPT ![i].status = st]
  BY <1>1, <1>2
<1>4. freeSlots' \in Seq(Instances) /\ events' \in SUBSET EventType /\ scheduled' \in BOOLEAN
  BY <1>1, NowIn, FreeSlotsWithin
<1>5. QED
  BY <1>1, <1>3, <1>4, StatusKeeps

\* r is what follows h in s.
After(r, h, s) ==
    /\ r \in Seq(Players) /\ Distinct(r)
    /\ \A n \in 1..Len(r) : r[n] # h /\ \E m \in 1..Len(s) : r[n] = s[m]

\* What follows the first of a list without duplicates.
LEMMA TailOK ==
    ASSUME NEW s, s \in Seq(Players), s # <<>>, Distinct(s), NEW r, r = Tail(s), NEW h, h = Head(s)
    PROVE  After(r, h, s)
<1>1. PICK k \in Nat : k = Len(s)
  OBVIOUS
<1>2. /\ k >= 1 /\ Head(s) = s[1] /\ r \in Seq(Players) /\ Len(r) = k - 1
      /\ \A n \in 1..(k - 1) : r[n] = s[n + 1]
  BY <1>1
<1>3. \A m, n \in 1..k : m # n => s[m] # s[n]
  BY <1>1 DEF Distinct, Places
<1>4. Distinct(r)
  <2> SUFFICES ASSUME NEW m \in 1..(k - 1), NEW n \in 1..(k - 1), m # n PROVE r[m] # r[n]
    BY <1>2 DEF Distinct, Places
  <2>1. m + 1 \in 1..k /\ n + 1 \in 1..k /\ m + 1 # n + 1
    OBVIOUS
  <2>2. QED
    BY <1>2, <1>3, <2>1
<1>5. ASSUME NEW n \in 1..(k - 1) PROVE r[n] # Head(s) /\ \E m \in 1..k : r[n] = s[m]
  <2>1. n + 1 \in 1..k /\ 1 \in 1..k /\ n + 1 # 1
    BY <1>2
  <2>2. r[n] = s[n + 1] /\ s[n + 1] # s[1]
    BY <1>2, <1>3, <2>1
  <2>3. QED
    BY <1>2, <2>1, <2>2
<1>6. QED
  BY <1>1, <1>2, <1>4, <1>5 DEF After

\* A player who is not connected is taken off battleground i.
LEMMA AwayKeeps ==
    ASSUME IInv, NEW i \in Instances, NEW p \in bg[i].players, ~online[p],
           NEW inv, inv = [bg[i].invited EXCEPT ![Team[p]] = @ - 1],
           NEW x \in BattlegroundType, x.players = bg[i].players \ {p}, x.invited = inv,
           x.status = bg[i].status, NEW b, b = Placed(bg, i, x)
    PROVE  /\ BattlesIn(b) /\ CountsIn(queue, b, bgId, where)
           /\ b[i] = x /\ \A j \in Instances \ {i} : b[j] = bg[j]
<1>1. /\ QueueOK(queue) /\ BattlesIn(bg) /\ QueuedIn(queue, invitedTo, online, used, where)
      /\ FightIn(bg, invitedTo, online, used, bgId, where) /\ CountsIn(queue, bg, bgId, where)
  BY NowIn
<1>2. bg[i] \in BattlegroundType /\ bg[i].players \in SUBSET Players /\ bg[i].status # "none"
  <2>1. bg[i] \in BattlegroundType /\ bg[i].players \in SUBSET Players /\ (bg[i].status = "none" => bg[i] = Deleted)
    BY <1>1, BattleTyped
  <2>2. Deleted.players = {}
    BY DeletedIsEmpty
  <2>3. QED
    BY <2>1, <2>2
<1>4. PICK E \in SUBSET Players : E = ExpectedIn(queue, bg, i, bgId, where)
  BY <1>1, ExpectedInOK
<1>5. p \in E /\ where[p] = "battleground" /\ p \notin Invitees(queue, i)
  <2>1. p \in E
    BY <1>4 DEF ExpectedIn
  <2>2. where[p] = "battleground"
    BY <1>1 DEF FightIn
  <2>3. QED
    BY <1>1, <2>1, <2>2 DEF QueuedIn
<1>6. Counted(inv, E \ {p}, bg[0].max)
  <2>1. bg[0].max \in Nat
    BY CapacityIsNat DEF IInv, Consistent
  <2>2. Counted(bg[i].invited, E, bg[0].max)
    BY <1>1, <1>4, CountsOfOne
  <2>3. PICK old, m : old = bg[i].invited /\ m = bg[0].max
    OBVIOUS
  <2>4. Counted(old, E, m) /\ m \in Nat /\ inv = [old EXCEPT ![Team[p]] = @ - 1]
    BY <2>1, <2>2, <2>3
  <2>5. Counted(inv, E \ {p}, m)
    BY <1>5, <2>4, OneCountedOff
  <2>6. QED
    BY <2>3, <2>5
<1>9. BattlesIn(b) /\ b[i] = x /\ \A j \in Instances \ {i} : b[j] = bg[j]
  <2>1. /\ BattlesIn(bg) /\ x \in BattlegroundType /\ (x.status = "none" => x = Deleted) /\ i \in Instances
        /\ b = Placed(bg, i, x)
    BY <1>1, <1>2
  <2>2. QED
    BY ONLY <2>1, PlacedIs
<1>10. ExpectedIn(queue, b, i, bgId, where) = E \ {p}
  BY <1>4, <1>5, <1>9 DEF ExpectedIn
<1>11. \A j \in Instances \ {i} : b[j] = bg[j]
           /\ ExpectedIn(queue, b, j, bgId, where) = ExpectedIn(queue, bg, j, bgId, where)
  BY <1>9 DEF ExpectedIn
<1>12. CountsIn(queue, b, bgId, where)
  <2>1. Counted(b[i].invited, ExpectedIn(queue, b, i, bgId, where), bg[0].max)
    BY <1>6, <1>9, <1>10
  <2>2. QED
    BY <1>1, <1>9, <1>11, <2>1, CountsStay
<1>13. QED
  BY <1>9, <1>12

\* The first of the offline queue loses his place.
LEMMA ProcessOfflineKeeps ==
    ASSUME IInv, NEW i \in Instances, ProcessOfflineQueue(i) PROVE IInv'
<1>1. /\ QueueOK(queue) /\ OneGroupEach(queue) /\ OfflineIn(bg, online) /\ BattlesIn(bg)
      /\ QueuedIn(queue, invitedTo, online, used, where) /\ TravelIn(invitedTo, online, used, bgId, where)
      /\ FightIn(bg, invitedTo, online, used, bgId, where) /\ SlotsIn(queue, online, used, where)
      /\ PlayersIn(online, used, bgId, where)
      /\ freeSlots \in Seq(Instances) /\ events \in SUBSET EventType /\ scheduled \in BOOLEAN
  BY NowIn
<1>2. PICK p : p = Head(bg[i].offline)
  OBVIOUS
<1>3. /\ bg[i].status = "progress" /\ bg[i].offline # <<>> /\ p \in bg[i].players
      /\ bg' = [bg EXCEPT ![i].players = @ \ {p}, ![i].invited[Team[p]] = @ - 1, ![i].offline = Tail(@)]
      /\ AddToBGFreeSlotQueue(i)
      /\ UNCHANGED <<queue, events>> /\ UNCHANGED <<used, invitedTo, bgId, where, online>>
  BY <1>2 DEF ProcessOfflineQueue, playerVars
<1>4. PICK old, off : old = bg[i].offline /\ off = Tail(old)
  OBVIOUS
<1>5. bg[i] \in BattlegroundType /\ old \in Seq(Players)
  BY <1>1, <1>4, BattleTyped
<1>6. /\ Distinct(old) /\ \A n \in 1..Len(old) : ~online[old[n]] /\ old[n] \in bg[i].players
  BY <1>1, <1>3, <1>4 DEF OfflineIn
<1>7. ~online[p]
  <2>1. p = old[1] /\ 1 \in 1..Len(old)
    BY <1>2, <1>3, <1>4, <1>5
  <2>2. QED
    BY <1>6, <2>1
<1>8. /\ off \in Seq(Players) /\ Distinct(off)
      /\ \A n \in 1..Len(off) : off[n] # p /\ \E m \in 1..Len(old) : off[n] = old[m]
  <2>1. old \in Seq(Players) /\ old # <<>> /\ Distinct(old) /\ off = Tail(old) /\ p = Head(old)
    BY <1>2, <1>3, <1>4, <1>5, <1>6
  <2>2. After(off, p, old)
    BY ONLY <2>1, TailOK
  <2>3. QED
    BY ONLY <2>2 DEF After
<1>9. PICK inv, x, b : /\ inv = [bg[i].invited EXCEPT ![Team[p]] = @ - 1]
                       /\ x = [bg[i] EXCEPT !.players = @ \ {p}, !.offline = off, !.invited = inv]
                       /\ b = Placed(bg, i, x)
  OBVIOUS
<1>20. /\ x \in BattlegroundType /\ x.players = bg[i].players \ {p} /\ x.offline = off
       /\ x.status = bg[i].status /\ x.invited = inv
  <2>1. bg[i].invited \in [Teams -> Int] /\ Team[p] \in Teams
    BY <1>1, <1>3, BattleTyped, QueueAssumption
  <2>2. inv \in [Teams -> Int]
    BY <1>9, <2>1
  <2>3. QED
    BY <1>5, <1>8, <1>9, <2>2 DEF BattlegroundType
<1>10. /\ BattlesIn(b) /\ CountsIn(queue, b, bgId, where)
       /\ b[i] = x /\ \A j \in Instances \ {i} : b[j] = bg[j]
  <2>1. /\ IInv /\ i \in Instances /\ p \in bg[i].players /\ ~online[p]
        /\ inv = [bg[i].invited EXCEPT ![Team[p]] = @ - 1]
        /\ x \in BattlegroundType /\ x.players = bg[i].players \ {p} /\ x.invited = inv
        /\ x.status = bg[i].status /\ b = Placed(bg, i, x)
    BY <1>3, <1>7, <1>9, <1>20
  <2>2. QED
    BY ONLY <2>1, AwayKeeps
<1>11. b = bg'
  <2>1. DOMAIN bg = Instances \cup {0}
    BY <1>1 DEF BattlesIn
  <2>2. bg' = [bg EXCEPT ![i] = [bg[i] EXCEPT !.players = @ \ {p}, !.invited = inv, !.offline = off]]
    BY <1>3, <1>4, <1>5, <1>9, <2>1 DEF BattlegroundType
  <2>3. [bg[i] EXCEPT !.players = @ \ {p}, !.invited = inv, !.offline = off] = x
    BY <1>5, <1>9 DEF BattlegroundType
  <2>4. QED
    BY <1>9, <2>2, <2>3 DEF Placed
<1>12. OfflineIn(b, online)
  <2> SUFFICES ASSUME NEW j \in Instances, b[j].status \in {"join", "progress"}
               PROVE  /\ \A n \in 1..Len(b[j].offline) :
                             ~online[b[j].offline[n]] /\ b[j].offline[n] \in b[j].players
                      /\ Distinct(b[j].offline)
    BY DEF OfflineIn
  <2>1. CASE j = i
    <3>1. b[j].offline = off /\ b[j].players = bg[i].players \ {p}
      BY <1>10, <1>20, <2>1
    <3>2. \A n \in 1..Len(off) : ~online[off[n]] /\ off[n] \in bg[i].players \ {p}
      BY <1>6, <1>8
    <3>3. QED
      BY <1>8, <3>1, <3>2
  <2>2. CASE j # i
    BY <1>1, <1>10, <2>2 DEF OfflineIn
  <2>3. QED
    BY <2>1, <2>2
<1>13. FightIn(b, invitedTo, online, used, bgId, where)
  <2>1. ASSUME NEW j \in Instances PROVE b[j].players \subseteq bg[j].players /\ bg[j].players \subseteq b[j].players \cup {p}
    BY <1>10, <1>20
  <2>2. ASSUME NEW y \in Players, where[y] = "battleground", online[y]
        PROVE  used[y] /\ bgId[y] \in Instances /\ invitedTo[y] = bgId[y] /\ y \in b[bgId[y]].players
    BY <1>1, <1>7, <2>1, <2>2 DEF FightIn
  <2>3. ASSUME NEW j \in Instances, NEW y \in b[j].players PROVE where[y] = "battleground" /\ bgId[y] = j
    BY <1>1, <2>1 DEF FightIn
  <2>4. QED
    BY <2>2, <2>3 DEF FightIn
<1>14. PICK q, told, on, us, id, wh :
        q = queue /\ told = invitedTo /\ on = online /\ us = used /\ id = bgId /\ wh = where
  OBVIOUS
<1>15. /\ QueueOK(q) /\ OneGroupEach(q) /\ OfflineIn(b, on) /\ BattlesIn(b) /\ QueuedIn(q, told, on, us, wh)
       /\ TravelIn(told, on, us, id, wh) /\ FightIn(b, told, on, us, id, wh) /\ SlotsIn(q, on, us, wh)
       /\ CountsIn(q, b, id, wh) /\ PlayersIn(on, us, id, wh)
  BY <1>1, <1>10, <1>12, <1>13, <1>14
<1>16. q = queue' /\ b = bg' /\ told = invitedTo' /\ on = online' /\ us = used' /\ id = bgId' /\ wh = where'
  BY <1>3, <1>11, <1>14
<1>17. freeSlots' \in Seq(Instances) /\ events' \in SUBSET EventType /\ scheduled' \in BOOLEAN
  BY <1>1, <1>3, FreeSlotQueueOK
<1>18. QED
  BY <1>15, <1>16, <1>17, NextIn

\* Time passes.
LEMMA ClockTickKeeps ==
    ASSUME IInv, ClockTick PROVE IInv'
<1>1. /\ QueueOK(queue) /\ OneGroupEach(queue) /\ OfflineIn(bg, online) /\ BattlesIn(bg)
      /\ QueuedIn(queue, invitedTo, online, used, where) /\ TravelIn(invitedTo, online, used, bgId, where)
      /\ FightIn(bg, invitedTo, online, used, bgId, where) /\ SlotsIn(queue, online, used, where)
      /\ CountsIn(queue, bg, bgId, where) /\ PlayersIn(online, used, bgId, where)
      /\ freeSlots \in Seq(Instances) /\ events \in SUBSET EventType /\ scheduled \in BOOLEAN
  BY NowIn
<1>2. PICK q, b, told, on, us, id, wh :
        /\ q = queue' /\ b = bg /\ told = invitedTo /\ on = online /\ us = used /\ id = bgId /\ wh = where
  OBVIOUS
<1>3. /\ QueueOK(q) /\ OneGroupEach(q) /\ InQueue(q) = InQueue(queue)
      /\ \A i : Invitees(q, i) = Invitees(queue, i)
  BY <1>1, <1>2, TickQueue
<1>4. UNCHANGED <<bg, freeSlots, scheduled>> /\ UNCHANGED <<used, invitedTo, bgId, where, online>>
  BY DEF ClockTick, playerVars
<1>5. QueuedIn(q, told, on, us, wh) /\ SlotsIn(q, on, us, wh)
  BY <1>1, <1>2, <1>3 DEF QueuedIn, SlotsIn
<1>6. CountsIn(q, b, id, wh)
  <2>1. \A i \in Instances : ExpectedIn(q, b, i, id, wh) = ExpectedIn(queue, bg, i, bgId, where)
    BY <1>2, <1>3 DEF ExpectedIn
  <2>2. QED
    BY <1>1, <1>2, <2>1 DEF CountsIn
<1>7. events' \in SUBSET EventType
  <2> SUFFICES ASSUME NEW e \in events PROVE [e EXCEPT !.left = @ - 1] \in EventType
    BY DEF ClockTick
  <2>1. e \in EventType /\ e.left > 0
    BY <1>1 DEF ClockTick
  <2>2. e.left - 1 \in 0..InviteWait
    BY <2>1, QueueAssumption DEF EventType
  <2>3. QED
    BY <2>1, <2>2 DEF EventType
<1>8. /\ QueueOK(q) /\ OneGroupEach(q) /\ OfflineIn(b, on) /\ BattlesIn(b) /\ QueuedIn(q, told, on, us, wh)
      /\ TravelIn(told, on, us, id, wh) /\ FightIn(b, told, on, us, id, wh) /\ SlotsIn(q, on, us, wh)
      /\ CountsIn(q, b, id, wh) /\ PlayersIn(on, us, id, wh)
  BY <1>1, <1>2, <1>3, <1>5, <1>6
<1>9. q = queue' /\ b = bg' /\ told = invitedTo' /\ on = online' /\ us = used' /\ id = bgId' /\ wh = where'
  BY <1>2, <1>4
<1>10. freeSlots' \in Seq(Instances) /\ events' \in SUBSET EventType /\ scheduled' \in BOOLEAN
  BY <1>1, <1>4, <1>7
<1>11. QED
  BY <1>8, <1>9, <1>10, NextIn

\* Who joins was in no queue and in no battle.
LEMMA JoinKeeps ==
    ASSUME IInv, NEW members \in SUBSET Players, Join(members) PROVE IInv'
<1>1. /\ QueueOK(queue) /\ OneGroupEach(queue) /\ OfflineIn(bg, online) /\ BattlesIn(bg)
      /\ QueuedIn(queue, invitedTo, online, used, where) /\ TravelIn(invitedTo, online, used, bgId, where)
      /\ FightIn(bg, invitedTo, online, used, bgId, where) /\ SlotsIn(queue, online, used, where)
      /\ CountsIn(queue, bg, bgId, where) /\ PlayersIn(online, used, bgId, where)
      /\ freeSlots \in Seq(Instances) /\ events \in SUBSET EventType /\ scheduled \in BOOLEAN
  BY NowIn
<1>2. PICK q, told, us, premade :
        /\ q = queue' /\ told = invitedTo' /\ us = used'
        /\ premade = (Cardinality(members) > 1 /\ Cardinality(members) >= MinPlayersPerTeam)
  OBVIOUS
<1>3. /\ members # {} /\ \A x, y \in members : Team[x] = Team[y]
      /\ \A x \in members : online[x] /\ ~used[x]
      /\ AddGroup(members, premade)
      /\ us = [x \in Players |-> used[x] \/ x \in members]
      /\ told = [x \in Players |-> IF x \in members THEN NoBattleground ELSE invitedTo[x]]
      /\ scheduled' = TRUE /\ UNCHANGED <<bg, freeSlots, events, bgId, where, online>>
  BY <1>2 DEF Join
<1>4. \A x \in members : x \notin InQueue(queue) /\ where[x] = "world"
  <2> SUFFICES ASSUME NEW x \in members PROVE x \notin InQueue(queue) /\ where[x] = "world"
    OBVIOUS
  <2>1. x \in Players /\ online[x] /\ ~used[x]
    BY <1>3
  <2>2. x \notin InQueue(queue)
    <3>1. x \in InQueue(queue) => \E i \in Instances \cup {NoBattleground} : x \in Invitees(queue, i)
      BY <1>1, QueuedPlayers
    <3>2. QED
      BY <1>1, <2>1, <3>1 DEF QueuedIn
  <2>3. where[x] = "world"
    BY <1>1, <2>1 DEF TravelIn, FightIn, PlayersIn
  <2>4. QED
    BY <2>2, <2>3
<1>5. members \cap InQueue(queue) = {}
  BY <1>4
<1>6. /\ QueueOK(q) /\ OneGroupEach(q) /\ InQueue(q) = InQueue(queue) \cup members
      /\ Invitees(q, NoBattleground) = Invitees(queue, NoBattleground) \cup members
      /\ \A i \in Instances : Invitees(q, i) = Invitees(queue, i)
  <2>1. /\ QueueOK(queue) /\ OneGroupEach(queue) /\ members \in SUBSET Players /\ members # {}
        /\ \A x, y \in members : Team[x] = Team[y]
        /\ members \cap InQueue(queue) = {} /\ AddGroup(members, premade)
    BY <1>1, <1>3, <1>5
  <2>2. /\ QueueOK(queue') /\ OneGroupEach(queue') /\ InQueue(queue') = InQueue(queue) \cup members
        /\ Invitees(queue', NoBattleground) = Invitees(queue, NoBattleground) \cup members
        /\ \A i \in Instances : Invitees(queue', i) = Invitees(queue, i)
    BY ONLY <2>1, JoinQueue
  <2>3. QED
    BY ONLY <1>2, <2>2
<1>7. /\ told \in [Players -> Instances \cup {NoBattleground}] /\ us \in [Players -> BOOLEAN]
  BY <1>1, <1>3 DEF QueuedIn, PlayersIn
<1>8. /\ \A x \in members : told[x] = NoBattleground /\ us[x]
      /\ \A x \in Players \ members : told[x] = invitedTo[x] /\ us[x] = used[x]
  BY <1>1, <1>3 DEF PlayersIn
<1>9. QueuedIn(q, told, online, us, where)
  <2>1. ASSUME NEW i \in Instances \cup {NoBattleground}, NEW x \in Invitees(q, i)
        PROVE  online[x] /\ us[x] /\ where[x] = "world" /\ told[x] = i
    <3>1. CASE x \in members
      <4>1. i = NoBattleground
        <5>1. ASSUME i \in Instances PROVE FALSE
          <6>1. x \in Invitees(queue, i)
            BY <1>6, <5>1
          <6>2. x \in InQueue(queue)
            BY <1>1, <6>1, QueuedPlayers
          <6>3. QED
            BY <1>4, <3>1, <6>2
        <5>2. QED
          BY <5>1
      <4>2. QED
        BY <1>3, <1>4, <1>8, <3>1, <4>1
    <3>2. CASE x \notin members
      <4>1. x \in Invitees(queue, i)
        BY <1>6, <3>2
      <4>2. x \in Players
        BY <1>1, <4>1, InviteesOK
      <4>3. QED
        BY <1>1, <1>8, <3>2, <4>1, <4>2 DEF QueuedIn
    <3>3. QED
      BY <3>1, <3>2
  <2>2. QED
    BY <1>7, <2>1 DEF QueuedIn
<1>10. TravelIn(told, online, us, bgId, where)
  BY <1>1, <1>4, <1>8 DEF TravelIn
<1>11. FightIn(bg, told, online, us, bgId, where)
  <2>1. ASSUME NEW x \in Players, where[x] = "battleground", online[x]
        PROVE  us[x] /\ bgId[x] \in Instances /\ told[x] = bgId[x] /\ x \in bg[bgId[x]].players
    <3>1. x \notin members
      BY <1>4, <2>1
    <3>2. QED
      BY <1>1, <1>8, <2>1, <3>1 DEF FightIn
  <2>2. QED
    BY <1>1, <2>1 DEF FightIn
<1>12. SlotsIn(q, online, us, where)
  BY <1>1, <1>3, <1>6, <1>8 DEF SlotsIn
<1>13. CountsIn(q, bg, bgId, where)
  <2>1. \A i \in Instances : ExpectedIn(q, bg, i, bgId, where) = ExpectedIn(queue, bg, i, bgId, where)
    BY <1>6 DEF ExpectedIn
  <2>2. QED
    BY <1>1, <2>1 DEF CountsIn
<1>14. PlayersIn(online, us, bgId, where)
  BY <1>1, <1>7 DEF PlayersIn
<1>15. PICK b, on, id, wh : b = bg /\ on = online /\ id = bgId /\ wh = where
  OBVIOUS
<1>16. /\ QueueOK(q) /\ OneGroupEach(q) /\ OfflineIn(b, on) /\ BattlesIn(b) /\ QueuedIn(q, told, on, us, wh)
       /\ TravelIn(told, on, us, id, wh) /\ FightIn(b, told, on, us, id, wh) /\ SlotsIn(q, on, us, wh)
       /\ CountsIn(q, b, id, wh) /\ PlayersIn(on, us, id, wh)
  BY <1>1, <1>6, <1>9, <1>10, <1>11, <1>12, <1>13, <1>14, <1>15
<1>17. q = queue' /\ b = bg' /\ told = invitedTo' /\ on = online' /\ us = used' /\ id = bgId' /\ wh = where'
  BY <1>2, <1>3, <1>15
<1>18. freeSlots' \in Seq(Instances) /\ events' \in SUBSET EventType /\ scheduled' \in BOOLEAN
  BY <1>1, <1>3
<1>19. QED
  BY <1>16, <1>17, <1>18, NextIn

\* A player logs out: he is off the queue, and his place in a battle is kept
\* for him.
LEMMA LogoutKeeps ==
    ASSUME IInv, NEW p \in Players, LogoutPlayer(p) PROVE IInv'
<1>1. /\ QueueOK(queue) /\ OneGroupEach(queue) /\ OfflineIn(bg, online) /\ BattlesIn(bg)
      /\ QueuedIn(queue, invitedTo, online, used, where) /\ TravelIn(invitedTo, online, used, bgId, where)
      /\ FightIn(bg, invitedTo, online, used, bgId, where) /\ SlotsIn(queue, online, used, where)
      /\ PlayersIn(online, used, bgId, where)
      /\ freeSlots \in Seq(Instances) /\ events \in SUBSET EventType /\ scheduled \in BOOLEAN
  BY NowIn
<1>2. PICK q, b0, told, us, on, i :
        /\ q = WithoutPlayer(p) /\ b0 = DecreaseInvitedCount(bg, p)
        /\ told = [invitedTo EXCEPT ![p] = NoBattleground] /\ us = [used EXCEPT ![p] = FALSE]
        /\ on = [online EXCEPT ![p] = FALSE] /\ i = bgId[p]
  OBVIOUS
<1>3. /\ q = queue' /\ told = invitedTo' /\ us = used' /\ on = online'
      /\ UNCHANGED <<freeSlots, events, scheduled, bgId, where>>
      /\ online[p] /\ where[p] # "teleport"
  BY <1>2 DEF RemoveQueueId, LogoutPlayer
<1>4. bg' = IF Exists(i) /\ p \in bg[i].players THEN [b0 EXCEPT ![i].offline = Append(@, p)] ELSE b0
  BY <1>2 DEF LogoutPlayer
<1>5. /\ QueueOK(q) /\ OneGroupEach(q) /\ InQueue(q) = InQueue(queue) \ {p}
      /\ \A j : Invitees(q, j) = Invitees(queue, j) \ {p}
      /\ BattlesIn(b0) /\ CountsIn(q, b0, bgId, where)
      /\ \A j \in Instances : b0[j].players = bg[j].players /\ b0[j].offline = bg[j].offline
                              /\ b0[j].status = bg[j].status
  BY <1>2, QuitQueue
<1>6. /\ told \in [Players -> Instances \cup {NoBattleground}] /\ us \in [Players -> BOOLEAN]
      /\ on \in [Players -> BOOLEAN] /\ us[p] = FALSE /\ on[p] = FALSE
      /\ \A x \in Players \ {p} : told[x] = invitedTo[x] /\ us[x] = used[x] /\ on[x] = online[x]
  BY <1>1, <1>2 DEF QueuedIn, PlayersIn
<1>7. OfflineIn(b0, on)
  <2> SUFFICES ASSUME NEW j \in Instances, b0[j].status \in {"join", "progress"}
               PROVE  /\ \A n \in 1..Len(b0[j].offline) :
                             ~on[b0[j].offline[n]] /\ b0[j].offline[n] \in b0[j].players
                      /\ Distinct(b0[j].offline)
    BY DEF OfflineIn
  <2>1. PICK s : s = bg[j].offline
    OBVIOUS
  <2>2. b0[j].offline = s /\ b0[j].players = bg[j].players /\ bg[j].players \in SUBSET Players
    BY <1>1, <1>5, <2>1, BattleTyped
  <2>3. Distinct(s) /\ \A n \in 1..Len(s) : ~online[s[n]] /\ s[n] \in bg[j].players
    BY <1>1, <1>5, <2>1 DEF OfflineIn
  <2>4. \A n \in 1..Len(s) : s[n] # p /\ ~on[s[n]]
    BY <1>3, <1>6, <2>2, <2>3
  <2>5. QED
    BY <2>2, <2>3, <2>4
<1>8. \E b : /\ b = bg' /\ BattlesIn(b) /\ CountsIn(q, b, bgId, where) /\ OfflineIn(b, on)
             /\ \A j \in Instances : b[j].players = bg[j].players
  <2>1. CASE ~(Exists(i) /\ p \in bg[i].players)
    <3>1. b0 = bg'
      BY <1>4, <2>1
    <3>2. QED
      BY <1>5, <1>7, <3>1
  <2>2. CASE Exists(i) /\ p \in bg[i].players
    <3>1. i \in Instances /\ bg[i].status # "none" /\ p \in bg[i].players
      BY <2>2 DEF Exists
    <3>2. PICK s, off : s = bg[i].offline /\ off = Append(s, p)
      OBVIOUS
    <3>3. s \in Seq(Players) /\ b0[i].offline = s /\ b0[i] \in BattlegroundType
      BY <1>1, <1>5, <3>1, <3>2, BattleTyped
    <3>4. /\ off \in Seq(Players) /\ ToSet(off) = ToSet(s) \cup {p}
          /\ Distinct(s) /\ p \notin ToSet(s) => Distinct(off)
      BY <3>2, <3>3, AppendSet
    <3>5. PICK x : x = [b0[i] EXCEPT !.offline = off]
      OBVIOUS
    <3>6. /\ x \in BattlegroundType /\ x.players = b0[i].players /\ x.offline = off
          /\ x.status = b0[i].status /\ x.invited = b0[i].invited
      BY <3>3, <3>4, <3>5 DEF BattlegroundType
    <3>7. PICK b : b = Placed(b0, i, x)
      OBVIOUS
    <3>8. b = bg'
      <4>1. bg' = [b0 EXCEPT ![i].offline = Append(@, p)]
        BY <1>4, <2>2
      <4>2. DOMAIN b0 = Instances \cup {0}
        BY <1>5 DEF BattlesIn
      <4>3. bg' = [b0 EXCEPT ![i] = [b0[i] EXCEPT !.offline = off]]
        BY <3>2, <3>3, <4>1, <4>2
      <4>4. QED
        BY <3>5, <3>7, <4>3 DEF Placed
    <3>9. BattlesIn(b) /\ b[i] = x /\ \A j \in Instances \ {i} : b[j] = b0[j]
      <4>1. BattlesIn(b0) /\ i \in Instances /\ x \in BattlegroundType /\ (x.status = "none" => x = Deleted)
            /\ b = Placed(b0, i, x)
        BY <1>5, <3>1, <3>6, <3>7
      <4>2. QED
        BY ONLY <4>1, PlacedIs
    <3>10. \A j \in Instances : b[j].players = bg[j].players /\ b[j].invited = b0[j].invited
      BY <1>5, <3>6, <3>9
    <3>11. CountsIn(q, b, bgId, where)
      <4>1. \A j \in Instances : ExpectedIn(q, b, j, bgId, where) = ExpectedIn(q, b0, j, bgId, where)
        BY <1>5, <3>10 DEF ExpectedIn
      <4>2. b[0] = b0[0]
        BY <1>5, <3>9 DEF BattlesIn
      <4>3. QED
        BY <1>5, <3>10, <4>1, <4>2 DEF CountsIn
    <3>12. OfflineIn(b, on)
      <4> SUFFICES ASSUME NEW j \in Instances, b[j].status \in {"join", "progress"}
                   PROVE  /\ \A n \in 1..Len(b[j].offline) :
                                 ~on[b[j].offline[n]] /\ b[j].offline[n] \in b[j].players
                          /\ Distinct(b[j].offline)
        BY DEF OfflineIn
      <4>1. CASE j # i
        <5>1. b[j] = b0[j]
          BY <3>9, <4>1
        <5>2. QED
          BY <1>7, <5>1 DEF OfflineIn
      <4>2. CASE j = i
        <5>1. b[j].offline = off /\ b[j].players = bg[i].players /\ b0[i].status \in {"join", "progress"}
          BY <3>6, <3>9, <3>10, <4>2
        <5>2. Distinct(s) /\ \A n \in 1..Len(s) : ~on[s[n]] /\ s[n] \in bg[i].players
          BY <1>5, <1>7, <3>1, <3>3, <5>1 DEF OfflineIn
        <5>3. \A n \in 1..Len(s) : s[n] # p
          <6>1. \A n \in 1..Len(s) : ~online[s[n]]
            BY <1>1, <1>5, <3>1, <3>2, <5>1 DEF OfflineIn
          <6>2. QED
            BY <1>3, <6>1
        <5>4. p \notin ToSet(s)
          BY <3>3, <5>3 DEF ToSet
        <5>5. \A y \in ToSet(s) : ~on[y] /\ y \in bg[i].players
          BY <3>3, <5>2 DEF ToSet
        <5>6. \A y \in ToSet(off) : ~on[y] /\ y \in bg[i].players
          BY <1>6, <3>1, <3>4, <5>5
        <5>7. \A n \in 1..Len(off) : off[n] \in ToSet(off)
          BY <3>4 DEF ToSet
        <5>8. QED
          BY <3>4, <5>1, <5>2, <5>4, <5>6, <5>7
      <4>3. QED
        BY <4>1, <4>2
    <3>13. QED
      BY <3>8, <3>9, <3>10, <3>11, <3>12
  <2>3. QED
    BY <2>1, <2>2
<1>9. PICK b : /\ b = bg' /\ BattlesIn(b) /\ CountsIn(q, b, bgId, where) /\ OfflineIn(b, on)
               /\ \A j \in Instances : b[j].players = bg[j].players
  BY <1>8
<1>10. QueuedIn(q, told, on, us, where)
  <2>1. ASSUME NEW j \in Instances \cup {NoBattleground}, NEW x \in Invitees(q, j)
        PROVE  on[x] /\ us[x] /\ where[x] = "world" /\ told[x] = j
    <3>1. x \in Invitees(queue, j) /\ x # p
      BY <1>5
    <3>2. x \in Players
      BY <1>1, <3>1, InviteesOK
    <3>3. QED
      BY <1>1, <1>6, <3>1, <3>2 DEF QueuedIn
  <2>2. QED
    BY <1>6, <2>1 DEF QueuedIn
<1>11. TravelIn(told, on, us, bgId, where)
  BY <1>1, <1>3, <1>6 DEF TravelIn
<1>12. FightIn(b, told, on, us, bgId, where)
  <2>1. ASSUME NEW x \in Players, where[x] = "battleground", on[x]
        PROVE  us[x] /\ bgId[x] \in Instances /\ told[x] = bgId[x] /\ x \in b[bgId[x]].players
    <3>1. x # p
      BY <1>6, <2>1
    <3>2. us[x] = used[x] /\ told[x] = invitedTo[x] /\ online[x]
      BY <1>6, <2>1, <3>1
    <3>3. QED
      BY <1>1, <1>9, <2>1, <3>2 DEF FightIn
  <2>2. \A j \in Instances : \A x \in b[j].players : where[x] = "battleground" /\ bgId[x] = j
    BY <1>1, <1>9 DEF FightIn
  <2>3. QED
    BY <2>1, <2>2 DEF FightIn
<1>13. SlotsIn(q, on, us, where)
  BY <1>1, <1>5, <1>6 DEF SlotsIn
<1>14. PlayersIn(on, us, bgId, where)
  BY <1>1, <1>6 DEF PlayersIn
<1>15. PICK id, wh : id = bgId /\ wh = where
  OBVIOUS
<1>16. /\ QueueOK(q) /\ OneGroupEach(q) /\ OfflineIn(b, on) /\ BattlesIn(b) /\ QueuedIn(q, told, on, us, wh)
       /\ TravelIn(told, on, us, id, wh) /\ FightIn(b, told, on, us, id, wh) /\ SlotsIn(q, on, us, wh)
       /\ CountsIn(q, b, id, wh) /\ PlayersIn(on, us, id, wh)
  BY <1>5, <1>9, <1>10, <1>11, <1>12, <1>13, <1>14, <1>15
<1>17. q = queue' /\ b = bg' /\ told = invitedTo' /\ on = online' /\ us = used' /\ id = bgId' /\ wh = where'
  BY <1>3, <1>9, <1>15
<1>18. freeSlots' \in Seq(Instances) /\ events' \in SUBSET EventType /\ scheduled' \in BOOLEAN
  BY <1>1, <1>3
<1>19. QED
  BY <1>16, <1>17, <1>18, NextIn

\* Who comes back finds his place kept.
LEMMA LoginBackKeeps ==
    ASSUME IInv, NEW p \in Players, Login(p), where[p] = "battleground",
           Exists(bgId[p]), p \in bg[bgId[p]].players, bg[bgId[p]].status # "leave"
    PROVE  IInv'
<1>1. /\ QueueOK(queue) /\ OneGroupEach(queue) /\ OfflineIn(bg, online) /\ BattlesIn(bg)
      /\ QueuedIn(queue, invitedTo, online, used, where) /\ TravelIn(invitedTo, online, used, bgId, where)
      /\ FightIn(bg, invitedTo, online, used, bgId, where) /\ SlotsIn(queue, online, used, where)
      /\ CountsIn(queue, bg, bgId, where) /\ PlayersIn(online, used, bgId, where)
      /\ freeSlots \in Seq(Instances) /\ events \in SUBSET EventType /\ scheduled \in BOOLEAN
  BY NowIn
<1>2. PICK i : i = bgId[p]
  OBVIOUS
<1>3. PICK told, us, on : /\ told = [invitedTo EXCEPT ![p] = i] /\ us = [used EXCEPT ![p] = TRUE]
                          /\ on = [online EXCEPT ![p] = TRUE]
  OBVIOUS
<1>4. /\ told = invitedTo' /\ us = used' /\ on = online' /\ ~online[p]
      /\ bg' = [bg EXCEPT ![i].offline = Within(@, Players \ {p})]
      /\ UNCHANGED <<queue, freeSlots, events, scheduled, bgId, where>>
  BY <1>2, <1>3 DEF Login
<1>5. i \in Instances /\ p \in bg[i].players /\ bg[i].status \in {"join", "progress"}
  BY <1>1, <1>2, BattleTyped DEF Exists
<1>6. /\ told \in [Players -> Instances \cup {NoBattleground}] /\ us \in [Players -> BOOLEAN]
      /\ on \in [Players -> BOOLEAN] /\ told[p] = i /\ us[p] = TRUE /\ on[p] = TRUE
      /\ \A x \in Players \ {p} : told[x] = invitedTo[x] /\ us[x] = used[x] /\ on[x] = online[x]
  BY <1>1, <1>3, <1>5 DEF QueuedIn, PlayersIn
<1>7. PICK s, off : s = bg[i].offline /\ off = Within(s, Players \ {p})
  OBVIOUS
<1>8. s \in Seq(Players) /\ bg[i] \in BattlegroundType
  BY <1>1, <1>5, <1>7, BattleTyped
<1>9. Distinct(s) /\ \A n \in 1..Len(s) : ~online[s[n]] /\ s[n] \in bg[i].players
  BY <1>1, <1>5, <1>7 DEF OfflineIn
<1>10. off \in Seq(Players) /\ ToSet(off) = ToSet(s) \ {p} /\ Distinct(off)
  <2>1. PICK S : S = Players \ {p}
    OBVIOUS
  <2>2. /\ off \in Seq(Players) /\ ToSet(off) = ToSet(s) \cap S /\ (Distinct(s) => Distinct(off))
    BY <1>7, <1>8, <2>1, WithinOK
  <2>3. ToSet(s) \subseteq Players
    BY <1>8 DEF ToSet
  <2>4. QED
    BY <1>9, <2>1, <2>2, <2>3
<1>11. PICK x, b : x = [bg[i] EXCEPT !.offline = off] /\ b = Placed(bg, i, x)
  OBVIOUS
<1>12. /\ x \in BattlegroundType /\ x.players = bg[i].players /\ x.offline = off
       /\ x.status = bg[i].status /\ x.invited = bg[i].invited
  BY <1>8, <1>10, <1>11 DEF BattlegroundType
<1>13. b = bg'
  <2>1. DOMAIN bg = Instances \cup {0}
    BY <1>1 DEF BattlesIn
  <2>2. bg' = [bg EXCEPT ![i] = [bg[i] EXCEPT !.offline = off]]
    BY <1>4, <1>5, <1>7, <2>1
  <2>3. QED
    BY <1>11, <2>2 DEF Placed
<1>14. BattlesIn(b) /\ b[i] = x /\ \A j \in Instances \ {i} : b[j] = bg[j]
  <2>1. /\ BattlesIn(bg) /\ i \in Instances /\ x \in BattlegroundType /\ (x.status = "none" => x = Deleted)
        /\ b = Placed(bg, i, x)
    BY <1>1, <1>5, <1>11, <1>12
  <2>2. QED
    BY ONLY <2>1, PlacedIs
<1>15. \A j \in Instances : b[j].players = bg[j].players /\ b[j].invited = bg[j].invited
  BY <1>12, <1>14
<1>16. CountsIn(queue, b, bgId, where)
  <2>1. \A j \in Instances : ExpectedIn(queue, b, j, bgId, where) = ExpectedIn(queue, bg, j, bgId, where)
    BY <1>15 DEF ExpectedIn
  <2>2. b[0] = bg[0]
    BY <1>14 DEF BattlesIn
  <2>3. QED
    BY <1>1, <1>15, <2>1, <2>2 DEF CountsIn
<1>17. OfflineIn(b, on)
  <2> SUFFICES ASSUME NEW j \in Instances, b[j].status \in {"join", "progress"}
               PROVE  /\ \A n \in 1..Len(b[j].offline) :
                             ~on[b[j].offline[n]] /\ b[j].offline[n] \in b[j].players
                      /\ Distinct(b[j].offline)
    BY DEF OfflineIn
  <2>1. CASE j # i
    <3>1. PICK r : r = bg[j].offline
      OBVIOUS
    <3>2. b[j] = bg[j] /\ bg[j].players \in SUBSET Players
      BY <1>1, <1>14, <2>1, BattleTyped
    <3>3. Distinct(r) /\ \A n \in 1..Len(r) : ~online[r[n]] /\ r[n] \in bg[j].players
      BY <1>1, <3>1, <3>2 DEF OfflineIn
    <3>4. p \notin bg[j].players
      BY <1>1, <1>2, <2>1 DEF FightIn
    <3>5. \A n \in 1..Len(r) : ~on[r[n]]
      BY <1>6, <3>2, <3>3, <3>4
    <3>6. QED
      BY <3>1, <3>2, <3>3, <3>5
  <2>2. CASE j = i
    <3>1. b[j].offline = off /\ b[j].players = bg[i].players /\ bg[i].players \in SUBSET Players
      BY <1>1, <1>12, <1>14, <1>5, <2>2, BattleTyped
    <3>2. \A y \in ToSet(s) : ~online[y] /\ y \in bg[i].players
      BY <1>8, <1>9 DEF ToSet
    <3>3. \A y \in ToSet(off) : ~on[y] /\ y \in bg[i].players
      BY <1>6, <1>10, <3>1, <3>2
    <3>4. \A n \in 1..Len(off) : off[n] \in ToSet(off)
      BY <1>10 DEF ToSet
    <3>5. QED
      BY <1>10, <3>1, <3>3, <3>4
  <2>3. QED
    BY <2>1, <2>2
<1>18. QueuedIn(queue, told, on, us, where)
  <2>1. ASSUME NEW j \in Instances \cup {NoBattleground}, NEW y \in Invitees(queue, j)
        PROVE  on[y] /\ us[y] /\ where[y] = "world" /\ told[y] = j
    <3>1. y \in Players /\ online[y] /\ used[y] /\ where[y] = "world" /\ invitedTo[y] = j
      BY <1>1, InviteesOK DEF QueuedIn
    <3>2. QED
      BY <1>4, <1>6, <3>1
  <2>2. QED
    BY <1>6, <2>1 DEF QueuedIn
<1>19. TravelIn(told, on, us, bgId, where)
  BY <1>1, <1>6 DEF TravelIn
<1>20. FightIn(b, told, on, us, bgId, where)
  <2>1. ASSUME NEW y \in Players, where[y] = "battleground", on[y]
        PROVE  us[y] /\ bgId[y] \in Instances /\ told[y] = bgId[y] /\ y \in b[bgId[y]].players
    <3>1. CASE y = p
      BY <1>2, <1>5, <1>6, <1>15, <3>1
    <3>2. CASE y # p
      <4>1. us[y] = used[y] /\ told[y] = invitedTo[y] /\ online[y]
        BY <1>6, <2>1, <3>2
      <4>2. QED
        BY <1>1, <1>15, <2>1, <4>1 DEF FightIn
    <3>3. QED
      BY <3>1, <3>2
  <2>2. \A j \in Instances : \A y \in b[j].players : where[y] = "battleground" /\ bgId[y] = j
    BY <1>1, <1>15 DEF FightIn
  <2>3. QED
    BY <2>1, <2>2 DEF FightIn
<1>21. SlotsIn(queue, on, us, where)
  BY <1>1, <1>6 DEF SlotsIn
<1>22. PlayersIn(on, us, bgId, where)
  BY <1>1, <1>6 DEF PlayersIn
<1>23. PICK q, id, wh : q = queue /\ id = bgId /\ wh = where
  OBVIOUS
<1>24. /\ QueueOK(q) /\ OneGroupEach(q) /\ OfflineIn(b, on) /\ BattlesIn(b) /\ QueuedIn(q, told, on, us, wh)
       /\ TravelIn(told, on, us, id, wh) /\ FightIn(b, told, on, us, id, wh) /\ SlotsIn(q, on, us, wh)
       /\ CountsIn(q, b, id, wh) /\ PlayersIn(on, us, id, wh)
  BY <1>1, <1>14, <1>16, <1>17, <1>18, <1>19, <1>20, <1>21, <1>22, <1>23
<1>25. q = queue' /\ b = bg' /\ told = invitedTo' /\ on = online' /\ us = used' /\ id = bgId' /\ wh = where'
  BY <1>4, <1>13, <1>23
<1>26. freeSlots' \in Seq(Instances) /\ events' \in SUBSET EventType /\ scheduled' \in BOOLEAN
  BY <1>1, <1>4
<1>27. QED
  BY <1>24, <1>25, <1>26, NextIn

\* Who comes back to nothing is taken off the battleground, if it still has him.
LEMMA LoginAwayKeeps ==
    ASSUME IInv, NEW p \in Players, Login(p),
           ~(where[p] = "battleground" /\ Exists(bgId[p]) /\ p \in bg[bgId[p]].players
                 /\ bg[bgId[p]].status # "leave")
    PROVE  IInv'
<1>1. /\ QueueOK(queue) /\ OneGroupEach(queue) /\ OfflineIn(bg, online) /\ BattlesIn(bg)
      /\ QueuedIn(queue, invitedTo, online, used, where) /\ TravelIn(invitedTo, online, used, bgId, where)
      /\ FightIn(bg, invitedTo, online, used, bgId, where) /\ SlotsIn(queue, online, used, where)
      /\ CountsIn(queue, bg, bgId, where) /\ PlayersIn(online, used, bgId, where)
      /\ freeSlots \in Seq(Instances) /\ events \in SUBSET EventType /\ scheduled \in BOOLEAN
  BY NowIn
<1>2. PICK i, member : i = bgId[p] /\ member = (Exists(i) /\ p \in bg[i].players)
  OBVIOUS
<1>3. PICK on, id, wh : /\ on = [online EXCEPT ![p] = TRUE] /\ id = [bgId EXCEPT ![p] = NoBattleground]
                        /\ wh = [where EXCEPT ![p] = "world"]
  OBVIOUS
<1>4. /\ on = online' /\ id = bgId' /\ wh = where' /\ ~online[p]
      /\ bg' = IF member THEN [bg EXCEPT ![i].players = @ \ {p}, ![i].invited[Team[p]] = @ - 1] ELSE bg
      /\ UNCHANGED <<queue, freeSlots, events, scheduled, used, invitedTo>>
  BY <1>2, <1>3 DEF Login
<1>5. /\ on \in [Players -> BOOLEAN] /\ id \in [Players -> Instances \cup {NoBattleground}]
      /\ wh \in [Players -> {"world", "teleport", "battleground"}]
      /\ on[p] = TRUE /\ id[p] = NoBattleground /\ wh[p] = "world"
      /\ \A x \in Players \ {p} : on[x] = online[x] /\ id[x] = bgId[x] /\ wh[x] = where[x]
  BY <1>1, <1>3 DEF PlayersIn
<1>6. where[p] # "teleport" /\ ~used[p]
  BY <1>1, <1>4 DEF TravelIn, SlotsIn
<1>7. \A j \in Instances : p \in bg[j].players => member /\ j = i /\ bg[j].status = "leave"
  <2> SUFFICES ASSUME NEW j \in Instances, p \in bg[j].players
               PROVE  member /\ j = i /\ bg[j].status = "leave"
    OBVIOUS
  <2>1. where[p] = "battleground" /\ j = i
    BY <1>1, <1>2 DEF FightIn
  <2>2. bg[j].status # "none"
    BY <1>1, BattleTyped, DeletedIsEmpty
  <2>3. QED
    BY <1>2, <2>1, <2>2 DEF Exists
<1>8. \E b : /\ b = bg' /\ BattlesIn(b) /\ CountsIn(queue, b, bgId, where)
             /\ \A j \in Instances :
                    /\ b[j].players = bg[j].players \ {p}
                    /\ b[j].status \in {"join", "progress"} => b[j] = bg[j]
  <2>1. CASE ~member
    <3>1. bg = bg'
      BY <1>4, <2>1
    <3>2. QED
      BY <1>1, <1>7, <2>1, <3>1
  <2>2. CASE member
    <3>1. i \in Instances /\ p \in bg[i].players /\ bg[i].status = "leave"
      BY <1>2, <1>7, <2>2 DEF Exists
    <3>2. PICK inv, x, b : /\ inv = [bg[i].invited EXCEPT ![Team[p]] = @ - 1]
                           /\ x = [bg[i] EXCEPT !.players = @ \ {p}, !.invited = inv]
                           /\ b = Placed(bg, i, x)
      OBVIOUS
    <3>3. bg[i] \in BattlegroundType /\ bg[i].invited \in [Teams -> Int] /\ Team[p] \in Teams
      BY <1>1, <3>1, BattleTyped, QueueAssumption
    <3>4. x \in BattlegroundType /\ x.players = bg[i].players \ {p} /\ x.status = bg[i].status /\ x.invited = inv
      <4>1. inv \in [Teams -> Int]
        BY <3>2, <3>3
      <4>2. QED
        BY <3>2, <3>3, <4>1 DEF BattlegroundType
    <3>5. /\ BattlesIn(b) /\ CountsIn(queue, b, bgId, where)
          /\ b[i] = x /\ \A j \in Instances \ {i} : b[j] = bg[j]
      <4>1. /\ IInv /\ i \in Instances /\ p \in bg[i].players /\ ~online[p]
            /\ inv = [bg[i].invited EXCEPT ![Team[p]] = @ - 1]
            /\ x \in BattlegroundType /\ x.players = bg[i].players \ {p} /\ x.invited = inv
            /\ x.status = bg[i].status /\ b = Placed(bg, i, x)
        BY <1>4, <3>1, <3>2, <3>4
      <4>2. QED
        BY ONLY <4>1, AwayKeeps
    <3>6. b = bg'
      <4>1. DOMAIN bg = Instances \cup {0}
        BY <1>1 DEF BattlesIn
      <4>2. bg' = [bg EXCEPT ![i] = [bg[i] EXCEPT !.players = @ \ {p}, !.invited = inv]]
        BY <1>4, <2>2, <3>1, <3>2, <3>3, <4>1 DEF BattlegroundType
      <4>3. QED
        BY <3>2, <4>2 DEF Placed
    <3>7. ASSUME NEW j \in Instances
          PROVE  /\ b[j].players = bg[j].players \ {p}
                 /\ b[j].status \in {"join", "progress"} => b[j] = bg[j]
      <4>1. CASE j = i
        BY <3>1, <3>4, <3>5, <4>1
      <4>2. CASE j # i
        BY <1>7, <3>5, <4>2
      <4>3. QED
        BY <4>1, <4>2
    <3>8. QED
      BY <3>5, <3>6, <3>7
  <2>3. QED
    BY <2>1, <2>2
<1>9. PICK b : /\ b = bg' /\ BattlesIn(b) /\ CountsIn(queue, b, bgId, where)
               /\ \A j \in Instances :
                      /\ b[j].players = bg[j].players \ {p}
                      /\ b[j].status \in {"join", "progress"} => b[j] = bg[j]
  BY <1>8
<1>10. OfflineIn(b, on)
  <2> SUFFICES ASSUME NEW j \in Instances, b[j].status \in {"join", "progress"}
               PROVE  /\ \A n \in 1..Len(b[j].offline) :
                             ~on[b[j].offline[n]] /\ b[j].offline[n] \in b[j].players
                      /\ Distinct(b[j].offline)
    BY DEF OfflineIn
  <2>1. PICK r : r = bg[j].offline
    OBVIOUS
  <2>2. b[j] = bg[j] /\ bg[j].players \in SUBSET Players /\ bg[j].players = bg[j].players \ {p}
    BY <1>1, <1>9, BattleTyped
  <2>3. Distinct(r) /\ \A n \in 1..Len(r) : ~online[r[n]] /\ r[n] \in bg[j].players
    BY <1>1, <2>1, <2>2 DEF OfflineIn
  <2>4. \A n \in 1..Len(r) : ~on[r[n]]
    BY <1>5, <2>2, <2>3
  <2>5. QED
    BY <2>1, <2>2, <2>3, <2>4
<1>11. QueuedIn(queue, invitedTo, on, used, wh)
  <2>1. ASSUME NEW j \in Instances \cup {NoBattleground}, NEW y \in Invitees(queue, j)
        PROVE  on[y] /\ used[y] /\ wh[y] = "world" /\ invitedTo[y] = j
    <3>1. y \in Players /\ online[y] /\ used[y] /\ where[y] = "world" /\ invitedTo[y] = j
      BY <1>1, InviteesOK DEF QueuedIn
    <3>2. QED
      BY <1>4, <1>5, <3>1
  <2>2. QED
    BY <1>1, <2>1 DEF QueuedIn
<1>12. TravelIn(invitedTo, on, used, id, wh)
  BY <1>1, <1>5 DEF TravelIn
<1>13. FightIn(b, invitedTo, on, used, id, wh)
  <2>1. ASSUME NEW y \in Players, wh[y] = "battleground", on[y]
        PROVE  used[y] /\ id[y] \in Instances /\ invitedTo[y] = id[y] /\ y \in b[id[y]].players
    <3>1. y # p
      BY <1>5, <2>1
    <3>2. id[y] = bgId[y] /\ where[y] = "battleground" /\ online[y]
      BY <1>5, <2>1, <3>1
    <3>3. used[y] /\ bgId[y] \in Instances /\ invitedTo[y] = bgId[y] /\ y \in bg[bgId[y]].players
      BY <1>1, <3>2 DEF FightIn
    <3>4. QED
      BY <1>9, <3>1, <3>2, <3>3
  <2>2. ASSUME NEW j \in Instances, NEW y \in b[j].players PROVE wh[y] = "battleground" /\ id[y] = j
    <3>1. y \in bg[j].players /\ y # p /\ y \in Players
      BY <1>1, <1>9, BattleTyped
    <3>2. where[y] = "battleground" /\ bgId[y] = j
      BY <1>1, <3>1 DEF FightIn
    <3>3. QED
      BY <1>5, <3>1, <3>2
  <2>3. QED
    BY <2>1, <2>2 DEF FightIn
<1>14. SlotsIn(queue, on, used, wh)
  BY <1>1, <1>5, <1>6 DEF SlotsIn
<1>15. CountsIn(queue, b, id, wh)
  <2>1. ASSUME NEW j \in Instances
        PROVE  ExpectedIn(queue, b, j, id, wh) = ExpectedIn(queue, b, j, bgId, where)
    <3>1. {y \in Players : wh[y] = "teleport" /\ id[y] = j} = {y \in Players : where[y] = "teleport" /\ bgId[y] = j}
      BY <1>5, <1>6
    <3>2. QED
      BY <3>1 DEF ExpectedIn
  <2>2. QED
    BY <1>9, <2>1 DEF CountsIn
<1>16. PlayersIn(on, used, id, wh)
  BY <1>1, <1>5 DEF PlayersIn
<1>17. PICK q, told, us : q = queue /\ told = invitedTo /\ us = used
  OBVIOUS
<1>18. /\ QueueOK(q) /\ OneGroupEach(q) /\ OfflineIn(b, on) /\ BattlesIn(b) /\ QueuedIn(q, told, on, us, wh)
       /\ TravelIn(told, on, us, id, wh) /\ FightIn(b, told, on, us, id, wh) /\ SlotsIn(q, on, us, wh)
       /\ CountsIn(q, b, id, wh) /\ PlayersIn(on, us, id, wh)
  BY <1>1, <1>9, <1>10, <1>11, <1>12, <1>13, <1>14, <1>15, <1>16, <1>17
<1>19. q = queue' /\ b = bg' /\ told = invitedTo' /\ on = online' /\ us = used' /\ id = bgId' /\ wh = where'
  BY <1>4, <1>9, <1>17
<1>20. freeSlots' \in Seq(Instances) /\ events' \in SUBSET EventType /\ scheduled' \in BOOLEAN
  BY <1>1, <1>4
<1>21. QED
  BY <1>18, <1>19, <1>20, NextIn

\* A player logs in.
LEMMA LoginKeeps ==
    ASSUME IInv, NEW p \in Players, Login(p) PROVE IInv'
<1>1. CASE where[p] = "battleground" /\ Exists(bgId[p]) /\ p \in bg[bgId[p]].players
           /\ bg[bgId[p]].status # "leave"
  BY <1>1, LoginBackKeeps
<1>2. CASE ~(where[p] = "battleground" /\ Exists(bgId[p]) /\ p \in bg[bgId[p]].players
             /\ bg[bgId[p]].status # "leave")
  BY <1>2, LoginAwayKeeps
<1>3. QED
  BY <1>1, <1>2

------------------------------------------------------------------------------
(* Every state is consistent.                                                  *)

LEMMA InitOK == Init => IInv
<1> SUFFICES ASSUME Init PROVE IInv
  OBVIOUS
<1>1. PICK m \in Capacities : bg = [i \in Instances \cup {0} |-> IF i = 0 THEN [max |-> m] ELSE Deleted]
  BY DEF Init
<1>2. /\ bg[0] = [max |-> m] /\ \A i \in Instances : bg[i] = Deleted
      /\ bg \in [Instances \cup {0} -> BattlegroundType \cup [max : Capacities]]
  BY <1>1, QueueAssumption, DeletedIsEmpty DEF NoBattleground
<1>3. /\ queue = [k \in Kinds |-> [t \in Teams |-> <<>>]]
      /\ freeSlots = <<>> /\ events = {} /\ scheduled = FALSE
      /\ used = [p \in Players |-> FALSE] /\ online = [p \in Players |-> TRUE]
      /\ invitedTo = [p \in Players |-> NoBattleground] /\ bgId = [p \in Players |-> NoBattleground]
      /\ where = [p \in Players |-> "world"]
  BY DEF Init
<1>4. GroupsIn(queue) = {}
  BY <1>3 DEF GroupsIn, ToSet
<1>5. \A i : Invitees(queue, i) = {}
  BY <1>4 DEF Invitees, Members
<1>6. QueueOK(queue) /\ OneGroupEach(queue)
  <2>1. queue \in [Kinds -> [Teams -> Seq(GroupType)]]
    BY <1>3
  <2>2. \A k \in Kinds, t \in Teams : ToSet(queue[k][t]) = {}
    BY <1>3 DEF ToSet
  <2>3. QED
    BY <1>4, <2>1, <2>2 DEF QueueOK, OneGroupEach
<1>7. BattlegroundsOK(bg)
  <2>1. OfflineOK(bg)
    BY <1>2, DeletedIsEmpty DEF OfflineOK
  <2>2. bg[0] \in [max : Capacities]
    BY <1>1, <1>2
  <2>3. QED
    BY <1>2, <2>1, <2>2, DeletedIsEmpty DEF BattlegroundsOK
<1>8. QueuedOK(queue, invitedTo) /\ SlotsOK(queue)
  BY <1>3, <1>5 DEF QueuedOK, SlotsOK
<1>9. BusyOK(bg, invitedTo)
  BY <1>2, <1>3, DeletedIsEmpty DEF BusyOK
<1>10. CountsOK(queue, bg)
  <2>1. ASSUME NEW i \in Instances, NEW t \in Teams
        PROVE  /\ bg[i].invited[t] = Cardinality(OfTeam(Expected(queue, bg, i), t))
               /\ bg[i].invited[t] <= bg[0].max
    <3>1. bg[i].invited[t] = 0 /\ bg[i].players = {}
      BY <1>2, DeletedIsEmpty
    <3>2. OfTeam(Expected(queue, bg, i), t) = {}
      BY <1>3, <1>5, <3>1 DEF Expected, OfTeam
    <3>3. bg[0].max \in Nat
      BY <1>7, CapacityIsNat
    <3>4. QED
      BY <3>1, <3>2, <3>3, FS_EmptySet
  <2>2. QED
    BY <2>1 DEF CountsOK
<1>11. PlayersOK
  BY <1>3 DEF PlayersOK
<1>12. freeSlots \in Seq(Instances) /\ events \in SUBSET EventType /\ scheduled \in BOOLEAN
  <2>1. freeSlots = <<>> /\ events = {} /\ scheduled = FALSE
    BY <1>3
  <2>2. <<>> \in Seq(Instances)
    OBVIOUS
  <2>3. freeSlots \in Seq(Instances) /\ events \in SUBSET EventType
    BY <2>1, <2>2
  <2>4. scheduled \in BOOLEAN
    BY <2>1
  <2>5. QED
    BY <2>3, <2>4
<1>13. QED
  BY <1>6, <1>7, <1>8, <1>9, <1>10, <1>11, <1>12 DEF IInv, Consistent

\* Every step keeps the invariant.
LEMMA StepOK == IInv /\ [Next]_vars => IInv'
<1> SUFFICES ASSUME IInv, [Next]_vars PROVE IInv'
  OBVIOUS
<1>1. CASE UNCHANGED vars
  <2>1. UNCHANGED <<queue, bg, invitedTo, online, used, bgId, where>> /\ UNCHANGED <<freeSlots, events, scheduled>>
    BY <1>1 DEF vars, playerVars
  <2>2. freeSlots' \in Seq(Instances) /\ events' \in SUBSET EventType /\ scheduled' \in BOOLEAN
    BY <2>1, NowIn
  <2>3. QED
    BY <2>1, <2>2, StillKeeps
<1>2. ASSUME NEW members \in SUBSET Players, Join(members) PROVE IInv'
  BY <1>2, JoinKeeps
<1>3. ASSUME NEW p \in Players, EnterBattle(p) PROVE IInv'
  BY <1>3, EnterBattleKeeps
<1>4. ASSUME NEW p \in Players, LeaveQueue(p) PROVE IInv'
  BY <1>4, LeaveQueueKeeps
<1>5. ASSUME NEW p \in Players, WorldportAck(p) PROVE IInv'
  BY <1>5, WorldportKeeps
<1>6. ASSUME NEW p \in Players, LeaveBattleground(p) PROVE IInv'
  BY <1>6, LeaveBattlegroundKeeps
<1>7. ASSUME NEW p \in Players, LogoutPlayer(p) PROVE IInv'
  BY <1>7, LogoutKeeps
<1>8. ASSUME NEW p \in Players, Login(p) PROVE IInv'
  BY <1>8, LoginKeeps
<1>9. ASSUME NEW i \in Instances, DeleteBattleground(i) PROVE IInv'
  BY <1>9, DeleteKeeps
<1>10. ASSUME NEW i \in Instances, StartFight(i) PROVE IInv'
  BY <1>10, StartFightKeeps
<1>11. ASSUME NEW i \in Instances, ProcessOfflineQueue(i) PROVE IInv'
  BY <1>11, ProcessOfflineKeeps
<1>12. ASSUME NEW i \in Instances, EndBattleground(i) PROVE IInv'
  BY <1>12, EndBattlegroundKeeps
<1>13. ASSUME NEW i \in Instances, ProcessLeave(i) PROVE IInv'
  BY <1>13, ProcessLeaveKeeps
<1>14. CASE BattlegroundQueueUpdate
  BY <1>14, UpdateKeeps
<1>15. CASE ClockTick
  BY <1>15, ClockTickKeeps
<1>16. ASSUME NEW e \in events, RemoveEvent(e) PROVE IInv'
  BY <1>16, RemoveEventKeeps
<1>17. QED
  BY <1>1, <1>2, <1>3, <1>4, <1>5, <1>6, <1>7, <1>8, <1>9, <1>10, <1>11, <1>12, <1>13, <1>14,
     <1>15, <1>16 DEF Next

\* IInv is an invariant: the queue, the battlegrounds and what each player
\* knows stay consistent through every interleaving of invitations, answers,
\* timeouts, battles that end, logouts and logins.
THEOREM QueueIsConsistent == Spec => []IInv
<1>1. Init => IInv
  BY InitOK
<1>2. IInv /\ [Next]_vars => IInv'
  BY StepOK
<1>3. QED
  BY <1>1, <1>2, PTL DEF Spec

\* Whoever is invited to a battleground, travels to it or is in it keeps it
\* from being deleted.
LEMMA ExpectedExists ==
    ASSUME IInv, NEW i \in Instances, NEW p \in Players, p \in ExpectedIn(queue, bg, i, bgId, where)
    PROVE  Exists(i)
<1> SUFFICES ASSUME bg[i].status = "none" PROVE FALSE
  BY DEF Exists
<1>1. QueueOK(queue) /\ BattlesIn(bg) /\ CountsIn(queue, bg, bgId, where)
  BY NowIn
<1>2. bg[i] = Deleted
  BY <1>1, BattleTyped
<1>3. PICK E \in SUBSET Players : E = ExpectedIn(queue, bg, i, bgId, where)
  BY <1>1, ExpectedInOK
<1>4. PICK t \in Teams : t = Team[p]
  BY QueueAssumption
<1>5. bg[i].invited[t] = 0
  BY <1>2, DeletedIsEmpty
<1>6. Cardinality(OfTeam(E, t)) = 0 /\ IsFiniteSet(OfTeam(E, t))
  BY <1>1, <1>3, <1>5, TeamCounts DEF CountsIn
<1>7. p \in OfTeam(E, t)
  BY <1>3, <1>4 DEF OfTeam
<1>8. QED
  BY <1>6, <1>7, FS_EmptySet

\* The counts of the invariant are those of the property.
LEMMA CountIsExact == ASSUME IInv PROVE InvitedCountIsExact
<1>1. /\ QueueOK(queue) /\ BattlesIn(bg) /\ CountsIn(queue, bg, bgId, where) /\ PlayersIn(online, used, bgId, where)
      /\ freeSlots \in Seq(Instances) /\ scheduled \in BOOLEAN
  BY NowIn
<1>2. TypeOK
  <2>1. ASSUME NEW k \in Kinds, NEW t \in Teams, NEW g \in ToSet(queue[k][t])
        PROVE  /\ g.players # {} /\ \A p \in g.players : Team[p] = t
               /\ g.bg \in Instances \cup {NoBattleground} /\ g.left \in 0..InviteWait
    BY <1>1, QueueRows DEF GroupType
  <2>2. \A i \in Instances : bg[i].status \in {"none", "join", "progress", "leave"}
    BY <1>1, BattleTyped
  <2>3. ToSet(freeSlots) \subseteq Instances
    BY <1>1 DEF ToSet
  <2>4. \A p \in Players : where[p] \in {"world", "teleport", "battleground"}
    BY <1>1 DEF PlayersIn
  <2>5. QED
    BY <1>1, <2>1, <2>2, <2>3, <2>4 DEF TypeOK
<1>3. Groups = GroupsIn(queue)
  BY DEF Groups, GroupsIn
<1>4. \A i \in Instances : UNION {g.players : g \in {g \in Groups : g.bg = i}} = Invitees(queue, i)
  BY <1>3 DEF Invitees, Members
<1>5. ASSUME NEW i \in Instances
      PROVE  LET expected == (UNION {g.players : g \in {g \in Groups : g.bg = i}})
                             \cup {p \in Players : where[p] = "teleport" /\ bgId[p] = i}
                             \cup bg[i].players
             IN \A t \in Teams :
                    /\ bg[i].invited[t] = Cardinality({p \in expected : Team[p] = t})
                    /\ bg[i].invited[t] <= MaxPlayersPerTeam
  <2> DEFINE expected == (UNION {g.players : g \in {g \in Groups : g.bg = i}})
                         \cup {p \in Players : where[p] = "teleport" /\ bgId[p] = i}
                         \cup bg[i].players
  <2>1. expected = ExpectedIn(queue, bg, i, bgId, where)
    BY <1>4 DEF ExpectedIn
  <2> HIDE DEF expected
  <2>2. \A t \in Teams : /\ bg[i].invited[t] = Cardinality({p \in expected : Team[p] = t})
                         /\ bg[i].invited[t] <= MaxPlayersPerTeam
    BY <1>1, <2>1 DEF CountsIn, OfTeam, MaxPlayersPerTeam
  <2>3. QED
    BY <2>2 DEF expected
<1>6. QED
  BY <1>2, <1>5, Zenon DEF InvitedCountIsExact

\* And so are the places and the slots.
LEMMA BattlegroundAwaits == ASSUME IInv PROVE BattlegroundAwaitsItsPlayers
<1>1. /\ QueueOK(queue) /\ OneGroupEach(queue) /\ BattlesIn(bg)
      /\ QueuedIn(queue, invitedTo, online, used, where) /\ TravelIn(invitedTo, online, used, bgId, where)
      /\ FightIn(bg, invitedTo, online, used, bgId, where) /\ SlotsIn(queue, online, used, where)
      /\ PlayersIn(online, used, bgId, where)
  BY NowIn
<1> SUFFICES ASSUME NEW p \in Players
             PROVE  /\ Invited(p) => Exists(GroupOf(p).bg)
                    /\ where[p] = "teleport" \/ (where[p] = "battleground" /\ online[p])
                           => Exists(bgId[p]) /\ invitedTo[p] = bgId[p]
                    /\ used[p] = (online[p] /\ (Queued(p) \/ where[p] # "world"))
  BY DEF BattlegroundAwaitsItsPlayers
<1>2. Invited(p) => Exists(GroupOf(p).bg)
  <2> SUFFICES ASSUME Invited(p) PROVE Exists(GroupOf(p).bg)
    OBVIOUS
  <2>1. PICK i \in Instances : p \in Invitees(queue, i)
    BY <1>1, QueuedPlayers
  <2>2. GroupOf(p).bg = i
    BY <1>1, <2>1, QueuedPlayers
  <2>3. p \in ExpectedIn(queue, bg, i, bgId, where)
    BY <2>1 DEF ExpectedIn
  <2>4. QED
    BY <2>2, <2>3, ExpectedExists
<1>3. where[p] = "teleport" \/ (where[p] = "battleground" /\ online[p])
          => Exists(bgId[p]) /\ invitedTo[p] = bgId[p]
  <2> SUFFICES ASSUME where[p] = "teleport" \/ (where[p] = "battleground" /\ online[p])
               PROVE  Exists(bgId[p]) /\ invitedTo[p] = bgId[p]
    OBVIOUS
  <2>1. bgId[p] \in Instances /\ invitedTo[p] = bgId[p]
    BY <1>1 DEF TravelIn, FightIn
  <2>2. p \in ExpectedIn(queue, bg, bgId[p], bgId, where)
    BY <1>1 DEF ExpectedIn, FightIn
  <2>3. QED
    BY <2>1, <2>2, ExpectedExists
<1>4. used[p] <=> (online[p] /\ (Queued(p) \/ where[p] # "world"))
  <2>1. Queued(p) <=> p \in InQueue(queue)
    BY <1>1, QueuedPlayers
  <2>2. used[p] => online[p] /\ (Queued(p) \/ where[p] # "world")
    BY <1>1, <2>1 DEF SlotsIn
  <2>3. ASSUME online[p], Queued(p) PROVE used[p]
    <3>1. PICK i \in Instances \cup {NoBattleground} : p \in Invitees(queue, i)
      BY <1>1, <2>3, QueuedPlayers
    <3>2. QED
      BY <1>1, <3>1 DEF QueuedIn
  <2>4. ASSUME online[p], where[p] # "world" PROVE used[p]
    BY <1>1, <2>4 DEF TravelIn, FightIn, PlayersIn
  <2>5. QED
    BY <2>2, <2>3, <2>4
<1>5. used[p] \in BOOLEAN
  BY <1>1 DEF PlayersIn
<1>6. used[p] = (online[p] /\ (Queued(p) \/ where[p] # "world"))
  BY <1>4, <1>5
<1>7. QED
  BY <1>2, <1>3, <1>6

\* m_InvitedAlliance and m_InvitedHorde count exactly the players who have a
\* place, and no more of a team than MaxPlayersPerTeam.
THEOREM InvitedCountsAreExact == Spec => []InvitedCountIsExact
<1>1. IInv => InvitedCountIsExact
  BY CountIsExact
<1>2. QED
  BY <1>1, QueueIsConsistent, PTL

\* No battleground is deleted under a player who is invited to it, on his way
\* or inside, and a slot of a player always has its reason.
THEOREM PlayersAreAwaited == Spec => []BattlegroundAwaitsItsPlayers
<1>1. IInv => BattlegroundAwaitsItsPlayers
  BY BattlegroundAwaits
<1>2. QED
  BY <1>1, QueueIsConsistent, PTL

\* The faithful part of BGQueueRemoveEvent::Execute: who is invited with time
\* left is not the one the event removes.
LEMMA RemoveEventSpares ==
    ASSUME IInv, NEW e \in events, RemoveEvent(e), NEW p \in Players, Invited(p), GroupOf(p).left > 0
    PROVE  Invited(p)'
<1>1. QueueOK(queue) /\ OneGroupEach(queue) /\ events \in SUBSET EventType
  BY NowIn
<1>2. PICK f : f = e.player
  OBVIOUS
<1>3. f \in Players
  BY <1>1, <1>2 DEF EventType
<1>4. PICK i \in Instances : p \in Invitees(queue, i)
  BY <1>1, QueuedPlayers
<1>5. CASE online[f] /\ used[f] /\ IsPlayerInvited(f, e.bg, e.left)
  <2>1. GroupOf(f).left = 0
    BY <1>5 DEF IsPlayerInvited, RemoveEvent
  <2>2. p # f
    BY <2>1
  <2>3. PICK q : q = queue' /\ q = WithoutPlayer(f)
    BY <1>2, <1>5 DEF RemoveEvent
  <2>4. QueueOK(q) /\ OneGroupEach(q) /\ \A j : Invitees(q, j) = Invitees(queue, j) \ {f}
    BY <1>1, <1>3, <2>3, WithoutQueue
  <2>5. p \in Invitees(q, i)
    BY <1>4, <2>2, <2>4
  <2>6. PICK g : g = CHOOSE h \in GroupsIn(q) : p \in h.players
    OBVIOUS
  <2>7. (\E h \in GroupsIn(q) : p \in h.players) /\ g.bg = i
    BY <2>4, <2>5, <2>6, GroupOfPlayer
  <2>8. Groups' = GroupsIn(q)
    BY <2>3 DEF Groups, GroupsIn, ToSet
  <2>9. Queued(p)' /\ GroupOf(p)' = g
    BY <2>6, <2>7, <2>8 DEF Queued, GroupOf
  <2>10. i # NoBattleground
    BY QueueAssumption
  <2>11. QED
    BY <2>7, <2>9, <2>10 DEF Invited
<1>6. CASE ~(online[f] /\ used[f] /\ IsPlayerInvited(f, e.bg, e.left))
  <2>1. queue' = queue
    BY <1>2, <1>6 DEF RemoveEvent
  <2>2. Groups' = Groups
    BY <2>1 DEF Groups, ToSet
  <2>3. QED
    BY <2>2 DEF Invited, Queued, GroupOf
<1>7. QED
  BY <1>5, <1>6

\* An event that fires finds nobody whose invitation still has time left, be
\* it a later one to the same battleground: the comparison of the times in
\* BattlegroundQueue::IsPlayerInvited is what makes it so.
THEOREM InvitationsLast == Spec => NoInvitationIsCutShort
<1> DEFINE Spared == \A e \in events \ events' : e.left = 0 =>
                         \A p \in Players : (Invited(p) /\ GroupOf(p).left > 0) => Invited(p)'
<1>1. IInv /\ [Next]_vars => Spared
  <2> SUFFICES ASSUME IInv, [Next]_vars, NEW e \in events \ events', e.left = 0,
                      NEW p \in Players, Invited(p), GroupOf(p).left > 0
               PROVE  Invited(p)'
    OBVIOUS
  <2>1. CASE events \subseteq events'
    BY <2>1
  <2>2. CASE BattlegroundQueueUpdate
    BY <2>2, UpdateKeeps
  <2>3. CASE ClockTick
    BY <2>3 DEF ClockTick
  <2>4. ASSUME NEW f \in events, RemoveEvent(f) PROVE Invited(p)'
    BY <2>4, RemoveEventSpares
  <2>5. \/ UNCHANGED events \/ BattlegroundQueueUpdate \/ ClockTick \/ \E f \in events : RemoveEvent(f)
    BY DEF Next, vars, Join, EnterBattle, LeaveQueue, WorldportAck, LeaveBattleground, LogoutPlayer, Login,
           DeleteBattleground, StartFight, ProcessOfflineQueue, EndBattleground, ProcessLeave,
           RemovePlayersAtLeave
  <2>6. QED
    BY <2>1, <2>2, <2>3, <2>4, <2>5
<1>2. IInv /\ [Next]_vars => [Spared]_vars
  BY <1>1
<1>3. QED
  BY <1>2, QueueIsConsistent, PTL DEF Spec, NoInvitationIsCutShort
=============================================================================
