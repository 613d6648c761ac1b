------------------------------ MODULE MailProofs -------------------------------
(***************************************************************************)
(* Mails in memory and database, the items in them, for all amounts of     *)
(* money, and the money in them, where it fits in the columns for it; then *)
(* the auction house on top of them, its items, its money and what it      *)
(* mails: for all finite sets of players, mails and items.                 *)
(***************************************************************************)
EXTENDS AuctionHouse, FiniteSetTheorems, SequenceTheorems, WellFoundedInduction, TLAPS

\* Without the auction house every mail is between players.
Letters ==
    [type : {"normal"}, sender : Players, receiver : Players, money : Int, cod : Int,
     items : SUBSET Items, checked : {"copied", "cod payment", "returned"}]

\* What the database keeps of a mail.
Kept(mail) == [mail EXCEPT !.money = @ % UINT32]

\* Rows r and caches b.
RowsOK(r) ==
    /\ r \in [MailIds -> Letters \cup {NoMail}]
    /\ \A id \in MailIds : r[id] # NoMail => r[id].money \in 0..(UINT32 - 1)
CachesOK(b) == b \in [Players -> [MailIds -> Letters \cup {NoMail}]]

\* Memory and database agree, but for the width of an amount: a cached mail is
\* one the database has for that player.
Faithful(r, b) ==
    \A p \in Players, id \in MailIds : b[p][id] # NoMail =>
        loaded[p] /\ b[p][id].receiver = p /\ r[id] = Kept(b[p][id])

MailsOK(r, b) == RowsOK(r) /\ CachesOK(b) /\ Faithful(r, b)

PlayersOK ==
    /\ stored \in [Players -> SUBSET Items] /\ bag \in [Players -> SUBSET Items]
    /\ money \in [Players -> Int] /\ gold \in [Players -> Int]
    /\ online \in [Players -> BOOLEAN] /\ loaded \in [Players -> BOOLEAN]

\* Whoever has items in his bags has them saved.
BagsAreSaved ==
    /\ \A p \in Players : loaded[p] => online[p]
    /\ \A p \in Players : online[p] => bag[p] = stored[p]

\* The items in a mail of the database.
InMail(id) == IF row[id] = NoMail THEN {} ELSE row[id].items

Apart ==
    /\ \A p, q \in Players : p # q => stored[p] \cap stored[q] = {}
    /\ \A p \in Players, id \in MailIds : stored[p] \cap InMail(id) = {}
    /\ \A id, k \in MailIds : id # k => InMail(id) \cap InMail(k) = {}

IInv == MailsOK(row, box) /\ PlayersOK /\ BagsAreSaved /\ Apart

------------------------------------------------------------------------------
(* Sums over finite sets.  The community modules fold by a recursive function *)
(* on sets; its equation is derived from their definition, and what follows   *)
(* is proved from minimal counterexamples.                                    *)

Some(S) == CHOOSE x \in S : TRUE
Summer(f, S, g) ==
    g = [T \in SUBSET S |-> IF T = {} THEN 0 ELSE f[Some(T)] + g[T \ {Some(T)}]]

\* Induction over finite sets: a bad one has a bad subset that is minimal.
LEMMA Least ==
    ASSUME NEW S, IsFiniteSet(S), NEW B, S \in B
    PROVE  \E T \in B \cap SUBSET S : \A U \in SUBSET T : U # T => U \notin B
<1>1. IsWellFoundedOn(StrictSubsetOrdering(S), FiniteSubsetsOf(S))
  BY FS_StrictSubsetOrderingWellFounded
<1>2. FiniteSubsetsOf(S) = SUBSET S
  BY FS_FiniteSubsetsOfFinite
<1> DEFINE C == B \cap SUBSET S
<1>0. C # {} /\ C \subseteq SUBSET S
  OBVIOUS
<1> HIDE DEF C
<1>3. \E T \in C : \A U \in C : ~(<<U, T>> \in StrictSubsetOrdering(S))
  BY <1>0, <1>1, <1>2, WFMin
<1>4. QED
  BY <1>3 DEF StrictSubsetOrdering, C

LEMMA SumUnfolds ==
    ASSUME NEW f, NEW S
    PROVE  SumFunctionOnSet(f, S) = (CHOOSE g : Summer(f, S, g))[S]
  BY DEF SumFunctionOnSet, FoldFunctionOnSet, MapThenFoldSet, Summer, Some

LEMMA SomeIn == ASSUME NEW T, T # {} PROVE Some(T) \in T
  BY DEF Some

\* What a summer says of each subset.
LEMMA SummerAt ==
    ASSUME NEW f, NEW S, NEW g, Summer(f, S, g), NEW T \in SUBSET S
    PROVE  /\ T = {} => g[T] = 0
           /\ T # {} => g[T] = f[Some(T)] + g[T \ {Some(T)}]
  BY DEF Summer

\* Two summers agree on the subsets they share.
LEMMA SummersAgree ==
    ASSUME NEW f, NEW S, IsFiniteSet(S), NEW g, Summer(f, S, g),
           NEW R \in SUBSET S, NEW h, Summer(f, R, h)
    PROVE  \A T \in SUBSET R : g[T] = h[T]
<1> DEFINE B == {T \in SUBSET R : g[T] # h[T]}
<1> SUFFICES ASSUME NEW Q \in B PROVE FALSE
  OBVIOUS
<1>1. Q \in B /\ Q \in SUBSET R /\ IsFiniteSet(Q)
  BY FS_Subset
<1> HIDE DEF B
<1>3. PICK T \in B \cap SUBSET Q : \A U \in SUBSET T : U # T => U \notin B
  BY <1>1, Least
<1> USE DEF B
<1>4. T \in SUBSET R /\ T \in SUBSET S /\ g[T] # h[T]
  OBVIOUS
<1>5. T # {} 
  BY <1>4, SummerAt
<1>6. Some(T) \in T
  BY <1>5, SomeIn
<1>7. g[T \ {Some(T)}] = h[T \ {Some(T)}]
  BY <1>3, <1>4, <1>6
<1>8. g[T] = f[Some(T)] + g[T \ {Some(T)}]
  BY <1>4, <1>5, SummerAt
<1>9. h[T] = f[Some(T)] + h[T \ {Some(T)}]
  BY <1>4, <1>5, SummerAt
<1>10. QED
  BY <1>4, <1>7, <1>8, <1>9

\* There is a summer for each finite set.
LEMMA SummerExists ==
    ASSUME NEW f, NEW S, IsFiniteSet(S)
    PROVE  \E g : Summer(f, S, g)
<1> DEFINE B == {T \in SUBSET S : ~ \E g : Summer(f, T, g)}
<1>1. SUFFICES ASSUME S \in B PROVE FALSE
  OBVIOUS
<1> HIDE DEF B
<1>2. PICK T \in B \cap SUBSET S : \A U \in SUBSET T : U # T => U \notin B
  BY <1>1, Least
<1> USE DEF B
<1>3. T \in SUBSET S /\ ~ \E g : Summer(f, T, g)
  OBVIOUS
<1> DEFINE V(U) == (CHOOSE g : Summer(f, U, g))[U]
           c == Some(T)
           h == [U \in SUBSET T |->
                   IF U = T THEN (IF T = {} THEN 0 ELSE f[c] + V(T \ {c})) ELSE V(U)]
<1> HIDE DEF B
<1>4. ASSUME NEW U \in SUBSET T, U # T
      PROVE  Summer(f, U, CHOOSE g : Summer(f, U, g))
  <2>1. U \in SUBSET S /\ U \notin B
    BY <1>2, <1>3, <1>4
  <2>2. \E g : Summer(f, U, g)
    BY <2>1 DEF B
  <2>3. QED
    BY <2>2
<1>5. ASSUME NEW U \in SUBSET T, U # T, U # {}
      PROVE  V(U) = f[Some(U)] + V(U \ {Some(U)})
  <2> DEFINE W == U \ {Some(U)}
             gu == CHOOSE g : Summer(f, U, g)
             gw == CHOOSE g : Summer(f, W, g)
  <2>1. W \in SUBSET T /\ W # T /\ W \in SUBSET U /\ U \in SUBSET U /\ W \in SUBSET W
    BY <1>5, SomeIn
  <2>2. Summer(f, U, gu) /\ Summer(f, W, gw)
    BY <1>4, <1>5, <2>1
  <2>3. IsFiniteSet(U)
    BY <1>3, FS_Subset
  <2> HIDE DEF gu, gw, W
  <2>4. gu[W] = gw[W]
    BY <2>1, <2>2, <2>3, SummersAgree
  <2>5. gu[U] = f[Some(U)] + gu[U \ {Some(U)}]
    BY <1>5, <2>1, <2>2, SummerAt
  <2>6. QED
    BY <2>4, <2>5 DEF gu, gw, W
<1>6. V({}) = 0 \/ T = {}
  <2>1. CASE T # {}
    <3>1. Summer(f, {}, CHOOSE g : Summer(f, {}, g))
      BY <1>4, <2>1
    <3>2. QED
      BY <3>1, SummerAt
  <2>2. QED
    BY <2>1
<1>7. T # {} => c \in T
  BY SomeIn
<1> HIDE DEF V, c
<1>8. ASSUME NEW U \in SUBSET T
      PROVE  h[U] = IF U = {} THEN 0 ELSE f[Some(U)] + h[U \ {Some(U)}]
  <2>1. CASE U = T
    BY <1>7, <2>1 DEF c
  <2>2. CASE U # T /\ U = {}
    BY <1>6, <2>2
  <2>3. CASE U # T /\ U # {}
    <3>1. U \ {Some(U)} \in SUBSET T /\ U \ {Some(U)} # T
      BY <2>3, SomeIn
    <3>2. QED
      BY <1>5, <2>3, <3>1
  <2>4. QED
    BY <2>1, <2>2, <2>3
<1>9. Summer(f, T, h)
  <2>1. h = [U \in SUBSET T |-> h[U]]
    OBVIOUS
  <2> HIDE DEF h
  <2>2. QED
    BY <1>8, <2>1 DEF Summer
<1>10. QED
  BY <1>3, <1>9

\* The equations of the sum.
LEMMA SumEquations ==
    ASSUME NEW f, NEW S, IsFiniteSet(S)
    PROVE  /\ S = {} => SumFunctionOnSet(f, S) = 0
           /\ S # {} => Some(S) \in S /\ SumFunctionOnSet(f, S) = f[Some(S)] + SumFunctionOnSet(f, S \ {Some(S)})
<1> DEFINE Q == S \ {Some(S)}
<1>1. IsFiniteSet(Q) /\ Q \in SUBSET S /\ S \in SUBSET S /\ Q \in SUBSET Q
  BY FS_Subset
<1>2. PICK g : Summer(f, S, g) /\ SumFunctionOnSet(f, S) = g[S]
  BY SummerExists, SumUnfolds
<1> HIDE DEF Q
<1>3. PICK h : Summer(f, Q, h) /\ SumFunctionOnSet(f, Q) = h[Q]
  BY <1>1, SummerExists, SumUnfolds
<1>4. g[Q] = h[Q]
  BY <1>1, <1>2, <1>3, SummersAgree
<1>5. QED
  BY <1>1, <1>2, <1>3, <1>4, SummerAt, SomeIn DEF Q

LEMMA SumType ==
    ASSUME NEW f, NEW S, IsFiniteSet(S), \A x \in S : f[x] \in Int
    PROVE  SumFunctionOnSet(f, S) \in Int
<1> DEFINE B == {T \in SUBSET S : SumFunctionOnSet(f, T) \notin Int}
<1>1. SUFFICES ASSUME S \in B PROVE FALSE
  OBVIOUS
<1> HIDE DEF B
<1>2. PICK T \in B \cap SUBSET S : \A U \in SUBSET T : U # T => U \notin B
  BY <1>1, Least
<1> USE DEF B
<1>3. T \in SUBSET S /\ SumFunctionOnSet(f, T) \notin Int /\ IsFiniteSet(T)
  BY FS_Subset
<1>4. T # {} /\ Some(T) \in T /\ SumFunctionOnSet(f, T) = f[Some(T)] + SumFunctionOnSet(f, T \ {Some(T)})
  BY <1>3, SumEquations
<1>5. SumFunctionOnSet(f, T \ {Some(T)}) \in Int
  BY <1>2, <1>3, <1>4
<1>6. QED
  BY <1>3, <1>4, <1>5

\* The order of summation does not matter: any element can come first.
LEMMA SumTakeOut ==
    ASSUME NEW f, NEW S, IsFiniteSet(S), \A x \in S : f[x] \in Int, NEW y \in S
    PROVE  SumFunctionOnSet(f, S) = f[y] + SumFunctionOnSet(f, S \ {y})
<1> DEFINE B == {T \in SUBSET S : \E x \in T : SumFunctionOnSet(f, T) # f[x] + SumFunctionOnSet(f, T \ {x})}
<1>1. SUFFICES ASSUME S \in B PROVE FALSE
  OBVIOUS
<1> HIDE DEF B
<1>2. PICK T \in B \cap SUBSET S : \A U \in SUBSET T : U # T => U \notin B
  BY <1>1, Least
<1> USE DEF B
<1>3. T \in SUBSET S /\ IsFiniteSet(T)
  BY FS_Subset
<1>4. PICK x \in T : SumFunctionOnSet(f, T) # f[x] + SumFunctionOnSet(f, T \ {x})
  OBVIOUS
<1> DEFINE c == Some(T)
<1>5. c \in T /\ SumFunctionOnSet(f, T) = f[c] + SumFunctionOnSet(f, T \ {c})
  BY <1>3, SumEquations
<1> HIDE DEF c
<1>6. x # c
  BY <1>4, <1>5
<1>7. SumFunctionOnSet(f, T \ {c}) = f[x] + SumFunctionOnSet(f, (T \ {c}) \ {x})
  BY <1>2, <1>3, <1>5, <1>6
<1>8. SumFunctionOnSet(f, T \ {x}) = f[c] + SumFunctionOnSet(f, (T \ {x}) \ {c})
  BY <1>2, <1>3, <1>5, <1>6
<1> DEFINE rest == (T \ {x}) \ {c}
<1>9. (T \ {c}) \ {x} = rest
  OBVIOUS
<1>10. SumFunctionOnSet(f, rest) \in Int
  <2>1. IsFiniteSet(rest) /\ rest \subseteq S
    BY <1>3, FS_Subset
  <2>2. QED
    BY <2>1, SumType
<1>11. f[c] \in Int /\ f[x] \in Int
  BY <1>3, <1>5
<1>12. SumFunctionOnSet(f, T \ {c}) = f[x] + SumFunctionOnSet(f, rest) /\ SumFunctionOnSet(f, T \ {x}) = f[c] + SumFunctionOnSet(f, rest)
  BY <1>7, <1>8, <1>9
<1> HIDE DEF rest
<1>13. QED
  BY <1>4, <1>5, <1>10, <1>11, <1>12

\* Functions that agree on a set have the same sum over it.
LEMMA SumSame ==
    ASSUME NEW f, NEW h, NEW S, IsFiniteSet(S), \A x \in S : f[x] = h[x]
    PROVE  SumFunctionOnSet(f, S) = SumFunctionOnSet(h, S)
<1> DEFINE B == {T \in SUBSET S : SumFunctionOnSet(f, T) # SumFunctionOnSet(h, T)}
<1>1. SUFFICES ASSUME S \in B PROVE FALSE
  OBVIOUS
<1> HIDE DEF B
<1>2. PICK T \in B \cap SUBSET S : \A U \in SUBSET T : U # T => U \notin B
  BY <1>1, Least
<1> USE DEF B
<1>3. T \in SUBSET S /\ IsFiniteSet(T) /\ SumFunctionOnSet(f, T) # SumFunctionOnSet(h, T)
  BY FS_Subset
<1>4. /\ T # {} /\ Some(T) \in T
      /\ SumFunctionOnSet(f, T) = f[Some(T)] + SumFunctionOnSet(f, T \ {Some(T)})
      /\ SumFunctionOnSet(h, T) = h[Some(T)] + SumFunctionOnSet(h, T \ {Some(T)})
  BY <1>3, SumEquations
<1>5. SumFunctionOnSet(f, T \ {Some(T)}) = SumFunctionOnSet(h, T \ {Some(T)})
  BY <1>2, <1>3, <1>4
<1>6. QED
  BY <1>3, <1>4, <1>5

\* Equal summands.
LEMMA SumConstant ==
    ASSUME NEW f, NEW S, IsFiniteSet(S), NEW k \in Int, \A x \in S : f[x] = k
    PROVE  SumFunctionOnSet(f, S) = Cardinality(S) * k
<1> DEFINE B == {T \in SUBSET S : SumFunctionOnSet(f, T) # Cardinality(T) * k}
<1>1. SUFFICES ASSUME S \in B PROVE FALSE
  OBVIOUS
<1> HIDE DEF B
<1>2. PICK T \in B \cap SUBSET S : \A U \in SUBSET T : U # T => U \notin B
  BY <1>1, Least
<1> USE DEF B
<1>3. T \in SUBSET S /\ IsFiniteSet(T) /\ SumFunctionOnSet(f, T) # Cardinality(T) * k
  BY FS_Subset
<1>4. T # {}
  <2>1. CASE T = {}
    <3>1. SumFunctionOnSet(f, T) = 0
      BY <1>3, <2>1, SumEquations
    <3>2. Cardinality(T) = 0
      BY <2>1, FS_EmptySet
    <3>3. 0 * k = 0
      OBVIOUS
    <3>4. QED
      BY <1>3, <3>1, <3>2, <3>3
  <2>2. QED
    BY <2>1
<1>5. Some(T) \in T /\ SumFunctionOnSet(f, T) = k + SumFunctionOnSet(f, T \ {Some(T)})
  BY <1>3, <1>4, SumEquations
<1>6. Cardinality(T) \in Nat /\ Cardinality(T \ {Some(T)}) = Cardinality(T) - 1
  BY <1>3, <1>5, FS_CardinalityType, FS_RemoveElement
<1>7. SumFunctionOnSet(f, T \ {Some(T)}) = Cardinality(T \ {Some(T)}) * k
  BY <1>2, <1>3, <1>5
<1>8. k + (Cardinality(T) - 1) * k = Cardinality(T) * k
  BY <1>6
<1>9. QED
  BY <1>3, <1>5, <1>6, <1>7, <1>8

LEMMA SumNat ==
    ASSUME NEW f, NEW S, IsFiniteSet(S), \A x \in S : f[x] \in Nat
    PROVE  SumFunctionOnSet(f, S) \in Nat
<1> DEFINE B == {T \in SUBSET S : SumFunctionOnSet(f, T) \notin Nat}
<1>1. SUFFICES ASSUME S \in B PROVE FALSE
  OBVIOUS
<1> HIDE DEF B
<1>2. PICK T \in B \cap SUBSET S : \A U \in SUBSET T : U # T => U \notin B
  BY <1>1, Least
<1> USE DEF B
<1>3. T \in SUBSET S /\ IsFiniteSet(T) /\ SumFunctionOnSet(f, T) \notin Nat
  BY FS_Subset
<1>0. T # {}
  <2>1. CASE T = {}
    <3>1. SumFunctionOnSet(f, T) = 0
      BY <1>3, <2>1, SumEquations
    <3>2. QED
      BY <1>3, <3>1
  <2>2. QED
    BY <2>1
<1>4. Some(T) \in T /\ SumFunctionOnSet(f, T) = f[Some(T)] + SumFunctionOnSet(f, T \ {Some(T)})
  BY <1>0, <1>3, SumEquations
<1>5. SumFunctionOnSet(f, T \ {Some(T)}) \in Nat
  BY <1>2, <1>3, <1>4
<1>6. QED
  BY <1>3, <1>4, <1>5

\* No summand is more than the sum.
LEMMA SumBound ==
    ASSUME NEW f, NEW S, IsFiniteSet(S), \A x \in S : f[x] \in Nat, NEW y \in S
    PROVE  f[y] <= SumFunctionOnSet(f, S)
<1>1. SumFunctionOnSet(f, S) = f[y] + SumFunctionOnSet(f, S \ {y})
  BY SumTakeOut
<1>2. IsFiniteSet(S \ {y})
  BY FS_Subset
<1>3. SumFunctionOnSet(f, S \ {y}) \in Nat
  BY <1>2, SumNat
<1>4. QED
  BY <1>1, <1>3

\* One summand changes.
LEMMA SumChange ==
    ASSUME NEW f, NEW h, NEW S, IsFiniteSet(S), \A x \in S : f[x] \in Int,
           NEW y \in S, h[y] \in Int, \A x \in S \ {y} : h[x] = f[x]
    PROVE  /\ SumFunctionOnSet(h, S) = SumFunctionOnSet(f, S) - f[y] + h[y]
           /\ SumFunctionOnSet(f, S) \in Int
<1> DEFINE R == S \ {y}
<1>1. IsFiniteSet(R) /\ R \subseteq S
  BY FS_Subset
<1>2. SumFunctionOnSet(f, R) = SumFunctionOnSet(h, R) /\ SumFunctionOnSet(f, R) \in Int
  BY <1>1, SumSame, SumType
<1>3. SumFunctionOnSet(f, S) = f[y] + SumFunctionOnSet(f, R)
  BY SumTakeOut
<1>4. \A x \in S : h[x] \in Int
  OBVIOUS
<1>5. SumFunctionOnSet(h, S) = h[y] + SumFunctionOnSet(h, R)
  BY <1>4, SumTakeOut
<1> HIDE DEF R
<1>6. f[y] \in Int
  OBVIOUS
<1>7. QED
  BY <1>2, <1>3, <1>5, <1>6

\* A part of the set is summed apart.
LEMMA SumPart ==
    ASSUME NEW f, NEW S, IsFiniteSet(S), \A x \in S : f[x] \in Int, NEW D \in SUBSET S
    PROVE  SumFunctionOnSet(f, S) = SumFunctionOnSet(f, D) + SumFunctionOnSet(f, S \ D)
<1> DEFINE B == {T \in SUBSET S :
                    SumFunctionOnSet(f, S) # SumFunctionOnSet(f, T) + SumFunctionOnSet(f, S \ T)}
<1>1. SUFFICES ASSUME D \in B PROVE FALSE
  OBVIOUS
<1>2. IsFiniteSet(D)
  BY FS_Subset
<1> HIDE DEF B
<1>3. PICK T \in B \cap SUBSET D : \A U \in SUBSET T : U # T => U \notin B
  BY <1>1, <1>2, Least
<1> USE DEF B
<1>4. /\ T \in SUBSET S /\ IsFiniteSet(T)
      /\ SumFunctionOnSet(f, S) # SumFunctionOnSet(f, T) + SumFunctionOnSet(f, S \ T)
  BY FS_Subset
<1>5. T # {}
  <2>1. CASE T = {}
    <3>1. SumFunctionOnSet(f, T) = 0
      BY <1>4, <2>1, SumEquations
    <3>2. S \ T = S
      BY <2>1
    <3>3. SumFunctionOnSet(f, S \ T) = SumFunctionOnSet(f, S)
      BY <3>2
    <3>4. SumFunctionOnSet(f, S) \in Int
      BY SumType
    <3>5. QED
      BY <1>4, <3>1, <3>3, <3>4
  <2>2. QED
    BY <2>1
<1>6. PICK x : x \in T
  BY <1>5
<1> DEFINE U == T \ {x}
           R == S \ T
<1>7. U \in SUBSET T /\ U # T /\ x \in S \ U /\ (S \ U) \ {x} = R /\ U \in SUBSET S
  BY <1>4, <1>6
<1>8. IsFiniteSet(U) /\ IsFiniteSet(S \ U) /\ IsFiniteSet(R)
  BY <1>4, <1>7, FS_Subset
<1>9. SumFunctionOnSet(f, S) = SumFunctionOnSet(f, U) + SumFunctionOnSet(f, S \ U)
  BY <1>3, <1>7
<1>10. SumFunctionOnSet(f, T) = f[x] + SumFunctionOnSet(f, U)
  BY <1>4, <1>6, SumTakeOut
<1>11. SumFunctionOnSet(f, S \ U) = f[x] + SumFunctionOnSet(f, R)
  <2>1. \A y \in S \ U : f[y] \in Int
    OBVIOUS
  <2>2. SumFunctionOnSet(f, S \ U) = f[x] + SumFunctionOnSet(f, (S \ U) \ {x})
    BY <1>7, <1>8, <2>1, SumTakeOut
  <2>3. QED
    BY <1>7, <2>2
<1>12. f[x] \in Int /\ SumFunctionOnSet(f, U) \in Int /\ SumFunctionOnSet(f, R) \in Int
  <2>1. \A y \in U : f[y] \in Int
    BY <1>7
  <2>2. \A y \in R : f[y] \in Int
    OBVIOUS
  <2>3. QED
    BY <1>6, <1>7, <1>8, <2>1, <2>2, SumType
<1>13. SumFunctionOnSet(f, S) # SumFunctionOnSet(f, T) + SumFunctionOnSet(f, R)
  BY <1>4
<1> HIDE DEF U, R
<1>14. QED
  BY <1>9, <1>10, <1>11, <1>12, <1>13

\* Greater summands make a greater sum.
LEMMA SumGreater ==
    ASSUME NEW f, NEW h, NEW S, IsFiniteSet(S),
           \A x \in S : f[x] \in Int /\ h[x] \in Int /\ f[x] <= h[x]
    PROVE  SumFunctionOnSet(f, S) <= SumFunctionOnSet(h, S)
<1> DEFINE B == {T \in SUBSET S : ~(SumFunctionOnSet(f, T) <= SumFunctionOnSet(h, T))}
<1>1. SUFFICES ASSUME S \in B PROVE FALSE
  OBVIOUS
<1> HIDE DEF B
<1>2. PICK T \in B \cap SUBSET S : \A U \in SUBSET T : U # T => U \notin B
  BY <1>1, Least
<1> USE DEF B
<1>3. T \in SUBSET S /\ IsFiniteSet(T) /\ ~(SumFunctionOnSet(f, T) <= SumFunctionOnSet(h, T))
  BY FS_Subset
<1>4. T # {}
  <2>1. CASE T = {}
    <3>1. SumFunctionOnSet(f, T) = 0 /\ SumFunctionOnSet(h, T) = 0
      BY <1>3, <2>1, SumEquations
    <3>2. QED
      BY <1>3, <3>1
  <2>2. QED
    BY <2>1
<1> DEFINE R == T \ {Some(T)}
<1>5. /\ Some(T) \in T
      /\ SumFunctionOnSet(f, T) = f[Some(T)] + SumFunctionOnSet(f, R)
      /\ SumFunctionOnSet(h, T) = h[Some(T)] + SumFunctionOnSet(h, R)
  BY <1>3, <1>4, SumEquations
<1>6. SumFunctionOnSet(f, R) <= SumFunctionOnSet(h, R)
  BY <1>2, <1>3, <1>5
<1>7. IsFiniteSet(R) /\ R \subseteq S
  BY <1>3, FS_Subset
<1>8. SumFunctionOnSet(f, R) \in Int /\ SumFunctionOnSet(h, R) \in Int
  BY <1>7, SumType
<1>9. f[Some(T)] \in Int /\ h[Some(T)] \in Int /\ f[Some(T)] <= h[Some(T)]
  BY <1>3, <1>5
<1> HIDE DEF R
<1>10. QED
  BY <1>3, <1>5, <1>6, <1>8, <1>9

------------------------------------------------------------------------------
(* Values.                                                                  *)

LEMMA NoMailIsNone == NoMail \notin Letters
  BY MailAssumption DEF NoMail, Letters

\* A letter field by field, and with another amount, COD and contents.
Edited(mail, m, cod, S) ==
    [type |-> mail.type, sender |-> mail.sender, receiver |-> mail.receiver,
     money |-> m, cod |-> cod, items |-> S, checked |-> mail.checked]

LEMMA EditedOK ==
    ASSUME NEW mail \in Letters, NEW m \in Int, NEW cod \in Int, NEW S \in SUBSET Items
    PROVE  /\ Edited(mail, m, cod, S) \in Letters
           /\ Edited(mail, m, cod, S).money = m /\ Edited(mail, m, cod, S).items = S
           /\ Edited(mail, m, cod, S).receiver = mail.receiver
           /\ Edited(mail, m, cod, S).cod = cod
<1>1. /\ mail.type \in {"normal"} /\ mail.sender \in Players /\ mail.receiver \in Players
      /\ mail.checked \in {"copied", "cod payment", "returned"}
  BY DEF Letters
<1>2. Edited(mail, m, cod, S) \in Letters
  BY <1>1, Zenon DEF Letters, Edited
<1>3. QED
  BY <1>2 DEF Edited

LEMMA LetterFields ==
    ASSUME NEW mail \in Letters
    PROVE  /\ mail = Edited(mail, mail.money, mail.cod, mail.items)
           /\ mail.money \in Int /\ mail.cod \in Int /\ mail.items \in SUBSET Items
  BY DEF Letters, Edited

LEMMA KeptOK ==
    ASSUME NEW mail \in Letters
    PROVE  /\ Kept(mail) \in Letters /\ Kept(mail).money \in 0..(UINT32 - 1)
           /\ Kept(mail).items = mail.items /\ Kept(mail).receiver = mail.receiver
           /\ Kept(mail).cod = mail.cod
           /\ mail.money \in 0..(UINT32 - 1) => Kept(mail) = mail
<1> DEFINE m == mail.money % UINT32
<1>1. UINT32 \in Nat \ {0} /\ mail.money \in Int /\ mail.cod \in Int /\ mail.items \in SUBSET Items
  BY MailAssumption, LetterFields
<1>2. m \in 0..(UINT32 - 1) /\ m \in Int
  BY <1>1
<1>3. mail.money \in 0..(UINT32 - 1) => m = mail.money
  BY <1>1
<1>4. Kept(mail) = Edited(mail, m, mail.cod, mail.items)
  BY LetterFields DEF Kept, Edited
<1> HIDE DEF m
<1>5. QED
  BY <1>1, <1>2, <1>3, <1>4, EditedOK, LetterFields

\* What is left of a letter when its money was taken.
LEMMA MoneyTakenOK ==
    ASSUME NEW mail \in Letters
    PROVE  /\ [mail EXCEPT !.money = 0] \in Letters
           /\ [mail EXCEPT !.money = 0].items = mail.items
           /\ [mail EXCEPT !.money = 0].receiver = mail.receiver
           /\ [mail EXCEPT !.money = 0].money = 0
           /\ [mail EXCEPT !.money = 0].cod = mail.cod
<1>1. [mail EXCEPT !.money = 0] = Edited(mail, 0, mail.cod, mail.items)
  BY LetterFields DEF Edited
<1>2. 0 \in Int /\ mail.cod \in Int /\ mail.items \in SUBSET Items
  BY LetterFields
<1>3. QED
  BY <1>1, <1>2, EditedOK

\* What is left of a letter when an item was taken.
LEMMA ItemTakenOK ==
    ASSUME NEW mail \in Letters, NEW i
    PROVE  /\ [mail EXCEPT !.items = @ \ {i}, !.cod = 0] \in Letters
           /\ [mail EXCEPT !.items = @ \ {i}, !.cod = 0].items = mail.items \ {i}
           /\ [mail EXCEPT !.items = @ \ {i}, !.cod = 0].receiver = mail.receiver
           /\ [mail EXCEPT !.items = @ \ {i}, !.cod = 0].money = mail.money
           /\ [mail EXCEPT !.items = @ \ {i}, !.cod = 0].cod = 0
<1>1. [mail EXCEPT !.items = @ \ {i}, !.cod = 0] = Edited(mail, mail.money, 0, mail.items \ {i})
  <2>1. [mail EXCEPT !.items = @ \ {i}] = Edited(mail, mail.money, mail.cod, mail.items \ {i})
    <3> DEFINE S == mail.items \ {i}
    <3>1. [mail EXCEPT !.items = @ \ {i}] = [mail EXCEPT !.items = S]
      OBVIOUS
    <3> HIDE DEF S
    <3>2. [mail EXCEPT !.items = S] = Edited(mail, mail.money, mail.cod, S)
      BY LetterFields DEF Edited
    <3>3. QED
      BY <3>1, <3>2 DEF S
  <2>2. [Edited(mail, mail.money, mail.cod, mail.items \ {i}) EXCEPT !.cod = 0]
            = Edited(mail, mail.money, 0, mail.items \ {i})
    BY DEF Edited
  <2>3. [mail EXCEPT !.items = @ \ {i}, !.cod = 0] = [[mail EXCEPT !.items = @ \ {i}] EXCEPT !.cod = 0]
    OBVIOUS
  <2>4. QED
    BY <2>1, <2>2, <2>3
<1>2. 0 \in Int /\ mail.money \in Int /\ mail.items \ {i} \in SUBSET Items
  BY LetterFields
<1>3. QED
  BY <1>1, <1>2, EditedOK

LEMMA LetterOK ==
    ASSUME NEW p \in Players, NEW q \in Players, NEW m \in Int, NEW cod \in Int,
           NEW S \in SUBSET Items, NEW checked \in {"copied", "cod payment", "returned"}
    PROVE  /\ Letter(p, q, m, cod, S, checked) \in Letters
           /\ Letter(p, q, m, cod, S, checked).items = S
           /\ Letter(p, q, m, cod, S, checked).receiver = q
           /\ Letter(p, q, m, cod, S, checked).money = m
           /\ Letter(p, q, m, cod, S, checked).cod = cod
  BY DEF Letter, Letters

LEMMA ModifyMoneyInt == \A m, n \in Int : ModifyMoney(m, n) \in Int
  BY MailAssumption DEF ModifyMoney

\* A free id is in nobody's memory.
LEMMA NewIdFree ==
    ASSUME FreeIds # {}
    PROVE  NewId \in MailIds /\ row[NewId] = NoMail /\ \A p \in Players : box[p][NewId] = NoMail
<1>1. NewId \in FreeIds
  BY DEF NewId
<1>2. QED
  BY <1>1 DEF FreeIds

LEMMA IInvInit == Init => IInv
<1> SUFFICES ASSUME Init PROVE IInv
  OBVIOUS
<1>1. PICK f \in [Items -> Players] : stored = [p \in Players |-> {i \in Items : f[i] = p}]
  BY DEF Init
<1>2. MailsOK(row, box)
  BY DEF Init, MailsOK, RowsOK, CachesOK, Faithful
<1>3. PlayersOK /\ BagsAreSaved
  BY <1>1, MailAssumption DEF Init, PlayersOK, BagsAreSaved
<1>4. Apart
  BY <1>1 DEF Init, Apart, InMail
<1>5. QED
  BY <1>2, <1>3, <1>4 DEF IInv

------------------------------------------------------------------------------
(* What handlers do to rows and caches.  loaded is as before in each.       *)

\* A new mail is posted under a free id.
LEMMA PostOK ==
    ASSUME NEW r, NEW b, MailsOK(r, b), NEW id \in MailIds, NEW mail \in Letters,
           r[id] = NoMail, \A q \in Players : b[q][id] = NoMail
    PROVE  /\ MailsOK(Posted(r, id, mail), Delivered(b, id, mail))
           /\ \A k \in MailIds : Posted(r, id, mail)[k] = IF k = id THEN Kept(mail) ELSE r[k]
           /\ \A q \in Players, k \in MailIds \ {id} : Delivered(b, id, mail)[q][k] = b[q][k]
           /\ Kept(mail) # NoMail /\ Kept(mail).items = mail.items
<1> DEFINE q == mail.receiver
           r1 == Posted(r, id, mail)
           b1 == Delivered(b, id, mail)
<1>1. q \in Players
  BY DEF Letters
<1>2. /\ Kept(mail) \in Letters /\ Kept(mail) # NoMail /\ Kept(mail).items = mail.items
      /\ Kept(mail).money \in 0..(UINT32 - 1)
  BY KeptOK, NoMailIsNone
<1>3. /\ r1 = [r EXCEPT ![id] = Kept(mail)]
      /\ b1 = IF loaded[q] THEN [b EXCEPT ![q][id] = mail] ELSE b
  BY DEF Posted, Delivered, Kept
<1> HIDE DEF q, r1, b1
<1>4. \A k \in MailIds : r1[k] = IF k = id THEN Kept(mail) ELSE r[k]
  BY <1>3 DEF MailsOK, RowsOK
<1>5. \A p \in Players, k \in MailIds :
          b1[p][k] = IF loaded[q] /\ p = q /\ k = id THEN mail ELSE b[p][k]
  BY <1>1, <1>3 DEF MailsOK, CachesOK
<1>6. RowsOK(r1)
  BY <1>2, <1>3, <1>4 DEF MailsOK, RowsOK
<1>7. CachesOK(b1)
  BY <1>1, <1>3 DEF MailsOK, CachesOK
<1>8. Faithful(r1, b1)
  <2> SUFFICES ASSUME NEW p \in Players, NEW k \in MailIds, b1[p][k] # NoMail
               PROVE  loaded[p] /\ b1[p][k].receiver = p /\ r1[k] = Kept(b1[p][k])
    BY DEF Faithful
  <2>1. CASE k = id
    BY <1>4, <1>5, <2>1 DEF q
  <2>2. CASE k # id
    BY <1>4, <1>5, <2>2 DEF MailsOK, Faithful
  <2>3. QED
    BY <2>1, <2>2
<1>9. QED
  BY <1>2, <1>4, <1>5, <1>6, <1>7, <1>8 DEF MailsOK, r1, b1

\* A player's cached mail is changed and saved.
LEMMA OpenOK ==
    ASSUME NEW r, NEW b, MailsOK(r, b), NEW p \in Players, NEW id \in MailIds, b[p][id] # NoMail,
           NEW mail \in Letters, mail.receiver = p
    PROVE  /\ MailsOK([r EXCEPT ![id] = Kept(mail)], [b EXCEPT ![p][id] = mail])
           /\ Kept(mail) # NoMail /\ Kept(mail).items = mail.items
<1> DEFINE r1 == [r EXCEPT ![id] = Kept(mail)]
           b1 == [b EXCEPT ![p][id] = mail]
<1>1. /\ Kept(mail) \in Letters /\ Kept(mail) # NoMail /\ Kept(mail).items = mail.items
      /\ Kept(mail).money \in 0..(UINT32 - 1)
  BY KeptOK, NoMailIsNone
<1>2. \A k \in MailIds : r1[k] = IF k = id THEN Kept(mail) ELSE r[k]
  BY DEF MailsOK, RowsOK
<1>3. \A q \in Players, k \in MailIds : b1[q][k] = IF q = p /\ k = id THEN mail ELSE b[q][k]
  BY DEF MailsOK, CachesOK
<1>4. RowsOK(r1) /\ CachesOK(b1)
  BY <1>1 DEF MailsOK, RowsOK, CachesOK
<1> HIDE DEF r1, b1
<1>5. Faithful(r1, b1)
  <2> SUFFICES ASSUME NEW q \in Players, NEW k \in MailIds, b1[q][k] # NoMail
               PROVE  loaded[q] /\ b1[q][k].receiver = q /\ r1[k] = Kept(b1[q][k])
    BY DEF Faithful
  <2>1. CASE k = id /\ q = p
    BY <1>2, <1>3, <2>1 DEF MailsOK, Faithful
  <2>2. CASE k = id /\ q # p
    <3>1. b[q][id] \in Letters /\ b[p][id] \in Letters
      BY <1>3, <2>2 DEF MailsOK, CachesOK
    <3>2. Kept(b[q][id]) = Kept(b[p][id]) /\ b[q][id].receiver = q /\ b[p][id].receiver = p
      BY <1>3, <2>2 DEF MailsOK, Faithful
    <3>3. QED
      BY <2>2, <3>1, <3>2, KeptOK
  <2>3. CASE k # id
    BY <1>2, <1>3, <2>3 DEF MailsOK, Faithful
  <2>4. QED
    BY <2>1, <2>2, <2>3
<1>6. QED
  BY <1>1, <1>4, <1>5 DEF MailsOK, r1, b1

\* Some of a player's mails are removed from memory and database.
LEMMA RemoveOK ==
    ASSUME NEW r, NEW b, MailsOK(r, b), NEW p \in Players, NEW D \in SUBSET MailIds,
           \A id \in D : b[p][id] # NoMail
    PROVE  MailsOK([id \in MailIds |-> IF id \in D THEN NoMail ELSE r[id]],
                   [b EXCEPT ![p] = [id \in MailIds |-> IF id \in D THEN NoMail ELSE @[id]]])
<1> DEFINE r1 == [id \in MailIds |-> IF id \in D THEN NoMail ELSE r[id]]
           b1 == [b EXCEPT ![p] = [id \in MailIds |-> IF id \in D THEN NoMail ELSE @[id]]]
<1>1. RowsOK(r1) /\ CachesOK(b1)
  BY DEF MailsOK, RowsOK, CachesOK
<1>2. \A q \in Players, k \in MailIds : b1[q][k] = IF q = p /\ k \in D THEN NoMail ELSE b[q][k]
  BY DEF MailsOK, CachesOK
<1>3. \A k \in MailIds \ D : r1[k] = r[k]
  OBVIOUS
<1> HIDE DEF r1, b1
<1>4. Faithful(r1, b1)
  <2> SUFFICES ASSUME NEW q \in Players, NEW k \in MailIds, b1[q][k] # NoMail
               PROVE  loaded[q] /\ b1[q][k].receiver = q /\ r1[k] = Kept(b1[q][k])
    BY DEF Faithful
  <2>1. b1[q][k] = b[q][k] /\ ~(q = p /\ k \in D)
    BY <1>2
  <2>2. k \notin D
    <3>1. SUFFICES ASSUME k \in D PROVE FALSE
      OBVIOUS
    <3>2. b[q][k] \in Letters /\ b[p][k] \in Letters
      BY <2>1, <3>1 DEF MailsOK, CachesOK
    <3>3. Kept(b[q][k]) = Kept(b[p][k]) /\ b[q][k].receiver = q /\ b[p][k].receiver = p
      BY <2>1, <3>1 DEF MailsOK, Faithful
    <3>4. QED
      BY <2>1, <3>1, <3>2, <3>3, KeptOK
  <2>3. QED
    BY <1>3, <2>1, <2>2 DEF MailsOK, Faithful
<1>5. QED
  BY <1>1, <1>4 DEF MailsOK, r1, b1

\* The mails keep at most the items they have, and the bags those they have.
LEMMA ShrinkKeepsApart ==
    ASSUME Apart, UNCHANGED stored,
           \A id \in MailIds : InMail(id)' \subseteq InMail(id)
    PROVE  Apart'
  BY DEF Apart

\* A cached mail has the items of its row.
LEMMA CachedItems ==
    ASSUME IInv, NEW p \in Players, NEW id \in MailIds, box[p][id] # NoMail
    PROVE  box[p][id] \in Letters /\ InMail(id) = box[p][id].items
<1>1. box[p][id] \in Letters
  BY DEF IInv, MailsOK, CachesOK
<1>2. row[id] = Kept(box[p][id])
  BY DEF IInv, MailsOK, Faithful
<1>3. QED
  BY <1>1, <1>2, KeptOK, NoMailIsNone DEF InMail

\* What ItemsAreNotLost says of a step.
Stays ==
    \A id \in MailIds : \A i \in Items :
        (row[id] # NoMail /\ i \in row[id].items) =>
           \/ \E q \in Players : i \in stored'[q]
           \/ \E k \in MailIds : row'[k] # NoMail /\ i \in row'[k].items
           \/ id \in deleted
           \/ row[id].checked \in {"returned", "cod payment"} \/ row[id].type # "normal"

LEMMA StaysInMail ==
    ASSUME \A id \in MailIds : \A i \in InMail(id) :
              \/ id \in deleted \/ \E q \in Players : i \in stored'[q]
              \/ \E k \in MailIds : i \in InMail(k)'
              \/ row[id].checked \in {"returned", "cod payment"}
    PROVE  Stays
  BY DEF Stays, InMail

------------------------------------------------------------------------------
(* The actions.                                                             *)

\* The mails are what the lemmas above say when mailboxes are loaded as before.
LEMMA MailsPrimed ==
    ASSUME UNCHANGED loaded, MailsOK(row', box')
    PROVE  MailsOK(row, box)'
  BY DEF MailsOK, RowsOK, CachesOK, Faithful

LEMMA SendKeeps ==
    ASSUME IInv, NEW p \in Players, NEW q \in Players, HandleSendMail(p, q)
    PROVE  IInv' /\ Stays
<1> DEFINE Req(S, m) == COST * (IF S = {} THEN 1 ELSE Cardinality(S)) + m
           Cod(S, COD) == IF S = {} THEN 0 ELSE COD % UINT32
           Drafted(S, m, COD) == Letter(p, q, m, Cod(S, COD), S, "copied")
<1>1. PICK S \in SUBSET bag[p], m \in 0..money[p], COD \in CODs :
           /\ online[p] /\ FreeIds # {}
           /\ money' = [money EXCEPT ![p] = ModifyMoney(@, -Req(S, m))]
           /\ gold' = [gold EXCEPT ![p] = money'[p]]
           /\ bag' = [bag EXCEPT ![p] = @ \ S]
           /\ row' = Posted(row, NewId, Drafted(S, m, COD))
           /\ box' = Delivered(box, NewId, Drafted(S, m, COD))
           /\ stored' = [stored EXCEPT ![p] = bag'[p]]
           /\ online' = online /\ loaded' = loaded
  <2>1. PICK S \in SUBSET bag[p], m \in 0..money[p], COD \in CODs : SendMail(p, q, S, m, COD)
    BY DEF HandleSendMail
  <2>2. QED
    BY <2>1, Zenon DEF SendMail
<1> DEFINE req == Req(S, m)
           cod == Cod(S, COD)
           mail == Drafted(S, m, COD)
<1>2. NewId \in MailIds /\ row[NewId] = NoMail /\ \A r \in Players : box[r][NewId] = NoMail
  BY <1>1, NewIdFree
<1>3. S \in SUBSET Items /\ bag[p] = stored[p] /\ m \in Int
  BY <1>1 DEF IInv, PlayersOK, BagsAreSaved
<1>4. mail \in Letters /\ mail.items = S
  <2>1. cod \in Int
    BY MailAssumption
  <2>2. mail = Letter(p, q, m, cod, S, "copied")
    OBVIOUS
  <2> HIDE DEF cod, mail
  <2>3. "copied" \in {"copied", "cod payment", "returned"}
    OBVIOUS
  <2>4. Letter(p, q, m, cod, S, "copied") \in Letters
    BY <1>3, <2>1, <2>3, LetterOK
  <2>5. Letter(p, q, m, cod, S, "copied").items = S
    BY DEF Letter
  <2>6. QED
    BY <2>2, <2>4, <2>5
<1>5. req \in Int
  <2>1. IsFiniteSet(S) /\ Cardinality(S) \in Nat
    BY <1>3, MailAssumption, FS_Subset, FS_CardinalityType
  <2>2. COST \in Nat
    BY MailAssumption
  <2>3. QED
    BY <1>3, <2>1, <2>2
<1> HIDE DEF req, mail
<1>6. /\ money' = [money EXCEPT ![p] = ModifyMoney(@, -req)]
      /\ row' = Posted(row, NewId, mail) /\ box' = Delivered(box, NewId, mail)
  BY <1>1 DEF req, mail
<1>7. stored' = [stored EXCEPT ![p] = @ \ S]
  BY <1>1, <1>3 DEF IInv, PlayersOK
<1>8. /\ MailsOK(row', box')
      /\ \A k \in MailIds : row'[k] = IF k = NewId THEN Kept(mail) ELSE row[k]
      /\ Kept(mail) # NoMail /\ Kept(mail).items = S
  BY <1>2, <1>4, <1>6, PostOK DEF IInv
<1>9. MailsOK(row, box)'
  BY <1>1, <1>8, MailsPrimed
<1>10. PlayersOK'
  <2>1. money' \in [Players -> Int] /\ gold' \in [Players -> Int]
    <3>1. money' \in [Players -> Int]
      BY <1>5, <1>6, ModifyMoneyInt DEF IInv, PlayersOK
    <3>2. QED
      BY <1>1, <3>1 DEF IInv, PlayersOK
  <2>2. stored' \in [Players -> SUBSET Items] /\ bag' \in [Players -> SUBSET Items]
    BY <1>1, <1>7 DEF IInv, PlayersOK
  <2>3. QED
    BY <1>1, <2>1, <2>2 DEF IInv, PlayersOK
<1>11. BagsAreSaved'
  BY <1>1, <1>3, <1>7 DEF IInv, PlayersOK, BagsAreSaved
<1>12. Apart'
  <2>1. \A k \in MailIds : InMail(k)' = IF k = NewId THEN S ELSE InMail(k)
    BY <1>8 DEF InMail
  <2>2. S \subseteq stored[p] /\ stored'[p] = stored[p] \ S
    BY <1>3, <1>7 DEF IInv, PlayersOK
  <2>3. \A r \in Players \ {p} : stored'[r] = stored[r]
    BY <1>7 DEF IInv, PlayersOK
  <2>4. \A r, x \in Players : r # x => stored'[r] \cap stored'[x] = {}
    BY <2>2, <2>3 DEF IInv, Apart
  <2>5. ASSUME NEW r \in Players, NEW k \in MailIds PROVE stored'[r] \cap InMail(k)' = {}
    BY <2>1, <2>2, <2>3 DEF IInv, Apart
  <2>6. ASSUME NEW k \in MailIds, NEW l \in MailIds, k # l PROVE InMail(k)' \cap InMail(l)' = {}
    <3>1. S \cap InMail(k) = {} /\ S \cap InMail(l) = {} /\ InMail(k) \cap InMail(l) = {}
      BY <2>2, <2>6 DEF IInv, Apart
    <3>2. QED
      BY <2>1, <2>6, <3>1
  <2>7. QED
    BY <2>4, <2>5, <2>6 DEF Apart
<1>13. Stays
  <2>1. \A k \in MailIds : InMail(k) \subseteq InMail(k)'
    BY <1>2, <1>8 DEF InMail
  <2>2. QED
    BY <2>1, StaysInMail
<1>14. QED
  BY <1>9, <1>10, <1>11, <1>12, <1>13 DEF IInv

LEMMA LoadKeeps ==
    ASSUME IInv, NEW p \in Players, LoadMail(p)
    PROVE  IInv' /\ Stays
<1>1. /\ online[p] /\ loaded' = [loaded EXCEPT ![p] = TRUE]
      /\ box' = [box EXCEPT ![p] = [id \in MailIds |-> IF id \in MailsOf(p) THEN row[id] ELSE NoMail]]
      /\ UNCHANGED <<row, gold, stored, online, money, bag>>
  BY DEF LoadMail, database
<1>2. RowsOK(row)' /\ CachesOK(box)'
  BY <1>1 DEF IInv, MailsOK, RowsOK, CachesOK
<1>3. Faithful(row, box)'
  <2> SUFFICES ASSUME NEW q \in Players, NEW id \in MailIds, box'[q][id] # NoMail
               PROVE  loaded'[q] /\ box'[q][id].receiver = q /\ row'[id] = Kept(box'[q][id])
    BY DEF Faithful
  <2>1. CASE q = p
    <3>1. id \in MailsOf(p) /\ box'[q][id] = row[id] /\ loaded'[q]
      BY <1>1, <2>1 DEF IInv, MailsOK, CachesOK, PlayersOK
    <3>2. row[id] \in Letters /\ row[id].receiver = p /\ row[id].money \in 0..(UINT32 - 1)
      BY <3>1 DEF MailsOf, Mails, IInv, MailsOK, RowsOK
    <3>3. QED
      BY <1>1, <2>1, <3>1, <3>2, KeptOK
  <2>2. CASE q # p
    BY <1>1, <2>2 DEF IInv, MailsOK, CachesOK, Faithful, PlayersOK
  <2>3. QED
    BY <2>1, <2>2
<1>4. PlayersOK' /\ BagsAreSaved'
  BY <1>1 DEF IInv, PlayersOK, BagsAreSaved
<1>5. Apart'
  BY <1>1 DEF IInv, Apart, InMail
<1>6. QED
  BY <1>1, <1>2, <1>3, <1>4, <1>5 DEF IInv, MailsOK, Stays

\* The mails p has marked as deleted go from memory and database.
LEMMA DropOK ==
    ASSUME NEW r, NEW b, MailsOK(r, b), NEW p \in Players,
           \A id \in Doomed(p) : b[p][id] # NoMail
    PROVE  /\ MailsOK([id \in MailIds |-> IF id \in Doomed(p) THEN NoMail ELSE r[id]], Dropped(b, p))
           /\ Doomed(p) \subseteq MailIds
<1>1. Doomed(p) \in SUBSET MailIds
  BY DEF Doomed, Mails
<1>2. QED
  BY <1>1, RemoveOK DEF Dropped

LEMMA TakeMoneyKeeps ==
    ASSUME IInv, NEW p \in Players, NEW id \in MailIds, box[p][id] # NoMail, HandleMailTakeMoney(p, id)
    PROVE  IInv' /\ Stays
<1> DEFINE mail == [box[p][id] EXCEPT !.money = 0]
           opened == [box EXCEPT ![p][id] = mail]
           r == [row EXCEPT ![id] = Kept(mail)]
<1>1. /\ id \notin deleted
      /\ money' = [money EXCEPT ![p] = ModifyMoney(@, box[p][id].money)]
      /\ gold' = [gold EXCEPT ![p] = money'[p]]
      /\ row' = Saved(row, opened, p, {id}) /\ box' = Dropped(opened, p)
      /\ UNCHANGED <<stored, online, bag, loaded>>
  BY DEF HandleMailTakeMoney, IsOpen
<1>2. box[p][id] \in Letters /\ InMail(id) = box[p][id].items /\ box[p][id].receiver = p
  BY CachedItems DEF IInv, MailsOK, Faithful
<1>3. mail \in Letters /\ mail.items = box[p][id].items /\ mail.receiver = p
  BY <1>2, MoneyTakenOK
<1> HIDE DEF mail
<1>4. MailsOK(r, opened) /\ Kept(mail) # NoMail /\ Kept(mail).items = InMail(id)
  BY <1>2, <1>3, OpenOK DEF IInv
<1>5. /\ \A k \in MailIds : r[k] = IF k = id THEN Kept(mail) ELSE row[k]
      /\ \A k \in MailIds : opened[p][k] = IF k = id THEN mail ELSE box[p][k]
  BY DEF IInv, MailsOK, RowsOK, CachesOK
<1> HIDE DEF r, opened
<1>6. row' = [k \in MailIds |-> IF k \in Doomed(p) THEN NoMail ELSE r[k]]
  BY <1>1, <1>5 DEF Saved, Kept
<1>7. \A k \in Doomed(p) : opened[p][k] # NoMail
  BY <1>1, <1>5 DEF Doomed, Mails
<1>8. MailsOK(row, box)'
  BY <1>1, <1>4, <1>6, <1>7, DropOK, MailsPrimed, SMTT(30)
<1>9. PlayersOK' /\ BagsAreSaved'
  <2>1. box[p][id].money \in Int
    BY <1>2 DEF Letters
  <2>2. QED
    BY <1>1, <2>1, ModifyMoneyInt DEF IInv, PlayersOK, BagsAreSaved
<1>10. Apart'
  <2>1. \A k \in MailIds : InMail(k)' \subseteq InMail(k)
    BY <1>4, <1>5, <1>6 DEF InMail
  <2>2. QED
    BY <1>1, <2>1, ShrinkKeepsApart DEF IInv
<1>11. Stays
  <2>1. \A k \in MailIds : InMail(k) \subseteq InMail(k)' \/ k \in deleted
    BY <1>4, <1>5, <1>6 DEF InMail, Doomed
  <2>2. QED
    BY <2>1, StaysInMail
<1>12. QED
  BY <1>8, <1>9, <1>10, <1>11 DEF IInv

LEMMA TakeItemKeeps ==
    ASSUME IInv, NEW p \in Players, NEW id \in MailIds, box[p][id] # NoMail, HandleMailTakeItem(p, id)
    PROVE  IInv' /\ Stays
<1> DEFINE COD == box[p][id].cod
           pay == IF COD > 0 THEN NewId ELSE id
<1>1. PICK i \in box[p][id].items :
          /\ id \notin deleted /\ (COD > 0 => FreeIds # {})
          /\ PaysSender(p, id, i, pay)
          /\ money' = [money EXCEPT ![p] = ModifyMoney(@, -Int32(COD))]
          /\ gold' = [gold EXCEPT ![p] = money'[p]]
          /\ bag' = [bag EXCEPT ![p] = @ \cup {i}]
          /\ stored' = [stored EXCEPT ![p] = bag'[p]]
          /\ online' = online /\ loaded' = loaded
          /\ online[p]
  <2>1. online[p]
    BY DEF IInv, MailsOK, Faithful, BagsAreSaved
  <2>2. QED
    BY <2>1, ZenonT(60) DEF HandleMailTakeItem, IsOpen
<1> DEFINE mail == [box[p][id] EXCEPT !.items = @ \ {i}, !.cod = 0]
           opened == [box EXCEPT ![p][id] = mail]
           r == [row EXCEPT ![id] = Kept(mail)]
           letter == Letter(p, box[p][id].sender, COD, 0, {}, "cod payment")
           sent == IF COD > 0 THEN Delivered(opened, pay, letter) ELSE opened
           posted == IF COD > 0 THEN Posted(r, pay, letter) ELSE r
<1>2. /\ box[p][id] \in Letters /\ InMail(id) = box[p][id].items /\ box[p][id].receiver = p
      /\ box[p][id].sender \in Players /\ COD \in Int /\ i \in Items
  <2>1. box[p][id] \in Letters /\ InMail(id) = box[p][id].items
    BY CachedItems
  <2>2. box[p][id].receiver = p
    BY DEF IInv, MailsOK, Faithful
  <2>3. box[p][id].sender \in Players
    BY <2>1 DEF Letters
  <2>4. box[p][id].cod \in Int /\ box[p][id].items \in SUBSET Items
    BY <2>1, LetterFields
  <2>5. QED
    BY <1>1, <2>1, <2>2, <2>3, <2>4
<1>3. mail \in Letters /\ mail.items = box[p][id].items \ {i} /\ mail.receiver = p
  BY <1>2, ItemTakenOK
<1>5. /\ row' = Saved(IF COD > 0 THEN Posted(row, pay, letter) ELSE row, opened, p, {id})
      /\ box' = Dropped(sent, p)
  BY <1>1, ZenonT(60) DEF PaysSender
<1>6. letter \in Letters /\ letter.items = {}
  <2>1. letter = Letter(p, box[p][id].sender, COD, 0, {}, "cod payment")
    OBVIOUS
  <2>2. "cod payment" \in {"copied", "cod payment", "returned"} /\ 0 \in Int /\ {} \in SUBSET Items
    OBVIOUS
  <2> HIDE DEF letter, COD
  <2>3. Letter(p, box[p][id].sender, COD, 0, {}, "cod payment") \in Letters
    BY <1>2, <2>2, LetterOK
  <2>4. Letter(p, box[p][id].sender, COD, 0, {}, "cod payment").items = {}
    BY DEF Letter
  <2>5. QED
    BY <2>1, <2>3, <2>4
<1> HIDE DEF mail, letter, COD
<1>7. MailsOK(r, opened) /\ Kept(mail) # NoMail /\ Kept(mail).items = InMail(id) \ {i}
  BY <1>2, <1>3, OpenOK DEF IInv
<1>8. /\ \A k \in MailIds : r[k] = IF k = id THEN Kept(mail) ELSE row[k]
      /\ \A q \in Players, k \in MailIds : opened[q][k] = IF q = p /\ k = id THEN mail ELSE box[q][k]
  BY DEF IInv, MailsOK, RowsOK, CachesOK
<1> HIDE DEF r, opened
<1>9. COD > 0 => /\ pay \in MailIds /\ row[pay] = NoMail /\ r[pay] = NoMail /\ pay # id
                 /\ \A q \in Players : box[q][pay] = NoMail /\ opened[q][pay] = NoMail
  BY <1>1, <1>8, NewIdFree
<1> HIDE DEF pay
<1>10. /\ MailsOK(posted, sent)
       /\ \A k \in MailIds : posted[k] = IF COD > 0 /\ k = pay THEN Kept(letter) ELSE r[k]
       /\ \A q \in Players, k \in MailIds : ~(COD > 0 /\ k = pay) => sent[q][k] = opened[q][k]
       /\ Kept(letter) # NoMail /\ Kept(letter).items = {}
  <2>1. Kept(letter) # NoMail /\ Kept(letter).items = {}
    BY <1>6, KeptOK, NoMailIsNone
  <2>2. CASE COD > 0
    BY <1>6, <1>7, <1>9, <2>1, <2>2, PostOK
  <2>3. CASE ~(COD > 0)
    BY <1>7, <2>1, <2>3
  <2>4. QED
    BY <2>2, <2>3
<1>11. \A k \in MailIds :
          (IF COD > 0 THEN Posted(row, pay, letter) ELSE row)[k]
              = IF COD > 0 /\ k = pay THEN Kept(letter) ELSE row[k]
  BY <1>6, <1>9 DEF Posted, Kept, IInv, MailsOK, RowsOK
<1> HIDE DEF sent, posted
<1>12. \A k \in Doomed(p) : k \in MailIds /\ box[p][k] # NoMail /\ k # id
  BY <1>1 DEF Doomed, Mails
<1>13. row' = [k \in MailIds |-> IF k \in Doomed(p) THEN NoMail ELSE posted[k]]
  <2>1. Kept(mail) = [opened[p][id] EXCEPT !.money = @ % UINT32]
    BY <1>8 DEF Kept
  <2>2. QED
    BY <1>5, <1>8, <1>9, <1>10, <1>11, <2>1 DEF Saved
<1>14. \A k \in Doomed(p) : sent[p][k] # NoMail
  BY <1>8, <1>9, <1>10, <1>12
<1>15. MailsOK(row, box)'
  <2>1. MailsOK([k \in MailIds |-> IF k \in Doomed(p) THEN NoMail ELSE posted[k]], Dropped(sent, p))
    BY <1>10, <1>14, DropOK
  <2>2. MailsOK(row', box')
    BY <1>5, <1>13, <2>1
  <2>3. QED
    BY <1>1, <2>2, MailsPrimed
<1>16. stored' = [stored EXCEPT ![p] = @ \cup {i}] /\ bag[p] = stored[p]
  BY <1>1 DEF IInv, PlayersOK, BagsAreSaved
<1>17. PlayersOK'
  <2>1. Int32(COD) \in Int
    BY <1>2, MailAssumption DEF Int32
  <2>2. money' \in [Players -> Int] /\ gold' \in [Players -> Int]
    <3>1. money' \in [Players -> Int]
      BY <1>1, <2>1, ModifyMoneyInt DEF IInv, PlayersOK
    <3>2. QED
      BY <1>1, <3>1 DEF IInv, PlayersOK
  <2>3. QED
    BY <1>1, <1>2, <1>16, <2>2 DEF IInv, PlayersOK
<1>18. BagsAreSaved'
  BY <1>1, <1>16 DEF IInv, PlayersOK, BagsAreSaved
<1>19. Apart'
  <2>1. \A k \in MailIds : InMail(k)' \subseteq IF k = id THEN InMail(id) \ {i} ELSE InMail(k)
    BY <1>7, <1>8, <1>9, <1>10, <1>13 DEF InMail
  <2>2. i \in InMail(id)
    BY <1>2
  <2>3. \A q \in Players : stored'[q] = IF q = p THEN stored[p] \cup {i} ELSE stored[q]
    BY <1>16 DEF IInv, PlayersOK
  <2>4. /\ \A q \in Players : i \notin stored[q]
        /\ \A k \in MailIds \ {id} : i \notin InMail(k)
    BY <2>2 DEF IInv, Apart
  <2>5. ASSUME NEW q \in Players, NEW x \in Players, q # x PROVE stored'[q] \cap stored'[x] = {}
    BY <2>3, <2>4, <2>5 DEF IInv, Apart
  <2>6. ASSUME NEW q \in Players, NEW k \in MailIds PROVE stored'[q] \cap InMail(k)' = {}
    <3>1. stored[q] \cap InMail(k) = {}
      BY DEF IInv, Apart
    <3>2. QED
      BY <2>1, <2>3, <2>4, <3>1
  <2>7. ASSUME NEW k \in MailIds, NEW l \in MailIds, k # l PROVE InMail(k)' \cap InMail(l)' = {}
    <3>1. InMail(k) \cap InMail(l) = {}
      BY <2>7 DEF IInv, Apart
    <3>2. InMail(k)' \subseteq InMail(k) /\ InMail(l)' \subseteq InMail(l)
      BY <2>1
    <3>3. QED
      BY <3>1, <3>2
  <2>8. QED
    BY <2>5, <2>6, <2>7 DEF Apart
<1>20. Stays
  <2>1. \A k \in MailIds \ {id} : InMail(k) \subseteq InMail(k)' \/ k \in deleted
    BY <1>8, <1>9, <1>10, <1>13 DEF InMail, Doomed
  <2>2. InMail(id) \ {i} \subseteq InMail(id)' /\ i \in stored'[p]
    BY <1>7, <1>8, <1>9, <1>10, <1>12, <1>13, <1>16 DEF InMail, IInv, PlayersOK
  <2>3. QED
    BY <2>1, <2>2, StaysInMail
<1>21. QED
  BY <1>15, <1>17, <1>18, <1>19, <1>20 DEF IInv

\* The rows of p's deleted mails go; his bags are as they were saved.
LEMMA SaveKeeps ==
    ASSUME IInv, NEW p \in Players, online[p], SaveToDB(p)
    PROVE  /\ MailsOK(row', Dropped(box, p)) /\ stored' = stored
           /\ gold' = [gold EXCEPT ![p] = money[p]]
           /\ \A id \in MailIds : InMail(id)' \subseteq InMail(id)
           /\ Stays
<1>1. /\ stored' = [stored EXCEPT ![p] = bag[p]] /\ row' = Saved(row, box, p, {})
      /\ gold' = [gold EXCEPT ![p] = money[p]]
  BY DEF SaveToDB
<1>2. stored' = stored
  BY <1>1 DEF IInv, PlayersOK, BagsAreSaved
<1>3. row' = [id \in MailIds |-> IF id \in Doomed(p) THEN NoMail ELSE row[id]]
  BY <1>1 DEF Saved
<1>4. MailsOK(row', Dropped(box, p))
  <2>1. \A id \in Doomed(p) : box[p][id] # NoMail
    BY DEF Doomed, Mails
  <2>2. QED
    BY <1>3, <2>1, DropOK DEF IInv
<1>5. \A id \in MailIds : InMail(id)' \subseteq InMail(id)
  BY <1>3 DEF InMail
<1>6. Stays
  <2>1. \A id \in MailIds : InMail(id) \subseteq InMail(id)' \/ id \in deleted
    BY <1>3 DEF InMail, Doomed
  <2>2. QED
    BY <2>1, StaysInMail
<1>7. QED
  BY <1>1, <1>2, <1>4, <1>5, <1>6

LEMMA AutoSaveKeeps ==
    ASSUME IInv, NEW p \in Players, AutoSave(p)
    PROVE  IInv' /\ Stays
<1>1. /\ online[p] /\ SaveToDB(p) /\ box' = Dropped(box, p)
      /\ UNCHANGED <<online, money, bag, loaded>>
  BY DEF AutoSave
<1>2. /\ MailsOK(row', box') /\ stored' = stored /\ gold' = [gold EXCEPT ![p] = money[p]]
      /\ \A id \in MailIds : InMail(id)' \subseteq InMail(id)
      /\ Stays
  BY <1>1, SaveKeeps
<1>3. MailsOK(row, box)'
  BY <1>1, <1>2, MailsPrimed
<1>4. PlayersOK' /\ BagsAreSaved'
  BY <1>1, <1>2 DEF IInv, PlayersOK, BagsAreSaved
<1>5. Apart'
  BY <1>2, ShrinkKeepsApart DEF IInv
<1>6. QED
  BY <1>2, <1>3, <1>4, <1>5 DEF IInv

LEMMA LogoutKeeps ==
    ASSUME IInv, NEW p \in Players, LogoutPlayer(p)
    PROVE  IInv' /\ Stays
<1>1. /\ online[p] /\ SaveToDB(p)
      /\ online' = [online EXCEPT ![p] = FALSE]
      /\ money' = [money EXCEPT ![p] = 0] /\ bag' = [bag EXCEPT ![p] = {}]
      /\ loaded' = [loaded EXCEPT ![p] = FALSE]
      /\ box' = [box EXCEPT ![p] = [id \in MailIds |-> NoMail]]
  BY DEF LogoutPlayer, Emptied
<1>2. /\ MailsOK(row', Dropped(box, p)) /\ stored' = stored
      /\ gold' = [gold EXCEPT ![p] = money[p]]
      /\ \A id \in MailIds : InMail(id)' \subseteq InMail(id)
      /\ Stays
  BY <1>1, SaveKeeps
<1>3. RowsOK(row)' /\ CachesOK(box)'
  BY <1>1, <1>2 DEF IInv, MailsOK, RowsOK, CachesOK
<1>4. Faithful(row, box)'
  <2> SUFFICES ASSUME NEW q \in Players, NEW id \in MailIds, box'[q][id] # NoMail
               PROVE  loaded'[q] /\ box'[q][id].receiver = q /\ row'[id] = Kept(box'[q][id])
    BY DEF Faithful
  <2>1. q # p /\ box'[q][id] = box[q][id] /\ loaded'[q] = loaded[q]
    BY <1>1 DEF IInv, MailsOK, CachesOK, PlayersOK
  <2>2. Dropped(box, p)[q][id] = box'[q][id]
    BY <2>1 DEF Dropped, IInv, MailsOK, CachesOK
  <2>3. QED
    BY <1>2, <2>1, <2>2 DEF MailsOK, Faithful
<1>5. PlayersOK' /\ BagsAreSaved'
  BY <1>1, <1>2 DEF IInv, PlayersOK, BagsAreSaved
<1>6. Apart'
  BY <1>2, ShrinkKeepsApart DEF IInv
<1>7. QED
  BY <1>2, <1>3, <1>4, <1>5, <1>6 DEF IInv, MailsOK

LEMMA ReturnKeeps ==
    ASSUME IInv, NEW p \in Players, NEW id \in MailIds, box[p][id] # NoMail,
           HandleMailReturnToSender(p, id)
    PROVE  IInv' /\ Stays
<1> DEFINE letter == Letter(p, box[p][id].sender, box[p][id].money, 0, box[p][id].items, "returned")
           closed == [box EXCEPT ![p][id] = NoMail]
           r == [row EXCEPT ![id] = NoMail]
<1>1. box[p][id] \in Letters /\ InMail(id) = box[p][id].items
  BY CachedItems
<1>2. box[p][id].type = "normal"
  BY <1>1 DEF Letters
<1>3. /\ FreeIds # {}
      /\ row' = Posted(r, NewId, letter) /\ box' = Delivered(closed, NewId, letter)
      /\ UNCHANGED <<gold, stored, online, money, bag, loaded>>
  BY <1>2, ZenonT(60) DEF HandleMailReturnToSender
<1>4. /\ NewId \in MailIds /\ NewId # id /\ row[NewId] = NoMail
      /\ \A q \in Players : box[q][NewId] = NoMail
  BY <1>3, NewIdFree
<1>5. letter \in Letters /\ letter.items = InMail(id)
  <2>1. letter = Letter(p, box[p][id].sender, box[p][id].money, 0, box[p][id].items, "returned")
    OBVIOUS
  <2>2. box[p][id].sender \in Players
    BY <1>1 DEF Letters
  <2>3. box[p][id].money \in Int /\ box[p][id].items \in SUBSET Items
    BY <1>1, LetterFields
  <2>4. "returned" \in {"copied", "cod payment", "returned"} /\ 0 \in Int
    OBVIOUS
  <2> HIDE DEF letter
  <2>5. Letter(p, box[p][id].sender, box[p][id].money, 0, box[p][id].items, "returned") \in Letters
    BY <2>2, <2>3, <2>4, LetterOK
  <2>6. Letter(p, box[p][id].sender, box[p][id].money, 0, box[p][id].items, "returned").items
            = box[p][id].items
    BY DEF Letter
  <2>7. QED
    BY <1>1, <2>1, <2>5, <2>6
<1> HIDE DEF letter
<1>6. MailsOK(r, closed)
  <2>1. MailsOK([k \in MailIds |-> IF k \in {id} THEN NoMail ELSE row[k]],
                [box EXCEPT ![p] = [k \in MailIds |-> IF k \in {id} THEN NoMail ELSE @[k]]])
    <3> DEFINE D == {id}
    <3>1. D \in SUBSET MailIds /\ \A k \in D : box[p][k] # NoMail
      OBVIOUS
    <3>2. MailsOK(row, box)
      BY DEF IInv
    <3> HIDE DEF D
    <3>3. MailsOK([k \in MailIds |-> IF k \in D THEN NoMail ELSE row[k]],
                  [box EXCEPT ![p] = [k \in MailIds |-> IF k \in D THEN NoMail ELSE @[k]]])
      BY <3>1, <3>2, RemoveOK
    <3>4. QED
      BY <3>3 DEF D
  <2>2. r = [k \in MailIds |-> IF k \in {id} THEN NoMail ELSE row[k]]
    BY DEF IInv, MailsOK, RowsOK
  <2>3. [box[p] EXCEPT ![id] = NoMail] = [k \in MailIds |-> IF k \in {id} THEN NoMail ELSE box[p][k]]
    BY DEF IInv, MailsOK, CachesOK
  <2>4. closed = [box EXCEPT ![p] = [k \in MailIds |-> IF k \in {id} THEN NoMail ELSE @[k]]]
    BY <2>3
  <2>5. QED
    BY <2>1, <2>2, <2>4
<1>7. /\ \A k \in MailIds : r[k] = IF k = id THEN NoMail ELSE row[k]
      /\ \A q \in Players : closed[q][NewId] = NoMail
  BY <1>4 DEF IInv, MailsOK, RowsOK, CachesOK
<1> HIDE DEF r, closed
<1>8. /\ MailsOK(row', box')
      /\ \A k \in MailIds : row'[k] = IF k = NewId THEN Kept(letter) ELSE r[k]
      /\ Kept(letter) # NoMail /\ Kept(letter).items = letter.items
  <2>1. r[NewId] = NoMail
    BY <1>4, <1>7
  <2>2. QED
    BY <1>3, <1>4, <1>5, <1>6, <1>7, <2>1, PostOK
<1>9. MailsOK(row, box)'
  BY <1>3, <1>8, MailsPrimed
<1>10. PlayersOK' /\ BagsAreSaved'
  BY <1>3 DEF IInv, PlayersOK, BagsAreSaved
<1>11. Apart'
  <2>1. \A k \in MailIds :
            InMail(k)' = IF k = NewId THEN InMail(id) ELSE IF k = id THEN {} ELSE InMail(k)
    BY <1>5, <1>7, <1>8 DEF InMail
  <2>2. ASSUME NEW k \in MailIds, NEW l \in MailIds, k # l PROVE InMail(k)' \cap InMail(l)' = {}
    BY <2>1, <2>2 DEF IInv, Apart
  <2>3. ASSUME NEW q \in Players, NEW k \in MailIds PROVE stored'[q] \cap InMail(k)' = {}
    BY <1>3, <2>1 DEF IInv, Apart
  <2>4. QED
    BY <1>3, <2>2, <2>3 DEF IInv, Apart
<1>12. Stays
  <2>1. \A k \in MailIds \ {id} : InMail(k) \subseteq InMail(k)'
    BY <1>4, <1>7, <1>8 DEF InMail
  <2>2. \E k \in MailIds : InMail(id) \subseteq InMail(k)'
    BY <1>4, <1>5, <1>8 DEF InMail
  <2>3. QED
    BY <2>1, <2>2, StaysInMail
<1>13. QED
  BY <1>9, <1>10, <1>11, <1>12 DEF IInv

\* Deleting only marks; logging in and earning concern one player's memory.
LEMMA QuietKeeps ==
    ASSUME IInv, NEW p \in Players,
           (\E id \in MailIds : HandleMailDelete(p, id)) \/ Login(p) \/ Earn(p)
    PROVE  IInv' /\ Stays
<1>1. UNCHANGED <<row, gold, stored, box, loaded>>
  BY DEF HandleMailDelete, Login, Earn, database
<1>2. MailsOK(row, box)' /\ Apart' /\ Stays
  BY <1>1, ZenonT(30) DEF IInv, MailsOK, RowsOK, CachesOK, Faithful, Apart, InMail, Stays
<1>3. CASE \E id \in MailIds : HandleMailDelete(p, id)
  BY <1>1, <1>2, <1>3 DEF HandleMailDelete, IInv, PlayersOK, BagsAreSaved
<1>4. CASE Login(p)
  <2>1. /\ online' = [online EXCEPT ![p] = TRUE] /\ bag' = [bag EXCEPT ![p] = stored[p]]
        /\ money' = [money EXCEPT ![p] = gold[p]]
    BY <1>4 DEF Login
  <2>2. PlayersOK'
    BY <1>1, <2>1 DEF IInv, PlayersOK
  <2>3. BagsAreSaved'
    BY <1>1, <2>1 DEF IInv, PlayersOK, BagsAreSaved
  <2>4. QED
    BY <1>2, <2>2, <2>3 DEF IInv
<1>5. CASE Earn(p)
  <2>1. money' = [money EXCEPT ![p] = ModifyMoney(@, 1)] /\ UNCHANGED <<online, bag>>
    BY <1>5 DEF Earn
  <2>2. money' \in [Players -> Int]
    <3>1. ModifyMoney(money[p], 1) \in Int
      BY ModifyMoneyInt DEF IInv, PlayersOK
    <3>2. QED
      BY <2>1, <3>1 DEF IInv, PlayersOK
  <2>3. PlayersOK' /\ BagsAreSaved'
    BY <1>1, <2>1, <2>2 DEF IInv, PlayersOK, BagsAreSaved
  <2>4. QED
    BY <1>2, <2>3 DEF IInv
<1>6. QED
  BY <1>3, <1>4, <1>5

LEMMA CrashKeeps ==
    ASSUME IInv, Crash
    PROVE  IInv' /\ Stays
<1>1. /\ online' = [p \in Players |-> FALSE]
      /\ money' = [p \in Players |-> 0] /\ bag' = [p \in Players |-> {}]
      /\ loaded' = [p \in Players |-> FALSE]
      /\ box' = [p \in Players |-> [id \in MailIds |-> NoMail]]
      /\ UNCHANGED <<row, gold, stored>>
  BY DEF Crash, LoseMemory, database
<1>2. MailsOK(row, box)'
  BY <1>1 DEF IInv, MailsOK, RowsOK, CachesOK, Faithful
<1>3. PlayersOK' /\ BagsAreSaved' /\ Apart'
  BY <1>1 DEF IInv, PlayersOK, BagsAreSaved, Apart, InMail
<1>4. QED
  BY <1>1, <1>2, <1>3 DEF IInv, Stays

\* A mail that goes back to its sender.
LEMMA ReturnedOK ==
    ASSUME NEW mail \in Letters
    PROVE  LET back == [mail EXCEPT !.sender = mail.receiver, !.receiver = mail.sender,
                                    !.cod = 0, !.checked = "returned"]
           IN /\ back \in Letters /\ back.items = mail.items /\ back.money = mail.money
              /\ back.cod = 0
<1> DEFINE back == [mail EXCEPT !.sender = mail.receiver, !.receiver = mail.sender,
                                !.cod = 0, !.checked = "returned"]
           new == [type |-> mail.type, sender |-> mail.receiver, receiver |-> mail.sender,
                   money |-> mail.money, cod |-> 0, items |-> mail.items, checked |-> "returned"]
<1>1. back = new
  <2> DEFINE s == mail.sender
             q == mail.receiver
             R(a, b, cod, checked) ==
                 [type |-> mail.type, sender |-> a, receiver |-> b, money |-> mail.money,
                  cod |-> cod, items |-> mail.items, checked |-> checked]
  <2>1. mail = R(s, q, mail.cod, mail.checked)
    BY DEF Letters
  <2>2. back = [[[[mail EXCEPT !.sender = q] EXCEPT !.receiver = s] EXCEPT !.cod = 0]
                    EXCEPT !.checked = "returned"]
    OBVIOUS
  <2>3. /\ [R(s, q, mail.cod, mail.checked) EXCEPT !.sender = q] = R(q, q, mail.cod, mail.checked)
        /\ [R(q, q, mail.cod, mail.checked) EXCEPT !.receiver = s] = R(q, s, mail.cod, mail.checked)
        /\ [R(q, s, mail.cod, mail.checked) EXCEPT !.cod = 0] = R(q, s, 0, mail.checked)
        /\ [R(q, s, 0, mail.checked) EXCEPT !.checked = "returned"] = R(q, s, 0, "returned")
    OBVIOUS
  <2> HIDE DEF s, q, R
  <2>4. [mail EXCEPT !.sender = q] = R(q, q, mail.cod, mail.checked)
    BY <2>1, <2>3, Zenon
  <2>5. [[mail EXCEPT !.sender = q] EXCEPT !.receiver = s] = R(q, s, mail.cod, mail.checked)
    BY <2>3, <2>4, Zenon
  <2>6. [[[mail EXCEPT !.sender = q] EXCEPT !.receiver = s] EXCEPT !.cod = 0] = R(q, s, 0, mail.checked)
    BY <2>3, <2>5, Zenon
  <2>7. back = R(q, s, 0, "returned")
    BY <2>2, <2>3, <2>6, Zenon
  <2>8. QED
    BY <2>7 DEF s, q, R
<1>2. /\ mail.type \in {"normal"} /\ mail.sender \in Players /\ mail.receiver \in Players
  BY DEF Letters
<1>3. mail.money \in Int /\ 0 \in Int /\ mail.items \in SUBSET Items
  BY LetterFields
<1>4. "returned" \in {"copied", "cod payment", "returned"}
  OBVIOUS
<1>5. new \in Letters
  BY <1>2, <1>3, <1>4, Zenon DEF Letters
<1>6. new.items = mail.items /\ new.money = mail.money /\ new.cod = 0
  OBVIOUS
<1>7. QED
  BY <1>1, <1>5, <1>6

\* No cached mail expires: its receiver has his mailbox open.
LEMMA ExpireKeeps ==
    ASSUME IInv, NEW E \in SUBSET Mails(row), ReturnOrDeleteOldMails(E)
    PROVE  IInv' /\ Stays
<1> DEFINE kept == {id \in E : row[id] # NoMail /\ loaded[row[id].receiver]}
           returned == {id \in E \ kept : /\ row[id].items # {} /\ row[id].type = "normal"
                                          /\ row[id].checked \notin {"returned", "cod payment"}}
           dead == E \ (kept \cup returned)
           Back(mail) == [mail EXCEPT !.sender = mail.receiver, !.receiver = mail.sender,
                                      !.cod = 0, !.checked = "returned"]
<1>1. /\ row' = [id \in MailIds |-> IF id \in returned THEN Back(row[id])
                                    ELSE IF id \in dead THEN NoMail ELSE row[id]]
      /\ UNCHANGED <<gold, stored, memory>>
  BY ZenonT(60) DEF ReturnOrDeleteOldMails
<1>2. UNCHANGED <<online, money, bag, loaded, box>>
  BY <1>1 DEF memory
<1>3. \A id \in E : id \in MailIds /\ row[id] # NoMail /\ row[id] \in Letters
  BY DEF Mails, IInv, MailsOK, RowsOK
<1>4. \A id \in returned \cup dead : id \in E /\ ~loaded[row[id].receiver]
  BY <1>3
<1>5. \A id \in returned : id \in E
  OBVIOUS
<1> HIDE DEF kept, returned, dead
<1>6. \A id \in returned : /\ Back(row[id]) \in Letters
                           /\ Back(row[id]).items = row[id].items
                           /\ Back(row[id]).money = row[id].money
  BY <1>3, <1>5, ReturnedOK
<1> HIDE DEF Back
<1>7. RowsOK(row)' /\ CachesOK(box)'
  <2>1. CachesOK(box)'
    BY <1>2 DEF IInv, MailsOK, CachesOK
  <2>2. \A id \in MailIds : /\ row'[id] \in Letters \cup {NoMail}
                            /\ row'[id] # NoMail => row'[id].money \in 0..(UINT32 - 1)
    BY <1>1, <1>3, <1>5, <1>6 DEF IInv, MailsOK, RowsOK
  <2>3. row' \in [MailIds -> Letters \cup {NoMail}]
    BY <1>1, <2>2
  <2>4. QED
    BY <2>1, <2>2, <2>3 DEF RowsOK
<1>8. Faithful(row, box)'
  <2> SUFFICES ASSUME NEW p \in Players, NEW id \in MailIds, box[p][id] # NoMail
               PROVE  loaded[p] /\ box[p][id].receiver = p /\ row'[id] = Kept(box[p][id])
    BY <1>2 DEF Faithful
  <2>1. loaded[p] /\ box[p][id].receiver = p /\ row[id] = Kept(box[p][id])
    BY DEF IInv, MailsOK, Faithful
  <2>2. row[id].receiver = p
    BY <2>1, CachedItems, KeptOK
  <2>3. id \notin returned \cup dead
    BY <1>4, <2>1, <2>2
  <2>4. QED
    BY <1>1, <2>1, <2>3
<1>9. PlayersOK' /\ BagsAreSaved'
  BY <1>1, <1>2 DEF IInv, PlayersOK, BagsAreSaved
<1>10. Apart'
  <2>1. \A id \in MailIds : InMail(id)' \subseteq InMail(id)
    BY <1>1, <1>3, <1>5, <1>6 DEF InMail
  <2>2. QED
    BY <1>1, <2>1, ShrinkKeepsApart DEF IInv
<1>11. Stays
  <2>1. \A id \in MailIds \ dead : InMail(id) \subseteq InMail(id)'
    BY <1>1, <1>3, <1>5, <1>6, NoMailIsNone DEF InMail
  <2>2. \A id \in dead :
            InMail(id) = {} \/ row[id].type # "normal" \/ row[id].checked \in {"returned", "cod payment"}
    BY <1>3 DEF dead, returned, InMail
  <2>3. QED
    BY <2>1, <2>2 DEF Stays, InMail
<1>12. QED
  BY <1>7, <1>8, <1>9, <1>10, <1>11 DEF IInv, MailsOK

LEMMA StepKeeps == IInv /\ [Next]_vars => IInv' /\ Stays
<1> SUFFICES ASSUME IInv, [Next]_vars PROVE IInv' /\ Stays
  OBVIOUS
<1>1. ASSUME NEW p \in Players, MailHandlers(p) PROVE IInv' /\ Stays
  <2>1. CASE \E q \in Players : HandleSendMail(p, q)
    BY <2>1, SendKeeps
  <2>2. CASE LoadMail(p)
    BY <2>2, LoadKeeps
  <2>3. ASSUME NEW id \in Mails(box[p]),
               \/ HandleMailTakeItem(p, id) \/ HandleMailTakeMoney(p, id)
               \/ HandleMailDelete(p, id) \/ HandleMailReturnToSender(p, id)
        PROVE  IInv' /\ Stays
    <3>1. id \in MailIds /\ box[p][id] # NoMail
      BY DEF Mails
    <3>2. QED
      BY <2>3, <3>1, TakeItemKeeps, TakeMoneyKeeps, QuietKeeps, ReturnKeeps
  <2>4. QED
    BY <1>1, <2>1, <2>2, <2>3 DEF MailHandlers
<1>2. ASSUME NEW p \in Players, Sessions(p) PROVE IInv' /\ Stays
  BY <1>2, AutoSaveKeeps, LogoutKeeps, QuietKeeps DEF Sessions
<1>3. ASSUME NEW E \in SUBSET Mails(row), ReturnOrDeleteOldMails(E) PROVE IInv' /\ Stays
  BY <1>3, ExpireKeeps
<1>4. CASE Crash
  BY <1>4, CrashKeeps
<1>5. CASE UNCHANGED vars
  <2>1. UNCHANGED <<row, gold, stored, online, money, bag, loaded, box, deleted>>
    BY <1>5 DEF vars, database, memory
  <2>2. IInv'
    BY <2>1 DEF IInv, MailsOK, RowsOK, CachesOK, Faithful, PlayersOK, BagsAreSaved, Apart, InMail
  <2>3. Stays
    BY <2>1 DEF Stays
  <2>4. QED
    BY <2>2, <2>3
<1>6. QED
  BY <1>1, <1>2, <1>3, <1>4, <1>5 DEF Next

------------------------------------------------------------------------------
(* What follows.                                                            *)

LEMMA AtMostOne ==
    ASSUME NEW S, \A x, y \in S : x = y
    PROVE  Cardinality(S) <= 1
<1>1. CASE S = {}
  BY <1>1, FS_EmptySet
<1>2. CASE S # {}
  <2>1. PICK x \in S : S = {x}
    BY <1>2
  <2>2. QED
    BY <2>1, FS_Singleton
<1>3. QED
  BY <1>1, <1>2

LEMMA OnePlaceEach == IInv => ItemsAreNotCopied
<1> SUFFICES ASSUME IInv, NEW i \in Items PROVE OnePlace(i)
  BY DEF ItemsAreNotCopied
<1>1. \A p \in Players : Has(p) = stored[p]
  BY DEF IInv, BagsAreSaved, Has
<1>2. \A id \in Mails(row) : id \in MailIds /\ (i \in row[id].items => i \in InMail(id))
  BY DEF Mails, InMail
<1>3. \A id \in Mails(Current) : id \in MailIds /\ (i \in Current[id].items => i \in InMail(id))
  <2> SUFFICES ASSUME NEW id \in MailIds, Current[id] # NoMail, i \in Current[id].items
               PROVE  i \in InMail(id)
    BY DEF Mails
  <2>1. CASE id \in Cached
    <3> DEFINE p == CHOOSE q \in Players : id \in Mails(box[q])
    <3>1. p \in Players /\ id \in Mails(box[p])
      BY <2>1 DEF Cached
    <3>2. Current[id] = box[p][id]
      BY <2>1 DEF Current
    <3> HIDE DEF p
    <3>3. QED
      BY <3>1, <3>2, CachedItems DEF Mails
  <2>2. CASE id \notin Cached
    BY <2>2 DEF Current, InMail
  <2>3. QED
    BY <2>1, <2>2
<1> DEFINE Holders(S) == {p \in Players : i \in S[p]}
<1>4. ASSUME NEW M, \A id \in M : id \in MailIds /\ i \in InMail(id)
      PROVE  Cardinality({p \in Players : i \in stored[p]} \cup M) <= 1
  <2>1. \A x, y \in {p \in Players : i \in stored[p]} \cup M : x = y
    BY <1>4 DEF IInv, Apart
  <2>2. QED
    BY <2>1, AtMostOne
<1>5. Cardinality({p \in Players : i \in stored[p]} \cup {id \in Mails(row) : i \in row[id].items}) <= 1
  BY <1>2, <1>4
<1>6. {p \in Players : i \in Has(p)} = {p \in Players : i \in stored[p]}
  BY <1>1
<1>7. Cardinality({p \in Players : i \in stored[p]}
                  \cup {id \in Mails(Current) : i \in Current[id].items}) <= 1
  BY <1>3, <1>4
<1>8. QED
  BY <1>5, <1>6, <1>7 DEF OnePlace

\* The inductive invariant holds in every state.
THEOREM MailStateIsConsistent == Spec => []IInv
<1>1. QED
  BY IInvInit, StepKeeps, PTL DEF Spec

\* No handler, save, crash or expiry puts an item in a second place, in the
\* game or in what a crash would leave in the database.
THEOREM ItemsInOnePlace == Spec => []ItemsAreNotCopied
<1>1. QED
  BY MailStateIsConsistent, OnePlaceEach, PTL

\* A cached mail is the mail the database has for the player who caches it,
\* but for the part of an amount that the money column cannot hold.
THEOREM CachesAreSaved == Spec => []Faithful(row, box)
<1>1. IInv => Faithful(row, box)
  BY DEF IInv, MailsOK
<1>2. QED
  BY <1>1, MailStateIsConsistent, PTL

\* An item in a mail is somewhere after every step, unless the mail was deleted
\* by its receiver or expired for the second time.
THEOREM ItemsStay == Spec => ItemsAreNotLost
<1>1. IInv /\ [Next]_vars => [Stays]_vars
  BY StepKeeps
<1>2. QED
  BY <1>1, MailStateIsConsistent, PTL DEF Spec, ItemsAreNotLost, Stays

------------------------------------------------------------------------------
(* Money.  The columns for amounts have 32 bits, and a purse holds more: what  *)
(* follows is about worlds whose money fits, and needs their supply.           *)

Supply == Purse * Cardinality(Players) + MaxEarned
AmountsFit == 2 * Supply < UINT32 /\ CODs \subseteq 0..(UINT32 - 1)

Amount(mail) == IF mail = NoMail THEN 0 ELSE mail.money
Amounts(r) == [id \in MailIds |-> Amount(r[id])]
InMails(r) == SumFunctionOnSet(Amounts(r), MailIds)

\* What is in the purses, where o are online with m in memory and g is saved.
PursesOf(o, m, g) == [p \in Players |-> IF o[p] THEN m[p] ELSE g[p]]
InPurses(o, m, g) == SumFunctionOnSet(PursesOf(o, m, g), Players)

\* What is cached fits in its column, so that it is as the database has it.
CacheFits(b) ==
    \A p \in Players, id \in MailIds : b[p][id] # NoMail => b[p][id].money \in 0..(UINT32 - 1)

DeletedCached(d, b) ==
    \A id \in d : id \in MailIds /\ \E p \in Players : b[p][id] # NoMail

PursesOK(o, m, g) ==
    /\ m \in [Players -> 0..MAX_MONEY_AMOUNT] /\ g \in [Players -> 0..MAX_MONEY_AMOUNT]
    /\ \A p \in Players : o[p] => g[p] <= m[p]

\* Every coin is in a purse or a mail.
Books ==
    /\ ledger \in Nat /\ minted \in Nat
    /\ InPurses(online, money, gold) + InMails(row) = ledger
    /\ ledger <= minted /\ minted <= Supply

\* A mail asks for its COD until an item is taken.
Bills(r, b) ==
    /\ b \in [MailIds -> [asked : Int, paid : Int, taken : BOOLEAN]]
    /\ \A id \in MailIds :
           /\ b[id].paid = IF b[id].taken THEN b[id].asked ELSE 0
           /\ r[id] # NoMail => /\ r[id].cod \in 0..(UINT32 - 1)
                                /\ r[id].cod = IF b[id].taken THEN 0 ELSE b[id].asked

Accounts ==
    /\ CacheFits(box) /\ DeletedCached(deleted, box)
    /\ PursesOK(online, money, gold) /\ Books /\ Bills(row, bill)

LEMMA SupplyNat == Supply \in Nat
<1>1. Purse \in Nat /\ MaxEarned \in Nat /\ Cardinality(Players) \in Nat
  BY MailAssumption, FS_CardinalityType
<1> DEFINE n == Cardinality(Players)
<1> HIDE DEF n
<1>2. \A m \in Nat : Purse * m \in Nat
  BY <1>1
<1>3. QED
  BY <1>1, <1>2 DEF Supply, n

LEMMA AmountNat ==
    ASSUME NEW r, RowsOK(r), NEW id \in MailIds
    PROVE  Amount(r[id]) \in Nat /\ Amounts(r)[id] = Amount(r[id])
  BY MailAssumption DEF RowsOK, Amount, Amounts

\* Mails that go take their money with them.
LEMMA MailsGone ==
    ASSUME NEW r, RowsOK(r), NEW s, NEW D \in SUBSET MailIds,
           \A id \in MailIds : Amount(s[id]) = IF id \in D THEN 0 ELSE Amount(r[id])
    PROVE  /\ InMails(s) = InMails(r) - SumFunctionOnSet(Amounts(r), D)
           /\ InMails(r) \in Nat /\ InMails(s) \in Nat /\ SumFunctionOnSet(Amounts(r), D) \in Nat
<1> DEFINE a == Amounts(r)
           b == Amounts(s)
           R == MailIds \ D
<1>1. /\ \A id \in MailIds : a[id] \in Nat /\ b[id] \in Nat
      /\ \A id \in D : b[id] = 0
      /\ \A id \in R : b[id] = a[id]
  BY AmountNat DEF Amounts
<1>2. IsFiniteSet(MailIds) /\ IsFiniteSet(D) /\ IsFiniteSet(R)
  BY MailAssumption, FS_Subset
<1> HIDE DEF a, b
<1>3. SumFunctionOnSet(a, MailIds) = SumFunctionOnSet(a, D) + SumFunctionOnSet(a, R)
  BY <1>1, <1>2, SumPart
<1>4. SumFunctionOnSet(b, MailIds) = SumFunctionOnSet(b, D) + SumFunctionOnSet(b, R)
  BY <1>1, <1>2, SumPart
<1>5. SumFunctionOnSet(b, D) = 0
  <2>1. SumFunctionOnSet(b, D) = Cardinality(D) * 0
    BY <1>1, <1>2, SumConstant
  <2>2. Cardinality(D) \in Nat
    BY <1>2, FS_CardinalityType
  <2>3. QED
    BY <2>1, <2>2
<1>6. SumFunctionOnSet(b, R) = SumFunctionOnSet(a, R)
  BY <1>1, <1>2, SumSame
<1>7. /\ SumFunctionOnSet(a, D) \in Nat /\ SumFunctionOnSet(a, R) \in Nat
      /\ SumFunctionOnSet(a, MailIds) \in Nat /\ SumFunctionOnSet(b, MailIds) \in Nat
  BY <1>1, <1>2, SumNat
<1>8. QED
  BY <1>3, <1>4, <1>5, <1>6, <1>7 DEF InMails, a, b

\* Besides, one mail x has another amount n.
LEMMA MailsChange ==
    ASSUME NEW r, RowsOK(r), NEW s, NEW D \in SUBSET MailIds, NEW x \in MailIds \ D, NEW n \in Nat,
           \A id \in MailIds :
               Amount(s[id]) = IF id \in D THEN 0 ELSE IF id = x THEN n ELSE Amount(r[id])
    PROVE  /\ InMails(s) = InMails(r) - SumFunctionOnSet(Amounts(r), D) - Amount(r[x]) + n
           /\ InMails(r) \in Nat /\ InMails(s) \in Nat /\ SumFunctionOnSet(Amounts(r), D) \in Nat
<1> DEFINE t == [id \in MailIds |-> IF id \in D THEN NoMail ELSE r[id]]
<1>1. \A id \in MailIds : Amount(t[id]) = IF id \in D THEN 0 ELSE Amount(r[id])
  BY DEF Amount
<1>2. /\ InMails(t) = InMails(r) - SumFunctionOnSet(Amounts(r), D)
      /\ InMails(r) \in Nat /\ InMails(t) \in Nat /\ SumFunctionOnSet(Amounts(r), D) \in Nat
  BY <1>1, MailsGone
<1> HIDE DEF t
<1> DEFINE a == Amounts(t)
           b == Amounts(s)
<1>3. /\ \A id \in MailIds : a[id] \in Nat /\ b[id] \in Nat
      /\ a[x] = Amount(r[x]) /\ b[x] = n
      /\ \A id \in MailIds \ {x} : b[id] = a[id]
  BY <1>1, AmountNat DEF Amounts
<1>4. IsFiniteSet(MailIds) /\ x \in MailIds
  BY MailAssumption
<1> HIDE DEF a, b
<1>5. SumFunctionOnSet(b, MailIds) = SumFunctionOnSet(a, MailIds) - a[x] + b[x]
  BY <1>3, <1>4, SumChange
<1>6. SumFunctionOnSet(b, MailIds) \in Nat
  BY <1>3, <1>4, SumNat
<1>7. QED
  BY <1>2, <1>3, <1>5, <1>6 DEF InMails, a, b

\* One purse changes.
LEMMA PurseChange ==
    ASSUME NEW a, NEW b, NEW p \in Players, \A q \in Players : a[q] \in Nat /\ b[q] \in Nat,
           \A q \in Players \ {p} : b[q] = a[q]
    PROVE  /\ SumFunctionOnSet(b, Players) = SumFunctionOnSet(a, Players) - a[p] + b[p]
           /\ SumFunctionOnSet(a, Players) \in Nat /\ SumFunctionOnSet(b, Players) \in Nat
<1>1. IsFiniteSet(Players)
  BY MailAssumption
<1>2. SumFunctionOnSet(b, Players) = SumFunctionOnSet(a, Players) - a[p] + b[p]
  BY <1>1, SumChange
<1>3. SumFunctionOnSet(a, Players) \in Nat /\ SumFunctionOnSet(b, Players) \in Nat
  BY <1>1, SumNat
<1>4. QED
  BY <1>2, <1>3

\* Each purse and each mail is a part of the ledger, which is at most the supply.
LEMMA PartsOfLedger ==
    ASSUME RowsOK(row), PursesOK(online, money, gold), online \in [Players -> BOOLEAN], Books
    PROVE  /\ \A p \in Players : PursesOf(online, money, gold)[p] \in Nat
           /\ \A p \in Players : PursesOf(online, money, gold)[p] <= Supply
           /\ \A id \in MailIds : Amount(row[id]) <= Supply
           /\ InPurses(online, money, gold) \in Nat /\ InMails(row) \in Nat
<1> DEFINE a == PursesOf(online, money, gold)
           b == Amounts(row)
<1>1. \A p \in Players : a[p] \in Nat
  BY MailAssumption DEF PursesOf, PursesOK
<1>2. \A id \in MailIds : b[id] \in Nat /\ b[id] = Amount(row[id])
  BY AmountNat
<1>3. IsFiniteSet(Players) /\ IsFiniteSet(MailIds)
  BY MailAssumption
<1> HIDE DEF a, b
<1>4. \A p \in Players : a[p] <= SumFunctionOnSet(a, Players)
  BY <1>1, <1>3, SumBound
<1>5. \A id \in MailIds : b[id] <= SumFunctionOnSet(b, MailIds)
  BY <1>2, <1>3, SumBound
<1>6. SumFunctionOnSet(a, Players) \in Nat /\ SumFunctionOnSet(b, MailIds) \in Nat
  BY <1>1, <1>2, <1>3, SumNat
<1>7. InPurses(online, money, gold) = SumFunctionOnSet(a, Players) /\ InMails(row) = SumFunctionOnSet(b, MailIds)
  BY DEF InPurses, InMails, a, b
<1>8. InPurses(online, money, gold) <= Supply /\ InMails(row) <= Supply
  BY <1>6, <1>7, SupplyNat DEF Books
<1>9. ASSUME NEW p \in Players PROVE a[p] <= Supply
  BY <1>1, <1>4, <1>6, <1>7, <1>8, SupplyNat
<1>10. ASSUME NEW id \in MailIds PROVE b[id] <= Supply
  BY <1>2, <1>5, <1>6, <1>7, <1>8, SupplyNat
<1>11. QED
  BY <1>1, <1>2, <1>6, <1>7, <1>9, <1>10 DEF a

\* The worth of some mails is the sum of what they hold.
LEMMA WorthIsSum ==
    ASSUME NEW f, NEW r, NEW D \in SUBSET MailIds, \A id \in D : f[id].money = Amount(r[id]) /\ Amount(r[id]) \in Nat
    PROVE  Worth(f, D) = SumFunctionOnSet(Amounts(r), D)
<1> DEFINE h == [id \in D |-> f[id].money]
           a == Amounts(r)
<1>1. SumFunction(h) = SumFunctionOnSet(h, D)
  BY DEF SumFunction, SumFunctionOnSet, FoldFunction
<1>2. IsFiniteSet(D)
  BY MailAssumption, FS_Subset
<1>3. \A id \in D : h[id] = a[id]
  BY DEF Amounts
<1> HIDE DEF h, a
<1>4. SumFunctionOnSet(h, D) = SumFunctionOnSet(a, D)
  BY <1>2, <1>3, SumSame
<1>5. QED
  BY <1>1, <1>4 DEF Worth, h, a

\* All of them.
LEMMA WorthOfMails ==
    ASSUME NEW r, \A id \in MailIds : Amount(r[id]) \in Nat
    PROVE  Worth(r, Mails(r)) = InMails(r)
<1> DEFINE D == Mails(r)
           R == MailIds \ D
           a == Amounts(r)
<1>1. D \in SUBSET MailIds /\ \A id \in D : r[id].money = Amount(r[id]) /\ Amount(r[id]) \in Nat
  BY DEF Mails, Amount
<1>2. \A id \in MailIds : a[id] \in Nat
  BY DEF Amounts
<1>3. \A id \in R : a[id] = 0
  BY DEF Mails, Amounts, Amount
<1>4. IsFiniteSet(MailIds) /\ IsFiniteSet(D) /\ IsFiniteSet(R)
  BY <1>1, MailAssumption, FS_Subset
<1> HIDE DEF D, R, a
<1>5. SumFunctionOnSet(a, MailIds) = SumFunctionOnSet(a, D) + SumFunctionOnSet(a, R)
  BY <1>1, <1>2, <1>4, SumPart DEF R
<1>6. SumFunctionOnSet(a, R) = 0
  <2>1. SumFunctionOnSet(a, R) = Cardinality(R) * 0
    BY <1>3, <1>4, SumConstant
  <2>2. Cardinality(R) \in Nat
    BY <1>4, FS_CardinalityType
  <2>3. QED
    BY <2>1, <2>2
<1>7. SumFunctionOnSet(a, D) \in Nat
  BY <1>1, <1>2, <1>4, SumNat
<1>8. Worth(r, D) = SumFunctionOnSet(a, D)
  BY <1>1, WorthIsSum DEF a
<1>9. QED
  BY <1>5, <1>6, <1>7, <1>8 DEF InMails, D, a

LEMMA WorthOfAll ==
    ASSUME NEW r, RowsOK(r)
    PROVE  Worth(r, Mails(r)) = InMails(r)
  BY AmountNat, WorthOfMails

\* What ModifyMoney does within its limits.
LEMMA Pays ==
    ASSUME NEW m \in Nat, NEW n \in Nat, n <= m
    PROVE  ModifyMoney(m, -n) = m - n
  BY MailAssumption DEF ModifyMoney

LEMMA Gains ==
    ASSUME NEW m \in Nat, NEW n \in Nat, n > 0 => m < MAX_MONEY_AMOUNT - n
    PROVE  ModifyMoney(m, n) = m + n
  BY MailAssumption DEF ModifyMoney


------------------------------------------------------------------------------
(* The accounts, action by action.                                          *)

LEMMA AccountsPrimed ==
    ASSUME CacheFits(box'), DeletedCached(deleted', box'), PursesOK(online', money', gold'),
           Bills(row', bill'), ledger' \in Nat, minted' \in Nat,
           InPurses(online', money', gold') + InMails(row') = ledger',
           ledger' <= minted', minted' <= Supply
    PROVE  Accounts'
  BY DEF Accounts, Books, CacheFits, DeletedCached, PursesOK, Bills, InPurses, PursesOf, InMails,
         Amounts, Amount

\* A cached mail whose money fits is its row.
LEMMA Exact ==
    ASSUME NEW r, NEW b, MailsOK(r, b), CacheFits(b), NEW p \in Players, NEW id \in MailIds,
           b[p][id] # NoMail
    PROVE  b[p][id] \in Letters /\ r[id] = b[p][id] /\ b[p][id].receiver = p
<1>1. b[p][id] \in Letters /\ b[p][id].money \in 0..(UINT32 - 1)
  BY DEF MailsOK, CachesOK, CacheFits
<1>2. QED
  BY <1>1, KeptOK DEF MailsOK, Faithful

\* What goes with the mails p has deleted.
LEMMA DoomedWorth ==
    ASSUME IInv, Accounts, NEW p \in Players
    PROVE  /\ Doomed(p) \in SUBSET MailIds
           /\ Worth(box[p], Doomed(p)) = SumFunctionOnSet(Amounts(row), Doomed(p))
<1>1. Doomed(p) \in SUBSET MailIds /\ \A id \in Doomed(p) : box[p][id] # NoMail
  BY DEF Doomed, Mails
<1>2. ASSUME NEW id \in Doomed(p)
      PROVE  box[p][id].money = Amount(row[id]) /\ Amount(row[id]) \in Nat
  <2>1. row[id] = box[p][id]
    BY <1>1, Exact DEF IInv, Accounts
  <2>2. QED
    BY <1>1, <2>1, AmountNat DEF Amount, IInv, MailsOK
<1>3. QED
  BY <1>1, <1>2, WorthIsSum

\* The purse p has when he is online.
LEMMA OnlinePurse ==
    ASSUME IInv, Accounts, AmountsFit, NEW p \in Players, online[p]
    PROVE  /\ money[p] \in Nat /\ money[p] <= MAX_MONEY_AMOUNT /\ money[p] <= Supply
           /\ 2 * money[p] < UINT32
           /\ PursesOf(online, money, gold)[p] = money[p]
<1>1. money[p] \in 0..MAX_MONEY_AMOUNT /\ PursesOf(online, money, gold)[p] = money[p]
  BY DEF Accounts, PursesOK, PursesOf
<1>2. money[p] \in Nat /\ money[p] <= MAX_MONEY_AMOUNT
  BY <1>1, MailAssumption
<1>3. money[p] <= Supply
  BY <1>1, PartsOfLedger DEF IInv, MailsOK, PlayersOK, Accounts
<1>4. QED
  BY <1>1, <1>2, <1>3, SupplyNat, MailAssumption DEF AmountsFit

\* p's purse changes and is saved or not; nothing else is owned by others.
LEMMA PurseStep ==
    ASSUME IInv, Accounts, NEW p \in Players, NEW m \in 0..MAX_MONEY_AMOUNT, online[p],
           online' = online, money' = [money EXCEPT ![p] = m],
           gold' = [gold EXCEPT ![p] = m] \/ (gold' = gold /\ gold[p] <= m)
    PROVE  /\ PursesOK(online', money', gold')
           /\ InPurses(online', money', gold') = InPurses(online, money, gold) - money[p] + m
           /\ InPurses(online, money, gold) \in Nat /\ InPurses(online', money', gold') \in Nat
<1>1. PursesOK(online', money', gold')
  BY MailAssumption DEF PursesOK, Accounts
<1>2. /\ \A q \in Players : PursesOf(online, money, gold)[q] \in Nat
      /\ PursesOf(online, money, gold)[p] = money[p]
  BY MailAssumption DEF PursesOf, PursesOK, Accounts
<1>3. \A q \in Players : PursesOf(online', money', gold')[q]
                            = IF q = p THEN m ELSE PursesOf(online, money, gold)[q]
  BY DEF PursesOf, PursesOK, Accounts
<1>4. m \in Nat
  BY MailAssumption
<1> DEFINE a == PursesOf(online, money, gold)
           b == PursesOf(online', money', gold')
<1>5. /\ \A q \in Players : a[q] \in Nat /\ b[q] \in Nat
      /\ \A q \in Players \ {p} : b[q] = a[q]
      /\ a[p] = money[p] /\ b[p] = m
  BY <1>2, <1>3, <1>4
<1>6. SumFunctionOnSet(a, Players) = InPurses(online, money, gold)
  BY DEF InPurses
<1>7. SumFunctionOnSet(b, Players) = InPurses(online', money', gold')
  BY DEF InPurses
<1> HIDE DEF a, b
<1>8. /\ SumFunctionOnSet(b, Players) = SumFunctionOnSet(a, Players) - a[p] + b[p]
      /\ SumFunctionOnSet(a, Players) \in Nat /\ SumFunctionOnSet(b, Players) \in Nat
  BY <1>5, PurseChange
<1>9. QED
  BY <1>1, <1>5, <1>6, <1>7, <1>8

LEMMA SendAccounts ==
    ASSUME AmountsFit, IInv, Accounts, NEW p \in Players, NEW q \in Players, HandleSendMail(p, q)
    PROVE  Accounts'
<1> DEFINE Req(S, m) == COST * (IF S = {} THEN 1 ELSE Cardinality(S)) + m
           Cod(S, COD) == IF S = {} THEN 0 ELSE COD % UINT32
           Posting(S, m, COD) == Letter(p, q, m, Cod(S, COD), S, "copied")
           Asked(S, COD) == [NoBill EXCEPT !.asked = IF S = {} THEN 0 ELSE COD]
<1>1. PICK S \in SUBSET bag[p], m \in 0..money[p], COD \in CODs :
           /\ online[p] /\ FreeIds # {} /\ money[p] >= Req(S, m)
           /\ money' = [money EXCEPT ![p] = ModifyMoney(@, -Req(S, m))]
           /\ gold' = [gold EXCEPT ![p] = money'[p]]
           /\ row' = Posted(row, NewId, Posting(S, m, COD))
           /\ box' = Delivered(box, NewId, Posting(S, m, COD))
           /\ ledger' = ledger - (Req(S, m) - m)
           /\ bill' = [bill EXCEPT ![NewId] = Asked(S, COD)]
           /\ online' = online /\ deleted' = deleted /\ minted' = minted
  <2>1. PICK S \in SUBSET bag[p], m \in 0..money[p], COD \in CODs : SendMail(p, q, S, m, COD)
    BY DEF HandleSendMail
  <2>2. QED
    BY <2>1, Zenon DEF SendMail
<1> DEFINE req == Req(S, m)
           cod == Cod(S, COD)
           mail == Posting(S, m, COD)
           asked == Asked(S, COD)
<1>2. NewId \in MailIds /\ row[NewId] = NoMail /\ \A r \in Players : box[r][NewId] = NoMail
  BY <1>1, NewIdFree
<1>3. S \in SUBSET Items
  BY <1>1 DEF IInv, PlayersOK
<1>4. /\ money[p] \in Nat /\ money[p] <= MAX_MONEY_AMOUNT /\ money[p] <= Supply
      /\ 2 * money[p] < UINT32
      /\ PursesOf(online, money, gold)[p] = money[p]
  BY <1>1, OnlinePurse
<1>5. m \in Nat /\ m <= money[p] /\ m \in 0..(UINT32 - 1) /\ m \in Int
  BY <1>4, MailAssumption
<1>6. /\ cod \in 0..(UINT32 - 1) /\ cod \in Int
      /\ asked = [asked |-> cod, paid |-> 0, taken |-> FALSE]
  <2>1. COD \in 0..(UINT32 - 1) /\ COD % UINT32 = COD
    BY MailAssumption DEF AmountsFit
  <2>2. cod = IF S = {} THEN 0 ELSE COD
    BY <2>1
  <2>3. asked = [asked |-> cod, paid |-> 0, taken |-> FALSE]
    <3>1. asked = [NoBill EXCEPT !.asked = cod]
      BY <2>2
    <3> HIDE DEF asked, cod
    <3>2. QED
      BY <3>1 DEF NoBill
  <2>4. cod \in 0..(UINT32 - 1)
    BY <2>1, <2>2, MailAssumption
  <2> HIDE DEF asked, cod
  <2>5. QED
    BY <2>3, <2>4
<1>7. req \in Nat /\ m <= req /\ req <= money[p]
  <2>1. IsFiniteSet(S) /\ Cardinality(S) \in Nat
    BY <1>3, MailAssumption, FS_Subset, FS_CardinalityType
  <2> DEFINE n == IF S = {} THEN 1 ELSE Cardinality(S)
  <2>2. COST \in Nat /\ n \in Nat
    BY <2>1, MailAssumption
  <2> HIDE DEF n
  <2>3. COST * n \in Nat
    BY <2>2
  <2>4. req = COST * n + m /\ money[p] >= req
    BY <1>1 DEF n
  <2> HIDE DEF req
  <2>5. QED
    BY <1>4, <1>5, <2>3, <2>4
<1>8. mail \in Letters /\ mail.money = m /\ mail.cod = cod
  <2>1. mail = Letter(p, q, m, cod, S, "copied")
    OBVIOUS
  <2> HIDE DEF cod, mail
  <2>2. "copied" \in {"copied", "cod payment", "returned"}
    OBVIOUS
  <2>3. Letter(p, q, m, cod, S, "copied") \in Letters
    BY <1>3, <1>5, <1>6, <2>2, LetterOK
  <2>4. QED
    BY <2>1, <2>3 DEF Letter
<1> HIDE DEF req, mail, asked, cod
<1>9. /\ money' = [money EXCEPT ![p] = ModifyMoney(@, -req)]
      /\ row' = Posted(row, NewId, mail) /\ box' = Delivered(box, NewId, mail)
      /\ ledger' = ledger - (req - m) /\ bill' = [bill EXCEPT ![NewId] = asked]
  BY <1>1 DEF req, mail, asked
<1>10. /\ MailsOK(row', box')
       /\ \A k \in MailIds : row'[k] = IF k = NewId THEN mail ELSE row[k]
       /\ \A r \in Players, k \in MailIds \ {NewId} : box'[r][k] = box[r][k]
       /\ mail # NoMail
  BY <1>2, <1>5, <1>8, <1>9, PostOK, KeptOK DEF IInv
<1>11. CacheFits(box')
  <2> SUFFICES ASSUME NEW r \in Players, NEW k \in MailIds, box'[r][k] # NoMail
               PROVE  box'[r][k].money \in 0..(UINT32 - 1)
    BY DEF CacheFits
  <2>1. CASE k = NewId
    <3>1. box'[r][k] = mail \/ box'[r][k] = box[r][k]
      BY <1>9, <2>1 DEF Delivered, IInv, MailsOK, CachesOK
    <3>2. QED
      BY <1>2, <1>5, <1>8, <2>1, <3>1
  <2>2. CASE k # NewId
    BY <1>10, <2>2 DEF Accounts, CacheFits
  <2>3. QED
    BY <2>1, <2>2
<1>12. DeletedCached(deleted', box')
  BY <1>1, <1>2, <1>10 DEF Accounts, DeletedCached
<1>13. ModifyMoney(money[p], -req) = money[p] - req
  BY <1>4, <1>7, Pays
<1>14. money[p] - req \in 0..MAX_MONEY_AMOUNT
  BY <1>4, <1>7, MailAssumption
<1>15. /\ PursesOK(online', money', gold')
       /\ InPurses(online', money', gold') = InPurses(online, money, gold) - money[p] + (money[p] - req)
       /\ InPurses(online, money, gold) \in Nat /\ InPurses(online', money', gold') \in Nat
  <2>1. money' = [money EXCEPT ![p] = money[p] - req]
    BY <1>9, <1>13
  <2>2. money'[p] = money[p] - req
    BY <2>1 DEF Accounts, PursesOK
  <2>3. gold' = [gold EXCEPT ![p] = money[p] - req]
    BY <1>1, <2>2
  <2>4. QED
    BY <1>1, <1>14, <2>1, <2>3, PurseStep
<1>16. InMails(row') = InMails(row) + m /\ InMails(row) \in Nat /\ InMails(row') \in Nat
  <2> DEFINE D == {}
  <2>1. D \in SUBSET MailIds /\ NewId \in MailIds \ D
    BY <1>2
  <2>2. \A k \in MailIds :
            Amount(row'[k]) = IF k \in D THEN 0 ELSE IF k = NewId THEN m ELSE Amount(row[k])
    BY <1>8, <1>10 DEF Amount
  <2>3. RowsOK(row) /\ Amount(row[NewId]) = 0
    BY <1>2 DEF IInv, MailsOK, Amount
  <2>4. SumFunctionOnSet(Amounts(row), {}) = 0
    BY FS_EmptySet, SumEquations
  <2> HIDE DEF D
  <2>5. /\ InMails(row') = InMails(row) - SumFunctionOnSet(Amounts(row), D) - Amount(row[NewId]) + m
        /\ InMails(row) \in Nat /\ InMails(row') \in Nat
    BY <1>5, <2>1, <2>2, <2>3, MailsChange
  <2>6. QED
    BY <1>5, <2>3, <2>4, <2>5 DEF D
<1>17. /\ InPurses(online', money', gold') + InMails(row') = ledger'
       /\ ledger' \in Nat /\ ledger' <= minted' /\ minted' \in Nat /\ minted' <= Supply
  <2>1. /\ InPurses(online, money, gold) + InMails(row) = ledger
        /\ ledger \in Nat /\ minted \in Nat /\ ledger <= minted /\ minted <= Supply
    BY DEF Accounts, Books
  <2>2. InPurses(online', money', gold') + InMails(row') = ledger'
    BY <1>4, <1>5, <1>7, <1>9, <1>15, <1>16, <2>1
  <2>3. ledger' \in Nat
    BY <1>15, <1>16, <2>2
  <2>4. ledger' <= ledger
    BY <1>5, <1>7, <1>9, <2>1
  <2>5. QED
    BY <1>1, <2>1, <2>2, <2>3, <2>4, SupplyNat
<1>18. Bills(row', bill')
  <2>1. asked \in [asked : Int, paid : Int, taken : BOOLEAN]
    BY <1>6
  <2>2. bill' \in [MailIds -> [asked : Int, paid : Int, taken : BOOLEAN]]
    BY <1>9, <2>1 DEF Accounts, Bills
  <2>3. bill'[NewId] = asked /\ \A k \in MailIds \ {NewId} : bill'[k] = bill[k]
    BY <1>2, <1>9 DEF Accounts, Bills
  <2>4. ASSUME NEW k \in MailIds
        PROVE  /\ bill'[k].paid = IF bill'[k].taken THEN bill'[k].asked ELSE 0
               /\ row'[k] # NoMail => /\ row'[k].cod \in 0..(UINT32 - 1)
                                      /\ row'[k].cod = IF bill'[k].taken THEN 0 ELSE bill'[k].asked
    <3>1. CASE k = NewId
      BY <1>6, <1>8, <1>10, <2>3, <3>1
    <3>2. CASE k # NewId
      BY <1>10, <2>3, <3>2 DEF Accounts, Bills
    <3>3. QED
      BY <3>1, <3>2
  <2>5. QED
    BY <2>2, <2>4 DEF Bills
<1>19. QED
  BY <1>11, <1>12, <1>15, <1>17, <1>18, AccountsPrimed


\* No bill is touched, and the mails that stay ask for what they asked.
LEMMA BillsStay ==
    ASSUME Bills(row, bill), bill' = bill,
           \A k \in MailIds : row'[k] # NoMail => row[k] # NoMail /\ row'[k].cod = row[k].cod
    PROVE  Bills(row', bill')
  BY DEF Bills

\* What is deleted and not saved yet is still cached.
LEMMA DeletedDropped ==
    ASSUME NEW b, CachesOK(b), NEW p \in Players, DeletedCached(deleted, box),
           \A q \in Players, k \in MailIds : box[q][k] # NoMail => b[q][k] # NoMail
    PROVE  DeletedCached(deleted \ Doomed(p), Dropped(b, p))
<1> SUFFICES ASSUME NEW k \in deleted \ Doomed(p)
             PROVE  k \in MailIds /\ \E q \in Players : Dropped(b, p)[q][k] # NoMail
  BY DEF DeletedCached
<1>1. k \in MailIds
  BY DEF DeletedCached
<1>2. PICK q \in Players : box[q][k] # NoMail
  BY DEF DeletedCached
<1>3. q # p
  BY <1>1, <1>2 DEF Doomed, Mails
<1>4. Dropped(b, p)[q] = b[q]
  BY <1>3 DEF Dropped, CachesOK
<1>5. QED
  BY <1>1, <1>2, <1>4

LEMMA DroppedFits ==
    ASSUME NEW b, CachesOK(b), NEW p \in Players, CacheFits(b)
    PROVE  CacheFits(Dropped(b, p))
<1>1. \A q \in Players, k \in MailIds :
          Dropped(b, p)[q][k] = IF q = p /\ k \in Doomed(p) THEN NoMail ELSE b[q][k]
  BY DEF Dropped, CachesOK
<1>2. QED
  BY <1>1 DEF CacheFits

LEMMA TakeMoneyAccounts ==
    ASSUME AmountsFit, IInv, Accounts, NEW p \in Players, NEW id \in MailIds, box[p][id] # NoMail,
           HandleMailTakeMoney(p, id)
    PROVE  Accounts'
<1> DEFINE m == box[p][id].money
           mail == [box[p][id] EXCEPT !.money = 0]
           opened == [box EXCEPT ![p][id] = mail]
           D == Doomed(p)
           worth == SumFunctionOnSet(Amounts(row), D)
<1>1. /\ id \notin deleted /\ (m > 0 => money[p] < MAX_MONEY_AMOUNT - m)
      /\ money' = [money EXCEPT ![p] = ModifyMoney(@, m)]
      /\ gold' = [gold EXCEPT ![p] = money'[p]]
      /\ row' = Saved(row, opened, p, {id}) /\ box' = Dropped(opened, p)
      /\ deleted' = deleted \ D
      /\ ledger' = ledger - Worth(box[p], D)
      /\ online' = online /\ minted' = minted /\ bill' = bill
  BY DEF HandleMailTakeMoney, IsOpen
<1>2. /\ box[p][id] \in Letters /\ row[id] = box[p][id] /\ row[id] # NoMail
      /\ m = Amount(row[id]) /\ m \in Nat
  <2>1. box[p][id] \in Letters /\ row[id] = box[p][id] /\ row[id] # NoMail
    BY Exact DEF IInv, Accounts
  <2>2. m = Amount(row[id]) /\ m \in Nat
    BY <2>1, AmountNat DEF IInv, MailsOK, Amount
  <2>3. QED
    BY <2>1, <2>2
<1>3. mail \in Letters /\ mail.money = 0 /\ mail.cod = row[id].cod /\ mail # NoMail
  BY <1>2, MoneyTakenOK, NoMailIsNone
<1>4. online[p]
  BY DEF IInv, MailsOK, Faithful, BagsAreSaved
<1>5. /\ money[p] \in Nat /\ money[p] <= MAX_MONEY_AMOUNT
      /\ PursesOf(online, money, gold)[p] = money[p]
  BY <1>4, OnlinePurse
<1>6. D \in SUBSET MailIds /\ Worth(box[p], D) = worth
  BY DoomedWorth
<1>7. id \notin D
  BY <1>1 DEF Doomed
<1> HIDE DEF mail, m, D, worth
<1>8. /\ \A q \in Players, k \in MailIds : opened[q][k] = IF q = p /\ k = id THEN mail ELSE box[q][k]
      /\ CachesOK(opened)
  BY <1>3 DEF IInv, MailsOK, CachesOK
<1> HIDE DEF opened
<1>9. \A k \in MailIds : row'[k] = IF k \in D THEN NoMail ELSE IF k = id THEN mail ELSE row[k]
  <2>1. Kept(mail) = mail
    BY <1>3, KeptOK, MailAssumption
  <2>2. [opened[p][id] EXCEPT !.money = @ % UINT32] = mail
    BY <1>8, <2>1 DEF Kept
  <2>3. QED
    BY <1>1, <2>2 DEF Saved, D
<1>10. CacheFits(box')
  <2>1. CacheFits(opened)
    BY <1>3, <1>8, MailAssumption DEF Accounts, CacheFits
  <2>2. QED
    BY <1>1, <1>8, <2>1, DroppedFits
<1>11. DeletedCached(deleted', box')
  <2>1. \A q \in Players, k \in MailIds : box[q][k] # NoMail => opened[q][k] # NoMail
    BY <1>3, <1>8
  <2>2. QED
    BY <1>1, <1>8, <2>1, DeletedDropped DEF Accounts, D
<1>12. ModifyMoney(money[p], m) = money[p] + m /\ money[p] + m \in 0..MAX_MONEY_AMOUNT
  BY <1>1, <1>2, <1>5, Gains, MailAssumption
<1>13. /\ PursesOK(online', money', gold')
       /\ InPurses(online', money', gold') = InPurses(online, money, gold) - money[p] + (money[p] + m)
       /\ InPurses(online, money, gold) \in Nat /\ InPurses(online', money', gold') \in Nat
  <2>1. money' = [money EXCEPT ![p] = money[p] + m]
    BY <1>1, <1>12
  <2>2. money'[p] = money[p] + m
    BY <2>1 DEF Accounts, PursesOK
  <2>3. gold' = [gold EXCEPT ![p] = money[p] + m]
    BY <1>1, <2>2
  <2>4. QED
    BY <1>1, <1>4, <1>12, <2>1, <2>3, PurseStep
<1>14. InMails(row') = InMails(row) - worth - m + 0 /\ InMails(row) \in Nat /\ InMails(row') \in Nat /\ worth \in Nat
  <2>1. \A k \in MailIds :
            Amount(row'[k]) = IF k \in D THEN 0 ELSE IF k = id THEN 0 ELSE Amount(row[k])
    BY <1>3, <1>9 DEF Amount
  <2>2. RowsOK(row) /\ 0 \in Nat /\ id \in MailIds \ D
    BY <1>7 DEF IInv, MailsOK
  <2>3. /\ InMails(row') = InMails(row) - SumFunctionOnSet(Amounts(row), D) - Amount(row[id]) + 0
        /\ InMails(row) \in Nat /\ InMails(row') \in Nat /\ SumFunctionOnSet(Amounts(row), D) \in Nat
    BY <1>6, <2>1, <2>2, MailsChange
  <2>4. QED
    BY <1>2, <2>3 DEF worth
<1>15. /\ InPurses(online', money', gold') + InMails(row') = ledger'
       /\ ledger' \in Nat /\ ledger' <= minted' /\ minted' \in Nat /\ minted' <= Supply
  <2>1. /\ InPurses(online, money, gold) + InMails(row) = ledger
        /\ ledger \in Nat /\ minted \in Nat /\ ledger <= minted /\ minted <= Supply
    BY DEF Accounts, Books
  <2>2. InPurses(online', money', gold') + InMails(row') = ledger' /\ ledger' <= ledger
    BY <1>1, <1>2, <1>5, <1>6, <1>13, <1>14, <2>1
  <2>3. ledger' \in Nat
    BY <1>13, <1>14, <2>2
  <2>4. QED
    BY <1>1, <2>1, <2>2, <2>3, SupplyNat
<1>16. Bills(row', bill')
  <2>1. \A k \in MailIds : row'[k] # NoMail => row[k] # NoMail /\ row'[k].cod = row[k].cod
    BY <1>2, <1>3, <1>9
  <2>2. QED
    BY <1>1, <2>1, BillsStay DEF Accounts
<1>17. QED
  BY <1>10, <1>11, <1>13, <1>15, <1>16, AccountsPrimed


LEMMA TakeItemAccounts ==
    ASSUME AmountsFit, IInv, Accounts, NEW p \in Players, NEW id \in MailIds, box[p][id] # NoMail,
           HandleMailTakeItem(p, id)
    PROVE  Accounts'
<1> DEFINE COD == box[p][id].cod
           pay == IF COD > 0 THEN NewId ELSE id
           D == Doomed(p)
           worth == SumFunctionOnSet(Amounts(row), D)
<1>1. PICK i \in box[p][id].items :
          /\ id \notin deleted /\ (COD > 0 => FreeIds # {}) /\ money[p] >= COD
          /\ PaysSender(p, id, i, pay)
          /\ money' = [money EXCEPT ![p] = ModifyMoney(@, -Int32(COD))]
          /\ gold' = [gold EXCEPT ![p] = money'[p]]
          /\ deleted' = deleted \ D
          /\ ledger' = ledger - Worth(box[p], D)
          /\ bill' = [bill EXCEPT ![pay] = NoBill,
                                  ![id] = [asked |-> bill[id].asked, taken |-> TRUE,
                                           paid |-> bill[id].paid + money[p] - money'[p]]]
          /\ online' = online /\ minted' = minted
  BY ZenonT(60) DEF HandleMailTakeItem, IsOpen
<1> DEFINE mail == [box[p][id] EXCEPT !.items = @ \ {i}, !.cod = 0]
           opened == [box EXCEPT ![p][id] = mail]
           letter == Letter(p, box[p][id].sender, COD, 0, {}, "cod payment")
           sent == IF COD > 0 THEN Delivered(opened, pay, letter) ELSE opened
           posted == IF COD > 0 THEN Posted(row, pay, letter) ELSE row
<1>2. row' = Saved(posted, opened, p, {id}) /\ box' = Dropped(sent, p)
  BY <1>1, ZenonT(60) DEF PaysSender
<1>3. /\ box[p][id] \in Letters /\ row[id] = box[p][id] /\ row[id] # NoMail
      /\ box[p][id].sender \in Players
      /\ COD \in 0..(UINT32 - 1) /\ COD \in Nat /\ COD = IF bill[id].taken THEN 0 ELSE bill[id].asked
  <2>1. box[p][id] \in Letters /\ row[id] = box[p][id] /\ row[id] # NoMail
    BY Exact DEF IInv, Accounts
  <2>2. box[p][id].sender \in Players
    BY <2>1 DEF Letters
  <2>3. COD \in 0..(UINT32 - 1) /\ COD = IF bill[id].taken THEN 0 ELSE bill[id].asked
    BY <2>1 DEF Accounts, Bills
  <2>4. QED
    BY <2>1, <2>2, <2>3, MailAssumption
<1>4. online[p]
  BY DEF IInv, MailsOK, Faithful, BagsAreSaved
<1>5. /\ money[p] \in Nat /\ money[p] <= MAX_MONEY_AMOUNT /\ 2 * money[p] < UINT32
      /\ PursesOf(online, money, gold)[p] = money[p]
  BY <1>4, OnlinePurse
<1>6. COD <= money[p] /\ Int32(COD) = COD /\ COD \in Int
  BY <1>1, <1>3, <1>5, MailAssumption DEF Int32
<1>7. mail \in Letters /\ mail.money = row[id].money /\ mail.cod = 0 /\ mail # NoMail
  <2>1. mail \in Letters /\ mail.money = box[p][id].money /\ mail.cod = 0
    BY <1>3, ItemTakenOK
  <2> HIDE DEF mail
  <2>2. QED
    BY <1>3, <2>1, NoMailIsNone
<1>8. letter \in Letters /\ letter.money = COD /\ letter.cod = 0 /\ letter # NoMail
  <2>1. letter = Letter(p, box[p][id].sender, COD, 0, {}, "cod payment")
    OBVIOUS
  <2>2. "cod payment" \in {"copied", "cod payment", "returned"} /\ 0 \in Int /\ {} \in SUBSET Items
    OBVIOUS
  <2> HIDE DEF letter, COD
  <2>3. Letter(p, box[p][id].sender, COD, 0, {}, "cod payment") \in Letters
    BY <1>3, <1>6, <2>2, LetterOK
  <2>4. QED
    BY <2>1, <2>3, NoMailIsNone DEF Letter
<1>9. D \in SUBSET MailIds /\ Worth(box[p], D) = worth
  BY DoomedWorth
<1>10. \A k \in D : k \in MailIds /\ box[p][k] # NoMail /\ k # id
  BY <1>1 DEF Doomed, Mails
<1> HIDE DEF mail, letter, D, worth
<1>11. /\ \A q \in Players, k \in MailIds : opened[q][k] = IF q = p /\ k = id THEN mail ELSE box[q][k]
       /\ CachesOK(opened)
  BY <1>7 DEF IInv, MailsOK, CachesOK
<1> HIDE DEF opened
<1>12. COD > 0 => /\ pay \in MailIds /\ row[pay] = NoMail /\ pay # id /\ pay \notin D
                  /\ \A q \in Players : box[q][pay] = NoMail
  BY <1>1, <1>10, NewIdFree
<1>13. ~(COD > 0) => pay = id
  OBVIOUS
<1> HIDE DEF pay, COD
<1>14. Kept(mail) = mail /\ Kept(letter) = letter /\ mail.money \in 0..(UINT32 - 1)
  <2>1. mail.money \in 0..(UINT32 - 1)
    BY <1>3, <1>7 DEF Accounts, CacheFits
  <2>2. letter.money \in 0..(UINT32 - 1)
    BY <1>3, <1>8
  <2>3. QED
    BY <1>7, <1>8, <2>1, <2>2, KeptOK
<1>15. \A k \in MailIds : posted[k] = IF COD > 0 /\ k = pay THEN letter ELSE row[k]
  <2>1. CASE COD > 0
    BY <1>12, <1>14, <2>1 DEF Posted, Kept, IInv, MailsOK, RowsOK
  <2>2. CASE ~(COD > 0)
    BY <2>2
  <2>3. QED
    BY <2>1, <2>2
<1>16. /\ CachesOK(sent)
       /\ \A q \in Players, k \in MailIds :
              \/ sent[q][k] = opened[q][k]
              \/ COD > 0 /\ k = pay /\ sent[q][k] = letter
  <2>1. letter.receiver \in Players
    BY <1>8 DEF Letters
  <2>2. CASE COD > 0
    <3>1. pay \in MailIds
      BY <1>12, <2>2
    <3>2. QED
      BY <1>8, <1>11, <2>1, <2>2, <3>1 DEF Delivered, CachesOK
  <2>3. CASE ~(COD > 0)
    BY <1>11, <2>3
  <2>4. QED
    BY <2>2, <2>3
<1> HIDE DEF posted, sent
<1>17. \A k \in MailIds : row'[k] = IF k \in D THEN NoMail
                                    ELSE IF k = id THEN mail
                                    ELSE IF COD > 0 /\ k = pay THEN letter ELSE row[k]
  <2>1. [opened[p][id] EXCEPT !.money = @ % UINT32] = mail
    BY <1>11, <1>14 DEF Kept
  <2>2. QED
    BY <1>2, <1>15, <2>1 DEF Saved, D
<1>18. CacheFits(box')
  <2>1. CacheFits(opened)
    BY <1>11, <1>14 DEF Accounts, CacheFits
  <2>2. letter.money \in 0..(UINT32 - 1)
    BY <1>3, <1>8
  <2>3. CacheFits(sent)
    BY <1>16, <2>1, <2>2 DEF CacheFits
  <2>4. QED
    BY <1>2, <1>16, <2>3, DroppedFits
<1>19. DeletedCached(deleted', box')
  <2>1. \A q \in Players, k \in MailIds : box[q][k] # NoMail => sent[q][k] # NoMail
    BY <1>7, <1>8, <1>11, <1>16
  <2>2. QED
    BY <1>1, <1>2, <1>16, <2>1, DeletedDropped DEF Accounts, D
<1>20. ModifyMoney(money[p], -Int32(COD)) = money[p] - COD /\ money[p] - COD \in 0..MAX_MONEY_AMOUNT
  <2>1. ModifyMoney(money[p], -COD) = money[p] - COD
    BY <1>3, <1>5, <1>6, Pays
  <2>2. QED
    BY <1>3, <1>5, <1>6, <2>1, MailAssumption
<1>21. money'[p] = money[p] - COD
  BY <1>1, <1>20 DEF Accounts, PursesOK
<1>22. /\ PursesOK(online', money', gold')
       /\ InPurses(online', money', gold') = InPurses(online, money, gold) - money[p] + (money[p] - COD)
       /\ InPurses(online, money, gold) \in Nat /\ InPurses(online', money', gold') \in Nat
  <2>1. money' = [money EXCEPT ![p] = money[p] - COD]
    BY <1>1, <1>20
  <2>2. gold' = [gold EXCEPT ![p] = money[p] - COD]
    BY <1>1, <1>21
  <2>3. QED
    BY <1>1, <1>4, <1>20, <2>1, <2>2, PurseStep
<1>23. /\ InMails(row') = InMails(row) - worth + COD
       /\ InMails(row) \in Nat /\ InMails(row') \in Nat /\ worth \in Nat
  <2>1. RowsOK(row) /\ Amount(mail) = Amount(row[id]) /\ Amount(letter) = COD
    BY <1>3, <1>7, <1>8 DEF IInv, MailsOK, Amount
  <2>2. CASE COD > 0
    <3>1. pay \in MailIds \ D /\ Amount(row[pay]) = 0
      BY <1>12, <2>2 DEF Amount
    <3>2. \A k \in MailIds :
              Amount(row'[k]) = IF k \in D THEN 0 ELSE IF k = pay THEN COD ELSE Amount(row[k])
      BY <1>10, <1>12, <1>17, <2>1, <2>2 DEF Amount
    <3>3. /\ InMails(row') = InMails(row) - SumFunctionOnSet(Amounts(row), D) - Amount(row[pay]) + COD
          /\ InMails(row) \in Nat /\ InMails(row') \in Nat /\ SumFunctionOnSet(Amounts(row), D) \in Nat
      <4>1. COD \in Nat /\ RowsOK(row)
        BY <1>3, <2>1
      <4> HIDE DEF D
      <4>2. QED
        BY <1>9, <3>1, <3>2, <4>1, MailsChange
    <3>4. QED
      BY <1>3, <3>1, <3>3 DEF worth
  <2>3. CASE ~(COD > 0)
    <3>1. \A k \in MailIds : Amount(row'[k]) = IF k \in D THEN 0 ELSE Amount(row[k])
      BY <1>17, <2>1, <2>3 DEF Amount
    <3>2. /\ InMails(row') = InMails(row) - SumFunctionOnSet(Amounts(row), D)
          /\ InMails(row) \in Nat /\ InMails(row') \in Nat /\ SumFunctionOnSet(Amounts(row), D) \in Nat
      BY <1>9, <2>1, <3>1, MailsGone
    <3>3. QED
      BY <1>3, <2>3, <3>2 DEF worth
  <2>4. QED
    BY <2>2, <2>3
<1>24. /\ InPurses(online', money', gold') + InMails(row') = ledger'
       /\ ledger' \in Nat /\ ledger' <= minted' /\ minted' \in Nat /\ minted' <= Supply
  <2>1. /\ InPurses(online, money, gold) + InMails(row) = ledger
        /\ ledger \in Nat /\ minted \in Nat /\ ledger <= minted /\ minted <= Supply
    BY DEF Accounts, Books
  <2>2. InPurses(online', money', gold') + InMails(row') = ledger' /\ ledger' <= ledger
    BY <1>1, <1>3, <1>5, <1>9, <1>22, <1>23, <2>1
  <2>3. ledger' \in Nat
    BY <1>22, <1>23, <2>2
  <2>4. QED
    BY <1>1, <2>1, <2>2, <2>3, SupplyNat
<1>25. Bills(row', bill')
  <2> DEFINE T == [asked : Int, paid : Int, taken : BOOLEAN]
             old == bill[id]
             new == [asked |-> old.asked, taken |-> TRUE, paid |-> old.paid + money[p] - money'[p]]
  <2>1. bill \in [MailIds -> T] /\ old \in T
    BY DEF Accounts, Bills
  <2>2. old.paid + money[p] - money'[p] = old.paid + COD /\ old.paid + COD \in Int
    BY <1>3, <1>5, <1>21, <2>1
  <2>3. new \in T /\ NoBill \in T
    BY <2>1, <2>2 DEF NoBill
  <2>4. new.taken /\ new.paid = new.asked
    <3>1. old.paid + COD = old.asked
      BY <1>3, <2>1 DEF Accounts, Bills
    <3>2. QED
      BY <2>2, <3>1
  <2>5. bill' = [[bill EXCEPT ![pay] = NoBill] EXCEPT ![id] = new]
    BY <1>1
  <2> HIDE DEF T, new
  <2>6. pay \in MailIds
    BY <1>12, <1>13
  <2>7. bill' \in [MailIds -> T]
    BY <2>1, <2>3, <2>5
  <2>8. \A k \in MailIds : bill'[k] = IF COD > 0 /\ k = pay THEN NoBill ELSE IF k = id THEN new ELSE bill[k]
    BY <1>12, <1>13, <2>1, <2>5, <2>6
  <2>9. ASSUME NEW k \in MailIds
        PROVE  /\ bill'[k].paid = IF bill'[k].taken THEN bill'[k].asked ELSE 0
               /\ row'[k] # NoMail => /\ row'[k].cod \in 0..(UINT32 - 1)
                                      /\ row'[k].cod = IF bill'[k].taken THEN 0 ELSE bill'[k].asked
    <3>1. CASE COD > 0 /\ k = pay
      <4>1. bill'[k] = NoBill /\ row'[k] = letter
        BY <1>12, <1>17, <2>8, <3>1
      <4>2. QED
        BY <1>8, <4>1, MailAssumption DEF NoBill
    <3>2. CASE k = id
      <4>1. bill'[k] = new /\ row'[k] = mail
        BY <1>10, <1>12, <1>17, <2>8, <3>2
      <4>2. QED
        BY <1>7, <2>4, <4>1, MailAssumption
    <3>3. CASE ~(COD > 0 /\ k = pay) /\ k # id
      <4>1. bill'[k] = bill[k] /\ row'[k] \in {NoMail, row[k]}
        BY <1>17, <2>8, <3>3
      <4>2. QED
        BY <4>1 DEF Accounts, Bills
    <3>4. QED
      BY <3>1, <3>2, <3>3
  <2>10. QED
    BY <2>7, <2>9 DEF Bills, T
<1>26. QED
  BY <1>18, <1>19, <1>22, <1>24, <1>25, AccountsPrimed


LEMMA ReturnAccounts ==
    ASSUME AmountsFit, IInv, Accounts, NEW p \in Players, NEW id \in MailIds, box[p][id] # NoMail,
           HandleMailReturnToSender(p, id)
    PROVE  Accounts'
<1> DEFINE m == box[p][id].money
           letter == Letter(p, box[p][id].sender, m, 0, box[p][id].items, "returned")
           closed == [box EXCEPT ![p][id] = NoMail]
           r == [row EXCEPT ![id] = NoMail]
<1>1. /\ box[p][id] \in Letters /\ row[id] = box[p][id] /\ row[id] # NoMail
      /\ m = Amount(row[id]) /\ m \in Nat /\ m \in 0..(UINT32 - 1)
  <2>1. box[p][id] \in Letters /\ row[id] = box[p][id] /\ row[id] # NoMail
    BY Exact DEF IInv, Accounts
  <2>2. m = Amount(row[id]) /\ m \in Nat
    BY <2>1, AmountNat DEF IInv, MailsOK, Amount
  <2>3. m \in 0..(UINT32 - 1)
    BY DEF Accounts, CacheFits
  <2>4. QED
    BY <2>1, <2>2, <2>3
<1>2. box[p][id].type = "normal" /\ box[p][id].sender \in Players /\ box[p][id].items \in SUBSET Items
  BY <1>1 DEF Letters
<1>3. /\ FreeIds # {} /\ id \notin deleted
      /\ row' = Posted(r, NewId, letter) /\ box' = Delivered(closed, NewId, letter)
      /\ bill' = [bill EXCEPT ![NewId] = NoBill]
      /\ ledger' = ledger /\ UNCHANGED <<gold, online, money, deleted, minted>>
  BY <1>2, ZenonT(60) DEF HandleMailReturnToSender, IsOpen
<1>4. /\ NewId \in MailIds /\ NewId # id /\ row[NewId] = NoMail
      /\ \A q \in Players : box[q][NewId] = NoMail
  BY <1>1, <1>3, NewIdFree
<1>5. letter \in Letters /\ letter.money = m /\ letter.cod = 0 /\ letter # NoMail
  <2>1. letter = Letter(p, box[p][id].sender, m, 0, box[p][id].items, "returned")
    OBVIOUS
  <2>2. "returned" \in {"copied", "cod payment", "returned"} /\ 0 \in Int /\ m \in Int
    BY <1>1
  <2> HIDE DEF letter, m
  <2>3. Letter(p, box[p][id].sender, m, 0, box[p][id].items, "returned") \in Letters
    BY <1>2, <2>2, LetterOK
  <2>4. QED
    BY <2>1, <2>3, NoMailIsNone DEF Letter
<1> HIDE DEF letter, m
<1>6. Kept(letter) = letter
  BY <1>1, <1>5, KeptOK
<1>7. \A k \in MailIds : row'[k] = IF k = NewId THEN letter ELSE IF k = id THEN NoMail ELSE row[k]
  BY <1>3, <1>4, <1>6 DEF Posted, Kept, IInv, MailsOK, RowsOK
<1>8. \A q \in Players, k \in MailIds : closed[q][k] = IF q = p /\ k = id THEN NoMail ELSE box[q][k]
  BY DEF IInv, MailsOK, CachesOK
<1>9. CachesOK(closed)
  BY DEF IInv, MailsOK, CachesOK
<1> HIDE DEF closed, r
<1>10. \A q \in Players, k \in MailIds :
           \/ box'[q][k] = closed[q][k]
           \/ k = NewId /\ box'[q][k] = letter
  <2>1. letter.receiver \in Players
    BY <1>5 DEF Letters
  <2>2. QED
    BY <1>3, <1>4, <1>9, <2>1 DEF Delivered, CachesOK
<1>11. CacheFits(box')
  BY <1>1, <1>5, <1>8, <1>10 DEF Accounts, CacheFits
<1>12. DeletedCached(deleted', box')
  BY <1>3, <1>5, <1>8, <1>10 DEF Accounts, DeletedCached
<1>13. InMails(row') = InMails(row) /\ InMails(row') \in Nat
  <2> DEFINE D == {id}
  <2>1. D \in SUBSET MailIds /\ NewId \in MailIds \ D
    BY <1>4
  <2>2. \A k \in MailIds :
            Amount(row'[k]) = IF k \in D THEN 0 ELSE IF k = NewId THEN m ELSE Amount(row[k])
    BY <1>4, <1>5, <1>7 DEF Amount
  <2>3. RowsOK(row) /\ Amount(row[NewId]) = 0
    BY <1>4 DEF IInv, MailsOK, Amount
  <2>4. SumFunctionOnSet(Amounts(row), D) = m
    <3> DEFINE a == Amounts(row)
    <3>1. IsFiniteSet(D) /\ Cardinality(D) = 1
      BY FS_Singleton
    <3>2. \A k \in D : a[k] = m
      BY <1>1, <2>3, AmountNat
    <3> HIDE DEF D, a
    <3>3. SumFunctionOnSet(a, D) = Cardinality(D) * m
      BY <1>1, <3>1, <3>2, SumConstant
    <3>4. QED
      BY <1>1, <3>1, <3>3 DEF a
  <2> HIDE DEF D
  <2>5. /\ InMails(row') = InMails(row) - SumFunctionOnSet(Amounts(row), D) - Amount(row[NewId]) + m
        /\ InMails(row) \in Nat /\ InMails(row') \in Nat
    <3>1. m \in Nat /\ RowsOK(row) /\ NewId \in MailIds \ D
      BY <1>1, <2>1, <2>3
    <3>2. PICK s, x : s = row' /\ x = NewId
      OBVIOUS
    <3>3. \A k \in MailIds :
              Amount(s[k]) = IF k \in D THEN 0 ELSE IF k = x THEN m ELSE Amount(row[k])
      BY <2>2, <3>2
    <3>4. /\ InMails(s) = InMails(row) - SumFunctionOnSet(Amounts(row), D) - Amount(row[x]) + m
          /\ InMails(row) \in Nat /\ InMails(s) \in Nat
      <4>1. RowsOK(row) /\ D \in SUBSET MailIds /\ x \in MailIds \ D /\ m \in Nat
        BY <2>1, <3>1, <3>2
      <4>2. QED
        BY <3>3, <4>1, MailsChange, SMTT(60)
    <3>5. QED
      BY <3>2, <3>4
  <2>6. QED
    BY <1>1, <2>3, <2>4, <2>5
<1>14. Bills(row', bill')
  <2> DEFINE T == [asked : Int, paid : Int, taken : BOOLEAN]
  <2>1. NoBill \in T
    BY DEF NoBill
  <2>2. bill' \in [MailIds -> T] /\ \A k \in MailIds : bill'[k] = IF k = NewId THEN NoBill ELSE bill[k]
    BY <1>3, <1>4, <2>1 DEF Accounts, Bills
  <2>3. ASSUME NEW k \in MailIds
        PROVE  /\ bill'[k].paid = IF bill'[k].taken THEN bill'[k].asked ELSE 0
               /\ row'[k] # NoMail => /\ row'[k].cod \in 0..(UINT32 - 1)
                                      /\ row'[k].cod = IF bill'[k].taken THEN 0 ELSE bill'[k].asked
    <3>1. CASE k = NewId
      BY <1>5, <1>7, <2>2, <3>1, MailAssumption DEF NoBill
    <3>2. CASE k # NewId
      BY <1>7, <2>2, <3>2 DEF Accounts, Bills
    <3>3. QED
      BY <3>1, <3>2
  <2>4. QED
    BY <2>2, <2>3 DEF Bills
<1>15. PursesOK(online', money', gold') /\ InPurses(online', money', gold') = InPurses(online, money, gold)
  BY <1>3 DEF Accounts
<1>16. QED
  BY <1>3, <1>11, <1>12, <1>13, <1>14, <1>15, AccountsPrimed DEF Accounts, Books

\* What a save makes of the accounts of p, who is online.
LEMMA SaveAccounts ==
    ASSUME IInv, Accounts, NEW p \in Players, SaveToDB(p), minted' = minted, bill' = bill
    PROVE  /\ CacheFits(Dropped(box, p)) /\ DeletedCached(deleted', Dropped(box, p))
           /\ gold' = [gold EXCEPT ![p] = money[p]]
           /\ InMails(row') + InPurses(online, money, gold) = ledger'
           /\ InMails(row') \in Nat /\ ledger' \in Nat /\ ledger' <= minted'
           /\ Bills(row', bill')
<1> DEFINE D == Doomed(p)
           worth == SumFunctionOnSet(Amounts(row), D)
<1>1. /\ gold' = [gold EXCEPT ![p] = money[p]]
      /\ row' = Saved(row, box, p, {}) /\ deleted' = deleted \ D
      /\ ledger' = ledger - Worth(box[p], D)
  BY DEF SaveToDB
<1>2. D \in SUBSET MailIds /\ Worth(box[p], D) = worth
  BY DoomedWorth
<1> HIDE DEF D, worth
<1>3. \A k \in MailIds : row'[k] = IF k \in D THEN NoMail ELSE row[k]
  BY <1>1 DEF Saved, D
<1>4. CacheFits(Dropped(box, p)) /\ DeletedCached(deleted', Dropped(box, p))
  BY <1>1, DroppedFits, DeletedDropped DEF D, IInv, MailsOK, Accounts
<1>5. /\ InMails(row') = InMails(row) - worth
      /\ InMails(row) \in Nat /\ InMails(row') \in Nat /\ worth \in Nat
  <2>1. \A k \in MailIds : Amount(row'[k]) = IF k \in D THEN 0 ELSE Amount(row[k])
    BY <1>3 DEF Amount
  <2>2. RowsOK(row)
    BY DEF IInv, MailsOK
  <2>3. QED
    BY <1>2, <2>1, <2>2, MailsGone DEF worth
<1>6. /\ InPurses(online, money, gold) + InMails(row) = ledger
      /\ ledger \in Nat /\ minted \in Nat /\ ledger <= minted
      /\ InPurses(online, money, gold) \in Nat
  BY PartsOfLedger DEF Accounts, Books, IInv, MailsOK, PlayersOK
<1>7. /\ InMails(row') + InPurses(online, money, gold) = ledger'
      /\ ledger' \in Nat /\ ledger' <= minted'
  BY <1>1, <1>2, <1>5, <1>6
<1>8. Bills(row', bill')
  <2>1. \A k \in MailIds : row'[k] # NoMail => row[k] # NoMail /\ row'[k].cod = row[k].cod
    BY <1>3
  <2>2. QED
    BY <2>1, BillsStay DEF Accounts
<1>9. QED
  BY <1>1, <1>4, <1>5, <1>7, <1>8

\* Nobody owns more or less.
LEMMA PursesSame ==
    ASSUME \A q \in Players : PursesOf(online', money', gold')[q] = PursesOf(online, money, gold)[q]
    PROVE  InPurses(online', money', gold') = InPurses(online, money, gold)
<1> DEFINE a == PursesOf(online, money, gold)
           b == PursesOf(online', money', gold')
<1>1. \A q \in Players : b[q] = a[q]
  OBVIOUS
<1>2. IsFiniteSet(Players)
  BY MailAssumption
<1>3. SumFunctionOnSet(a, Players) = InPurses(online, money, gold)
  BY DEF InPurses
<1>4. SumFunctionOnSet(b, Players) = InPurses(online', money', gold')
  BY DEF InPurses
<1> HIDE DEF a, b
<1>5. SumFunctionOnSet(b, Players) = SumFunctionOnSet(a, Players)
  BY <1>1, <1>2, SumSame
<1>6. QED
  BY <1>3, <1>4, <1>5

\* The two parts of the ledger.
LEMMA BooksTotal ==
    ASSUME IInv, Accounts
    PROVE  InPurses(online, money, gold) \in Nat /\ InMails(row) \in Nat
  BY PartsOfLedger DEF IInv, MailsOK, PlayersOK, Accounts

LEMMA SessionAccounts ==
    ASSUME IInv, Accounts, NEW p \in Players, AutoSave(p) \/ LogoutPlayer(p) \/ Login(p) \/ Earn(p)
    PROVE  Accounts'
<1>1. CASE AutoSave(p)
  <2>1. /\ online[p] /\ SaveToDB(p) /\ box' = Dropped(box, p)
        /\ online' = online /\ money' = money /\ minted' = minted /\ bill' = bill
    BY <1>1 DEF AutoSave
  <2>2. /\ CacheFits(box') /\ DeletedCached(deleted', box') /\ Bills(row', bill')
        /\ gold' = [gold EXCEPT ![p] = money[p]]
        /\ InMails(row') + InPurses(online, money, gold) = ledger'
        /\ ledger' \in Nat /\ ledger' <= minted'
    BY <2>1, SaveAccounts
  <2>3. \A q \in Players : PursesOf(online', money', gold')[q] = PursesOf(online, money, gold)[q]
    BY <2>1, <2>2 DEF PursesOf, Accounts, PursesOK
  <2>4. PursesOK(online', money', gold')
    BY <2>1, <2>2, MailAssumption DEF Accounts, PursesOK
  <2>5. InPurses(online', money', gold') + InMails(row') = ledger'
    <3>1. InPurses(online', money', gold') = InPurses(online, money, gold)
      BY <2>3, PursesSame
    <3>2. InPurses(online, money, gold) \in Nat /\ InMails(row') \in Nat
      BY <2>1, BooksTotal, SaveAccounts
    <3>3. QED
      BY <2>2, <3>1, <3>2
  <2>6. minted' \in Nat /\ minted' <= Supply
    BY <2>1 DEF Accounts, Books
  <2>7. QED
    BY <2>2, <2>4, <2>5, <2>6, AccountsPrimed
<1>2. CASE LogoutPlayer(p)
  <2>1. /\ online[p] /\ SaveToDB(p) /\ minted' = minted /\ bill' = bill
        /\ online' = [online EXCEPT ![p] = FALSE]
        /\ money' = [money EXCEPT ![p] = 0]
        /\ box' = [box EXCEPT ![p] = [id \in MailIds |-> NoMail]]
    BY <1>2 DEF LogoutPlayer, Emptied
  <2>2. /\ CacheFits(Dropped(box, p)) /\ DeletedCached(deleted', Dropped(box, p)) /\ Bills(row', bill')
        /\ gold' = [gold EXCEPT ![p] = money[p]] /\ deleted' = deleted \ Doomed(p)
        /\ InMails(row') + InPurses(online, money, gold) = ledger'
        /\ ledger' \in Nat /\ ledger' <= minted'
    BY <2>1, SaveAccounts DEF SaveToDB
  <2>3. \A q \in Players, k \in MailIds : box'[q][k] = IF q = p THEN NoMail ELSE box[q][k]
    BY <2>1 DEF IInv, MailsOK, CachesOK
  <2>4. CacheFits(box')
    BY <2>3 DEF Accounts, CacheFits
  <2>5. DeletedCached(deleted', box')
    <3> SUFFICES ASSUME NEW k \in deleted \ Doomed(p)
                 PROVE  k \in MailIds /\ \E q \in Players : box'[q][k] # NoMail
      BY <2>2 DEF DeletedCached
    <3>1. k \in MailIds
      BY DEF Accounts, DeletedCached
    <3>2. PICK q \in Players : box[q][k] # NoMail
      BY DEF Accounts, DeletedCached
    <3>3. q # p
      BY <3>1, <3>2 DEF Doomed, Mails
    <3>4. QED
      BY <2>3, <3>1, <3>2, <3>3
  <2>6. \A q \in Players : PursesOf(online', money', gold')[q] = PursesOf(online, money, gold)[q]
    BY <2>1, <2>2 DEF PursesOf, Accounts, PursesOK, IInv, PlayersOK
  <2>7. PursesOK(online', money', gold')
    <3>1. money' \in [Players -> 0..MAX_MONEY_AMOUNT] /\ gold' \in [Players -> 0..MAX_MONEY_AMOUNT]
      BY <2>1, <2>2, MailAssumption DEF Accounts, PursesOK
    <3>2. \A q \in Players : online'[q] => gold'[q] <= money'[q]
      BY <2>1, <2>2 DEF Accounts, PursesOK, IInv, PlayersOK
    <3>3. QED
      BY <3>1, <3>2 DEF PursesOK
  <2>8. InPurses(online', money', gold') + InMails(row') = ledger'
    <3>1. InPurses(online', money', gold') = InPurses(online, money, gold)
      BY <2>6, PursesSame
    <3>2. InPurses(online, money, gold) \in Nat /\ InMails(row') \in Nat
      BY <2>1, BooksTotal, SaveAccounts
    <3>3. QED
      BY <2>2, <3>1, <3>2
  <2>9. minted' \in Nat /\ minted' <= Supply
    BY <2>1 DEF Accounts, Books
  <2>10. QED
    BY <2>2, <2>4, <2>5, <2>7, <2>8, <2>9, AccountsPrimed
<1>3. CASE Login(p)
  <2>1. /\ ~online[p] /\ online' = [online EXCEPT ![p] = TRUE] /\ money' = [money EXCEPT ![p] = gold[p]]
        /\ UNCHANGED <<row, gold, box, deleted, ledger, minted, bill>>
    BY <1>3 DEF Login, database, history
  <2>2. \A q \in Players : PursesOf(online', money', gold')[q] = PursesOf(online, money, gold)[q]
    BY <2>1 DEF PursesOf, Accounts, PursesOK, IInv, PlayersOK
  <2>3. PursesOK(online', money', gold')
    BY <2>1, MailAssumption DEF Accounts, PursesOK, IInv, PlayersOK
  <2>4. QED
    BY <2>1, <2>2, <2>3, PursesSame, AccountsPrimed DEF Accounts, Books
<1>4. CASE Earn(p)
  <2>1. /\ online[p] /\ minted < Supply /\ ModifyMoney(money[p], 1) # money[p]
        /\ money' = [money EXCEPT ![p] = ModifyMoney(@, 1)]
        /\ minted' = minted + 1 /\ ledger' = ledger + 1
        /\ UNCHANGED <<row, gold, online, box, deleted, bill>>
    BY <1>4 DEF Earn, Supply, database
  <2>2. money[p] \in Nat /\ gold[p] <= money[p] /\ gold[p] \in Nat
    BY <2>1, MailAssumption DEF Accounts, PursesOK
  <2>3. ModifyMoney(money[p], 1) = money[p] + 1 /\ money[p] + 1 \in 0..MAX_MONEY_AMOUNT
    BY <2>1, <2>2, MailAssumption DEF ModifyMoney
  <2>4. /\ PursesOK(online', money', gold')
        /\ InPurses(online', money', gold') = InPurses(online, money, gold) - money[p] + (money[p] + 1)
        /\ InPurses(online, money, gold) \in Nat /\ InPurses(online', money', gold') \in Nat
    <3>1. money' = [money EXCEPT ![p] = money[p] + 1] /\ gold' = gold
      BY <2>1, <2>3
    <3>2. gold[p] <= money[p] + 1
      BY <2>2
    <3>3. QED
      BY <2>1, <2>3, <3>1, <3>2, PurseStep
  <2>5. InMails(row) \in Nat
    BY PartsOfLedger DEF IInv, MailsOK, PlayersOK, Accounts
  <2>6. /\ InPurses(online', money', gold') + InMails(row') = ledger'
        /\ ledger' \in Nat /\ minted' \in Nat /\ ledger' <= minted' /\ minted' <= Supply
    BY <2>1, <2>2, <2>4, <2>5, SupplyNat DEF Accounts, Books
  <2>7. QED
    BY <2>1, <2>4, <2>6, AccountsPrimed DEF Accounts
<1>5. QED
  BY <1>1, <1>2, <1>3, <1>4


LEMMA LoadAccounts ==
    ASSUME IInv, Accounts, NEW p \in Players, LoadMail(p)
    PROVE  Accounts'
<1>1. /\ ~loaded[p]
      /\ box' = [box EXCEPT ![p] = [id \in MailIds |-> IF id \in MailsOf(p) THEN row[id] ELSE NoMail]]
      /\ UNCHANGED <<row, gold, online, money, deleted, ledger, minted, bill>>
  BY DEF LoadMail, database, history
<1>2. \A q \in Players, k \in MailIds :
          box'[q][k] = IF q = p THEN (IF k \in MailsOf(p) THEN row[k] ELSE NoMail) ELSE box[q][k]
  BY <1>1 DEF IInv, MailsOK, CachesOK
<1>3. CacheFits(box')
  BY <1>2 DEF Accounts, CacheFits, IInv, MailsOK, RowsOK
<1>4. DeletedCached(deleted', box')
  <2> SUFFICES ASSUME NEW k \in deleted
               PROVE  k \in MailIds /\ \E q \in Players : box'[q][k] # NoMail
    BY <1>1 DEF DeletedCached
  <2>1. k \in MailIds
    BY DEF Accounts, DeletedCached
  <2>2. PICK q \in Players : box[q][k] # NoMail
    BY DEF Accounts, DeletedCached
  <2>3. q # p
    BY <1>1, <2>1, <2>2 DEF IInv, MailsOK, Faithful
  <2>4. QED
    BY <1>2, <2>1, <2>2, <2>3
<1>5. QED
  BY <1>1, <1>3, <1>4, AccountsPrimed DEF Accounts, Books

LEMMA DeleteAccounts ==
    ASSUME IInv, Accounts, NEW p \in Players, NEW id \in MailIds, HandleMailDelete(p, id)
    PROVE  Accounts'
<1>1. /\ box[p][id] # NoMail /\ deleted' = deleted \cup {id}
      /\ UNCHANGED <<row, gold, online, money, box, ledger, minted, bill>>
  BY DEF HandleMailDelete, Mails, database, history
<1>2. DeletedCached(deleted', box')
  BY <1>1 DEF Accounts, DeletedCached
<1>3. QED
  BY <1>1, <1>2, AccountsPrimed DEF Accounts, Books

LEMMA CrashAccounts ==
    ASSUME IInv, Accounts, Crash
    PROVE  Accounts'
<1>1. /\ online' = [p \in Players |-> FALSE]
      /\ money' = [p \in Players |-> 0]
      /\ box' = [p \in Players |-> [id \in MailIds |-> NoMail]]
      /\ deleted' = {} /\ ledger' = DurableMoney
      /\ UNCHANGED <<row, gold, minted, bill>>
  BY DEF Crash, LoseMemory, database
<1>2. CacheFits(box') /\ DeletedCached(deleted', box')
  BY <1>1 DEF CacheFits, DeletedCached
<1>3. PursesOK(online', money', gold')
  BY <1>1, MailAssumption DEF Accounts, PursesOK
<1> DEFINE a == PursesOf(online, money, gold)
           b == PursesOf(online', money', gold')
<1>4. \A q \in Players : b[q] = gold[q] /\ b[q] \in Nat /\ a[q] \in Nat /\ gold[q] <= a[q]
  BY <1>1, MailAssumption DEF PursesOf, Accounts, PursesOK
<1>5. IsFiniteSet(Players)
  BY MailAssumption
<1>6. SumFunctionOnSet(a, Players) = InPurses(online, money, gold)
  BY DEF InPurses
<1>7. SumFunctionOnSet(b, Players) = InPurses(online', money', gold')
  BY DEF InPurses
<1>8. SumFunction(gold) = SumFunctionOnSet(gold, Players)
  BY DEF SumFunction, SumFunctionOnSet, FoldFunction, Accounts, PursesOK
<1> HIDE DEF a, b
<1>9. SumFunctionOnSet(b, Players) = SumFunctionOnSet(gold, Players)
  BY <1>4, <1>5, SumSame
<1>10. SumFunctionOnSet(b, Players) <= SumFunctionOnSet(a, Players)
  <2>1. \A q \in Players : b[q] \in Int /\ a[q] \in Int /\ b[q] <= a[q]
    BY <1>4
  <2>2. QED
    BY <1>5, <2>1, SumGreater
<1>11. SumFunctionOnSet(b, Players) \in Nat /\ SumFunctionOnSet(a, Players) \in Nat
  BY <1>4, <1>5, SumNat
<1>12. Worth(row, Mails(row)) = InMails(row) /\ InMails(row) \in Nat
  BY WorthOfAll, BooksTotal DEF IInv, MailsOK
<1>13. ledger' = InPurses(online', money', gold') + InMails(row)
  BY <1>1, <1>7, <1>8, <1>9, <1>12 DEF DurableMoney
<1>14. InPurses(online', money', gold') + InMails(row') = ledger'
  BY <1>1, <1>13
<1>15. ledger' <= ledger /\ ledger' \in Nat
  BY <1>6, <1>7, <1>10, <1>11, <1>12, <1>13 DEF Accounts, Books
<1>16. minted' \in Nat /\ ledger' <= minted' /\ minted' <= Supply
  BY <1>1, <1>15, SupplyNat DEF Accounts, Books
<1>17. QED
  BY <1>1, <1>2, <1>3, <1>14, <1>15, <1>16, AccountsPrimed DEF Accounts

LEMMA ExpireAccounts ==
    ASSUME IInv, Accounts, NEW E \in SUBSET Mails(row), ReturnOrDeleteOldMails(E)
    PROVE  Accounts'
<1> DEFINE kept == {id \in E : row[id] # NoMail /\ loaded[row[id].receiver]}
           returned == {id \in E \ kept : /\ row[id].items # {} /\ row[id].type = "normal"
                                          /\ row[id].checked \notin {"returned", "cod payment"}}
           dead == E \ (kept \cup returned)
           Back(mail) == [mail EXCEPT !.sender = mail.receiver, !.receiver = mail.sender,
                                      !.cod = 0, !.checked = "returned"]
           worth == SumFunctionOnSet(Amounts(row), dead)
<1>1. /\ row' = [id \in MailIds |-> IF id \in returned THEN Back(row[id])
                                    ELSE IF id \in dead THEN NoMail ELSE row[id]]
      /\ ledger' = ledger - Worth(row, dead)
      /\ bill' = [id \in MailIds |-> IF id \in returned THEN NoBill ELSE bill[id]]
      /\ gold' = gold /\ minted' = minted /\ UNCHANGED memory
  BY ZenonT(60) DEF ReturnOrDeleteOldMails
<1>2. UNCHANGED <<online, money, box, deleted>>
  BY <1>1 DEF memory
<1>3. dead \in SUBSET MailIds /\ \A id \in returned : id \notin dead /\ id \in E
  BY DEF Mails
<1>4. \A id \in E : id \in MailIds /\ row[id] # NoMail /\ row[id] \in Letters
  BY DEF Mails, IInv, MailsOK, RowsOK
<1>5. \A id \in dead : id \in E
  OBVIOUS
<1> HIDE DEF kept, returned, dead
<1>6. \A id \in returned : /\ Back(row[id]) \in Letters /\ Back(row[id]) # NoMail
                           /\ Back(row[id]).money = row[id].money /\ Back(row[id]).cod = 0
  <2> SUFFICES ASSUME NEW id \in returned
               PROVE  /\ Back(row[id]) \in Letters /\ Back(row[id]) # NoMail
                      /\ Back(row[id]).money = row[id].money /\ Back(row[id]).cod = 0
    OBVIOUS
  <2>1. row[id] \in Letters
    BY <1>3, <1>4
  <2>2. /\ Back(row[id]) \in Letters
        /\ Back(row[id]).money = row[id].money /\ Back(row[id]).cod = 0
    BY <2>1, ReturnedOK
  <2> HIDE DEF Back
  <2>3. QED
    BY <2>2, NoMailIsNone
<1> HIDE DEF Back
<1>7. Worth(row, dead) = worth
  <2>1. \A id \in dead : row[id].money = Amount(row[id]) /\ Amount(row[id]) \in Nat
    BY <1>4, <1>5, AmountNat DEF Amount, IInv, MailsOK
  <2>2. QED
    BY <1>3, <2>1, WorthIsSum
<1>8. InMails(row') = InMails(row) - worth /\ InMails(row) \in Nat /\ InMails(row') \in Nat /\ worth \in Nat
  <2>1. \A k \in MailIds : Amount(row'[k]) = IF k \in dead THEN 0 ELSE Amount(row[k])
    BY <1>1, <1>3, <1>4, <1>6 DEF Amount
  <2>2. RowsOK(row)
    BY DEF IInv, MailsOK
  <2>3. QED
    BY <1>3, <2>1, <2>2, MailsGone
<1> HIDE DEF worth
<1>9. /\ InPurses(online', money', gold') + InMails(row') = ledger'
      /\ ledger' \in Nat /\ minted' \in Nat /\ ledger' <= minted' /\ minted' <= Supply
  <2>1. InPurses(online', money', gold') = InPurses(online, money, gold)
    BY <1>1, <1>2
  <2>2. /\ InPurses(online, money, gold) \in Nat /\ InPurses(online, money, gold) + InMails(row) = ledger
        /\ ledger \in Nat /\ minted \in Nat /\ ledger <= minted /\ minted <= Supply
    BY BooksTotal DEF Accounts, Books
  <2>3. QED
    BY <1>1, <1>7, <1>8, <2>1, <2>2
<1>10. Bills(row', bill')
  <2> DEFINE T == [asked : Int, paid : Int, taken : BOOLEAN]
  <2>1. NoBill \in T
    BY DEF NoBill
  <2>2. bill' \in [MailIds -> T]
    BY <1>1, <2>1 DEF Accounts, Bills
  <2>3. ASSUME NEW k \in MailIds
        PROVE  /\ bill'[k].paid = IF bill'[k].taken THEN bill'[k].asked ELSE 0
               /\ row'[k] # NoMail => /\ row'[k].cod \in 0..(UINT32 - 1)
                                      /\ row'[k].cod = IF bill'[k].taken THEN 0 ELSE bill'[k].asked
    <3>1. CASE k \in returned
      BY <1>1, <1>6, <3>1, MailAssumption DEF NoBill
    <3>2. CASE k \notin returned
      BY <1>1, <3>2 DEF Accounts, Bills
    <3>3. QED
      BY <3>1, <3>2
  <2>4. QED
    BY <2>2, <2>3 DEF Bills
<1>11. QED
  BY <1>1, <1>2, <1>9, <1>10, AccountsPrimed DEF Accounts

LEMMA AccountsInit == AmountsFit /\ Init => Accounts
<1> SUFFICES ASSUME Init PROVE Accounts
  OBVIOUS
<1>1. CacheFits(box) /\ DeletedCached(deleted, box) /\ Bills(row, bill)
  BY DEF Init, CacheFits, DeletedCached, Bills, NoBill
<1>2. PursesOK(online, money, gold)
  BY MailAssumption DEF Init, PursesOK
<1>3. InPurses(online, money, gold) = Cardinality(Players) * Purse
  <2> DEFINE a == PursesOf(online, money, gold)
  <2>1. \A p \in Players : a[p] = Purse
    BY DEF Init, PursesOf
  <2>2. IsFiniteSet(Players) /\ Purse \in Int
    BY MailAssumption
  <2> HIDE DEF a
  <2>3. SumFunctionOnSet(a, Players) = Cardinality(Players) * Purse
    BY <2>1, <2>2, SumConstant
  <2>4. QED
    BY <2>3 DEF InPurses, a
<1>4. InMails(row) = 0
  <2> DEFINE a == Amounts(row)
  <2>1. \A id \in MailIds : a[id] = 0
    BY DEF Init, Amounts, Amount
  <2>2. IsFiniteSet(MailIds) /\ Cardinality(MailIds) \in Nat
    BY MailAssumption, FS_CardinalityType
  <2> HIDE DEF a
  <2>3. SumFunctionOnSet(a, MailIds) = Cardinality(MailIds) * 0
    BY <2>1, <2>2, SumConstant
  <2>4. QED
    BY <2>2, <2>3 DEF InMails, a
<1>5. Books
  <2> DEFINE n == Cardinality(Players)
  <2>1. n \in Nat /\ Purse \in Nat /\ MaxEarned \in Nat
    BY MailAssumption, FS_CardinalityType
  <2>2. ledger = Purse * n /\ minted = Purse * n
    BY DEF Init
  <2> HIDE DEF n
  <2>3. n * Purse = Purse * n /\ Purse * n \in Nat
    BY <2>1
  <2>4. Supply = Purse * n + MaxEarned
    BY DEF Supply, n
  <2>5. InPurses(online, money, gold) = n * Purse
    BY <1>3 DEF n
  <2>6. QED
    BY <1>4, <2>1, <2>2, <2>3, <2>4, <2>5 DEF Books
<1>6. QED
  BY <1>1, <1>2, <1>5 DEF Accounts

LEMMA AccountsNext == AmountsFit /\ IInv /\ Accounts /\ [Next]_vars => Accounts'
<1> SUFFICES ASSUME AmountsFit, IInv, Accounts, [Next]_vars PROVE Accounts'
  OBVIOUS
<1>1. ASSUME NEW p \in Players, MailHandlers(p) PROVE Accounts'
  <2>1. CASE \E q \in Players : HandleSendMail(p, q)
    BY <2>1, SendAccounts
  <2>2. CASE LoadMail(p)
    BY <2>2, LoadAccounts
  <2>3. ASSUME NEW id \in Mails(box[p]),
               \/ HandleMailTakeItem(p, id) \/ HandleMailTakeMoney(p, id)
               \/ HandleMailDelete(p, id) \/ HandleMailReturnToSender(p, id)
        PROVE  Accounts'
    <3>1. id \in MailIds /\ box[p][id] # NoMail
      BY DEF Mails
    <3>2. QED
      BY <2>3, <3>1, TakeItemAccounts, TakeMoneyAccounts, DeleteAccounts, ReturnAccounts
  <2>4. QED
    BY <1>1, <2>1, <2>2, <2>3 DEF MailHandlers
<1>2. ASSUME NEW p \in Players, Sessions(p) PROVE Accounts'
  BY <1>2, SessionAccounts DEF Sessions
<1>3. ASSUME NEW E \in SUBSET Mails(row), ReturnOrDeleteOldMails(E) PROVE Accounts'
  BY <1>3, ExpireAccounts
<1>4. CASE Crash
  BY <1>4, CrashAccounts
<1>5. CASE UNCHANGED vars
  <2>1. UNCHANGED <<row, gold, online, money, box, deleted, ledger, minted, bill>>
    BY <1>5 DEF vars, database, memory, history
  <2>2. QED
    BY <2>1, AccountsPrimed DEF Accounts, Books
<1>6. QED
  BY <1>1, <1>2, <1>3, <1>4, <1>5 DEF Next

\* Where every cached mail is its row, the mails are the rows.
LEMMA CurrentIsRow ==
    ASSUME IInv, CacheFits(box)
    PROVE  \A id \in MailIds : Current[id] = row[id]
<1> SUFFICES ASSUME NEW id \in MailIds PROVE Current[id] = row[id]
  OBVIOUS
<1>1. CASE id \in Cached
  <2> DEFINE p == CHOOSE q \in Players : id \in Mails(box[q])
  <2>1. p \in Players /\ id \in Mails(box[p])
    BY <1>1 DEF Cached
  <2>2. Current[id] = box[p][id]
    BY <1>1 DEF Current
  <2> HIDE DEF p
  <2>3. QED
    BY <2>1, <2>2, Exact DEF Mails, IInv
<1>2. CASE id \notin Cached
  BY <1>2 DEF Current
<1>3. QED
  BY <1>1, <1>2

LEMMA AccountsAccount == IInv /\ Accounts => MoneyAccounted
<1> SUFFICES ASSUME IInv, Accounts PROVE MoneyAccounted
  OBVIOUS
<1>1. SumFunction([p \in Players |-> Owns(p)]) = InPurses(online, money, gold)
  <2> DEFINE a == PursesOf(online, money, gold)
  <2>1. [p \in Players |-> Owns(p)] = a
    BY DEF Owns, PursesOf
  <2>2. DOMAIN a = Players
    BY DEF PursesOf
  <2> HIDE DEF a
  <2>3. SumFunction(a) = SumFunctionOnSet(a, Players)
    BY <2>2 DEF SumFunction, SumFunctionOnSet, FoldFunction
  <2>4. QED
    BY <2>1, <2>3 DEF InPurses, a
<1>2. Worth(Current, Mails(Current)) = InMails(row)
  <2>1. Current = row
    <3>1. Current = [id \in MailIds |-> Current[id]] /\ row = [id \in MailIds |-> row[id]]
      BY DEF Current, IInv, MailsOK, RowsOK
    <3>2. QED
      BY <3>1, CurrentIsRow DEF Accounts
  <2>2. QED
    BY <2>1, WorthOfAll DEF IInv, MailsOK
<1>3. DurableMoney <= minted
  <2> DEFINE a == PursesOf(online, money, gold)
  <2>1. \A q \in Players : gold[q] \in Int /\ a[q] \in Int /\ gold[q] <= a[q] /\ a[q] \in Nat /\ gold[q] \in Nat
    BY MailAssumption DEF PursesOf, Accounts, PursesOK
  <2>2. IsFiniteSet(Players)
    BY MailAssumption
  <2>3. SumFunction(gold) = SumFunctionOnSet(gold, Players)
    BY DEF SumFunction, SumFunctionOnSet, FoldFunction, Accounts, PursesOK
  <2>4. SumFunctionOnSet(a, Players) = InPurses(online, money, gold)
    BY DEF InPurses
  <2> HIDE DEF a
  <2>5. SumFunctionOnSet(gold, Players) <= SumFunctionOnSet(a, Players)
    BY <2>1, <2>2, SumGreater
  <2>6. SumFunctionOnSet(gold, Players) \in Nat
    BY <2>1, <2>2, SumNat
  <2>7. Worth(row, Mails(row)) = InMails(row) /\ InMails(row) \in Nat /\ InPurses(online, money, gold) \in Nat
    BY WorthOfAll, BooksTotal DEF IInv, MailsOK
  <2>8. QED
    BY <2>3, <2>4, <2>5, <2>6, <2>7 DEF DurableMoney, Accounts, Books
<1>4. \A id \in MailIds : bill[id].paid = IF bill[id].taken THEN bill[id].asked ELSE 0
  BY DEF Accounts, Bills
<1>5. QED
  BY <1>1, <1>2, <1>3, <1>4 DEF MoneyAccounted, Accounts, Books

LEMMA AccountsFaithful == IInv /\ Accounts => BoxIsFaithful
<1> SUFFICES ASSUME IInv, Accounts PROVE BoxIsFaithful
  OBVIOUS
<1>1. \A p \in Players : \A id \in Mails(box[p]) :
          /\ id \in MailIds /\ box[p][id] # NoMail
          /\ row[id] = box[p][id] /\ box[p][id].receiver = p /\ loaded[p]
  <2> SUFFICES ASSUME NEW p \in Players, NEW id \in MailIds, box[p][id] # NoMail
               PROVE  row[id] = box[p][id] /\ box[p][id].receiver = p /\ loaded[p]
    BY DEF Mails
  <2>1. loaded[p]
    BY DEF IInv, MailsOK, Faithful
  <2>2. QED
    BY <2>1, Exact DEF IInv, Accounts
<1>2. ASSUME NEW id \in MailIds, row[id] # NoMail
      PROVE  row[id] \in LetterType(0..(UINT32 - 1)) /\ row[id] \in LetterType(Nat)
  <2>1. /\ row[id] \in Letters /\ row[id].money \in 0..(UINT32 - 1) /\ row[id].money \in Nat
        /\ row[id].cod \in 0..(UINT32 - 1)
    BY <1>2, MailAssumption DEF IInv, MailsOK, RowsOK, Accounts, Bills
  <2>2. QED
    BY <2>1 DEF Letters, LetterType
<1>3. /\ \A id \in Mails(row) : row[id] \in LetterType(0..(UINT32 - 1))
      /\ \A p \in Players : \A id \in Mails(box[p]) :
             box[p][id] \in LetterType(Nat) /\ box[p][id].receiver = p /\ loaded[p]
  BY <1>1, <1>2 DEF Mails
<1>4. deleted \subseteq Cached
  BY DEF Accounts, DeletedCached, Cached, Mails
<1>5. TypeOK
  BY <1>3, <1>4 DEF TypeOK, IInv, PlayersOK, Accounts, PursesOK, Books
<1>6. QED
  BY <1>1, <1>5 DEF BoxIsFaithful


\* In a world whose money fits in 32 bits the accounts are right in every state.
LEMMA AccountsAlways == AmountsFit => (Spec => [](IInv /\ Accounts))
<1>1. AmountsFit /\ Init => IInv /\ Accounts
  BY IInvInit, AccountsInit
<1>2. AmountsFit /\ (IInv /\ Accounts) /\ [Next]_vars => (IInv /\ Accounts)'
  BY StepKeeps, AccountsNext
<1> SUFFICES ASSUME AmountsFit PROVE Spec => [](IInv /\ Accounts)
  OBVIOUS
<1>3. Init => IInv /\ Accounts
  BY <1>1
<1>4. (IInv /\ Accounts) /\ [Next]_vars => (IInv /\ Accounts)'
  BY <1>2
<1>5. QED
  BY <1>3, <1>4, PTL DEF Spec

\* Every coin is in one purse or one mail, a crash leaves no more than was
\* earned, and a COD is paid in full with the first item taken, as long as all
\* the money there can ever be, and every COD, fits in the columns for them.
THEOREM MoneyIsAccounted == AmountsFit => (Spec => []MoneyAccounted)
<1> SUFFICES ASSUME AmountsFit PROVE Spec => []MoneyAccounted
  OBVIOUS
<1>1. Spec => [](IInv /\ Accounts)
  BY AccountsAlways
<1>2. IInv /\ Accounts => MoneyAccounted
  BY AccountsAccount
<1>3. QED
  BY <1>1, <1>2, PTL

\* In such a world a cached mail is the row of the database, amounts and all.
THEOREM BoxesAreFaithful == AmountsFit => (Spec => []BoxIsFaithful)
<1> SUFFICES ASSUME AmountsFit PROVE Spec => []BoxIsFaithful
  OBVIOUS
<1>1. Spec => [](IInv /\ Accounts)
  BY AccountsAlways
<1>2. IInv /\ Accounts => BoxIsFaithful
  BY AccountsFaithful
<1>3. QED
  BY <1>1, <1>2, PTL

------------------------------------------------------------------------------
(* The auction house.  It sends every letter itself, so that none asks for     *)
(* money and the cache of a letter is always its row.                          *)

Notices ==
    [type : {"auction"}, sender : {None}, receiver : Players, money : 0..(UINT32 - 1), cod : {0},
     items : SUBSET Items, checked : {"copied"}]

NoticesOK(r, b, l) ==
    /\ r \in [MailIds -> Notices \cup {NoMail}]
    /\ b \in [Players -> [MailIds -> Notices \cup {NoMail}]]
    /\ \A p \in Players, id \in MailIds : b[p][id] # NoMail =>
           l[p] /\ b[p][id].receiver = p /\ r[id] = b[p][id]

PursesFit(m, g) == m \in [Players -> 0..MAX_MONEY_AMOUNT] /\ g \in [Players -> 0..MAX_MONEY_AMOUNT]

Listings ==
    [owner : Players, startbid : 0..(UINT32 - 1), bid : 0..(UINT32 - 1), buyout : 0..(UINT32 - 1),
     bidder : Players \cup {None}, deposit : {Deposit}, paid : Nat]

AuctionsOK(a) ==
    /\ a \in [Items -> Listings \cup {NoAuction}]
    /\ \A i \in Items : a[i] # NoAuction => a[i].bidder # a[i].owner

\* What is up for sale is nowhere else.
AuctionsApart(a) ==
    \A i \in Items : a[i] # NoAuction =>
        /\ \A p \in Players : i \notin stored[p]
        /\ \A id \in MailIds : i \notin InMail(id)

HouseInv ==
    /\ deleted = {} /\ NoticesOK(row, box, loaded)
    /\ PlayersOK /\ PursesFit(money, gold) /\ BagsAreSaved
    /\ AuctionsOK(auction) /\ Apart /\ AuctionsApart(auction)

LEMMA NoNotice == NoMail \notin Notices /\ NoAuction \notin Listings
  BY MailAssumption DEF NoMail, NoAuction, Notices, Listings

LEMMA NoticeOK ==
    ASSUME NEW q \in Players, NEW m \in 0..(UINT32 - 1), NEW S \in SUBSET Items
    PROVE  /\ Notice(q, m, S) \in Notices
           /\ Notice(q, m, S).receiver = q /\ Notice(q, m, S).money = m
           /\ Notice(q, m, S).items = S
  BY DEF Notice, Notices

LEMMA NoticeFields ==
    ASSUME NEW mail \in Notices
    PROVE  /\ mail = Notice(mail.receiver, mail.money, mail.items)
           /\ mail.receiver \in Players /\ mail.money \in 0..(UINT32 - 1)
           /\ mail.items \in SUBSET Items /\ mail.cod = 0 /\ mail.type = "auction"
           /\ mail # NoMail
<1>1. mail # NoMail
  BY NoNotice
<1>2. QED
  BY <1>1 DEF Notice, Notices

\* Each letter of a handler goes to a free id, and nothing else is changed.
LEMMA PostGives ==
    ASSUME NEW letters \in Seq(Notices), HouseInv, Post(letters), UNCHANGED loaded
    PROVE  /\ NoticesOK(row, box, loaded)'
           /\ \E ids \in [1..Len(letters) -> MailIds] :
                  /\ \A n, k \in 1..Len(letters) : ids[n] = ids[k] => n = k
                  /\ \A n \in 1..Len(letters) : row[ids[n]] = NoMail /\ row'[ids[n]] = letters[n]
                  /\ \A id \in MailIds :
                         (\E n \in 1..Len(letters) : id = ids[n]) \/ row'[id] = row[id]
<1> DEFINE N == 1..Len(letters)
           ids == CHOOSE f \in NewIds(Len(letters)) : TRUE
           sent == {ids[n] : n \in DOMAIN letters}
           Under(id) == letters[CHOOSE n \in DOMAIN letters : ids[n] = id]
           To(p) == {id \in sent : loaded[p] /\ Under(id).receiver = p}
<1>1. DOMAIN letters = N /\ \A n \in N : letters[n] \in Notices
  OBVIOUS
<1>2. /\ NewIds(Len(letters)) # {}
      /\ row' = [id \in MailIds |-> IF id \in sent THEN Under(id) ELSE row[id]]
      /\ box' = [p \in Players |->
                    [id \in MailIds |-> IF id \in To(p) THEN Under(id) ELSE box[p][id]]]
  BY Zenon DEF Post
<1>3. ids \in NewIds(Len(letters))
  BY <1>2
<1> HIDE DEF ids
<1>4. ids \in [N -> FreeIds] /\ \A n, k \in N : ids[n] = ids[k] => n = k
  BY <1>3 DEF NewIds, Injection, IsInjective
<1>5. \A n \in N : /\ ids[n] \in MailIds /\ row[ids[n]] = NoMail
                   /\ \A p \in Players : box[p][ids[n]] = NoMail
  BY <1>4 DEF FreeIds
<1>6. ASSUME NEW n \in N PROVE ids[n] \in sent /\ Under(ids[n]) = letters[n]
  <2> DEFINE k == CHOOSE k \in DOMAIN letters : ids[k] = ids[n]
  <2>1. k \in N /\ ids[k] = ids[n]
    BY <1>1
  <2>2. k = n
    BY <1>4, <2>1
  <2>3. Under(ids[n]) = letters[k]
    OBVIOUS
  <2>4. QED
    BY <1>1, <2>2, <2>3
<1>7. \A id \in sent : \E n \in N : id = ids[n]
  BY <1>1
<1> HIDE DEF sent, Under
<1>8. \A id \in sent : /\ id \in MailIds /\ row[id] = NoMail /\ Under(id) \in Notices
                       /\ \A p \in Players : box[p][id] = NoMail
  BY <1>1, <1>5, <1>6, <1>7
<1>9. NoticesOK(row', box', loaded')
  <2>1. row' \in [MailIds -> Notices \cup {NoMail}]
    BY <1>2, <1>8 DEF HouseInv, NoticesOK
  <2>2. \A p \in Players, id \in MailIds : box[p][id] \in Notices \cup {NoMail}
    BY DEF HouseInv, NoticesOK
  <2>3. box' \in [Players -> [MailIds -> Notices \cup {NoMail}]]
    BY <1>2, <1>8, <2>2
  <2>4. ASSUME NEW p \in Players, NEW id \in MailIds, box'[p][id] # NoMail
        PROVE  loaded'[p] /\ box'[p][id].receiver = p /\ row'[id] = box'[p][id]
    <3>1. CASE id \in To(p)
      <4>1. box'[p][id] = Under(id) /\ row'[id] = Under(id) /\ loaded[p] /\ Under(id).receiver = p
        BY <1>2, <3>1
      <4>2. QED
        BY <4>1
    <3>2. CASE id \notin To(p)
      <4>1. box'[p][id] = box[p][id]
        BY <1>2, <3>2
      <4>2. id \notin sent
        BY <1>8, <2>4, <4>1
      <4>3. row'[id] = row[id]
        BY <1>2, <4>2
      <4>4. QED
        BY <2>4, <4>1, <4>3 DEF HouseInv, NoticesOK
    <3>3. QED
      BY <3>1, <3>2
  <2>5. QED
    BY <2>1, <2>3, <2>4 DEF NoticesOK
<1>10. NoticesOK(row, box, loaded)'
  BY <1>9 DEF NoticesOK
<1>11. \A n \in N : row'[ids[n]] = letters[n]
  BY <1>2, <1>5, <1>6
<1>12. \A id \in MailIds : id \notin sent => row'[id] = row[id]
  BY <1>2
<1>13. ids \in [N -> MailIds]
  BY <1>4 DEF FreeIds
<1>14. QED
  BY <1>4, <1>5, <1>7, <1>10, <1>11, <1>12, <1>13

\* Letters that hold nothing leave the items in the mails as they are.
LEMMA PostsNothing ==
    ASSUME NEW letters \in Seq(Notices), HouseInv, Post(letters), UNCHANGED loaded,
           \A n \in 1..Len(letters) : letters[n].items = {}
    PROVE  \A id \in MailIds : InMail(id)' = InMail(id)
<1>1. PICK ids \in [1..Len(letters) -> MailIds] :
          /\ \A n \in 1..Len(letters) : row[ids[n]] = NoMail /\ row'[ids[n]] = letters[n]
          /\ \A id \in MailIds : (\E n \in 1..Len(letters) : id = ids[n]) \/ row'[id] = row[id]
  BY PostGives
<1>2. \A n \in 1..Len(letters) : letters[n] # NoMail
  BY NoNotice
<1>3. ASSUME NEW id \in MailIds PROVE InMail(id)' = InMail(id)
  <2>1. CASE \E n \in 1..Len(letters) : id = ids[n]
    <3>1. PICK n \in 1..Len(letters) : id = ids[n]
      BY <2>1
    <3>2. row[id] = NoMail /\ row'[id] = letters[n] /\ letters[n] # NoMail /\ letters[n].items = {}
      BY <1>1, <1>2, <3>1
    <3>3. QED
      BY <3>2 DEF InMail
  <2>2. CASE row'[id] = row[id]
    BY <2>2 DEF InMail
  <2>3. QED
    BY <1>1, <2>1, <2>2
<1>4. QED
  BY <1>3

\* The last letter brings what is in it.
LEMMA PostsLast ==
    ASSUME NEW letters \in Seq(Notices), HouseInv, Post(letters), UNCHANGED loaded,
           NEW i \in Items, letters # <<>>,
           \A n \in 1..Len(letters) : letters[n].items = IF n = Len(letters) THEN {i} ELSE {}
    PROVE  \E k \in MailIds :
               /\ InMail(k) = {}
               /\ \A id \in MailIds : InMail(id)' = IF id = k THEN {i} ELSE InMail(id)
<1>1. PICK ids \in [1..Len(letters) -> MailIds] :
          /\ \A n, k \in 1..Len(letters) : ids[n] = ids[k] => n = k
          /\ \A n \in 1..Len(letters) : row[ids[n]] = NoMail /\ row'[ids[n]] = letters[n]
          /\ \A id \in MailIds : (\E n \in 1..Len(letters) : id = ids[n]) \/ row'[id] = row[id]
  BY PostGives
<1>2. \A n \in 1..Len(letters) : letters[n] # NoMail
  BY NoNotice
<1>3. Len(letters) \in 1..Len(letters)
  OBVIOUS
<1> DEFINE last == Len(letters)
           k == ids[last]
<1>4. k \in MailIds /\ InMail(k) = {} /\ InMail(k)' = {i}
  BY <1>1, <1>2, <1>3 DEF InMail
<1>5. ASSUME NEW id \in MailIds, id # k PROVE InMail(id)' = InMail(id)
  <2>1. CASE \E n \in 1..Len(letters) : id = ids[n]
    <3>1. PICK n \in 1..Len(letters) : id = ids[n]
      BY <2>1
    <3>2. n # last
      BY <1>5, <3>1
    <3>3. letters[n].items = {}
      BY <3>2
    <3>4. QED
      BY <1>1, <1>2, <3>1, <3>3 DEF InMail
  <2>2. CASE row'[id] = row[id]
    BY <2>2 DEF InMail
  <2>3. QED
    BY <1>1, <2>1, <2>2
<1>6. QED
  BY <1>4, <1>5

\* When an auction ends, its item goes into one mail.
LEMMA HandOver ==
    ASSUME HouseInv, NEW i \in Items, auction[i] # NoAuction, Closed(i), UNCHANGED stored,
           NEW k \in MailIds, InMail(k) = {},
           \A id \in MailIds : InMail(id)' = IF id = k THEN {i} ELSE InMail(id)
    PROVE  Apart' /\ AuctionsOK(auction)' /\ AuctionsApart(auction)'
<1>1. \A p \in Players : i \notin stored[p]
  BY DEF HouseInv, AuctionsApart
<1>2. \A id \in MailIds : i \notin InMail(id)
  BY DEF HouseInv, AuctionsApart
<1>3. \A j \in Items : auction'[j] = IF j = i THEN NoAuction ELSE auction[j]
  BY DEF Closed, HouseInv, AuctionsOK
<1>4. Apart'
  <2>1. ASSUME NEW x \in MailIds, NEW y \in MailIds, x # y PROVE InMail(x)' \cap InMail(y)' = {}
    <3>1. InMail(x) \cap InMail(y) = {}
      BY <2>1 DEF HouseInv, Apart
    <3>2. QED
      BY <1>2, <2>1, <3>1
  <2>2. ASSUME NEW q \in Players, NEW x \in MailIds PROVE stored'[q] \cap InMail(x)' = {}
    <3>1. stored[q] \cap InMail(x) = {}
      BY DEF HouseInv, Apart
    <3>2. QED
      BY <1>1, <3>1
  <2>3. QED
    BY <2>1, <2>2 DEF HouseInv, Apart
<1>5. AuctionsOK(auction)'
  BY <1>3 DEF Closed, HouseInv, AuctionsOK
<1>6. AuctionsApart(auction)'
  BY <1>3 DEF HouseInv, AuctionsApart
<1>7. QED
  BY <1>4, <1>5, <1>6

LEMMA PurseStays ==
    ASSUME NEW m \in 0..MAX_MONEY_AMOUNT, NEW n \in Int
    PROVE  ModifyMoney(m, n) \in 0..MAX_MONEY_AMOUNT
  BY MailAssumption DEF ModifyMoney

\* A player who pays or is paid saves his bags as they are.
LEMMA PaysKeeps ==
    ASSUME HouseInv, NEW p \in Players, online[p], NEW n \in Int, PayAndSave(p, ModifyMoney(money[p], n)),
           UNCHANGED <<online, loaded>>
    PROVE  PlayersOK' /\ PursesFit(money, gold)' /\ BagsAreSaved' /\ stored' = stored
<1> DEFINE m == ModifyMoney(money[p], n)
<1>1. m \in 0..MAX_MONEY_AMOUNT
  BY PurseStays DEF HouseInv, PursesFit
<1>2. money' = [money EXCEPT ![p] = m] /\ gold' = [gold EXCEPT ![p] = m]
      /\ stored' = [stored EXCEPT ![p] = bag[p]] /\ bag' = bag
  BY DEF PayAndSave
<1> HIDE DEF m
<1>3. stored' = stored
  BY <1>2 DEF HouseInv, PlayersOK, BagsAreSaved
<1>4. PursesFit(money, gold)'
  BY <1>1, <1>2 DEF HouseInv, PursesFit
<1>5. money' \in [Players -> Int] /\ gold' \in [Players -> Int]
  BY <1>1, <1>2, MailAssumption DEF HouseInv, PlayersOK
<1>6. PlayersOK'
  BY <1>2, <1>3, <1>5 DEF HouseInv, PlayersOK
<1>7. BagsAreSaved'
  BY <1>2, <1>3 DEF HouseInv, BagsAreSaved
<1>8. QED
  BY <1>3, <1>4, <1>6, <1>7

\* What the house writes: one letter to a bidder, and those that settle.
LEMMA HouseLetters ==
    ASSUME NEW a \in Listings, NEW i \in Items
    PROVE  /\ a.bidder # None =>
                  /\ Outbidded(a) \in Notices /\ Outbidded(a).items = {} /\ Outbidded(a).money = a.bid
                  /\ Outbidded(a).receiver = a.bidder
                  /\ CancelledToBidder(a) = Outbidded(a)
                  /\ Won(a, i) \in Notices /\ Won(a, i).items = {i} /\ Won(a, i).money = 0
           /\ Successful(a) \in Notices /\ Successful(a).items = {} /\ Successful(a).money = Profit(a)
           /\ Expired(a, i) \in Notices /\ Expired(a, i).items = {i} /\ Expired(a, i).money = 0
<1>1. /\ a.owner \in Players /\ a.bidder \in Players \cup {None} /\ a.bid \in 0..(UINT32 - 1)
      /\ a.bid \in Int /\ a.deposit \in Int /\ UINT32 \in Nat \ {0} /\ 0 \in 0..(UINT32 - 1)
  BY MailAssumption, AuctionAssumption DEF Listings
<1>2. Profit(a) \in 0..(UINT32 - 1)
  <2>1. GetAuctionCut(a) \in Int
    <3>1. a.bid * CutPercent \in Int
      BY <1>1, AuctionAssumption
    <3>2. QED
      BY <3>1 DEF GetAuctionCut, CalculatePct
  <2>2. QED
    BY <1>1, <2>1 DEF Profit
<1>3. {i} \in SUBSET Items /\ {} \in SUBSET Items
  OBVIOUS
<1>4. a.bidder # None => /\ Outbidded(a) \in Notices /\ Outbidded(a).items = {}
                         /\ Outbidded(a).money = a.bid /\ Outbidded(a).receiver = a.bidder
                         /\ CancelledToBidder(a) = Outbidded(a)
  BY <1>1, <1>3, NoticeOK DEF Outbidded, CancelledToBidder
<1>5. a.bidder # None => Won(a, i) \in Notices /\ Won(a, i).items = {i} /\ Won(a, i).money = 0
  BY <1>1, <1>3, NoticeOK DEF Won
<1>6. Successful(a) \in Notices /\ Successful(a).items = {} /\ Successful(a).money = Profit(a)
  BY <1>1, <1>2, <1>3, NoticeOK DEF Successful
<1>7. Expired(a, i) \in Notices /\ Expired(a, i).items = {i} /\ Expired(a, i).money = 0
  BY <1>1, <1>3, NoticeOK DEF Expired
<1>8. QED
  BY <1>4, <1>5, <1>6, <1>7

\* The auction that p buys out.
LEMMA SoldOK ==
    ASSUME NEW a \in Listings, NEW p \in Players, NEW sold, sold = [a EXCEPT !.bidder = p, !.bid = a.buyout]
    PROVE  /\ sold \in Listings /\ sold.bidder = p /\ sold.bidder # None /\ sold.bid = a.buyout
           /\ sold.owner = a.owner /\ sold.deposit = a.deposit
  BY MailAssumption DEF Listings

\* The letters of a bid or a sale.
LEMMA BidLetters ==
    ASSUME NEW a \in Listings, NEW p \in Players, NEW price
    PROVE  /\ Refunds(a, p, price) \in Seq(Notices)
           /\ a.bidder \in {None, p} => Refunds(a, p, price) = <<>>
           /\ a.bidder \notin {None, p} => Refunds(a, p, price) = <<Outbidded(a)>> /\ Outbidded(a) \in Notices
           /\ \A n \in 1..Len(Refunds(a, p, price)) : Refunds(a, p, price)[n].items = {}
<1>1. a.bidder # None => Outbidded(a) \in Notices /\ Outbidded(a).items = {}
  <2>1. CASE Items = {}
    <3>1. a.bidder # None => a.bidder \in Players /\ a.bid \in 0..(UINT32 - 1) /\ {} \in SUBSET Items
      BY DEF Listings
    <3>2. QED
      BY <3>1, NoticeOK DEF Outbidded
  <2>2. CASE Items # {}
    BY <2>2, HouseLetters
  <2>3. QED
    BY <2>1, <2>2
<1>2. CASE a.bidder \in {None, p}
  BY <1>2 DEF Refunds
<1>3. CASE a.bidder \notin {None, p}
  BY <1>1, <1>3 DEF Refunds
<1>4. QED
  BY <1>2, <1>3

\* The letters of a handler that ends an auction: at most three, of which the
\* last brings the item.
Ending(letters, i) ==
    /\ letters \in Seq(Notices) /\ letters # <<>>
    /\ \A n \in 1..Len(letters) : letters[n].items = IF n = Len(letters) THEN {i} ELSE {}

LEMMA EndOf1 == ASSUME NEW i \in Items, NEW z \in Notices, z.items = {i} PROVE Ending(<<z>>, i)
  BY DEF Ending

LEMMA EndOf2 ==
    ASSUME NEW i \in Items, NEW y \in Notices, NEW z \in Notices, y.items = {}, z.items = {i}
    PROVE  Ending(<<y, z>>, i)
  BY DEF Ending

LEMMA EndOf3 ==
    ASSUME NEW i \in Items, NEW x \in Notices, NEW y \in Notices, NEW z \in Notices,
           x.items = {}, y.items = {}, z.items = {i}
    PROVE  Ending(<<x, y, z>>, i)
<1> DEFINE s == <<x, y, z>>
<1>1. s \in Seq(Notices) /\ Len(s) = 3 /\ s[1] = x /\ s[2] = y /\ s[3] = z
  OBVIOUS
<1> HIDE DEF s
<1>2. Ending(s, i)
  BY <1>1 DEF Ending
<1>3. QED
  BY <1>2 DEF s

\* An auction is over, its item posted, and at most a purse changed.
LEMMA EndKeeps ==
    ASSUME HouseInv, NEW i \in Items, auction[i] # NoAuction, Closed(i),
           NEW letters, Ending(letters, i), Post(letters), UNCHANGED <<stored, loaded, deleted>>,
           PlayersOK', PursesFit(money, gold)', BagsAreSaved'
    PROVE  HouseInv'
<1>1. NoticesOK(row, box, loaded)'
  BY PostGives DEF Ending
<1>2. PICK k \in MailIds :
          InMail(k) = {} /\ \A id \in MailIds : InMail(id)' = IF id = k THEN {i} ELSE InMail(id)
  BY PostsLast DEF Ending
<1>3. Apart' /\ AuctionsOK(auction)' /\ AuctionsApart(auction)'
  BY <1>2, HandOver
<1>4. QED
  BY <1>1, <1>3 DEF HouseInv

LEMMA SellKeeps ==
    ASSUME HouseInv, NEW p \in Players, NEW i \in Items, HandleAuctionSellItem(p, i)
    PROVE  HouseInv'
<1>1. PICK bid \in Prices \ {0}, buyout \in Prices :
          /\ online[p] /\ i \in bag[p] /\ auction[i] = NoAuction
          /\ auction' = [auction EXCEPT ![i] =
                 [owner |-> p, startbid |-> bid % UINT32, buyout |-> buyout % UINT32,
                  bid |-> 0, bidder |-> None, deposit |-> Deposit, paid |-> 0]]
          /\ bag' = [bag EXCEPT ![p] = @ \ {i}]
          /\ gold' = [gold EXCEPT ![p] = money[p]]
          /\ stored' = [stored EXCEPT ![p] = bag'[p]]
          /\ money' = [money EXCEPT ![p] = ModifyMoney(@, -Deposit)]
          /\ UNCHANGED <<row, online, loaded, box, deleted>>
  BY DEF HandleAuctionSellItem
<1> DEFINE a == [owner |-> p, startbid |-> bid % UINT32, buyout |-> buyout % UINT32,
                 bid |-> 0, bidder |-> None, deposit |-> Deposit, paid |-> 0]
<1>2. a \in Listings /\ a.bidder # a.owner /\ a # NoAuction
  <2>1. bid % UINT32 \in 0..(UINT32 - 1) /\ buyout % UINT32 \in 0..(UINT32 - 1) /\ 0 \in 0..(UINT32 - 1)
    BY MailAssumption, AuctionAssumption
  <2>2. a \in Listings /\ a.bidder # a.owner
    BY <2>1, MailAssumption DEF Listings
  <2>3. QED
    BY <2>2, NoNotice
<1> HIDE DEF a
<1>3. \A j \in Items : auction'[j] = IF j = i THEN a ELSE auction[j]
  BY <1>1 DEF a, HouseInv, AuctionsOK
<1>4. bag' = [bag EXCEPT ![p] = stored[p] \ {i}] /\ stored' = [stored EXCEPT ![p] = @ \ {i}]
      /\ i \in stored[p]
  BY <1>1 DEF HouseInv, PlayersOK, BagsAreSaved
<1>5. NoticesOK(row, box, loaded)'
  BY <1>1 DEF HouseInv, NoticesOK
<1>6. PursesFit(money, gold)'
  <2>1. ModifyMoney(money[p], -Deposit) \in 0..MAX_MONEY_AMOUNT
    <3>1. -Deposit \in Int /\ money[p] \in 0..MAX_MONEY_AMOUNT
      BY AuctionAssumption DEF HouseInv, PursesFit
    <3>2. QED
      BY <3>1, PurseStays
  <2>2. QED
    BY <1>1, <2>1 DEF HouseInv, PursesFit
<1>7. PlayersOK' /\ BagsAreSaved'
  <2>1. money' \in [Players -> Int] /\ gold' \in [Players -> Int]
    BY <1>6, MailAssumption DEF PursesFit
  <2>2. bag' \in [Players -> SUBSET Items] /\ stored' \in [Players -> SUBSET Items]
    BY <1>4 DEF HouseInv, PlayersOK
  <2>3. BagsAreSaved'
    BY <1>1, <1>4 DEF HouseInv, PlayersOK, BagsAreSaved
  <2>4. QED
    BY <1>1, <2>1, <2>2, <2>3 DEF HouseInv, PlayersOK
<1>8. AuctionsOK(auction)'
  BY <1>1, <1>2, <1>3 DEF a, HouseInv, AuctionsOK
<1>9. \A id \in MailIds : InMail(id)' = InMail(id)
  BY <1>1 DEF InMail
<1>10. \A q \in Players : stored'[q] = IF q = p THEN stored[p] \ {i} ELSE stored[q]
  BY <1>4 DEF HouseInv, PlayersOK
<1>11. Apart'
  BY <1>9, <1>10 DEF HouseInv, Apart
<1>12. AuctionsApart(auction)'
  <2>1. \A q \in Players : i \notin stored'[q]
    BY <1>4, <1>10 DEF HouseInv, Apart
  <2>2. \A id \in MailIds : i \notin InMail(id)'
    BY <1>4, <1>9 DEF HouseInv, Apart
  <2>3. QED
    BY <1>3, <1>9, <1>10, <2>1, <2>2 DEF HouseInv, AuctionsApart
<1>13. QED
  BY <1>1, <1>5, <1>6, <1>7, <1>8, <1>11, <1>12 DEF HouseInv

LEMMA BidKeeps ==
    ASSUME HouseInv, NEW p \in Players, NEW i \in Items, NEW price \in Prices \ {0},
           online[p], auction[i] # NoAuction, auction[i].owner # p, price > auction[i].bid,
           PlaceBid(p, i, price), UNCHANGED <<online, loaded, deleted>>
    PROVE  HouseInv'
<1> DEFINE a == auction[i]
           now == PriceFor(a, p, price)
           b == [a EXCEPT !.bidder = p, !.bid = price % UINT32,
                          !.paid = IF a.bidder = p THEN @ + now ELSE now]
<1>1. /\ Post(Refunds(a, p, price))
      /\ PayAndSave(p, ModifyMoney(money[p], -now))
      /\ auction' = [auction EXCEPT ![i].bidder = p, ![i].bid = price % UINT32,
                                    ![i].paid = IF a.bidder = p THEN @ + now ELSE now]
  BY Zenon DEF PlaceBid
<1>2. auction' = [auction EXCEPT ![i] = b]
  BY <1>1 DEF HouseInv, AuctionsOK
<1>3. a \in Listings
  BY DEF HouseInv, AuctionsOK
<1>4. now \in Nat /\ price % UINT32 \in 0..(UINT32 - 1)
  <2>1. price \in Nat /\ UINT32 \in Nat \ {0}
    BY MailAssumption, AuctionAssumption
  <2>2. a.bid \in Nat
    BY <1>3, MailAssumption DEF Listings
  <2>3. QED
    BY <2>1, <2>2 DEF PriceFor
<1>5. b \in Listings /\ b.bidder # b.owner
  <2> HIDE DEF now
  <2>1. a.paid + now \in Nat
    BY <1>3, <1>4 DEF Listings
  <2>2. QED
    BY <1>3, <1>4, <2>1 DEF Listings
<1> HIDE DEF b
<1>6. \A j \in Items : auction'[j] = IF j = i THEN b ELSE auction[j]
  BY <1>2 DEF HouseInv, AuctionsOK
<1>7. AuctionsOK(auction)'
  BY <1>2, <1>5, <1>6 DEF HouseInv, AuctionsOK
<1>8. PlayersOK' /\ PursesFit(money, gold)' /\ BagsAreSaved' /\ stored' = stored
  <2> HIDE DEF now
  <2>1. -now \in Int
    BY <1>4
  <2>2. QED
    BY <1>1, <2>1, PaysKeeps
<1>9. NoticesOK(row, box, loaded)' /\ \A id \in MailIds : InMail(id)' = InMail(id)
  <2> DEFINE letters == Refunds(a, p, price)
  <2>1. letters \in Seq(Notices) /\ \A n \in 1..Len(letters) : letters[n].items = {}
    BY <1>3, BidLetters
  <2> HIDE DEF letters
  <2>2. Post(letters)
    BY <1>1 DEF letters
  <2>3. QED
    BY <2>1, <2>2, PostGives, PostsNothing
<1>10. Apart'
  BY <1>8, <1>9 DEF HouseInv, Apart
<1>11. AuctionsApart(auction)'
  BY <1>6, <1>8, <1>9 DEF HouseInv, AuctionsApart
<1>12. QED
  BY <1>7, <1>8, <1>9, <1>10, <1>11 DEF HouseInv

\* The letters of a handler in a row.
LEMMA Joined ==
    ASSUME NEW y \in Notices, NEW z \in Notices
    PROVE  /\ <<>> \o <<z>> = <<z>> /\ <<>> \o <<y, z>> = <<y, z>> /\ <<y>> \o <<z>> = <<y, z>>
<1>1. <<>> \o <<z>> = <<z>> /\ <<>> \o <<y, z>> = <<y, z>>
  OBVIOUS
<1>2. <<y>> \o <<z>> = <<y, z>>
  <2> DEFINE s == <<y>> \o <<z>>
             t == <<y, z>>
  <2>1. s \in Seq(Notices) /\ Len(s) = 2 /\ s[1] = y /\ s[2] = z
    OBVIOUS
  <2>2. t \in Seq(Notices) /\ Len(t) = 2 /\ t[1] = y /\ t[2] = z
    OBVIOUS
  <2> HIDE DEF s, t
  <2>3. \A n \in 1..Len(s) : s[n] = t[n]
    BY <2>1, <2>2
  <2>4. s = t
    BY <2>1, <2>2, <2>3, SeqEqual
  <2>5. QED
    BY <2>4 DEF s, t
<1>3. QED
  BY <1>1, <1>2

LEMMA JoinedThree ==
    ASSUME NEW x \in Notices, NEW y \in Notices, NEW z \in Notices
    PROVE  <<x>> \o <<y, z>> = <<x, y, z>>
<1> DEFINE s == <<x>> \o <<y, z>>
           t == <<x, y, z>>
<1>1. s \in Seq(Notices) /\ Len(s) = 3 /\ s[1] = x /\ s[2] = y /\ s[3] = z
  OBVIOUS
<1>2. t \in Seq(Notices) /\ Len(t) = 3 /\ t[1] = x /\ t[2] = y /\ t[3] = z
  OBVIOUS
<1> HIDE DEF s, t
<1>3. \A n \in 1..Len(s) : s[n] = t[n]
  BY <1>1, <1>2
<1>4. s = t
  BY <1>1, <1>2, <1>3, SeqEqual
<1>5. QED
  BY <1>4 DEF s, t

\* The letters of a buyout.
LEMMA BuyoutEnds ==
    ASSUME NEW a \in Listings, NEW sold \in Listings, sold.bidder # None,
           NEW p \in Players, NEW i \in Items, NEW price
    PROVE  /\ Ending(Refunds(a, p, price) \o <<Successful(sold), Won(sold, i)>>, i)
           /\ Refunds(a, p, price) \o <<Successful(sold), Won(sold, i)>>
                  = IF a.bidder \in {None, p} THEN <<Successful(sold), Won(sold, i)>>
                    ELSE <<Outbidded(a), Successful(sold), Won(sold, i)>>
<1> DEFINE y == Successful(sold)
           z == Won(sold, i)
<1>1. y \in Notices /\ y.items = {} /\ z \in Notices /\ z.items = {i}
  BY HouseLetters
<1>2. CASE a.bidder \in {None, p}
  <2>1. Refunds(a, p, price) = <<>>
    BY <1>2, BidLetters
  <2> HIDE DEF y, z
  <2>2. <<>> \o <<y, z>> = <<y, z>>
    BY <1>1, Joined
  <2>3. Ending(<<y, z>>, i)
    BY <1>1, EndOf2
  <2>4. QED
    BY <1>2, <2>1, <2>2, <2>3 DEF y, z
<1>3. CASE a.bidder \notin {None, p}
  <2> DEFINE x == Outbidded(a)
  <2>1. Refunds(a, p, price) = <<x>>
    BY <1>3, BidLetters
  <2>2. x \in Notices /\ x.items = {}
    BY <1>3, HouseLetters
  <2> HIDE DEF x, y, z
  <2>3. <<x>> \o <<y, z>> = <<x, y, z>>
    BY <1>1, <2>2, JoinedThree
  <2>4. Ending(<<x, y, z>>, i)
    BY <1>1, <2>2, EndOf3
  <2>5. QED
    BY <1>3, <2>1, <2>3, <2>4 DEF x, y, z
<1>4. QED
  BY <1>2, <1>3

LEMMA BuyoutKeeps ==
    ASSUME HouseInv, NEW p \in Players, NEW i \in Items, NEW price \in Prices \ {0},
           online[p], auction[i] # NoAuction, auction[i].owner # p,
           Buyout(p, i, price), UNCHANGED <<online, loaded, deleted>>
    PROVE  HouseInv'
<1> DEFINE a == auction[i]
           sold == [a EXCEPT !.bidder = p, !.bid = a.buyout]
           letters == Refunds(a, p, price) \o <<Successful(sold), Won(sold, i)>>
           now == PriceFor(a, p, a.buyout)
<1>1. Post(letters) /\ PayAndSave(p, ModifyMoney(money[p], -now)) /\ Closed(i)
  BY Zenon DEF Buyout
<1>2. a \in Listings
  BY DEF HouseInv, AuctionsOK
<1>3. a.bid \in Int /\ a.buyout \in Int
  BY <1>2, MailAssumption DEF Listings
<1>4. sold \in Listings /\ sold.bidder # None
  BY <1>2, SoldOK
<1>5. Ending(letters, i)
  <2> HIDE DEF a, sold
  <2>1. QED
    BY <1>2, <1>4, BuyoutEnds
<1>6. PlayersOK' /\ PursesFit(money, gold)' /\ BagsAreSaved' /\ stored' = stored
  <2>1. -now \in Int
    BY <1>3 DEF PriceFor
  <2>2. QED
    BY <1>1, <2>1, PaysKeeps
<1> HIDE DEF letters
<1>7. QED
  BY <1>1, <1>5, <1>6, EndKeeps

LEMMA RemoveKeeps ==
    ASSUME HouseInv, NEW p \in Players, NEW i \in Items, HandleAuctionRemoveItem(p, i)
    PROVE  HouseInv'
<1> DEFINE a == auction[i]
           cut == IF a.bidder = None THEN 0 ELSE GetAuctionCut(a)
           refund == IF a.bidder = None THEN <<>> ELSE <<CancelledToBidder(a)>>
           letters == refund \o <<Expired(a, i)>>
<1>1. /\ online[p] /\ a # NoAuction
      /\ Post(letters) /\ PayAndSave(p, ModifyMoney(money[p], -cut)) /\ Closed(i)
      /\ UNCHANGED <<online, loaded, deleted>>
  BY Zenon DEF HandleAuctionRemoveItem
<1>2. a \in Listings
  BY <1>1 DEF HouseInv, AuctionsOK
<1>3. Expired(a, i) \in Notices /\ Expired(a, i).items = {i}
  BY <1>2, HouseLetters
<1>4. Ending(letters, i)
  <2>1. CASE a.bidder = None
    <3>1. letters = <<Expired(a, i)>>
      BY <1>3, <2>1, Joined
    <3>2. QED
      BY <1>3, <3>1, EndOf1
  <2>2. CASE a.bidder # None
    <3>1. CancelledToBidder(a) \in Notices /\ CancelledToBidder(a).items = {}
      BY <1>2, <2>2, HouseLetters
    <3>2. letters = <<CancelledToBidder(a), Expired(a, i)>>
      BY <1>3, <2>2, <3>1, Joined
    <3>3. QED
      BY <1>3, <3>1, <3>2, EndOf2
  <2>3. QED
    BY <2>1, <2>2
<1>5. -cut \in Int
  <2>1. a.bid * CutPercent \in Int
    BY <1>2, MailAssumption, AuctionAssumption DEF Listings
  <2>2. GetAuctionCut(a) \in Int
    BY <2>1 DEF GetAuctionCut, CalculatePct
  <2>3. QED
    BY <2>2
<1> HIDE DEF letters, cut
<1>6. PlayersOK' /\ PursesFit(money, gold)' /\ BagsAreSaved' /\ stored' = stored
  BY <1>1, <1>5, PaysKeeps
<1>7. QED
  BY <1>1, <1>4, <1>6, EndKeeps

LEMMA UpdateKeeps ==
    ASSUME HouseInv, NEW i \in Items, Update(i)
    PROVE  HouseInv'
<1> DEFINE a == auction[i]
<1>1. /\ a # NoAuction /\ Closed(i)
      /\ UNCHANGED <<gold, stored, online, money, bag, loaded, deleted>>
  BY DEF Update
<1>2. a \in Listings
  BY <1>1 DEF HouseInv, AuctionsOK
<1>3. PlayersOK' /\ PursesFit(money, gold)' /\ BagsAreSaved'
  BY <1>1 DEF HouseInv, PlayersOK, PursesFit, BagsAreSaved
<1>4. PICK letters : Ending(letters, i) /\ Post(letters)
  <2>1. CASE a.bidder = None
    <3>1. Post(<<Expired(a, i)>>)
      BY <2>1 DEF Update
    <3>2. Ending(<<Expired(a, i)>>, i)
      BY <1>2, HouseLetters, EndOf1
    <3>3. QED
      BY <3>1, <3>2
  <2>2. CASE a.bidder # None
    <3>1. Post(<<Successful(a), Won(a, i)>>)
      BY <2>2 DEF Update
    <3>2. Ending(<<Successful(a), Won(a, i)>>, i)
      BY <1>2, <2>2, HouseLetters, EndOf2
    <3>3. QED
      BY <3>1, <3>2
  <2>3. QED
    BY <2>1, <2>2
<1>5. QED
  BY <1>1, <1>3, <1>4, EndKeeps

\* Nothing of what is saved changes in a crash.
LEMMA RestartKeeps == ASSUME HouseInv, Restart PROVE HouseInv'
<1>1. /\ online' = [p \in Players |-> FALSE]
      /\ money' = [p \in Players |-> 0] /\ bag' = [p \in Players |-> {}]
      /\ loaded' = [p \in Players |-> FALSE]
      /\ box' = [p \in Players |-> [id \in MailIds |-> NoMail]]
      /\ deleted' = {}
      /\ UNCHANGED <<row, gold, stored, auction>>
  BY DEF Restart, LoseMemory, database, auctionVars
<1>2. NoticesOK(row, box, loaded)'
  BY <1>1 DEF HouseInv, NoticesOK
<1>3. PlayersOK' /\ BagsAreSaved'
  BY <1>1 DEF HouseInv, PlayersOK, BagsAreSaved
<1>4. PursesFit(money, gold)'
  BY <1>1, MailAssumption DEF HouseInv, PursesFit
<1>5. AuctionsOK(auction)' /\ Apart' /\ AuctionsApart(auction)'
  BY <1>1 DEF HouseInv, AuctionsOK, Apart, AuctionsApart, InMail
<1>6. QED
  BY <1>1, <1>2, <1>3, <1>4, <1>5 DEF HouseInv

\* A step of a player that leaves the auctions, and puts no item anywhere but
\* in the bag of the player who had it in a mail.
LEMMA ItemsKeep ==
    ASSUME HouseInv, UNCHANGED <<auction, stored>>,
           \A id \in MailIds : InMail(id)' \subseteq InMail(id)
    PROVE  AuctionsOK(auction)' /\ Apart' /\ AuctionsApart(auction)'
  BY ShrinkKeepsApart DEF HouseInv, AuctionsOK, AuctionsApart

\* No letter is marked as deleted.
LEMMA NothingDoomed ==
    ASSUME HouseInv, NEW p \in Players
    PROVE  /\ Doomed(p) = {}
           /\ \A b \in [Players -> [MailIds -> Notices \cup {NoMail}]] : Dropped(b, p) = b
           /\ Saved(row, box, p, {}) = row
<1>1. Doomed(p) = {}
  BY DEF Doomed, HouseInv
<1>2. ASSUME NEW b \in [Players -> [MailIds -> Notices \cup {NoMail}]] PROVE Dropped(b, p) = b
  <2>1. [id \in MailIds |-> IF id \in Doomed(p) THEN NoMail ELSE b[p][id]] = b[p]
    BY <1>1
  <2>2. QED
    BY <2>1 DEF Dropped
<1>3. Saved(row, box, p, {}) = row
  BY <1>1 DEF Saved, HouseInv, NoticesOK
<1>4. QED
  BY <1>1, <1>2, <1>3

\* No letter is worth nothing.
LEMMA NoWorth == ASSUME NEW f PROVE Worth(f, {}) = 0
<1> DEFINE h == [id \in {} |-> f[id].money]
<1>1. SumFunction(h) = SumFunctionOnSet(h, {})
  BY DEF SumFunction, SumFunctionOnSet, FoldFunction
<1>2. IsFiniteSet({})
  BY FS_EmptySet
<1> HIDE DEF h
<1>3. SumFunctionOnSet(h, {}) = 0
  BY <1>2, SumEquations
<1>4. QED
  BY <1>1, <1>3 DEF Worth, h

\* The cached letter of p is changed, in memory and database, or goes from both.
LEMMA ChangedOK ==
    ASSUME HouseInv, NEW p \in Players, NEW id \in MailIds, box[p][id] # NoMail,
           NEW mail \in Notices \cup {NoMail},
           mail # NoMail => mail.receiver = p /\ mail.items \subseteq box[p][id].items,
           row' = [row EXCEPT ![id] = mail], box' = [box EXCEPT ![p][id] = mail], UNCHANGED loaded
    PROVE  /\ NoticesOK(row, box, loaded)'
           /\ \A k \in MailIds : InMail(k)' \subseteq InMail(k)
           /\ box[p][id] \in Notices /\ row[id] = box[p][id]
<1>1. row[id] = box[p][id] /\ box[p][id] \in Notices /\ box[p][id].receiver = p /\ loaded[p]
  BY DEF HouseInv, NoticesOK
<1>2. \A q \in Players : box[q][id] # NoMail => q = p
  BY <1>1 DEF HouseInv, NoticesOK
<1>3. \A k \in MailIds : row'[k] = IF k = id THEN mail ELSE row[k]
  BY DEF HouseInv, NoticesOK
<1>4. \A q \in Players, k \in MailIds : box'[q][k] = IF q = p /\ k = id THEN mail ELSE box[q][k]
  BY DEF HouseInv, NoticesOK
<1>5. row' \in [MailIds -> Notices \cup {NoMail}] /\ box' \in [Players -> [MailIds -> Notices \cup {NoMail}]]
  BY DEF HouseInv, NoticesOK
<1>6. ASSUME NEW q \in Players, NEW k \in MailIds, box'[q][k] # NoMail
      PROVE  loaded'[q] /\ box'[q][k].receiver = q /\ row'[k] = box'[q][k]
  <2>1. CASE q = p /\ k = id
    BY <1>1, <1>3, <1>4, <1>6, <2>1
  <2>2. CASE ~(q = p /\ k = id)
    <3>1. box'[q][k] = box[q][k] /\ box[q][k] # NoMail
      BY <1>4, <1>6, <2>2
    <3>2. k # id
      BY <1>2, <2>2, <3>1
    <3>3. loaded[q] /\ box[q][k].receiver = q /\ row[k] = box[q][k]
      BY <3>1 DEF HouseInv, NoticesOK
    <3>4. QED
      BY <1>3, <3>1, <3>2, <3>3
  <2>3. QED
    BY <2>1, <2>2
<1>7. \A k \in MailIds : InMail(k)' \subseteq InMail(k)
  BY <1>1, <1>3, NoNotice DEF InMail
<1>8. QED
  BY <1>1, <1>5, <1>6, <1>7 DEF NoticesOK

\* The letter without its money, and without one of its items.
LEMMA NoticeTaken ==
    ASSUME NEW mail \in Notices, NEW i
    PROVE  /\ [mail EXCEPT !.money = 0] = Notice(mail.receiver, 0, mail.items)
           /\ [mail EXCEPT !.items = @ \ {i}, !.cod = 0] = Notice(mail.receiver, mail.money, mail.items \ {i})
<1> DEFINE m == Notice(mail.receiver, mail.money, mail.items)
<1>1. mail = m
  BY NoticeFields
<1>2. [m EXCEPT !.money = 0] = Notice(mail.receiver, 0, mail.items)
  BY DEF Notice
<1>3. [m EXCEPT !.items = @ \ {i}, !.cod = 0] = Notice(mail.receiver, mail.money, mail.items \ {i})
  <2> DEFINE S == mail.items \ {i}
  <2>1. m.items = mail.items
    BY DEF Notice
  <2>2. [m EXCEPT !.items = @ \ {i}] = [m EXCEPT !.items = S]
    BY <2>1
  <2> HIDE DEF S
  <2>3. [m EXCEPT !.items = S] = Notice(mail.receiver, mail.money, S)
    BY DEF Notice
  <2>4. [Notice(mail.receiver, mail.money, S) EXCEPT !.cod = 0] = Notice(mail.receiver, mail.money, S)
    BY DEF Notice
  <2>5. [m EXCEPT !.items = @ \ {i}, !.cod = 0] = [[m EXCEPT !.items = @ \ {i}] EXCEPT !.cod = 0]
    OBVIOUS
  <2>6. QED
    BY <2>2, <2>3, <2>4, <2>5 DEF S
<1> HIDE DEF m
<1>4. QED
  BY <1>1, <1>2, <1>3

LEMMA NoticeKept == ASSUME NEW n \in Notices PROVE [n EXCEPT !.money = @ % UINT32] = n
<1> DEFINE m == n.money
           x == Notice(n.receiver, m, n.items)
<1>1. n = x /\ m \in 0..(UINT32 - 1)
  BY NoticeFields
<1>2. m % UINT32 = m
  BY <1>1, MailAssumption
<1> HIDE DEF m
<1>3. [x EXCEPT !.money = @ % UINT32] = x
  BY <1>2 DEF Notice
<1>4. QED
  BY <1>1, <1>3 DEF m

LEMMA NothingLostWith ==
    ASSUME HouseInv, NEW p \in Players
    PROVE  deleted \ Doomed(p) = {} /\ Worth(box[p], Doomed(p)) = 0
<1>1. Doomed(p) = {} /\ deleted = {}
  BY DEF Doomed, HouseInv
<1>2. QED
  BY <1>1, NoWorth

LEMMA CachedNotice ==
    ASSUME HouseInv, NEW p \in Players, NEW id \in MailIds, box[p][id] # NoMail
    PROVE  /\ box[p][id] \in Notices /\ row[id] = box[p][id] /\ box[p][id].receiver = p
           /\ InMail(id) = box[p][id].items /\ online[p] /\ loaded[p]
<1>1. box[p][id] \in Notices /\ row[id] = box[p][id] /\ box[p][id].receiver = p /\ loaded[p]
  BY DEF HouseInv, NoticesOK
<1>2. online[p]
  BY <1>1 DEF HouseInv, BagsAreSaved
<1>3. QED
  BY <1>1, <1>2 DEF InMail

LEMMA TakeMoneyGives ==
    ASSUME HouseInv, NEW p \in Players, NEW id \in MailIds, box[p][id] # NoMail, HandleMailTakeMoney(p, id)
    PROVE  /\ box[p][id].money > 0 => money[p] < MAX_MONEY_AMOUNT - box[p][id].money
           /\ row' = [row EXCEPT ![id] = Notice(p, 0, box[p][id].items)]
           /\ box' = [box EXCEPT ![p][id] = Notice(p, 0, box[p][id].items)]
           /\ money' = [money EXCEPT ![p] = ModifyMoney(@, box[p][id].money)]
           /\ gold' = [gold EXCEPT ![p] = money'[p]]
           /\ deleted' = {} /\ ledger' = ledger - 0
           /\ UNCHANGED <<stored, online, bag, loaded, minted>>
<1> DEFINE opened == [box EXCEPT ![p][id].money = 0]
           S == box[p][id].items
<1>1. /\ box[p][id].money > 0 => money[p] < MAX_MONEY_AMOUNT - box[p][id].money
      /\ money' = [money EXCEPT ![p] = ModifyMoney(@, box[p][id].money)]
      /\ gold' = [gold EXCEPT ![p] = money'[p]]
      /\ row' = Saved(row, opened, p, {id}) /\ box' = Dropped(opened, p)
      /\ deleted' = deleted \ Doomed(p)
      /\ ledger' = ledger - Worth(box[p], Doomed(p))
      /\ UNCHANGED <<stored, online, bag, loaded, minted>>
  BY DEF HandleMailTakeMoney
<1>2. box[p][id] \in Notices /\ box[p][id].receiver = p /\ S \in SUBSET Items /\ 0 \in 0..(UINT32 - 1)
  BY CachedNotice, NoticeFields, MailAssumption
<1>3. [box[p][id] EXCEPT !.money = 0] = Notice(p, 0, S)
  BY <1>2, NoticeTaken
<1> DEFINE n == Notice(p, 0, S)
<1>4. opened = [box EXCEPT ![p][id] = n] /\ n \in Notices
  BY <1>2, <1>3, NoticeOK
<1> HIDE DEF opened, n
<1>5. /\ Saved(row, opened, p, {id}) = [row EXCEPT ![id] = n]
      /\ Dropped(opened, p) = opened
      /\ deleted \ Doomed(p) = {} /\ Worth(box[p], Doomed(p)) = 0
  <2>1. opened \in [Players -> [MailIds -> Notices \cup {NoMail}]] /\ opened[p][id] = n
    BY <1>4 DEF HouseInv, NoticesOK
  <2>2. row \in [MailIds -> Notices \cup {NoMail}]
    BY DEF HouseInv, NoticesOK
  <2>3. Doomed(p) = {} /\ Dropped(opened, p) = opened
    BY <2>1, NothingDoomed
  <2>4. [n EXCEPT !.money = @ % UINT32] = n
    BY <1>4, NoticeKept
  <2>5. Saved(row, opened, p, {id}) = [row EXCEPT ![id] = n]
    BY <2>1, <2>2, <2>3, <2>4 DEF Saved
  <2>6. QED
    BY <2>3, <2>5, NothingLostWith
<1>6. QED
  BY <1>1, <1>4, <1>5 DEF n

LEMMA TakeItemGives ==
    ASSUME HouseInv, NEW p \in Players, NEW id \in MailIds, box[p][id] # NoMail, HandleMailTakeItem(p, id)
    PROVE  \E i \in box[p][id].items :
           /\ row' = [row EXCEPT ![id] = Notice(p, box[p][id].money, box[p][id].items \ {i})]
           /\ box' = [box EXCEPT ![p][id] = Notice(p, box[p][id].money, box[p][id].items \ {i})]
           /\ money' = money /\ gold' = [gold EXCEPT ![p] = money[p]]
           /\ bag' = [bag EXCEPT ![p] = @ \cup {i}]
           /\ stored' = [stored EXCEPT ![p] = bag'[p]]
           /\ deleted' = {} /\ ledger' = ledger - 0
           /\ UNCHANGED <<online, loaded, minted>>
<1> DEFINE mail == box[p][id]
           m == mail.money
           COD == mail.cod
           pay == IF COD > 0 THEN NewId ELSE id
<1>1. PICK i \in mail.items :
          /\ PaysSender(p, id, i, pay)
          /\ money' = [money EXCEPT ![p] = ModifyMoney(@, -Int32(COD))]
          /\ gold' = [gold EXCEPT ![p] = money'[p]]
          /\ bag' = [bag EXCEPT ![p] = @ \cup {i}]
          /\ stored' = [stored EXCEPT ![p] = bag'[p]]
          /\ deleted' = deleted \ Doomed(p)
          /\ ledger' = ledger - Worth(box[p], Doomed(p))
          /\ UNCHANGED <<online, loaded, minted>>
  BY ZenonT(60) DEF HandleMailTakeItem
<1> DEFINE opened == [box EXCEPT ![p][id] = [mail EXCEPT !.items = @ \ {i}, !.cod = 0]]
           S == mail.items \ {i}
<1>2. /\ mail \in Notices /\ mail.receiver = p /\ COD = 0 /\ m \in 0..(UINT32 - 1)
      /\ S \in SUBSET Items
  BY CachedNotice, NoticeFields
<1>3. row' = Saved(row, opened, p, {id}) /\ box' = Dropped(opened, p)
  <2>1. ~(mail.cod > 0)
    BY <1>2
  <2>2. QED
    BY <1>1, <2>1, Zenon DEF PaysSender
<1> DEFINE x == Notice(p, m, S)
<1>4. opened = [box EXCEPT ![p][id] = x] /\ x \in Notices
  <2>1. [mail EXCEPT !.items = @ \ {i}, !.cod = 0] = Notice(p, m, S)
    <3> HIDE DEF mail
    <3>1. QED
      BY <1>2, NoticeTaken
  <2>2. QED
    BY <1>2, <2>1, NoticeOK
<1>5. ModifyMoney(money[p], -Int32(COD)) = money[p]
  <2> DEFINE n == Int32(COD)
  <2>1. n = 0
    BY <1>2, MailAssumption DEF Int32
  <2>2. money[p] \in Nat
    BY MailAssumption DEF HouseInv, PursesFit
  <2> HIDE DEF n
  <2>3. -n = 0
    <3>1. -n = -0
      BY <2>1, Zenon
    <3>2. QED
      BY <3>1
  <2>4. QED
    BY <2>2, <2>3, MailAssumption DEF ModifyMoney, n
<1>6. money' = money /\ gold' = [gold EXCEPT ![p] = money[p]]
  BY <1>1, <1>5 DEF HouseInv, PursesFit
<1> HIDE DEF opened, x
<1>7. /\ Saved(row, opened, p, {id}) = [row EXCEPT ![id] = x]
      /\ Dropped(opened, p) = opened
      /\ deleted \ Doomed(p) = {} /\ Worth(box[p], Doomed(p)) = 0
  <2>1. opened \in [Players -> [MailIds -> Notices \cup {NoMail}]] /\ opened[p][id] = x
    BY <1>4 DEF HouseInv, NoticesOK
  <2>2. row \in [MailIds -> Notices \cup {NoMail}]
    BY DEF HouseInv, NoticesOK
  <2>3. Doomed(p) = {} /\ Dropped(opened, p) = opened
    BY <2>1, NothingDoomed
  <2>4. [x EXCEPT !.money = @ % UINT32] = x
    BY <1>4, NoticeKept
  <2>5. Saved(row, opened, p, {id}) = [row EXCEPT ![id] = x]
    BY <2>1, <2>2, <2>3, <2>4 DEF Saved
  <2>6. QED
    BY <2>3, <2>5, NothingLostWith
<1>8. QED
  BY <1>1, <1>3, <1>4, <1>6, <1>7 DEF x

LEMMA ReturnGives ==
    ASSUME HouseInv, NEW p \in Players, NEW id \in MailIds, box[p][id] # NoMail,
           HandleMailReturnToSender(p, id)
    PROVE  /\ row' = [row EXCEPT ![id] = NoMail] /\ box' = [box EXCEPT ![p][id] = NoMail]
           /\ ledger' = ledger - box[p][id].money
           /\ UNCHANGED <<gold, stored, online, money, bag, loaded, deleted, minted>>
<1>1. box[p][id].type # "normal"
  BY CachedNotice, NoticeFields
<1>2. QED
  BY <1>1, ZenonT(60) DEF HandleMailReturnToSender

\* The handlers of a letter, but for what they do to the bags.
LEMMA TakeMoneyHouse ==
    ASSUME HouseInv, NEW p \in Players, NEW id \in MailIds, box[p][id] # NoMail,
           HandleMailTakeMoney(p, id), UNCHANGED auction
    PROVE  HouseInv'
<1> DEFINE mail == box[p][id]
           n == Notice(p, 0, mail.items)
<1>1. mail \in Notices /\ mail.items \in SUBSET Items /\ 0 \in 0..(UINT32 - 1) /\ mail.money \in Int
  BY CachedNotice, NoticeFields, MailAssumption
<1>2. n \in Notices /\ n.receiver = p /\ n.items = mail.items
  BY <1>1, NoticeOK
<1>3. /\ row' = [row EXCEPT ![id] = n] /\ box' = [box EXCEPT ![p][id] = n]
      /\ money' = [money EXCEPT ![p] = ModifyMoney(@, mail.money)]
      /\ gold' = [gold EXCEPT ![p] = money'[p]]
      /\ deleted' = {}
      /\ UNCHANGED <<stored, online, bag, loaded>>
  BY TakeMoneyGives
<1> HIDE DEF n
<1>4. NoticesOK(row, box, loaded)' /\ \A k \in MailIds : InMail(k)' \subseteq InMail(k)
  BY <1>2, <1>3, ChangedOK
<1>5. AuctionsOK(auction)' /\ Apart' /\ AuctionsApart(auction)'
  BY <1>3, <1>4, ItemsKeep
<1>6. PursesFit(money, gold)'
  <2>1. ModifyMoney(money[p], mail.money) \in 0..MAX_MONEY_AMOUNT
    BY <1>1, PurseStays DEF HouseInv, PursesFit
  <2>2. QED
    BY <1>3, <2>1 DEF HouseInv, PursesFit
<1>7. PlayersOK' /\ BagsAreSaved'
  <2>1. money' \in [Players -> Int] /\ gold' \in [Players -> Int]
    BY <1>6, MailAssumption DEF PursesFit
  <2>2. QED
    BY <1>3, <2>1 DEF HouseInv, PlayersOK, BagsAreSaved
<1>8. QED
  BY <1>3, <1>4, <1>5, <1>6, <1>7 DEF HouseInv

LEMMA TakeItemHouse ==
    ASSUME HouseInv, NEW p \in Players, NEW id \in MailIds, box[p][id] # NoMail,
           HandleMailTakeItem(p, id), UNCHANGED auction
    PROVE  HouseInv'
<1> DEFINE mail == box[p][id]
<1>1. mail \in Notices /\ mail.items \in SUBSET Items /\ mail.money \in 0..(UINT32 - 1)
      /\ InMail(id) = mail.items /\ online[p]
  BY CachedNotice, NoticeFields
<1>2. PICK i \in mail.items :
          /\ row' = [row EXCEPT ![id] = Notice(p, mail.money, mail.items \ {i})]
          /\ box' = [box EXCEPT ![p][id] = Notice(p, mail.money, mail.items \ {i})]
          /\ money' = money /\ gold' = [gold EXCEPT ![p] = money[p]]
          /\ bag' = [bag EXCEPT ![p] = @ \cup {i}]
          /\ stored' = [stored EXCEPT ![p] = bag'[p]]
          /\ deleted' = {}
          /\ UNCHANGED <<online, loaded>>
  BY TakeItemGives
<1> DEFINE n == Notice(p, mail.money, mail.items \ {i})
<1>3. n \in Notices /\ n.receiver = p /\ n.items = mail.items \ {i} /\ i \in Items
  BY <1>1, NoticeOK
<1>4. row' = [row EXCEPT ![id] = n] /\ box' = [box EXCEPT ![p][id] = n]
  BY <1>2
<1> HIDE DEF n
<1>5. NoticesOK(row, box, loaded)' /\ \A k \in MailIds : InMail(k)' \subseteq InMail(k)
  <2>1. n \in Notices \cup {NoMail} /\ n.items \subseteq box[p][id].items /\ UNCHANGED loaded
    BY <1>2, <1>3
  <2>2. QED
    BY <1>3, <1>4, <2>1, ChangedOK, Zenon
<1>6. i \notin InMail(id)'
  <2>1. row'[id] = n
    BY <1>4 DEF HouseInv, NoticesOK
  <2>2. QED
    BY <1>3, <2>1 DEF InMail
<1>7. i \in InMail(id)
  BY <1>1
<1>8. bag' = [bag EXCEPT ![p] = stored[p] \cup {i}] /\ stored' = [stored EXCEPT ![p] = @ \cup {i}]
  BY <1>1, <1>2 DEF HouseInv, PlayersOK, BagsAreSaved
<1>9. \A q \in Players : stored'[q] = IF q = p THEN stored[p] \cup {i} ELSE stored[q]
  BY <1>8 DEF HouseInv, PlayersOK
<1>10. \A k \in MailIds : i \notin InMail(k)'
  <2>1. \A k \in MailIds \ {id} : i \notin InMail(k)
    BY <1>7 DEF HouseInv, Apart
  <2>2. QED
    BY <1>5, <1>6, <2>1
<1>11. Apart'
  <2>1. \A q \in Players : i \notin stored[q]
    BY <1>7 DEF HouseInv, Apart
  <2>2. ASSUME NEW q \in Players, NEW r \in Players, q # r PROVE stored'[q] \cap stored'[r] = {}
    <3>1. stored[q] \cap stored[r] = {}
      BY <2>2 DEF HouseInv, Apart
    <3>2. QED
      BY <1>9, <2>1, <2>2, <3>1
  <2>3. ASSUME NEW q \in Players, NEW k \in MailIds PROVE stored'[q] \cap InMail(k)' = {}
    <3>1. stored[q] \cap InMail(k) = {}
      BY DEF HouseInv, Apart
    <3>2. QED
      BY <1>5, <1>9, <1>10, <3>1
  <2>4. ASSUME NEW k \in MailIds, NEW l \in MailIds, k # l PROVE InMail(k)' \cap InMail(l)' = {}
    <3>1. InMail(k) \cap InMail(l) = {}
      BY <2>4 DEF HouseInv, Apart
    <3>2. QED
      BY <1>5, <3>1
  <2>5. QED
    BY <2>2, <2>3, <2>4 DEF Apart
<1>12. AuctionsOK(auction)'
  BY DEF HouseInv, AuctionsOK
<1>13. AuctionsApart(auction)'
  <2> SUFFICES ASSUME NEW j \in Items, auction[j] # NoAuction
               PROVE  (\A q \in Players : j \notin stored'[q]) /\ \A k \in MailIds : j \notin InMail(k)'
    BY DEF AuctionsApart
  <2>1. (\A q \in Players : j \notin stored[q]) /\ \A k \in MailIds : j \notin InMail(k)
    BY DEF HouseInv, AuctionsApart
  <2>2. j # i
    BY <1>7, <2>1
  <2>3. QED
    BY <1>5, <1>9, <2>1, <2>2
<1>14. PursesFit(money, gold)'
  BY <1>2 DEF HouseInv, PursesFit
<1>15. PlayersOK'
  <2>1. money' \in [Players -> Int] /\ gold' \in [Players -> Int]
    BY <1>14, MailAssumption DEF PursesFit
  <2>2. bag' \in [Players -> SUBSET Items] /\ stored' \in [Players -> SUBSET Items]
    BY <1>3, <1>8 DEF HouseInv, PlayersOK
  <2>3. QED
    BY <1>2, <2>1, <2>2 DEF HouseInv, PlayersOK
<1>16. BagsAreSaved'
  BY <1>2, <1>8 DEF HouseInv, PlayersOK, BagsAreSaved
<1>17. QED
  BY <1>2, <1>5, <1>11, <1>12, <1>13, <1>14, <1>15, <1>16 DEF HouseInv

LEMMA ReturnHouse ==
    ASSUME HouseInv, NEW p \in Players, NEW id \in MailIds, box[p][id] # NoMail,
           HandleMailReturnToSender(p, id), UNCHANGED auction
    PROVE  HouseInv'
<1>1. /\ row' = [row EXCEPT ![id] = NoMail] /\ box' = [box EXCEPT ![p][id] = NoMail]
      /\ UNCHANGED <<gold, stored, online, money, bag, loaded, deleted>>
  BY ReturnGives
<1>2. NoticesOK(row, box, loaded)' /\ \A k \in MailIds : InMail(k)' \subseteq InMail(k)
  BY <1>1, ChangedOK
<1>3. AuctionsOK(auction)' /\ Apart' /\ AuctionsApart(auction)'
  BY <1>1, <1>2, ItemsKeep
<1>4. PursesFit(money, gold)' /\ PlayersOK' /\ BagsAreSaved'
  BY <1>1 DEF HouseInv, PursesFit, PlayersOK, BagsAreSaved
<1>5. QED
  BY <1>1, <1>2, <1>3, <1>4 DEF HouseInv

LEMMA LoadHouse ==
    ASSUME HouseInv, NEW p \in Players, LoadMail(p), UNCHANGED auction
    PROVE  HouseInv'
<1>1. /\ online[p] /\ loaded' = [loaded EXCEPT ![p] = TRUE]
      /\ box' = [box EXCEPT ![p] = [id \in MailIds |-> IF id \in MailsOf(p) THEN row[id] ELSE NoMail]]
      /\ UNCHANGED <<row, gold, stored, online, money, bag, deleted>>
  BY DEF LoadMail, database
<1>2. row \in [MailIds -> Notices \cup {NoMail}] /\ box \in [Players -> [MailIds -> Notices \cup {NoMail}]]
  BY DEF HouseInv, NoticesOK
<1>3. row' \in [MailIds -> Notices \cup {NoMail}] /\ box' \in [Players -> [MailIds -> Notices \cup {NoMail}]]
  BY <1>1, <1>2
<1>4. ASSUME NEW q \in Players, NEW id \in MailIds, box'[q][id] # NoMail
      PROVE  loaded'[q] /\ box'[q][id].receiver = q /\ row'[id] = box'[q][id]
  <2>1. CASE q = p
    <3>1. id \in MailsOf(p) /\ box'[q][id] = row[id] /\ loaded'[q]
      BY <1>1, <1>2, <1>4, <2>1 DEF HouseInv, PlayersOK
    <3>2. row[id].receiver = p
      BY <3>1 DEF MailsOf
    <3>3. QED
      BY <1>1, <2>1, <3>1, <3>2
  <2>2. CASE q # p
    <3>1. box'[q][id] = box[q][id] /\ loaded'[q] = loaded[q]
      BY <1>1, <1>2, <2>2 DEF HouseInv, PlayersOK
    <3>2. QED
      BY <1>1, <1>4, <3>1 DEF HouseInv, NoticesOK
  <2>3. QED
    BY <2>1, <2>2
<1>5. NoticesOK(row, box, loaded)'
  BY <1>3, <1>4 DEF NoticesOK
<1>6. AuctionsOK(auction)' /\ Apart' /\ AuctionsApart(auction)'
  <2>1. \A id \in MailIds : InMail(id)' \subseteq InMail(id)
    BY <1>1 DEF InMail
  <2>2. QED
    BY <1>1, <2>1, ItemsKeep
<1>7. PursesFit(money, gold)' /\ PlayersOK' /\ BagsAreSaved'
  BY <1>1 DEF HouseInv, PursesFit, PlayersOK, BagsAreSaved
<1>8. QED
  BY <1>1, <1>5, <1>6, <1>7 DEF HouseInv

\* A save writes the purse; the bags are saved already, and no letter is marked.
LEMMA SaveGives ==
    ASSUME HouseInv, NEW p \in Players, online[p], SaveToDB(p)
    PROVE  /\ gold' = [gold EXCEPT ![p] = money[p]] /\ stored' = stored /\ row' = row
           /\ deleted' = {} /\ ledger' = ledger - 0
           /\ Dropped(box, p) = box
<1>1. /\ gold' = [gold EXCEPT ![p] = money[p]] /\ stored' = [stored EXCEPT ![p] = bag[p]]
      /\ row' = Saved(row, box, p, {}) /\ deleted' = deleted \ Doomed(p)
      /\ ledger' = ledger - Worth(box[p], Doomed(p))
  BY DEF SaveToDB
<1>2. stored' = stored
  BY <1>1 DEF HouseInv, PlayersOK, BagsAreSaved
<1>3. box \in [Players -> [MailIds -> Notices \cup {NoMail}]]
  BY DEF HouseInv, NoticesOK
<1>4. QED
  BY <1>1, <1>2, <1>3, NothingDoomed, NothingLostWith

LEMMA AutoSaveHouse ==
    ASSUME HouseInv, NEW p \in Players, AutoSave(p), UNCHANGED auction
    PROVE  HouseInv'
<1>1. /\ gold' = [gold EXCEPT ![p] = money[p]] /\ stored' = stored /\ row' = row /\ deleted' = {}
      /\ box' = box /\ UNCHANGED <<online, money, bag, loaded>>
  BY SaveGives DEF AutoSave
<1>2. NoticesOK(row, box, loaded)'
  BY <1>1 DEF HouseInv, NoticesOK
<1>3. AuctionsOK(auction)' /\ Apart' /\ AuctionsApart(auction)'
  <2>1. \A id \in MailIds : InMail(id)' \subseteq InMail(id)
    BY <1>1 DEF InMail
  <2>2. QED
    BY <1>1, <2>1, ItemsKeep
<1>4. PursesFit(money, gold)' /\ PlayersOK' /\ BagsAreSaved'
  BY <1>1 DEF HouseInv, PursesFit, PlayersOK, BagsAreSaved
<1>5. QED
  BY <1>1, <1>2, <1>3, <1>4 DEF HouseInv

LEMMA LogoutHouse ==
    ASSUME HouseInv, NEW p \in Players, LogoutPlayer(p), UNCHANGED auction
    PROVE  HouseInv'
<1>1. /\ gold' = [gold EXCEPT ![p] = money[p]] /\ stored' = stored /\ row' = row /\ deleted' = {}
      /\ online' = [online EXCEPT ![p] = FALSE]
      /\ money' = [money EXCEPT ![p] = 0] /\ bag' = [bag EXCEPT ![p] = {}]
      /\ loaded' = [loaded EXCEPT ![p] = FALSE]
      /\ box' = [box EXCEPT ![p] = [id \in MailIds |-> NoMail]]
  BY SaveGives DEF LogoutPlayer, Emptied
<1>2. \A q \in Players : /\ loaded'[q] = IF q = p THEN FALSE ELSE loaded[q]
                         /\ online'[q] = IF q = p THEN FALSE ELSE online[q]
                         /\ bag'[q] = IF q = p THEN {} ELSE bag[q]
                         /\ \A id \in MailIds : box'[q][id] = IF q = p THEN NoMail ELSE box[q][id]
  BY <1>1 DEF HouseInv, PlayersOK, NoticesOK
<1>3. NoticesOK(row, box, loaded)'
  <2>1. row' \in [MailIds -> Notices \cup {NoMail}] /\ box' \in [Players -> [MailIds -> Notices \cup {NoMail}]]
    BY <1>1 DEF HouseInv, NoticesOK
  <2>2. \A q \in Players, id \in MailIds : box'[q][id] # NoMail =>
            loaded'[q] /\ box'[q][id].receiver = q /\ row'[id] = box'[q][id]
    BY <1>1, <1>2 DEF HouseInv, NoticesOK
  <2>3. QED
    BY <2>1, <2>2 DEF NoticesOK
<1>4. AuctionsOK(auction)' /\ Apart' /\ AuctionsApart(auction)'
  <2>1. \A id \in MailIds : InMail(id)' \subseteq InMail(id)
    BY <1>1 DEF InMail
  <2>2. QED
    BY <1>1, <2>1, ItemsKeep
<1>5. PursesFit(money, gold)'
  BY <1>1, MailAssumption DEF HouseInv, PursesFit
<1>6. PlayersOK'
  BY <1>1 DEF HouseInv, PlayersOK
<1>7. BagsAreSaved'
  BY <1>1, <1>2 DEF HouseInv, BagsAreSaved
<1>8. QED
  BY <1>1, <1>3, <1>4, <1>5, <1>6, <1>7 DEF HouseInv

LEMMA LoginHouse ==
    ASSUME HouseInv, NEW p \in Players, Login(p), UNCHANGED auction
    PROVE  HouseInv'
<1>1. /\ online' = [online EXCEPT ![p] = TRUE] /\ money' = [money EXCEPT ![p] = gold[p]]
      /\ bag' = [bag EXCEPT ![p] = stored[p]]
      /\ UNCHANGED <<row, gold, stored, loaded, box, deleted>>
  BY DEF Login, database
<1>2. NoticesOK(row, box, loaded)'
  BY <1>1 DEF HouseInv, NoticesOK
<1>3. AuctionsOK(auction)' /\ Apart' /\ AuctionsApart(auction)'
  <2>1. \A id \in MailIds : InMail(id)' \subseteq InMail(id)
    BY <1>1 DEF InMail
  <2>2. QED
    BY <1>1, <2>1, ItemsKeep
<1>4. PursesFit(money, gold)' /\ PlayersOK'
  BY <1>1 DEF HouseInv, PursesFit, PlayersOK
<1>5. BagsAreSaved'
  BY <1>1 DEF HouseInv, PlayersOK, BagsAreSaved
<1>6. QED
  BY <1>1, <1>2, <1>3, <1>4, <1>5 DEF HouseInv

LEMMA EarnHouse ==
    ASSUME HouseInv, NEW p \in Players, Earn(p), UNCHANGED auction
    PROVE  HouseInv'
<1>1. /\ money' = [money EXCEPT ![p] = ModifyMoney(@, 1)]
      /\ UNCHANGED <<row, gold, stored, online, bag, loaded, box, deleted>>
  BY DEF Earn, database
<1>2. NoticesOK(row, box, loaded)'
  BY <1>1 DEF HouseInv, NoticesOK
<1>3. AuctionsOK(auction)' /\ Apart' /\ AuctionsApart(auction)'
  <2>1. \A id \in MailIds : InMail(id)' \subseteq InMail(id)
    BY <1>1 DEF InMail
  <2>2. QED
    BY <1>1, <2>1, ItemsKeep
<1>4. PursesFit(money, gold)'
  <2>1. ModifyMoney(money[p], 1) \in 0..MAX_MONEY_AMOUNT
    BY PurseStays DEF HouseInv, PursesFit
  <2>2. QED
    BY <1>1, <2>1 DEF HouseInv, PursesFit
<1>5. PlayersOK' /\ BagsAreSaved'
  <2>1. money' \in [Players -> Int]
    BY <1>4, MailAssumption DEF PursesFit
  <2>2. QED
    BY <1>1, <2>1 DEF HouseInv, PlayersOK, BagsAreSaved
<1>6. QED
  BY <1>1, <1>2, <1>3, <1>4, <1>5 DEF HouseInv

LEMMA HouseInit == AuctionInit => HouseInv
<1> SUFFICES ASSUME AuctionInit PROVE HouseInv
  OBVIOUS
<1>1. IInv
  BY IInvInit DEF AuctionInit
<1>2. deleted = {} /\ NoticesOK(row, box, loaded)
  BY DEF AuctionInit, Init, NoticesOK
<1>3. PursesFit(money, gold)
  BY MailAssumption DEF AuctionInit, Init, PursesFit
<1>4. AuctionsOK(auction) /\ AuctionsApart(auction)
  BY DEF AuctionInit, AuctionsOK, AuctionsApart
<1>5. QED
  BY <1>1, <1>2, <1>3, <1>4 DEF IInv, HouseInv

LEMMA HouseStep == HouseInv /\ [AuctionNext]_allVars => HouseInv'
<1> SUFFICES ASSUME HouseInv, [AuctionNext]_allVars PROVE HouseInv'
  OBVIOUS
<1>1. CASE \E p \in Players, i \in Items : HandleAuctionSellItem(p, i)
  BY <1>1, SellKeeps
<1>2. CASE \E p \in Players, i \in Items : HandleAuctionPlaceBid(p, i)
  <2>1. PICK p \in Players, i \in Items : HandleAuctionPlaceBid(p, i)
    BY <1>2
  <2>2. PICK price \in Prices \ {0} :
            /\ online[p] /\ auction[i] # NoAuction /\ auction[i].owner # p
            /\ Acceptable(auction[i], price)
            /\ PlaceBid(p, i, price) \/ Buyout(p, i, price)
            /\ UNCHANGED <<online, loaded, deleted>>
    BY <2>1 DEF HandleAuctionPlaceBid
  <2>3. price > auction[i].bid
    BY <2>2 DEF Acceptable
  <2>4. QED
    BY <2>2, <2>3, BidKeeps, BuyoutKeeps
<1>3. CASE \E p \in Players, i \in Items : HandleAuctionRemoveItem(p, i)
  BY <1>3, RemoveKeeps
<1>4. CASE \E i \in Items : Update(i)
  BY <1>4, UpdateKeeps
<1>5. CASE \E p \in Players : (CollectMail(p) \/ Sessions(p)) /\ UNCHANGED auctionVars
  <2>1. PICK p \in Players : (CollectMail(p) \/ Sessions(p)) /\ UNCHANGED auctionVars
    BY <1>5
  <2>2. UNCHANGED auction
    BY <2>1 DEF auctionVars
  <2>3. CASE CollectMail(p)
    <3>1. CASE LoadMail(p)
      BY <2>2, <3>1, LoadHouse
    <3>2. CASE \E id \in Mails(box[p]) : \/ HandleMailTakeItem(p, id) \/ HandleMailTakeMoney(p, id)
                                         \/ HandleMailReturnToSender(p, id)
      <4>1. PICK id \in Mails(box[p]) : \/ HandleMailTakeItem(p, id) \/ HandleMailTakeMoney(p, id)
                                        \/ HandleMailReturnToSender(p, id)
        BY <3>2
      <4>2. id \in MailIds /\ box[p][id] # NoMail
        BY DEF Mails
      <4>3. QED
        BY <2>2, <4>1, <4>2, TakeItemHouse, TakeMoneyHouse, ReturnHouse
    <3>3. QED
      BY <2>3, <3>1, <3>2 DEF CollectMail
  <2>4. CASE Sessions(p)
    BY <2>2, <2>4, AutoSaveHouse, LogoutHouse, LoginHouse, EarnHouse DEF Sessions
  <2>5. QED
    BY <2>1, <2>3, <2>4
<1>6. CASE Restart
  BY <1>6, RestartKeeps
<1>7. CASE UNCHANGED allVars
  <2>1. UNCHANGED <<row, gold, stored, online, money, bag, loaded, box, deleted, auction>>
    BY <1>7 DEF allVars, vars, database, memory, auctionVars
  <2>2. QED
    BY <2>1 DEF HouseInv, NoticesOK, PlayersOK, PursesFit, BagsAreSaved, AuctionsOK, Apart, AuctionsApart, InMail
<1>8. QED
  BY <1>1, <1>2, <1>3, <1>4, <1>5, <1>6, <1>7 DEF AuctionNext

\* Memory and database agree, nobody's purse overflows, and what is up for sale
\* is in nobody's bags and in no mail, in every state.
THEOREM HouseIsConsistent == AuctionSpec => []HouseInv
<1>1. QED
  BY HouseInit, HouseStep, PTL DEF AuctionSpec

------------------------------------------------------------------------------
(* The money of the house.  Again the columns are narrower than what could be  *)
(* in the world; the deposits count twice, since a crash can give them back.   *)

AuctionsFit == Supply + Deposit * MaxAuctions < UINT32

Held(x) == IF x = NoAuction THEN 0 ELSE x.bid + x.deposit
InEscrow(a) == SumFunctionOnSet([i \in Items |-> Held(a[i])], Items)

\* The most a player has, in memory or in the database.
PeaksOf(o, m, g) == [p \in Players |-> IF o[p] /\ m[p] > g[p] THEN m[p] ELSE g[p]]
InPeaks(o, m, g) == SumFunctionOnSet(PeaksOf(o, m, g), Players)

\* Who bids has paid his bid, which is less than the price for buying out.
BidsPaid(a) ==
    \A i \in Items : a[i] # NoAuction =>
        /\ a[i].bid = a[i].paid
        /\ a[i].bidder = None <=> a[i].bid = 0
        /\ a[i].buyout > 0 => a[i].bid < a[i].buyout

\* Every coin is in a purse, a letter or an auction.
HouseBooks ==
    /\ ledger \in Nat /\ minted \in Nat /\ started \in Nat
    /\ InPurses(online, money, gold) + InMails(row) + InEscrow(auction) = ledger
    /\ InPeaks(online, money, gold) + InMails(row) + InEscrow(auction) <= minted + Deposit * started
    /\ minted <= Supply /\ started <= MaxAuctions

HouseAccounts == HouseBooks /\ BidsPaid(auction)

\* One mail has another amount.
LEMMA MailMove ==
    ASSUME NEW r, NEW s, NEW x \in MailIds,
           \A id \in MailIds : Amount(r[id]) \in Nat /\ Amount(s[id]) \in Nat,
           \A id \in MailIds \ {x} : Amount(s[id]) = Amount(r[id])
    PROVE  /\ InMails(s) = InMails(r) - Amount(r[x]) + Amount(s[x])
           /\ InMails(r) \in Nat /\ InMails(s) \in Nat
<1> DEFINE a == Amounts(r)
           b == Amounts(s)
<1>1. /\ \A id \in MailIds : a[id] = Amount(r[id]) /\ b[id] = Amount(s[id])
      /\ \A id \in MailIds : a[id] \in Nat /\ b[id] \in Nat
      /\ \A id \in MailIds \ {x} : b[id] = a[id]
  BY DEF Amounts
<1>2. IsFiniteSet(MailIds)
  BY MailAssumption
<1> HIDE DEF a, b
<1>3. SumFunctionOnSet(b, MailIds) = SumFunctionOnSet(a, MailIds) - a[x] + b[x]
  BY <1>1, <1>2, SumChange
<1>4. SumFunctionOnSet(a, MailIds) \in Nat /\ SumFunctionOnSet(b, MailIds) \in Nat
  BY <1>1, <1>2, SumNat
<1>5. QED
  BY <1>1, <1>3, <1>4 DEF InMails, a, b

LEMMA MailsSame ==
    ASSUME NEW r, NEW s, \A id \in MailIds : Amount(s[id]) = Amount(r[id])
    PROVE  InMails(s) = InMails(r)
<1>1. Amounts(s) = Amounts(r)
  BY DEF Amounts
<1>2. QED
  BY <1>1 DEF InMails

LEMMA NoticeAmount ==
    ASSUME HouseInv, NEW id \in MailIds
    PROVE  Amount(row[id]) \in Nat /\ (row[id] # NoMail => Amount(row[id]) = row[id].money)
<1>1. row[id] \in Notices \cup {NoMail}
  BY DEF HouseInv, NoticesOK
<1>2. QED
  BY <1>1, MailAssumption DEF Amount, Notices

\* What the n-th of the letters brings.
Brings(letters, n) == IF n \in 1..Len(letters) THEN letters[n].money ELSE 0

\* The mails hold what they held, and what the letters bring.
LEMMA PostPays ==
    ASSUME NEW letters \in Seq(Notices), Len(letters) <= 3, HouseInv, Post(letters), UNCHANGED loaded
    PROVE  /\ InMails(row') = InMails(row) + Brings(letters, 1) + Brings(letters, 2) + Brings(letters, 3)
           /\ InMails(row) \in Nat /\ InMails(row') \in Nat
<1> DEFINE N == 1..Len(letters)
<1>1. PICK ids \in [N -> MailIds] :
          /\ \A n, k \in N : ids[n] = ids[k] => n = k
          /\ \A n \in N : row[ids[n]] = NoMail /\ row'[ids[n]] = letters[n]
          /\ \A id \in MailIds : (\E n \in N : id = ids[n]) \/ row'[id] = row[id]
  BY PostGives
<1>2. ASSUME NEW n \in N
      PROVE  /\ letters[n] \in Notices /\ letters[n] # NoMail /\ letters[n].money \in Nat
             /\ Amount(letters[n]) = letters[n].money
  <2>1. letters[n] \in Notices
    OBVIOUS
  <2>2. letters[n] # NoMail /\ letters[n].money \in 0..(UINT32 - 1)
    BY <2>1, NoticeFields
  <2>3. QED
    BY <2>1, <2>2, MailAssumption DEF Amount
<1> DEFINE R(n) == [id \in MailIds |-> IF \E k \in N : k <= n /\ id = ids[k] THEN row'[id] ELSE row[id]]
<1>3. ASSUME NEW n \in Int, NEW id \in MailIds PROVE Amount(R(n)[id]) \in Nat
  <2>1. CASE \E k \in N : k <= n /\ id = ids[k]
    <3>1. PICK k \in N : k <= n /\ id = ids[k]
      BY <2>1
    <3>2. R(n)[id] = letters[k]
      BY <1>1, <3>1
    <3>3. QED
      BY <1>2, <3>2
  <2>2. CASE ~\E k \in N : k <= n /\ id = ids[k]
    <3>1. R(n)[id] = row[id]
      BY <2>2
    <3>2. QED
      BY <3>1, NoticeAmount
  <2>3. QED
    BY <2>1, <2>2
<1>4. ASSUME NEW n \in 1..3
      PROVE  /\ InMails(R(n)) = InMails(R(n - 1)) + Brings(letters, n)
             /\ InMails(R(n)) \in Nat /\ InMails(R(n - 1)) \in Nat
  <2> DEFINE r == R(n - 1)
             s == R(n)
  <2>1. \A id \in MailIds : Amount(r[id]) \in Nat /\ Amount(s[id]) \in Nat
    <3>1. n \in Int /\ n - 1 \in Int
      OBVIOUS
    <3> HIDE DEF R
    <3>2. QED
      BY <1>3, <3>1
  <2>2. CASE n \in N
    <3> DEFINE x == ids[n]
    <3>1. x \in MailIds
      BY <1>1, <2>2
    <3>2. s[x] = letters[n]
      BY <1>1, <2>2, <3>1
    <3>3. r[x] = NoMail
      <4>1. ~\E k \in N : k <= n - 1 /\ x = ids[k]
        BY <1>1, <2>2
      <4>2. QED
        BY <1>1, <2>2, <3>1, <4>1
    <3>4. \A id \in MailIds \ {x} : s[id] = r[id]
      <4> SUFFICES ASSUME NEW id \in MailIds \ {x} PROVE s[id] = r[id]
        OBVIOUS
      <4>1. (\E k \in N : k <= n /\ id = ids[k]) <=> \E k \in N : k <= n - 1 /\ id = ids[k]
        <5>1. \A k \in N : id = ids[k] => k # n
          OBVIOUS
        <5>2. QED
          BY <5>1
      <4>2. QED
        BY <4>1
    <3> HIDE DEF r, s
    <3>5. /\ InMails(s) = InMails(r) - Amount(r[x]) + Amount(s[x])
          /\ InMails(r) \in Nat /\ InMails(s) \in Nat
      BY <2>1, <3>1, <3>4, MailMove
    <3>6. Amount(r[x]) = 0 /\ Amount(s[x]) = letters[n].money /\ letters[n].money \in Nat
      BY <1>2, <2>2, <3>2, <3>3 DEF Amount
    <3>7. Brings(letters, n) = letters[n].money
      BY <2>2 DEF Brings
    <3>8. QED
      BY <3>5, <3>6, <3>7 DEF r, s
  <2>3. CASE n \notin N
    <3>1. \A k \in N : k <= n => k <= n - 1
      BY <2>3
    <3>2. \A id \in MailIds : s[id] = r[id]
      <4> SUFFICES ASSUME NEW id \in MailIds PROVE s[id] = r[id]
        OBVIOUS
      <4>1. (\E k \in N : k <= n /\ id = ids[k]) <=> \E k \in N : k <= n - 1 /\ id = ids[k]
        BY <3>1
      <4>2. QED
        BY <4>1
    <3> HIDE DEF r, s
    <3>3. InMails(s) = InMails(r)
      BY <3>2, MailsSame
    <3>4. InMails(r) \in Nat
      <4> DEFINE a == Amounts(r)
      <4>1. \A id \in MailIds : a[id] \in Nat
        BY <2>1 DEF Amounts
      <4>2. IsFiniteSet(MailIds)
        BY MailAssumption
      <4> HIDE DEF a
      <4>3. SumFunctionOnSet(a, MailIds) \in Nat
        BY <4>1, <4>2, SumNat
      <4>4. QED
        BY <4>3 DEF InMails, a
    <3>5. Brings(letters, n) = 0
      BY <2>3 DEF Brings
    <3>6. QED
      BY <3>3, <3>4, <3>5 DEF r, s
  <2>4. QED
    BY <2>2, <2>3
<1>5. InMails(R(0)) = InMails(row)
  <2> DEFINE s == R(0)
  <2>1. \A id \in MailIds : s[id] = row[id]
    OBVIOUS
  <2> HIDE DEF s
  <2>2. InMails(s) = InMails(row)
    BY <2>1, MailsSame
  <2>3. QED
    BY <2>2 DEF s
<1>6. InMails(R(3)) = InMails(row')
  <2> DEFINE s == R(3)
  <2>1. \A id \in MailIds : s[id] = row'[id]
    <3> SUFFICES ASSUME NEW id \in MailIds PROVE s[id] = row'[id]
      OBVIOUS
    <3>1. \A k \in N : k <= 3
      OBVIOUS
    <3>2. QED
      BY <1>1, <3>1
  <2> HIDE DEF s
  <2>2. InMails(s) = InMails(row')
    BY <2>1, MailsSame
  <2>3. QED
    BY <2>2 DEF s
<1> HIDE DEF R
<1>7. /\ InMails(R(1)) = InMails(R(0)) + Brings(letters, 1) /\ InMails(R(0)) \in Nat /\ InMails(R(1)) \in Nat
      /\ InMails(R(2)) = InMails(R(1)) + Brings(letters, 2) /\ InMails(R(2)) \in Nat
      /\ InMails(R(3)) = InMails(R(2)) + Brings(letters, 3) /\ InMails(R(3)) \in Nat
  <2>1. 1 - 1 = 0 /\ 2 - 1 = 1 /\ 3 - 1 = 2 /\ 1 \in 1..3 /\ 2 \in 1..3 /\ 3 \in 1..3
    OBVIOUS
  <2>2. QED
    BY <1>4, <2>1
<1>8. QED
  BY <1>5, <1>6, <1>7

\* One player's purse changes.
LEMMA PurseMove ==
    ASSUME NEW p \in Players, PursesFit(money, gold), PursesFit(money', gold'),
           \A q \in Players \ {p} : online'[q] = online[q] /\ money'[q] = money[q] /\ gold'[q] = gold[q]
    PROVE  /\ InPurses(online', money', gold') =
                  InPurses(online, money, gold) - PursesOf(online, money, gold)[p]
                                                + PursesOf(online', money', gold')[p]
           /\ InPeaks(online', money', gold') =
                  InPeaks(online, money, gold) - PeaksOf(online, money, gold)[p]
                                               + PeaksOf(online', money', gold')[p]
           /\ InPurses(online, money, gold) \in Nat /\ InPurses(online', money', gold') \in Nat
           /\ InPeaks(online, money, gold) \in Nat /\ InPeaks(online', money', gold') \in Nat
<1> DEFINE a == PursesOf(online, money, gold)
           b == PursesOf(online', money', gold')
           c == PeaksOf(online, money, gold)
           d == PeaksOf(online', money', gold')
<1>1. \A q \in Players : /\ money[q] \in 0..MAX_MONEY_AMOUNT /\ gold[q] \in 0..MAX_MONEY_AMOUNT
                         /\ money'[q] \in 0..MAX_MONEY_AMOUNT /\ gold'[q] \in 0..MAX_MONEY_AMOUNT
  BY DEF PursesFit
<1>2. \A q \in Players : a[q] \in Nat /\ b[q] \in Nat /\ c[q] \in Nat /\ d[q] \in Nat
  BY <1>1, MailAssumption DEF PursesOf, PeaksOf
<1>3. \A q \in Players \ {p} : b[q] = a[q] /\ d[q] = c[q]
  BY DEF PursesOf, PeaksOf
<1>4. SumFunctionOnSet(a, Players) = InPurses(online, money, gold)
  BY DEF InPurses
<1>5. SumFunctionOnSet(b, Players) = InPurses(online', money', gold')
  BY DEF InPurses
<1>6. SumFunctionOnSet(c, Players) = InPeaks(online, money, gold)
  BY DEF InPeaks
<1>7. SumFunctionOnSet(d, Players) = InPeaks(online', money', gold')
  BY DEF InPeaks
<1> HIDE DEF a, b, c, d
<1>8. /\ SumFunctionOnSet(b, Players) = SumFunctionOnSet(a, Players) - a[p] + b[p]
      /\ SumFunctionOnSet(a, Players) \in Nat /\ SumFunctionOnSet(b, Players) \in Nat
  BY <1>2, <1>3, PurseChange
<1>9. /\ SumFunctionOnSet(d, Players) = SumFunctionOnSet(c, Players) - c[p] + d[p]
      /\ SumFunctionOnSet(c, Players) \in Nat /\ SumFunctionOnSet(d, Players) \in Nat
  BY <1>2, <1>3, PurseChange
<1>10. QED
  BY <1>4, <1>5, <1>6, <1>7, <1>8, <1>9 DEF a, b, c, d

\* The purse of a player who is online.
LEMMA PurseOnline ==
    ASSUME NEW p \in Players, NEW o, NEW m, NEW g, PursesFit(m, g), o[p]
    PROVE  /\ PursesOf(o, m, g)[p] = m[p] /\ m[p] \in Nat /\ g[p] \in Nat
           /\ PeaksOf(o, m, g)[p] = IF m[p] > g[p] THEN m[p] ELSE g[p]
<1>1. m[p] \in 0..MAX_MONEY_AMOUNT /\ g[p] \in 0..MAX_MONEY_AMOUNT
  BY DEF PursesFit
<1>2. QED
  BY <1>1, MailAssumption DEF PursesOf, PeaksOf

\* Nobody's purse changes.
LEMMA PursesUnchanged ==
    ASSUME UNCHANGED <<online, money, gold>>, PursesFit(money, gold)
    PROVE  /\ InPurses(online', money', gold') = InPurses(online, money, gold)
           /\ InPeaks(online', money', gold') = InPeaks(online, money, gold)
           /\ InPurses(online, money, gold) \in Nat /\ InPeaks(online, money, gold) \in Nat
<1>1. CASE Players = {}
  <2>1. IsFiniteSet({})
    BY FS_EmptySet
  <2>2. \A f : SumFunctionOnSet(f, {}) = 0
    BY <2>1, SumEquations
  <2>3. QED
    BY <1>1, <2>2 DEF InPurses, InPeaks
<1>2. CASE Players # {}
  <2>1. PICK p \in Players : TRUE
    BY <1>2
  <2>2. PursesFit(money', gold')
    BY DEF PursesFit
  <2>3. InPurses(online, money, gold) \in Nat /\ InPeaks(online, money, gold) \in Nat
    BY <2>1, <2>2, PurseMove
  <2>4. QED
    BY <2>3
<1>3. QED
  BY <1>1, <1>2

LEMMA HeldNat ==
    ASSUME NEW x \in Listings \cup {NoAuction}
    PROVE  /\ Held(x) \in Nat
           /\ x # NoAuction => /\ Held(x) = x.bid + x.deposit /\ x.deposit = Deposit
                               /\ x.bid \in Nat /\ x.deposit \in Nat /\ x.buyout \in Nat /\ x.paid \in Nat
  BY MailAssumption, AuctionAssumption DEF Held, Listings

\* One auction changes.
LEMMA EscrowMove ==
    ASSUME NEW a \in [Items -> Listings \cup {NoAuction}], NEW b \in [Items -> Listings \cup {NoAuction}],
           NEW i \in Items, \A j \in Items \ {i} : b[j] = a[j]
    PROVE  /\ InEscrow(b) = InEscrow(a) - Held(a[i]) + Held(b[i])
           /\ InEscrow(a) \in Nat /\ InEscrow(b) \in Nat
           /\ Held(a[i]) \in Nat /\ Held(b[i]) \in Nat /\ Held(a[i]) <= InEscrow(a)
<1> DEFINE f == [j \in Items |-> Held(a[j])]
           h == [j \in Items |-> Held(b[j])]
<1>1. \A j \in Items : Held(a[j]) \in Nat /\ Held(b[j]) \in Nat
  BY HeldNat
<1>2. /\ \A j \in Items : f[j] \in Nat /\ h[j] \in Nat
      /\ \A j \in Items \ {i} : h[j] = f[j]
      /\ f[i] = Held(a[i]) /\ h[i] = Held(b[i])
  BY <1>1
<1>3. IsFiniteSet(Items)
  BY MailAssumption
<1> HIDE DEF f, h
<1>4. SumFunctionOnSet(h, Items) = SumFunctionOnSet(f, Items) - f[i] + h[i]
  BY <1>2, <1>3, SumChange
<1>5. SumFunctionOnSet(f, Items) \in Nat /\ SumFunctionOnSet(h, Items) \in Nat
  BY <1>2, <1>3, SumNat
<1>6. f[i] <= SumFunctionOnSet(f, Items)
  BY <1>2, <1>3, SumBound
<1>7. QED
  BY <1>1, <1>2, <1>4, <1>5, <1>6 DEF InEscrow, f, h

LEMMA EscrowNat == ASSUME HouseInv PROVE InEscrow(auction) \in Nat
<1> DEFINE f == [j \in Items |-> Held(auction[j])]
<1>1. \A j \in Items : f[j] \in Nat
  BY HeldNat DEF HouseInv, AuctionsOK
<1>2. IsFiniteSet(Items)
  BY MailAssumption
<1> HIDE DEF f
<1>3. SumFunctionOnSet(f, Items) \in Nat
  BY <1>1, <1>2, SumNat
<1>4. QED
  BY <1>3 DEF InEscrow, f

LEMMA RowsNat == ASSUME HouseInv PROVE InMails(row) \in Nat
<1> DEFINE a == Amounts(row)
<1>1. \A id \in MailIds : a[id] \in Nat
  BY NoticeAmount DEF Amounts
<1>2. IsFiniteSet(MailIds)
  BY MailAssumption
<1> HIDE DEF a
<1>3. SumFunctionOnSet(a, MailIds) \in Nat
  BY <1>1, <1>2, SumNat
<1>4. QED
  BY <1>3 DEF InMails, a

\* All there is of money and deposits fits.
LEMMA DepositsFit ==
    ASSUME AuctionsFit, HouseBooks
    PROVE  /\ Deposit * started \in Nat /\ minted + Deposit * started < UINT32
           /\ Deposit * (started + 1) = Deposit * started + Deposit
<1>1. Deposit \in Nat /\ started \in Nat /\ MaxAuctions \in Nat /\ minted \in Nat
  BY AuctionAssumption DEF HouseBooks
<1>2. \A d, s, m \in Nat : s <= m => d * s <= d * m
  OBVIOUS
<1>3. \A d, s \in Nat : d * s \in Nat /\ d * (s + 1) = d * s + d
  OBVIOUS
<1>4. Deposit * started <= Deposit * MaxAuctions
  BY <1>1, <1>2 DEF HouseBooks
<1>5. Deposit * started \in Nat /\ Deposit * MaxAuctions \in Nat /\ Deposit * (started + 1) = Deposit * started + Deposit
  BY <1>1, <1>3
<1> DEFINE x == Deposit * started
           y == Deposit * MaxAuctions
<1> HIDE DEF x, y
<1>6. x \in Nat /\ y \in Nat /\ x <= y /\ Supply + y < UINT32 /\ minted <= Supply
  BY <1>4, <1>5 DEF x, y, AuctionsFit, HouseBooks
<1>7. minted + x < UINT32
  BY <1>1, <1>6, SupplyNat, MailAssumption
<1>8. QED
  BY <1>5, <1>7 DEF x

\* The purse of a player who is online, and an auction, fit together.
LEMMA FitTogether ==
    ASSUME AuctionsFit, HouseInv, HouseBooks, NEW p \in Players, online[p], NEW i \in Items
    PROVE  money[p] + Held(auction[i]) < UINT32
<1> DEFINE c == PeaksOf(online, money, gold)
<1>1. /\ c[p] \in Nat /\ money[p] \in Nat /\ money[p] <= c[p]
      /\ \A q \in Players : c[q] \in Nat
  <2>1. \A q \in Players : money[q] \in 0..MAX_MONEY_AMOUNT /\ gold[q] \in 0..MAX_MONEY_AMOUNT
    BY DEF HouseInv, PursesFit
  <2>2. QED
    BY <2>1, MailAssumption DEF PeaksOf
<1>2. IsFiniteSet(Players)
  BY MailAssumption
<1>3. SumFunctionOnSet(c, Players) = InPeaks(online, money, gold)
  BY DEF InPeaks
<1> HIDE DEF c
<1>4. c[p] <= SumFunctionOnSet(c, Players) /\ SumFunctionOnSet(c, Players) \in Nat
  BY <1>1, <1>2, SumBound, SumNat
<1>5. Held(auction[i]) <= InEscrow(auction) /\ Held(auction[i]) \in Nat /\ InEscrow(auction) \in Nat
  BY EscrowMove DEF HouseInv, AuctionsOK
<1>6. InMails(row) \in Nat
  BY RowsNat
<1>7. minted + Deposit * started < UINT32 /\ Deposit * started \in Nat
  BY DepositsFit
<1> DEFINE x == Deposit * started
<1>8. InPeaks(online, money, gold) + InMails(row) + InEscrow(auction) <= minted + x /\ minted \in Nat
  BY DEF HouseBooks
<1> HIDE DEF x
<1>9. QED
  BY <1>1, <1>3, <1>4, <1>5, <1>6, <1>7, <1>8, MailAssumption DEF x

\* A part of an amount.
LEMMA CutBound ==
    ASSUME NEW n \in Nat
    PROVE  CalculatePct(n, CutPercent) \in Nat /\ CalculatePct(n, CutPercent) <= n
<1>1. CutPercent \in Nat /\ CutPercent <= 100
  BY AuctionAssumption
<1>2. \A p \in Nat : p <= 100 => n * p \in Nat /\ n * p <= n * 100
  OBVIOUS
<1> DEFINE x == n * CutPercent
<1>3. x \in Nat /\ x <= n * 100
  BY <1>1, <1>2
<1> HIDE DEF x
<1>4. x \div 100 \in Nat /\ x \div 100 <= n
  BY <1>3
<1>5. QED
  BY <1>4 DEF CalculatePct, x

\* A profit that fits is mailed in full.
LEMMA ProfitIs ==
    ASSUME NEW a \in Listings, a.bid + a.deposit < UINT32
    PROVE  /\ Profit(a) = a.bid + a.deposit - GetAuctionCut(a)
           /\ GetAuctionCut(a) \in Nat /\ GetAuctionCut(a) <= a.bid
<1>1. a.bid \in Nat /\ a.deposit \in Nat
  BY MailAssumption, AuctionAssumption DEF Listings
<1>2. GetAuctionCut(a) \in Nat /\ GetAuctionCut(a) <= a.bid
  BY <1>1, CutBound DEF GetAuctionCut
<1> DEFINE c == GetAuctionCut(a)
           x == a.bid + a.deposit - c
<1>3. x \in 0..(UINT32 - 1)
  <2> HIDE DEF c
  <2>1. QED
    BY <1>1, <1>2, MailAssumption DEF c
<1> HIDE DEF x
<1>4. x % UINT32 = x
  BY <1>3, MailAssumption
<1>5. QED
  BY <1>2, <1>4 DEF Profit, x

LEMMA HouseBooksPrimed ==
    ASSUME ledger' \in Nat, minted' \in Nat, started' \in Nat,
           InPurses(online', money', gold') + InMails(row') + InEscrow(auction') = ledger',
           InPeaks(online', money', gold') + InMails(row') + InEscrow(auction') <= minted' + Deposit * started',
           minted' <= Supply, started' <= MaxAuctions
    PROVE  HouseBooks'
  BY DEF HouseBooks, InPurses, PursesOf, InPeaks, PeaksOf, InMails, Amounts, Amount, InEscrow, Held

------------------------------------------------------------------------------
(* The money of the house, action by action.                                  *)

\* What the invariant says of the state before and after a step.
LEMMA HouseTypes ==
    ASSUME HouseInv, HouseInv'
    PROVE  /\ PursesFit(money, gold) /\ PursesFit(money', gold')
           /\ auction \in [Items -> Listings \cup {NoAuction}]
           /\ auction' \in [Items -> Listings \cup {NoAuction}]
  BY DEF HouseInv, AuctionsOK, PursesFit

LEMMA SellAccounts ==
    ASSUME AuctionsFit, HouseInv, HouseAccounts, NEW p \in Players, NEW i \in Items, HandleAuctionSellItem(p, i)
    PROVE  HouseAccounts'
<1>1. PICK bid \in Prices \ {0}, buyout \in Prices :
          /\ online[p] /\ auction[i] = NoAuction /\ money[p] >= Deposit /\ started < MaxAuctions
          /\ auction' = [auction EXCEPT ![i] =
                 [owner |-> p, startbid |-> bid % UINT32, buyout |-> buyout % UINT32,
                  bid |-> 0, bidder |-> None, deposit |-> Deposit, paid |-> 0]]
          /\ gold' = [gold EXCEPT ![p] = money[p]]
          /\ money' = [money EXCEPT ![p] = ModifyMoney(@, -Deposit)]
          /\ started' = started + 1
          /\ UNCHANGED <<row, online, ledger, minted>>
  BY DEF HandleAuctionSellItem, history
<1>2. PursesFit(money, gold) /\ PursesFit(money', gold')
  BY SellKeeps, HouseTypes
<1>3. money[p] \in Nat /\ PursesOf(online, money, gold)[p] = money[p]
      /\ PeaksOf(online, money, gold)[p] \in Nat /\ money[p] <= PeaksOf(online, money, gold)[p]
  <2>1. online[p]
    BY <1>1
  <2>2. QED
    BY <1>2, <2>1, PurseOnline
<1>4. money'[p] = money[p] - Deposit /\ gold'[p] = money[p]
  BY <1>1, <1>2, <1>3, Pays, AuctionAssumption DEF PursesFit
<1>5. PursesOf(online', money', gold')[p] = money[p] - Deposit /\ PeaksOf(online', money', gold')[p] = money[p]
  <2>1. /\ PursesOf(online', money', gold')[p] = money'[p]
        /\ PeaksOf(online', money', gold')[p] = IF money'[p] > gold'[p] THEN money'[p] ELSE gold'[p]
    <3>1. online'[p]
      BY <1>1
    <3>2. QED
      BY <1>2, <3>1, PurseOnline
  <2>2. QED
    BY <1>3, <1>4, <2>1, AuctionAssumption
<1>6. \A q \in Players \ {p} : online'[q] = online[q] /\ money'[q] = money[q] /\ gold'[q] = gold[q]
  BY <1>1, <1>2 DEF PursesFit
<1>7. /\ InPurses(online', money', gold') = InPurses(online, money, gold) - money[p] + (money[p] - Deposit)
      /\ InPeaks(online', money', gold') = InPeaks(online, money, gold) - PeaksOf(online, money, gold)[p] + money[p]
      /\ InPurses(online, money, gold) \in Nat /\ InPurses(online', money', gold') \in Nat
      /\ InPeaks(online, money, gold) \in Nat /\ InPeaks(online', money', gold') \in Nat
  BY <1>2, <1>3, <1>5, <1>6, PurseMove
<1> DEFINE a == [owner |-> p, startbid |-> bid % UINT32, buyout |-> buyout % UINT32,
                 bid |-> 0, bidder |-> None, deposit |-> Deposit, paid |-> 0]
<1>8. /\ \A j \in Items : auction'[j] = IF j = i THEN a ELSE auction[j]
      /\ auction \in [Items -> Listings \cup {NoAuction}]
      /\ auction' \in [Items -> Listings \cup {NoAuction}]
  BY <1>1, SellKeeps, HouseTypes
<1>9. Held(auction[i]) = 0 /\ Held(auction'[i]) = Deposit
  <2>1. Held(auction[i]) = 0
    BY <1>1 DEF Held
  <2>2. a # NoAuction /\ a.bid = 0 /\ a.deposit = Deposit
    <3>1. a.bid = 0 /\ a.deposit = Deposit /\ a.owner = p /\ NoAuction.owner = None
      BY DEF NoAuction
    <3>2. QED
      BY <3>1, MailAssumption
  <2>3. QED
    BY <1>8, <2>1, <2>2, AuctionAssumption DEF Held
<1>10. InEscrow(auction') = InEscrow(auction) - 0 + Deposit /\ InEscrow(auction) \in Nat
  BY <1>8, <1>9, EscrowMove
<1>11. /\ Deposit * started' = Deposit * started + Deposit /\ Deposit * started \in Nat
       /\ Deposit \in Nat
  BY <1>1, DepositsFit, AuctionAssumption DEF HouseAccounts
<1>12. InMails(row) \in Nat
  BY RowsNat
<1>13. HouseBooks'
  <2> DEFINE x == Deposit * started
             y == Deposit * started'
  <2>1. /\ ledger \in Nat /\ minted \in Nat /\ started \in Nat /\ minted <= Supply
        /\ InPurses(online, money, gold) + InMails(row) + InEscrow(auction) = ledger
        /\ InPeaks(online, money, gold) + InMails(row) + InEscrow(auction) <= minted + x
    BY DEF HouseAccounts, HouseBooks
  <2>2. y = x + Deposit /\ x \in Nat
    BY <1>11
  <2> HIDE DEF x, y
  <2>3. InPurses(online', money', gold') + InMails(row') + InEscrow(auction') = ledger'
    BY <1>1, <1>3, <1>7, <1>10, <1>11, <1>12, <2>1
  <2>4. InPeaks(online', money', gold') + InMails(row') + InEscrow(auction') <= minted' + y
    BY <1>1, <1>3, <1>7, <1>10, <1>11, <1>12, <2>1, <2>2
  <2>5. started' \in Nat /\ started' <= MaxAuctions
    BY <1>1, <2>1, AuctionAssumption
  <2>6. QED
    BY <1>1, <2>1, <2>3, <2>4, <2>5, HouseBooksPrimed DEF y
<1>14. BidsPaid(auction)'
  <2>1. /\ a.bid = a.paid /\ (a.bidder = None <=> a.bid = 0)
        /\ a.buyout > 0 => a.bid < a.buyout
    OBVIOUS
  <2> HIDE DEF a
  <2>2. QED
    BY <1>8, <2>1 DEF HouseAccounts, BidsPaid
<1>15. QED
  BY <1>13, <1>14 DEF HouseAccounts

\* A purse that pays n is saved with what is left.
LEMMA PayerMove ==
    ASSUME HouseInv, NEW p \in Players, online[p], NEW n \in Nat, n <= money[p],
           PayAndSave(p, ModifyMoney(money[p], -n)), UNCHANGED online, PursesFit(money', gold')
    PROVE  /\ InPurses(online', money', gold') = InPurses(online, money, gold) - n
           /\ InPeaks(online', money', gold') <= InPeaks(online, money, gold) - n
           /\ InPurses(online, money, gold) \in Nat /\ InPurses(online', money', gold') \in Nat
           /\ InPeaks(online, money, gold) \in Nat /\ InPeaks(online', money', gold') \in Nat
<1>1. PursesFit(money, gold)
  BY DEF HouseInv
<1>2. money[p] \in Nat /\ PursesOf(online, money, gold)[p] = money[p]
      /\ PeaksOf(online, money, gold)[p] \in Nat /\ money[p] <= PeaksOf(online, money, gold)[p]
  BY <1>1, PurseOnline
<1> DEFINE m == ModifyMoney(money[p], -n)
<1>3. m = money[p] - n
  BY <1>2, Pays
<1>4. money' = [money EXCEPT ![p] = m] /\ gold' = [gold EXCEPT ![p] = m]
  BY DEF PayAndSave
<1> HIDE DEF m
<1>5. /\ money'[p] = m /\ gold'[p] = m
      /\ \A q \in Players \ {p} : online'[q] = online[q] /\ money'[q] = money[q] /\ gold'[q] = gold[q]
  BY <1>1, <1>4 DEF PursesFit
<1>6. PursesOf(online', money', gold')[p] = m /\ PeaksOf(online', money', gold')[p] = m
  <2>1. /\ PursesOf(online', money', gold')[p] = money'[p]
        /\ PeaksOf(online', money', gold')[p] = IF money'[p] > gold'[p] THEN money'[p] ELSE gold'[p]
    BY PurseOnline
  <2>2. QED
    BY <1>5, <2>1
<1>7. /\ InPurses(online', money', gold') = InPurses(online, money, gold) - money[p] + m
      /\ InPeaks(online', money', gold') = InPeaks(online, money, gold) - PeaksOf(online, money, gold)[p] + m
      /\ InPurses(online, money, gold) \in Nat /\ InPurses(online', money', gold') \in Nat
      /\ InPeaks(online, money, gold) \in Nat /\ InPeaks(online', money', gold') \in Nat
  BY <1>1, <1>2, <1>5, <1>6, PurseMove
<1>8. QED
  BY <1>2, <1>3, <1>7

\* An auction ends and gives up what was held for it.
LEMMA ClosedMove ==
    ASSUME HouseInv, BidsPaid(auction), NEW i \in Items, Closed(i)
    PROVE  /\ InEscrow(auction') = InEscrow(auction) - Held(auction[i]) /\ InEscrow(auction) \in Nat
           /\ InEscrow(auction') \in Nat /\ Held(auction[i]) <= InEscrow(auction) /\ Held(auction[i]) \in Nat
           /\ BidsPaid(auction)'
<1>1. auction \in [Items -> Listings \cup {NoAuction}]
  BY DEF HouseInv, AuctionsOK
<1>2. /\ auction' \in [Items -> Listings \cup {NoAuction}]
      /\ \A j \in Items : auction'[j] = IF j = i THEN NoAuction ELSE auction[j]
  BY <1>1 DEF Closed
<1>3. Held(auction'[i]) = 0
  BY <1>2 DEF Held
<1>4. /\ InEscrow(auction') = InEscrow(auction) - Held(auction[i]) + 0
      /\ InEscrow(auction) \in Nat /\ InEscrow(auction') \in Nat
      /\ Held(auction[i]) \in Nat /\ Held(auction[i]) <= InEscrow(auction)
  BY <1>1, <1>2, <1>3, EscrowMove
<1>5. BidsPaid(auction)'
  BY <1>2 DEF BidsPaid
<1>6. QED
  BY <1>4, <1>5

\* A handler moves what the purses pay and the auction held into letters and
\* to the house.
LEMMA HouseBalance ==
    ASSUME AuctionsFit, HouseInv, HouseBooks, UNCHANGED <<minted, started>>,
           NEW pays \in Nat, NEW mails \in Nat, NEW held \in Int, NEW keeps \in Nat,
           InPurses(online', money', gold') = InPurses(online, money, gold) - pays,
           InPeaks(online', money', gold') <= InPeaks(online, money, gold) - pays,
           InPurses(online, money, gold) \in Nat, InPurses(online', money', gold') \in Nat,
           InPeaks(online, money, gold) \in Nat, InPeaks(online', money', gold') \in Nat,
           InMails(row') = InMails(row) + mails, InMails(row') \in Nat,
           InEscrow(auction') = InEscrow(auction) - held, InEscrow(auction') \in Nat,
           ledger' = ledger - keeps, pays + held = mails + keeps
    PROVE  HouseBooks'
<1> DEFINE x == Deposit * started
<1>1. x \in Nat
  BY DepositsFit
<1>2. /\ ledger \in Nat /\ minted \in Nat /\ started \in Nat /\ minted <= Supply /\ started <= MaxAuctions
      /\ InPurses(online, money, gold) + InMails(row) + InEscrow(auction) = ledger
      /\ InPeaks(online, money, gold) + InMails(row) + InEscrow(auction) <= minted + x
  BY DEF HouseBooks
<1>3. Deposit * started' = x
  OBVIOUS
<1> HIDE DEF x
<1>4. InMails(row) \in Nat /\ InEscrow(auction) \in Nat
  BY RowsNat, EscrowNat
<1>5. InPurses(online', money', gold') + InMails(row') + InEscrow(auction') = ledger'
  BY <1>2, <1>4
<1>6. InPeaks(online', money', gold') + InMails(row') + InEscrow(auction') <= minted' + x
  BY <1>1, <1>2, <1>4
<1>7. ledger' \in Nat
  BY <1>5
<1>8. QED
  BY <1>2, <1>3, <1>5, <1>6, <1>7, HouseBooksPrimed

LEMMA Brings1 ==
    ASSUME NEW x \in Notices
    PROVE  /\ <<x>> \in Seq(Notices) /\ Len(<<x>>) <= 3
           /\ Brings(<<x>>, 1) = x.money /\ Brings(<<x>>, 2) = 0 /\ Brings(<<x>>, 3) = 0
  BY DEF Brings

LEMMA Brings2 ==
    ASSUME NEW x \in Notices, NEW y \in Notices
    PROVE  /\ <<x, y>> \in Seq(Notices) /\ Len(<<x, y>>) <= 3
           /\ Brings(<<x, y>>, 1) = x.money /\ Brings(<<x, y>>, 2) = y.money /\ Brings(<<x, y>>, 3) = 0
  BY DEF Brings

LEMMA Brings3 ==
    ASSUME NEW x \in Notices, NEW y \in Notices, NEW z \in Notices
    PROVE  /\ <<x, y, z>> \in Seq(Notices) /\ Len(<<x, y, z>>) <= 3
           /\ Brings(<<x, y, z>>, 1) = x.money /\ Brings(<<x, y, z>>, 2) = y.money
           /\ Brings(<<x, y, z>>, 3) = z.money
<1> DEFINE s == <<x, y, z>>
<1>1. s \in Seq(Notices) /\ Len(s) = 3 /\ s[1] = x /\ s[2] = y /\ s[3] = z
  OBVIOUS
<1> HIDE DEF s
<1>2. s \in Seq(Notices) /\ Len(s) <= 3 /\ Brings(s, 1) = x.money /\ Brings(s, 2) = y.money /\ Brings(s, 3) = z.money
  BY <1>1 DEF Brings
<1>3. QED
  BY <1>2 DEF s

\* What an auction that is up says.
LEMMA ListingOK ==
    ASSUME HouseInv, BidsPaid(auction), NEW i \in Items, auction[i] # NoAuction
    PROVE  /\ auction[i] \in Listings /\ auction[i].bidder # auction[i].owner
           /\ auction[i].bid \in Nat /\ auction[i].buyout \in Nat /\ auction[i].deposit = Deposit
           /\ Deposit \in Nat /\ auction[i].bidder \in Players \cup {None}
           /\ auction[i].owner \in Players
           /\ Held(auction[i]) = auction[i].bid + auction[i].deposit
           /\ auction[i].bid = auction[i].paid
           /\ auction[i].bidder = None <=> auction[i].bid = 0
           /\ auction[i].buyout > 0 => auction[i].bid < auction[i].buyout
<1>1. auction[i] \in Listings /\ auction[i].bidder # auction[i].owner
  BY DEF HouseInv, AuctionsOK
<1>2. auction[i].owner \in Players /\ auction[i].bidder \in Players \cup {None}
  BY <1>1 DEF Listings
<1>3. QED
  BY <1>1, <1>2, HeldNat, AuctionAssumption DEF BidsPaid

\* What a bidder pays now, and what the letter to the one before him brings.
LEMMA RefundIs ==
    ASSUME HouseInv, BidsPaid(auction), NEW i \in Items, auction[i] # NoAuction, NEW p \in Players,
           NEW price \in Nat, price > auction[i].bid, NEW any
    PROVE  /\ PriceFor(auction[i], p, price) \in Nat /\ PriceFor(auction[i], p, price) <= price
           /\ \E refund \in Nat :
                  /\ PriceFor(auction[i], p, price) + auction[i].bid = refund + price
                  /\ auction[i].bidder \in {None, p} =>
                        refund = 0 /\ Refunds(auction[i], p, any) = <<>>
                  /\ auction[i].bidder \notin {None, p} =>
                        /\ refund = auction[i].bid /\ Refunds(auction[i], p, any) = <<Outbidded(auction[i])>>
                        /\ Outbidded(auction[i]) \in Notices /\ Outbidded(auction[i]).money = refund
<1> DEFINE a == auction[i]
<1>1. /\ a \in Listings /\ a.bid \in Nat /\ (a.bidder = None <=> a.bid = 0)
      /\ a.bidder \in Players \cup {None}
  BY ListingOK
<1> HIDE DEF a
<1>2. PriceFor(a, p, price) = IF a.bidder = p THEN price - a.bid ELSE price
  BY DEF PriceFor
<1>3. price > a.bid /\ p # None
  BY MailAssumption DEF a
<1>4. CASE a.bidder \in {None, p}
  <2>1. PriceFor(a, p, price) + a.bid = 0 + price /\ PriceFor(a, p, price) \in Nat /\ PriceFor(a, p, price) <= price
    BY <1>1, <1>2, <1>3, <1>4
  <2>2. Refunds(a, p, any) = <<>>
    BY <1>4 DEF Refunds
  <2>3. QED
    BY <1>4, <2>1, <2>2 DEF a
<1>5. CASE a.bidder \notin {None, p}
  <2>1. PriceFor(a, p, price) + a.bid = a.bid + price /\ PriceFor(a, p, price) \in Nat /\ PriceFor(a, p, price) <= price
    BY <1>1, <1>2, <1>5
  <2>2. Refunds(a, p, any) = <<Outbidded(a)>>
    BY <1>5 DEF Refunds
  <2>3. Outbidded(a) \in Notices /\ Outbidded(a).money = a.bid
    BY <1>1, <1>5, HouseLetters
  <2>4. QED
    BY <1>1, <1>5, <2>1, <2>2, <2>3 DEF a
<1>6. QED
  BY <1>4, <1>5

\* Letters that are none.
LEMMA BringsNothing ==
    /\ <<>> \in Seq(Notices) /\ Len(<<>>) <= 3
    /\ Brings(<<>>, 1) = 0 /\ Brings(<<>>, 2) = 0 /\ Brings(<<>>, 3) = 0
  BY DEF Brings

LEMMA BidAccounts ==
    ASSUME AuctionsFit, HouseInv, HouseAccounts, NEW p \in Players, NEW i \in Items, NEW price \in Prices \ {0},
           online[p], auction[i] # NoAuction, auction[i].owner # p,
           price > auction[i].bid, money[p] >= price,
           PlaceBid(p, i, price), UNCHANGED <<online, loaded, deleted, minted, started>>
    PROVE  HouseAccounts'
<1> DEFINE a == auction[i]
           now == PriceFor(a, p, price)
           b == [a EXCEPT !.bidder = p, !.bid = price % UINT32,
                          !.paid = IF a.bidder = p THEN @ + now ELSE now]
<1>0. HouseInv'
  BY BidKeeps
<1>1. /\ ~IsBuyout(a, price)
      /\ Post(Refunds(a, p, price))
      /\ PayAndSave(p, ModifyMoney(money[p], -now))
      /\ auction' = [auction EXCEPT ![i].bidder = p, ![i].bid = price % UINT32,
                                    ![i].paid = IF a.bidder = p THEN @ + now ELSE now]
      /\ ledger' = ledger
  BY Zenon DEF PlaceBid
<1>2. auction' = [auction EXCEPT ![i] = b]
  BY <1>1 DEF HouseInv, AuctionsOK
<1>3. /\ a \in Listings /\ a.bid \in Nat /\ a.buyout \in Nat /\ a.deposit \in Nat
      /\ Held(a) = a.bid + a.deposit /\ a.bid = a.paid
  BY ListingOK DEF HouseAccounts
<1>4. price \in Nat /\ price # 0 /\ price < UINT32 /\ price % UINT32 = price /\ money[p] \in Nat
  <2>1. price \in Nat /\ price # 0
    BY AuctionAssumption, MailAssumption
  <2>2. money[p] + Held(a) < UINT32 /\ Held(a) \in Nat /\ money[p] \in Nat
    <3>1. money[p] + Held(a) < UINT32
      BY FitTogether DEF HouseAccounts
    <3>2. money[p] \in Nat
      BY MailAssumption DEF HouseInv, PursesFit
    <3>3. QED
      BY <1>3, <3>1, <3>2
  <2>3. price < UINT32
    BY <2>1, <2>2, MailAssumption
  <2>4. QED
    BY <2>1, <2>2, <2>3, MailAssumption
<1>5. /\ now \in Nat /\ now <= price
      /\ \E refund \in Nat :
             /\ now + a.bid = refund + price
             /\ a.bidder \in {None, p} => refund = 0 /\ Refunds(a, p, price) = <<>>
             /\ a.bidder \notin {None, p} =>
                   /\ refund = a.bid /\ Refunds(a, p, price) = <<Outbidded(a)>>
                   /\ Outbidded(a) \in Notices /\ Outbidded(a).money = refund
  BY <1>4, RefundIs DEF HouseAccounts
<1>6. PICK refund \in Nat :
             /\ now + a.bid = refund + price
             /\ a.bidder \in {None, p} => refund = 0 /\ Refunds(a, p, price) = <<>>
             /\ a.bidder \notin {None, p} =>
                   /\ refund = a.bid /\ Refunds(a, p, price) = <<Outbidded(a)>>
                   /\ Outbidded(a) \in Notices /\ Outbidded(a).money = refund
  BY <1>5
<1>7. /\ b.bid = price /\ b.bidder = p /\ b.deposit = a.deposit /\ b.buyout = a.buyout
      /\ b.paid = IF a.bidder = p THEN a.bid + now ELSE now
  BY <1>3, <1>4 DEF Listings
<1> HIDE DEF now, b
<1>8. InMails(row') = InMails(row) + refund /\ InMails(row) \in Nat /\ InMails(row') \in Nat
  <2>1. CASE a.bidder \in {None, p}
    <3>1. Post(<<>>) /\ refund = 0
      BY <1>1, <1>6, <2>1
    <3>2. /\ InMails(row') = InMails(row) + Brings(<<>>, 1) + Brings(<<>>, 2) + Brings(<<>>, 3)
          /\ InMails(row) \in Nat /\ InMails(row') \in Nat
      BY <3>1, BringsNothing, PostPays
    <3>3. QED
      BY <3>1, <3>2, BringsNothing
  <2>2. CASE a.bidder \notin {None, p}
    <3> DEFINE x == Outbidded(a)
    <3>1. Post(<<x>>) /\ x \in Notices /\ x.money = refund
      BY <1>1, <1>6, <2>2
    <3> HIDE DEF x
    <3>2. /\ InMails(row') = InMails(row) + Brings(<<x>>, 1) + Brings(<<x>>, 2) + Brings(<<x>>, 3)
          /\ InMails(row) \in Nat /\ InMails(row') \in Nat
      BY <3>1, Brings1, PostPays
    <3>3. QED
      BY <3>1, <3>2, Brings1
  <2>3. QED
    BY <2>1, <2>2
<1>9. now <= money[p]
  BY <1>4, <1>5
<1>10. PursesFit(money', gold')
  BY <1>0, HouseTypes
<1>11. /\ InPurses(online', money', gold') = InPurses(online, money, gold) - now
       /\ InPeaks(online', money', gold') <= InPeaks(online, money, gold) - now
       /\ InPurses(online, money, gold) \in Nat /\ InPurses(online', money', gold') \in Nat
       /\ InPeaks(online, money, gold) \in Nat /\ InPeaks(online', money', gold') \in Nat
  BY <1>1, <1>5, <1>9, <1>10, PayerMove
<1>12. auction \in [Items -> Listings \cup {NoAuction}] /\ auction' \in [Items -> Listings \cup {NoAuction}]
  BY <1>0, HouseTypes
<1>13. \A j \in Items : auction'[j] = IF j = i THEN b ELSE auction[j]
  BY <1>2, <1>12
<1>14. Held(auction'[i]) = price + a.deposit
  <2>1. auction'[i] = b /\ b # NoAuction
    <3>1. b.bidder = p /\ auction'[i] = b /\ b \in Listings \cup {NoAuction}
      BY <1>7, <1>12, <1>13
    <3>2. b \in Listings
      <4>1. /\ a.paid \in Nat /\ (IF a.bidder = p THEN a.paid + now ELSE now) \in Nat
            /\ price % UINT32 \in 0..(UINT32 - 1)
        <5>1. a.paid \in Nat /\ now \in Nat
          BY <1>3, <1>5
        <5>2. a.paid + now \in Nat
          BY <5>1
        <5>3. price % UINT32 \in 0..(UINT32 - 1)
          BY <1>4, MailAssumption
        <5>4. QED
          BY <5>1, <5>2, <5>3
      <4>2. QED
        BY <1>3, <4>1 DEF b, Listings
    <3>3. QED
      BY <3>1, <3>2, NoNotice
  <2>2. QED
    BY <1>7, <2>1 DEF Held
<1>15. InEscrow(auction') = InEscrow(auction) - (a.bid - price) /\ InEscrow(auction') \in Nat
  <2>1. /\ InEscrow(auction') = InEscrow(auction) - Held(auction[i]) + Held(auction'[i])
        /\ InEscrow(auction) \in Nat /\ InEscrow(auction') \in Nat
    BY <1>12, <1>13, EscrowMove
  <2>2. QED
    BY <1>3, <1>4, <1>14, <2>1
<1>16. now + (a.bid - price) = refund + 0 /\ a.bid - price \in Int /\ ledger' = ledger - 0
  BY <1>1, <1>3, <1>4, <1>5, <1>6 DEF HouseAccounts, HouseBooks
<1>17. HouseBooks'
  BY <1>5, <1>8, <1>11, <1>15, <1>16, HouseBalance DEF HouseAccounts
<1>18. BidsPaid(auction)'
  <2>1. b.bid = b.paid
    <3>1. now = IF a.bidder = p THEN price - a.bid ELSE price
      BY DEF now, PriceFor
    <3>2. QED
      BY <1>3, <1>4, <1>7, <3>1
  <2>2. b.bidder # None /\ b.bid # 0
    BY <1>4, <1>7, MailAssumption
  <2>3. b.buyout > 0 => b.bid < b.buyout
    BY <1>1, <1>3, <1>4, <1>7 DEF IsBuyout
  <2>4. QED
    BY <1>13, <2>1, <2>2, <2>3 DEF HouseAccounts, BidsPaid
<1>19. QED
  BY <1>17, <1>18 DEF HouseAccounts

LEMMA BuyoutAccounts ==
    ASSUME AuctionsFit, HouseInv, HouseAccounts, NEW p \in Players, NEW i \in Items, NEW price \in Prices \ {0},
           online[p], auction[i] # NoAuction, auction[i].owner # p,
           price > auction[i].bid, money[p] >= price,
           Buyout(p, i, price), UNCHANGED <<online, loaded, deleted, minted, started>>
    PROVE  HouseAccounts'
<1> DEFINE a == auction[i]
           now == PriceFor(a, p, a.buyout)
           sold == [a EXCEPT !.bidder = p, !.bid = a.buyout]
           letters == Refunds(a, p, price) \o <<Successful(sold), Won(sold, i)>>
<1>0. PursesFit(money', gold')
  BY BuyoutKeeps, HouseTypes
<1>1. /\ IsBuyout(a, price) /\ Post(letters) /\ Closed(i)
      /\ PayAndSave(p, ModifyMoney(money[p], -now))
      /\ ledger' = ledger - GetAuctionCut(sold)
  BY Zenon DEF Buyout
<1>2. /\ a \in Listings /\ a.bid \in Nat /\ a.buyout \in Nat /\ a.deposit \in Nat
      /\ Held(a) = a.bid + a.deposit /\ (a.buyout > 0 => a.bid < a.buyout)
  BY ListingOK DEF HouseAccounts
<1>3. a.buyout > 0 /\ a.buyout > a.bid /\ a.buyout <= price /\ price \in Nat
  BY <1>1, <1>2, AuctionAssumption, MailAssumption DEF IsBuyout
<1>4. money[p] \in Nat /\ a.buyout + a.deposit < UINT32
  <2>1. money[p] \in Nat
    BY MailAssumption DEF HouseInv, PursesFit
  <2>2. money[p] + Held(a) < UINT32
    BY FitTogether DEF HouseAccounts
  <2>3. QED
    BY <1>2, <1>3, <2>1, <2>2, MailAssumption
<1>5. sold \in Listings /\ sold.bidder # None /\ sold.bid = a.buyout /\ sold.deposit = a.deposit
  <2>1. a \in Listings
    BY <1>2
  <2>2. sold \in Listings /\ sold.bidder # None
    BY <2>1, SoldOK
  <2>3. sold.bid = a.buyout /\ sold.deposit = a.deposit
    BY <2>1 DEF Listings
  <2>4. QED
    BY <2>2, <2>3
<1>6. /\ now \in Nat /\ now <= a.buyout
      /\ \E refund \in Nat :
             /\ now + a.bid = refund + a.buyout
             /\ a.bidder \in {None, p} => refund = 0 /\ Refunds(a, p, price) = <<>>
             /\ a.bidder \notin {None, p} =>
                   /\ refund = a.bid /\ Refunds(a, p, price) = <<Outbidded(a)>>
                   /\ Outbidded(a) \in Notices /\ Outbidded(a).money = refund
  BY <1>2, <1>3, RefundIs DEF HouseAccounts
<1>7. PICK refund \in Nat :
             /\ now + a.bid = refund + a.buyout
             /\ a.bidder \in {None, p} => refund = 0 /\ Refunds(a, p, price) = <<>>
             /\ a.bidder \notin {None, p} =>
                   /\ refund = a.bid /\ Refunds(a, p, price) = <<Outbidded(a)>>
                   /\ Outbidded(a) \in Notices /\ Outbidded(a).money = refund
  BY <1>6
<1> DEFINE y == Successful(sold)
           z == Won(sold, i)
           cut == GetAuctionCut(sold)
<1>8. /\ y \in Notices /\ z \in Notices /\ z.money = 0 /\ y.money = Profit(sold)
  <2> HIDE DEF sold
  <2>1. QED
    BY <1>5, HouseLetters
<1>9. letters = IF a.bidder \in {None, p} THEN <<y, z>> ELSE <<Outbidded(a), y, z>>
  <2> DEFINE r == Refunds(a, p, price)
             x == Outbidded(a)
  <2>1. letters = r \o <<y, z>>
    OBVIOUS
  <2>2. /\ a.bidder \in {None, p} => r = <<>>
        /\ a.bidder \notin {None, p} => r = <<x>> /\ x \in Notices
    BY <1>7
  <2>3. y \in Notices /\ z \in Notices
    BY <1>8
  <2> HIDE DEF letters, r, y, z, x
  <2>4. <<>> \o <<y, z>> = <<y, z>>
    BY <2>3, Joined
  <2>5. x \in Notices => <<x>> \o <<y, z>> = <<x, y, z>>
    BY <2>3, JoinedThree
  <2>6. QED
    BY <2>1, <2>2, <2>4, <2>5 DEF x
<1>10. Profit(sold) = a.buyout + a.deposit - cut /\ cut \in Nat /\ cut <= a.buyout
  <2> HIDE DEF sold
  <2>1. QED
    BY <1>4, <1>5, ProfitIs
<1>11. Post(letters) /\ PayAndSave(p, ModifyMoney(money[p], -now)) /\ Closed(i) /\ ledger' = ledger - cut
  BY <1>1
<1> HIDE DEF now, y, z, cut, letters, sold
<1> DEFINE profit == a.buyout + a.deposit - cut
<1>12. profit \in Nat /\ y.money = profit
  BY <1>2, <1>8, <1>10
<1>13. InMails(row') = InMails(row) + (refund + profit) /\ InMails(row) \in Nat /\ InMails(row') \in Nat
  <2> HIDE DEF profit
  <2>1. CASE a.bidder \in {None, p}
    <3>1. Post(<<y, z>>) /\ refund = 0
      BY <1>7, <1>9, <1>11, <2>1
    <3>2. /\ InMails(row') = InMails(row) + Brings(<<y, z>>, 1) + Brings(<<y, z>>, 2) + Brings(<<y, z>>, 3)
          /\ InMails(row) \in Nat /\ InMails(row') \in Nat
      BY <1>8, <3>1, Brings2, PostPays
    <3>3. Brings(<<y, z>>, 1) = profit /\ Brings(<<y, z>>, 2) = 0 /\ Brings(<<y, z>>, 3) = 0
      BY <1>8, <1>12, Brings2
    <3>4. QED
      BY <1>12, <3>1, <3>2, <3>3
  <2>2. CASE a.bidder \notin {None, p}
    <3> DEFINE x == Outbidded(a)
    <3>1. Post(<<x, y, z>>) /\ x \in Notices /\ x.money = refund
      BY <1>7, <1>9, <1>11, <2>2
    <3> HIDE DEF x
    <3>2. /\ InMails(row') = InMails(row) + Brings(<<x, y, z>>, 1) + Brings(<<x, y, z>>, 2) + Brings(<<x, y, z>>, 3)
          /\ InMails(row) \in Nat /\ InMails(row') \in Nat
      BY <1>8, <3>1, Brings3, PostPays
    <3>3. Brings(<<x, y, z>>, 1) = refund /\ Brings(<<x, y, z>>, 2) = profit /\ Brings(<<x, y, z>>, 3) = 0
      BY <1>8, <1>12, <3>1, Brings3
    <3>4. QED
      BY <1>12, <3>2, <3>3
  <2>3. QED
    BY <2>1, <2>2
<1>14. now <= money[p]
  BY <1>3, <1>4, <1>2, <1>6
<1>15. /\ InPurses(online', money', gold') = InPurses(online, money, gold) - now
       /\ InPeaks(online', money', gold') <= InPeaks(online, money, gold) - now
       /\ InPurses(online, money, gold) \in Nat /\ InPurses(online', money', gold') \in Nat
       /\ InPeaks(online, money, gold) \in Nat /\ InPeaks(online', money', gold') \in Nat
  BY <1>0, <1>6, <1>11, <1>14, PayerMove
<1>16. InEscrow(auction') = InEscrow(auction) - Held(a) /\ InEscrow(auction') \in Nat /\ Held(a) \in Int
       /\ BidsPaid(auction)'
  BY <1>11, ClosedMove DEF HouseAccounts
<1>17. now + Held(a) = (refund + profit) + cut /\ refund + profit \in Nat
  <2>1. /\ now + a.bid = refund + a.buyout /\ Held(a) = a.bid + a.deposit
        /\ now \in Nat /\ refund \in Nat /\ a.bid \in Nat /\ a.buyout \in Nat /\ a.deposit \in Nat
        /\ cut \in Nat /\ profit \in Nat
    BY <1>2, <1>6, <1>7, <1>10, <1>12
  <2> HIDE DEF a
  <2>2. QED
    BY <2>1
<1> HIDE DEF a, profit
<1>18. HouseBooks'
  BY <1>6, <1>10, <1>11, <1>13, <1>15, <1>16, <1>17, HouseBalance DEF HouseAccounts
<1>19. QED
  BY <1>16, <1>18 DEF HouseAccounts

LEMMA RemoveAccounts ==
    ASSUME AuctionsFit, HouseInv, HouseAccounts, NEW p \in Players, NEW i \in Items, HandleAuctionRemoveItem(p, i)
    PROVE  HouseAccounts'
<1> DEFINE a == auction[i]
           cut == IF a.bidder = None THEN 0 ELSE GetAuctionCut(a)
           letters == (IF a.bidder = None THEN <<>> ELSE <<CancelledToBidder(a)>>) \o <<Expired(a, i)>>
<1>0. PursesFit(money', gold')
  BY RemoveKeeps, HouseTypes
<1>1. /\ online[p] /\ a # NoAuction /\ money[p] >= cut
      /\ Post(letters) /\ PayAndSave(p, ModifyMoney(money[p], -cut)) /\ Closed(i)
      /\ ledger' = ledger - cut - a.deposit
      /\ UNCHANGED <<online, loaded, minted, started>>
  BY Zenon DEF HandleAuctionRemoveItem
<1>2. /\ a \in Listings /\ a.bid \in Nat /\ a.deposit \in Nat /\ Held(a) = a.bid + a.deposit
      /\ (a.bidder = None <=> a.bid = 0)
  BY <1>1, ListingOK DEF HouseAccounts
<1>3. Expired(a, i) \in Notices /\ Expired(a, i).money = 0
  BY <1>2, HouseLetters
<1>4. cut \in Nat /\ money[p] \in Nat
  <2>1. GetAuctionCut(a) \in Nat
    BY <1>2, CutBound DEF GetAuctionCut
  <2>2. QED
    BY <2>1, MailAssumption DEF HouseInv, PursesFit
<1>5. InMails(row') = InMails(row) + a.bid /\ InMails(row) \in Nat /\ InMails(row') \in Nat
  <2> DEFINE z == Expired(a, i)
  <2>1. CASE a.bidder = None
    <3>1. letters = <<z>>
      BY <1>3, <2>1, Joined
    <3>2. Post(<<z>>) /\ a.bid = 0 /\ z \in Notices /\ z.money = 0
      BY <1>1, <1>2, <1>3, <2>1, <3>1
    <3> HIDE DEF z, letters, cut
    <3>3. /\ InMails(row') = InMails(row) + Brings(<<z>>, 1) + Brings(<<z>>, 2) + Brings(<<z>>, 3)
          /\ InMails(row) \in Nat /\ InMails(row') \in Nat
      BY <1>1, <3>2, Brings1, PostPays
    <3>4. QED
      BY <3>2, <3>3, Brings1
  <2>2. CASE a.bidder # None
    <3> DEFINE x == CancelledToBidder(a)
    <3>1. x \in Notices /\ x.money = a.bid
      BY <1>2, <2>2, HouseLetters
    <3>2. letters = <<x, z>>
      BY <1>3, <2>2, <3>1, Joined
    <3>3. Post(<<x, z>>) /\ z \in Notices /\ z.money = 0
      BY <1>1, <1>3, <3>2
    <3> HIDE DEF x, z, letters, cut
    <3>4. /\ InMails(row') = InMails(row) + Brings(<<x, z>>, 1) + Brings(<<x, z>>, 2) + Brings(<<x, z>>, 3)
          /\ InMails(row) \in Nat /\ InMails(row') \in Nat
      BY <1>1, <3>1, <3>3, Brings2, PostPays
    <3>5. QED
      BY <1>2, <3>1, <3>3, <3>4, Brings2
  <2>3. QED
    BY <2>1, <2>2
<1> HIDE DEF cut, letters
<1>6. /\ InPurses(online', money', gold') = InPurses(online, money, gold) - cut
      /\ InPeaks(online', money', gold') <= InPeaks(online, money, gold) - cut
      /\ InPurses(online, money, gold) \in Nat /\ InPurses(online', money', gold') \in Nat
      /\ InPeaks(online, money, gold) \in Nat /\ InPeaks(online', money', gold') \in Nat
  <2>1. cut <= money[p]
    BY <1>1, <1>4
  <2>2. QED
    BY <1>0, <1>1, <1>4, <2>1, PayerMove
<1>7. InEscrow(auction') = InEscrow(auction) - Held(a) /\ InEscrow(auction') \in Nat /\ Held(a) \in Int
      /\ BidsPaid(auction)'
  BY <1>1, ClosedMove DEF HouseAccounts
<1> DEFINE keeps == cut + a.deposit
<1>8. cut + Held(a) = a.bid + keeps /\ keeps \in Nat
  BY <1>2, <1>4
<1>9. ledger' = ledger - keeps
  BY <1>1, <1>2, <1>4 DEF HouseAccounts, HouseBooks
<1> HIDE DEF a, keeps
<1>10. HouseBooks'
  BY <1>1, <1>2, <1>4, <1>5, <1>6, <1>7, <1>8, <1>9, HouseBalance DEF HouseAccounts
<1>11. QED
  BY <1>7, <1>10 DEF HouseAccounts

LEMMA UpdateAccounts ==
    ASSUME AuctionsFit, HouseInv, HouseAccounts, NEW i \in Items, Update(i)
    PROVE  HouseAccounts'
<1> DEFINE a == auction[i]
<1>1. /\ a # NoAuction /\ Closed(i)
      /\ UNCHANGED <<gold, online, money, loaded, minted, started>>
      /\ \/ a.bidder = None /\ Post(<<Expired(a, i)>>) /\ ledger' = ledger - a.deposit
         \/ a.bidder # None /\ Post(<<Successful(a), Won(a, i)>>) /\ ledger' = ledger - GetAuctionCut(a)
  BY DEF Update
<1>2. /\ a \in Listings /\ a.bid \in Nat /\ a.deposit \in Nat /\ Held(a) = a.bid + a.deposit
      /\ (a.bidder = None <=> a.bid = 0)
  BY <1>1, ListingOK DEF HouseAccounts
<1>3. /\ InPurses(online', money', gold') = InPurses(online, money, gold)
      /\ InPeaks(online', money', gold') = InPeaks(online, money, gold)
      /\ InPurses(online, money, gold) \in Nat /\ InPeaks(online, money, gold) \in Nat
  BY <1>1, PursesUnchanged DEF HouseInv
<1>4. InEscrow(auction') = InEscrow(auction) - Held(a) /\ InEscrow(auction') \in Nat /\ Held(a) \in Int
      /\ BidsPaid(auction)' /\ Held(a) <= InEscrow(auction) /\ InEscrow(auction) \in Nat
  BY <1>1, ClosedMove DEF HouseAccounts
<1>5. Held(a) < UINT32
  <2>1. minted + Deposit * started < UINT32 /\ Deposit * started \in Nat
    BY DepositsFit DEF HouseAccounts
  <2>2. /\ InPeaks(online, money, gold) + InMails(row) + InEscrow(auction) <= minted + Deposit * started
        /\ minted \in Nat
    BY DEF HouseAccounts, HouseBooks
  <2>3. InMails(row) \in Nat
    BY RowsNat
  <2> DEFINE x == Deposit * started
  <2> HIDE DEF x
  <2>4. x \in Nat /\ minted + x < UINT32 /\ InPeaks(online, money, gold) + InMails(row) + InEscrow(auction) <= minted + x
    BY <2>1, <2>2 DEF x
  <2>5. QED
    BY <1>3, <1>4, <2>2, <2>3, <2>4, MailAssumption
<1>6. \E mails, keeps \in Nat :
          /\ InMails(row') = InMails(row) + mails /\ InMails(row') \in Nat
          /\ ledger' = ledger - keeps /\ Held(a) = mails + keeps
  <2>1. CASE a.bidder = None
    <3> DEFINE z == Expired(a, i)
    <3>1. Post(<<z>>) /\ z \in Notices /\ z.money = 0 /\ ledger' = ledger - a.deposit
      BY <1>1, <1>2, <2>1, HouseLetters
    <3> HIDE DEF z
    <3>2. /\ InMails(row') = InMails(row) + Brings(<<z>>, 1) + Brings(<<z>>, 2) + Brings(<<z>>, 3)
          /\ InMails(row) \in Nat /\ InMails(row') \in Nat
      BY <1>1, <3>1, Brings1, PostPays
    <3>3. InMails(row') = InMails(row) + 0
      BY <3>1, <3>2, Brings1
    <3>4. Held(a) = 0 + a.deposit
      BY <1>2, <2>1
    <3>5. QED
      BY <1>2, <3>1, <3>2, <3>3, <3>4
  <2>2. CASE a.bidder # None
    <3> DEFINE y == Successful(a)
               z == Won(a, i)
               cut == GetAuctionCut(a)
    <3>1. Post(<<y, z>>) /\ y \in Notices /\ y.money = Profit(a) /\ z \in Notices /\ z.money = 0
          /\ ledger' = ledger - cut
      BY <1>1, <1>2, <2>2, HouseLetters
    <3>2. Profit(a) = a.bid + a.deposit - cut /\ cut \in Nat /\ cut <= a.bid
      BY <1>2, <1>5, ProfitIs
    <3> HIDE DEF y, z, cut
    <3> DEFINE profit == a.bid + a.deposit - cut
    <3>3. profit \in Nat /\ y.money = profit /\ Held(a) = profit + cut
      BY <1>2, <3>1, <3>2
    <3> HIDE DEF profit
    <3>4. /\ InMails(row') = InMails(row) + Brings(<<y, z>>, 1) + Brings(<<y, z>>, 2) + Brings(<<y, z>>, 3)
          /\ InMails(row) \in Nat /\ InMails(row') \in Nat
      BY <1>1, <3>1, Brings2, PostPays
    <3>5. Brings(<<y, z>>, 1) = profit /\ Brings(<<y, z>>, 2) = 0 /\ Brings(<<y, z>>, 3) = 0
      BY <3>1, <3>3, Brings2
    <3>6. InMails(row') = InMails(row) + profit
      BY <3>3, <3>4, <3>5
    <3>7. QED
      BY <3>1, <3>2, <3>3, <3>4, <3>6
  <2>3. QED
    BY <2>1, <2>2
<1>7. PICK mails, keeps \in Nat :
          /\ InMails(row') = InMails(row) + mails /\ InMails(row') \in Nat
          /\ ledger' = ledger - keeps /\ Held(a) = mails + keeps
  BY <1>6
<1>8. HouseBooks'
  <2>1. /\ InPurses(online', money', gold') = InPurses(online, money, gold) - 0
        /\ InPeaks(online', money', gold') <= InPeaks(online, money, gold) - 0
        /\ InPurses(online', money', gold') \in Nat /\ InPeaks(online', money', gold') \in Nat
        /\ 0 + Held(a) = mails + keeps /\ 0 \in Nat
    BY <1>3, <1>4, <1>7
  <2> DEFINE held == Held(a)
  <2>2. held \in Int /\ InEscrow(auction') = InEscrow(auction) - held /\ 0 + held = mails + keeps
    BY <1>4, <2>1
  <2> HIDE DEF held, a
  <2>3. QED
    BY <1>1, <1>3, <1>4, <1>7, <2>1, <2>2, HouseBalance DEF HouseAccounts
<1>9. QED
  BY <1>4, <1>8 DEF HouseAccounts

\* All that the auctions hold.
LEMMA EscrowIs == ASSUME HouseInv PROVE Escrow = InEscrow(auction)
<1> DEFINE h == [i \in Auctions |-> auction[i].bid + auction[i].deposit]
           f == [i \in Items |-> Held(auction[i])]
           D == Auctions
           R == Items \ D
<1>1. SumFunction(h) = SumFunctionOnSet(h, D)
  BY DEF SumFunction, SumFunctionOnSet, FoldFunction
<1>2. D \in SUBSET Items /\ \A i \in D : h[i] = f[i]
  BY DEF Auctions, Held
<1>3. \A i \in R : f[i] = 0
  BY DEF Auctions, Held
<1>4. \A i \in Items : f[i] \in Nat
  BY HeldNat DEF HouseInv, AuctionsOK
<1>5. IsFiniteSet(Items) /\ IsFiniteSet(D) /\ IsFiniteSet(R)
  BY <1>2, MailAssumption, FS_Subset
<1>6. Escrow = SumFunction(h) /\ InEscrow(auction) = SumFunctionOnSet(f, Items)
  BY DEF Escrow, InEscrow
<1> HIDE DEF h, f, D, R
<1>7. SumFunctionOnSet(f, Items) = SumFunctionOnSet(f, D) + SumFunctionOnSet(f, R)
  BY <1>2, <1>4, <1>5, SumPart DEF R
<1>8. SumFunctionOnSet(f, R) = 0
  <2>1. SumFunctionOnSet(f, R) = Cardinality(R) * 0
    BY <1>3, <1>5, SumConstant
  <2>2. Cardinality(R) \in Nat
    BY <1>5, FS_CardinalityType
  <2>3. QED
    BY <2>1, <2>2
<1>9. SumFunctionOnSet(f, D) = SumFunctionOnSet(h, D) /\ SumFunctionOnSet(f, D) \in Nat
  BY <1>2, <1>4, <1>5, SumSame, SumNat
<1>10. QED
  BY <1>1, <1>6, <1>7, <1>8, <1>9

\* What is saved is what players have at most.
LEMMA GoldIs ==
    ASSUME HouseInv
    PROVE  /\ SumFunction(gold) = SumFunctionOnSet(gold, Players)
           /\ SumFunctionOnSet(gold, Players) \in Nat
           /\ SumFunctionOnSet(gold, Players) <= InPeaks(online, money, gold)
           /\ InPeaks(online, money, gold) \in Nat /\ InPurses(online, money, gold) \in Nat
           /\ InPurses(online, money, gold) <= InPeaks(online, money, gold)
           /\ DurableMoney = SumFunctionOnSet(gold, Players) + InMails(row)
<1> DEFINE a == PursesOf(online, money, gold)
           c == PeaksOf(online, money, gold)
<1>1. \A q \in Players : money[q] \in 0..MAX_MONEY_AMOUNT /\ gold[q] \in 0..MAX_MONEY_AMOUNT
  BY DEF HouseInv, PursesFit
<1>2. \A q \in Players : /\ gold[q] \in Nat /\ c[q] \in Nat /\ a[q] \in Nat /\ gold[q] <= c[q] /\ a[q] <= c[q]
                         /\ gold[q] \in Int /\ c[q] \in Int /\ a[q] \in Int
  BY <1>1, MailAssumption DEF PeaksOf, PursesOf
<1>3. SumFunctionOnSet(a, Players) = InPurses(online, money, gold)
  BY DEF InPurses
<1>4. SumFunctionOnSet(c, Players) = InPeaks(online, money, gold)
  BY DEF InPeaks
<1>5. IsFiniteSet(Players)
  BY MailAssumption
<1>6. SumFunction(gold) = SumFunctionOnSet(gold, Players)
  BY DEF SumFunction, SumFunctionOnSet, FoldFunction, HouseInv, PursesFit
<1> HIDE DEF a, c
<1>7. /\ SumFunctionOnSet(gold, Players) <= SumFunctionOnSet(c, Players)
      /\ SumFunctionOnSet(a, Players) <= SumFunctionOnSet(c, Players)
  BY <1>2, <1>5, SumGreater
<1>8. /\ SumFunctionOnSet(gold, Players) \in Nat /\ SumFunctionOnSet(c, Players) \in Nat
      /\ SumFunctionOnSet(a, Players) \in Nat
  BY <1>2, <1>5, SumNat
<1>9. Worth(row, Mails(row)) = InMails(row)
  BY NoticeAmount, WorthOfMails
<1>10. DurableMoney = SumFunctionOnSet(gold, Players) + InMails(row)
  BY <1>6, <1>9 DEF DurableMoney
<1>11. QED
  BY <1>3, <1>4, <1>6, <1>7, <1>8, <1>10

LEMMA RestartAccounts ==
    ASSUME AuctionsFit, HouseInv, HouseAccounts, Restart
    PROVE  HouseAccounts'
<1>1. /\ online' = [p \in Players |-> FALSE] /\ ledger' = DurableMoney + Escrow
      /\ UNCHANGED <<row, gold, minted, auction, started>>
  BY DEF Restart, LoseMemory, database, auctionVars
<1> DEFINE b == PursesOf(online', money', gold')
           d == PeaksOf(online', money', gold')
<1>2. \A q \in Players : b[q] = gold[q] /\ d[q] = gold[q]
  BY <1>1 DEF PursesOf, PeaksOf
<1>3. IsFiniteSet(Players)
  BY MailAssumption
<1>4. SumFunctionOnSet(b, Players) = InPurses(online', money', gold')
  BY DEF InPurses
<1>5. SumFunctionOnSet(d, Players) = InPeaks(online', money', gold')
  BY DEF InPeaks
<1> HIDE DEF b, d
<1>6. /\ SumFunctionOnSet(b, Players) = SumFunctionOnSet(gold, Players)
      /\ SumFunctionOnSet(d, Players) = SumFunctionOnSet(gold, Players)
  BY <1>2, <1>3, SumSame
<1> DEFINE g == SumFunctionOnSet(gold, Players)
           x == Deposit * started
<1>7. g \in Nat /\ g <= InPeaks(online, money, gold) /\ DurableMoney = g + InMails(row)
      /\ InPeaks(online, money, gold) \in Nat
  BY GoldIs
<1>8. InMails(row) \in Nat /\ InEscrow(auction) \in Nat /\ Escrow = InEscrow(auction) /\ x \in Nat
  BY RowsNat, EscrowNat, EscrowIs, DepositsFit DEF HouseAccounts
<1>9. /\ minted \in Nat /\ started \in Nat /\ minted <= Supply /\ started <= MaxAuctions
      /\ InPeaks(online, money, gold) + InMails(row) + InEscrow(auction) <= minted + x
  BY DEF HouseAccounts, HouseBooks
<1>10. InPurses(online', money', gold') = g /\ InPeaks(online', money', gold') = g
  BY <1>4, <1>5, <1>6
<1> HIDE DEF g, x
<1>11. ledger' = g + InMails(row) + InEscrow(auction)
  BY <1>1, <1>7, <1>8
<1>12. ledger' \in Nat /\ InPurses(online', money', gold') + InMails(row') + InEscrow(auction') = ledger'
  BY <1>1, <1>7, <1>8, <1>10, <1>11
<1>13. InPeaks(online', money', gold') + InMails(row') + InEscrow(auction') <= minted' + Deposit * started'
  BY <1>1, <1>7, <1>8, <1>9, <1>10 DEF x
<1>14. HouseBooks'
  BY <1>1, <1>9, <1>12, <1>13, HouseBooksPrimed
<1>15. BidsPaid(auction)'
  BY <1>1 DEF HouseAccounts, BidsPaid
<1>16. QED
  BY <1>14, <1>15 DEF HouseAccounts

\* A step of a player, or of one of his letters, that leaves the auctions.
LEMMA PlayerBalance ==
    ASSUME AuctionsFit, HouseInv, HouseAccounts, UNCHANGED <<auction, started>>,
           NEW owned \in Int, NEW mailed \in Int, NEW minting \in Nat,
           InPurses(online', money', gold') = InPurses(online, money, gold) + owned,
           InPeaks(online', money', gold') <= InPeaks(online, money, gold) + owned
             \/ (owned = 0 /\ InPeaks(online', money', gold') <= InPeaks(online, money, gold)),
           InPurses(online, money, gold) \in Nat, InPurses(online', money', gold') \in Nat,
           InPeaks(online, money, gold) \in Nat, InPeaks(online', money', gold') \in Nat,
           InMails(row') = InMails(row) + mailed, InMails(row') \in Nat,
           ledger' = ledger + owned + mailed, owned + mailed <= minting,
           minted' = minted + minting, minted' <= Supply
    PROVE  HouseAccounts'
<1> DEFINE x == Deposit * started
<1>1. x \in Nat
  BY DepositsFit DEF HouseAccounts
<1>2. /\ ledger \in Nat /\ minted \in Nat /\ started \in Nat /\ started <= MaxAuctions
      /\ InPurses(online, money, gold) + InMails(row) + InEscrow(auction) = ledger
      /\ InPeaks(online, money, gold) + InMails(row) + InEscrow(auction) <= minted + x
  BY DEF HouseAccounts, HouseBooks
<1>3. Deposit * started' = x
  OBVIOUS
<1>4. InMails(row) \in Nat /\ InEscrow(auction) \in Nat /\ InEscrow(auction') = InEscrow(auction)
  BY RowsNat, EscrowNat
<1> HIDE DEF x
<1>5. InPurses(online', money', gold') + InMails(row') + InEscrow(auction') = ledger'
  BY <1>2, <1>4
<1>6. InPeaks(online', money', gold') + InMails(row') + InEscrow(auction') <= minted' + x
  BY <1>1, <1>2, <1>4
<1>7. ledger' \in Nat
  BY <1>4, <1>5
<1>8. HouseBooks'
  BY <1>2, <1>3, <1>5, <1>6, <1>7, HouseBooksPrimed
<1>9. BidsPaid(auction)'
  BY DEF HouseAccounts, BidsPaid
<1>10. QED
  BY <1>8, <1>9 DEF HouseAccounts

\* The purse of a player who is online gets n more, and is saved or not.
LEMMA OwnerMove ==
    ASSUME NEW p \in Players, PursesFit(money, gold), PursesFit(money', gold'), online[p], online' = online,
           NEW n \in Nat, money' = [money EXCEPT ![p] = money[p] + n],
           gold' = [gold EXCEPT ![p] = money'[p]] \/ gold' = gold
    PROVE  /\ InPurses(online', money', gold') = InPurses(online, money, gold) + n
           /\ InPeaks(online', money', gold') <= InPeaks(online, money, gold) + n
           /\ InPurses(online, money, gold) \in Nat /\ InPurses(online', money', gold') \in Nat
           /\ InPeaks(online, money, gold) \in Nat /\ InPeaks(online', money', gold') \in Nat
<1>1. /\ money[p] \in Nat /\ gold[p] \in Nat /\ PursesOf(online, money, gold)[p] = money[p]
      /\ PeaksOf(online, money, gold)[p] = IF money[p] > gold[p] THEN money[p] ELSE gold[p]
  BY PurseOnline
<1>2. /\ money'[p] = money[p] + n /\ (gold'[p] = money'[p] \/ gold'[p] = gold[p])
      /\ \A q \in Players \ {p} : online'[q] = online[q] /\ money'[q] = money[q] /\ gold'[q] = gold[q]
  BY DEF PursesFit
<1>3. /\ PursesOf(online', money', gold')[p] = money'[p]
      /\ PeaksOf(online', money', gold')[p] = IF money'[p] > gold'[p] THEN money'[p] ELSE gold'[p]
  <2>1. online'[p]
    OBVIOUS
  <2>2. QED
    BY <2>1 DEF PursesOf, PeaksOf
<1>4. PeaksOf(online', money', gold')[p] <= PeaksOf(online, money, gold)[p] + n
      /\ PeaksOf(online, money, gold)[p] \in Nat /\ PeaksOf(online', money', gold')[p] \in Nat
  BY <1>1, <1>2, <1>3
<1>5. /\ InPurses(online', money', gold') = InPurses(online, money, gold) - PursesOf(online, money, gold)[p]
                                                + PursesOf(online', money', gold')[p]
      /\ InPeaks(online', money', gold') = InPeaks(online, money, gold) - PeaksOf(online, money, gold)[p]
                                               + PeaksOf(online', money', gold')[p]
      /\ InPurses(online, money, gold) \in Nat /\ InPurses(online', money', gold') \in Nat
      /\ InPeaks(online, money, gold) \in Nat /\ InPeaks(online', money', gold') \in Nat
  BY <1>2, PurseMove
<1>6. QED
  BY <1>1, <1>2, <1>3, <1>4, <1>5

\* The purse of p is what it was, wherever it is now.
LEMMA OwnerStays ==
    ASSUME NEW p \in Players, PursesFit(money, gold), PursesFit(money', gold'),
           \A q \in Players \ {p} : online'[q] = online[q] /\ money'[q] = money[q] /\ gold'[q] = gold[q],
           PursesOf(online', money', gold')[p] = PursesOf(online, money, gold)[p],
           PeaksOf(online', money', gold')[p] <= PeaksOf(online, money, gold)[p]
    PROVE  /\ InPurses(online', money', gold') = InPurses(online, money, gold) + 0
           /\ InPeaks(online', money', gold') <= InPeaks(online, money, gold)
           /\ InPurses(online, money, gold) \in Nat /\ InPurses(online', money', gold') \in Nat
           /\ InPeaks(online, money, gold) \in Nat /\ InPeaks(online', money', gold') \in Nat
<1> DEFINE a == PursesOf(online, money, gold)[p]
           b == PursesOf(online', money', gold')[p]
           c == PeaksOf(online, money, gold)[p]
           d == PeaksOf(online', money', gold')[p]
<1>1. /\ InPurses(online', money', gold') = InPurses(online, money, gold) - a + b
      /\ InPeaks(online', money', gold') = InPeaks(online, money, gold) - c + d
      /\ InPurses(online, money, gold) \in Nat /\ InPurses(online', money', gold') \in Nat
      /\ InPeaks(online, money, gold) \in Nat /\ InPeaks(online', money', gold') \in Nat
  BY PurseMove
<1>2. a \in Nat /\ c \in Nat /\ d \in Nat
  <2>1. /\ money[p] \in 0..MAX_MONEY_AMOUNT /\ gold[p] \in 0..MAX_MONEY_AMOUNT
        /\ money'[p] \in 0..MAX_MONEY_AMOUNT /\ gold'[p] \in 0..MAX_MONEY_AMOUNT
    BY DEF PursesFit
  <2>2. QED
    BY <2>1, MailAssumption DEF PursesOf, PeaksOf
<1>3. b = a /\ d <= c
  OBVIOUS
<1> HIDE DEF a, b, c, d
<1>4. QED
  BY <1>1, <1>2, <1>3

LEMMA RowMove ==
    ASSUME HouseInv, HouseInv', NEW id \in MailIds, NEW mail, row' = [row EXCEPT ![id] = mail]
    PROVE  /\ InMails(row') = InMails(row) - Amount(row[id]) + Amount(mail)
           /\ InMails(row) \in Nat /\ InMails(row') \in Nat
           /\ Amount(row[id]) \in Nat /\ Amount(mail) \in Nat
<1>1. row \in [MailIds -> Notices \cup {NoMail}] /\ row' \in [MailIds -> Notices \cup {NoMail}]
  BY DEF HouseInv, NoticesOK
<1>2. \A k \in MailIds : row'[k] = IF k = id THEN mail ELSE row[k]
  BY <1>1
<1>3. \A x \in Notices \cup {NoMail} : Amount(x) \in Nat
  BY MailAssumption DEF Notices, Amount
<1>4. \A k \in MailIds : Amount(row[k]) \in Nat /\ Amount(row'[k]) \in Nat
  BY <1>1, <1>3
<1>5. \A k \in MailIds \ {id} : Amount(row'[k]) = Amount(row[k])
  BY <1>2
<1>6. /\ InMails(row') = InMails(row) - Amount(row[id]) + Amount(row'[id])
      /\ InMails(row) \in Nat /\ InMails(row') \in Nat
  BY <1>4, <1>5, MailMove
<1>7. row'[id] = mail
  BY <1>2
<1>8. QED
  BY <1>4, <1>6, <1>7

LEMMA TakeMoneyMoves ==
    ASSUME AuctionsFit, HouseInv, HouseAccounts, NEW p \in Players, NEW id \in MailIds, box[p][id] # NoMail,
           HandleMailTakeMoney(p, id), UNCHANGED <<auction, started>>
    PROVE  HouseAccounts'
<1> DEFINE mail == box[p][id]
           n == Notice(p, 0, mail.items)
           m == mail.money
<1>0. HouseInv'
  BY TakeMoneyHouse
<1>1. /\ m > 0 => money[p] < MAX_MONEY_AMOUNT - m
      /\ row' = [row EXCEPT ![id] = n]
      /\ money' = [money EXCEPT ![p] = ModifyMoney(@, m)] /\ gold' = [gold EXCEPT ![p] = money'[p]]
      /\ ledger' = ledger - 0 /\ UNCHANGED <<online, minted>>
  BY TakeMoneyGives
<1>2. mail \in Notices /\ row[id] = mail /\ online[p] /\ mail # NoMail
  BY CachedNotice
<1>3. m \in Nat /\ Amount(row[id]) = m /\ mail.items \in SUBSET Items
  <2>1. m \in 0..(UINT32 - 1) /\ mail.items \in SUBSET Items
    BY <1>2, NoticeFields
  <2>2. QED
    BY <1>2, <2>1, MailAssumption DEF Amount
<1>4. n # NoMail /\ n.money = 0
  <2>1. n \in Notices /\ n.money = 0
    BY <1>3, NoticeOK, MailAssumption
  <2>2. QED
    BY <2>1, NoNotice
<1>5. Amount(n) = 0
  BY <1>4 DEF Amount
<1> HIDE DEF n, m, mail
<1>6. InMails(row') = InMails(row) - m + 0 /\ InMails(row) \in Nat /\ InMails(row') \in Nat
  BY <1>0, <1>1, <1>3, <1>5, RowMove
<1>7. PursesFit(money, gold) /\ PursesFit(money', gold')
  BY <1>0, HouseTypes
<1>8. money[p] \in Nat
  BY <1>7, MailAssumption DEF PursesFit
<1>9. ModifyMoney(money[p], m) = money[p] + m
  BY <1>1, <1>3, <1>8, Gains
<1>10. money' = [money EXCEPT ![p] = money[p] + m]
  BY <1>1, <1>9
<1>11. /\ InPurses(online', money', gold') = InPurses(online, money, gold) + m
       /\ InPeaks(online', money', gold') <= InPeaks(online, money, gold) + m
       /\ InPurses(online, money, gold) \in Nat /\ InPurses(online', money', gold') \in Nat
       /\ InPeaks(online, money, gold) \in Nat /\ InPeaks(online', money', gold') \in Nat
  BY <1>1, <1>2, <1>3, <1>7, <1>10, OwnerMove
<1> DEFINE less == 0 - m
<1>12. less \in Int /\ m \in Int /\ InMails(row') = InMails(row) + less /\ ledger' = ledger + m + less
       /\ m + less <= 0 /\ minted' = minted + 0 /\ minted' <= Supply /\ 0 \in Nat
  BY <1>1, <1>3, <1>6 DEF HouseAccounts, HouseBooks
<1> HIDE DEF less
<1>13. QED
  BY <1>6, <1>11, <1>12, PlayerBalance

LEMMA TakeItemMoves ==
    ASSUME AuctionsFit, HouseInv, HouseAccounts, NEW p \in Players, NEW id \in MailIds, box[p][id] # NoMail,
           HandleMailTakeItem(p, id), UNCHANGED <<auction, started>>
    PROVE  HouseAccounts'
<1> DEFINE mail == box[p][id]
           m == mail.money
<1>0. HouseInv'
  BY TakeItemHouse
<1>1. PICK i \in mail.items :
      /\ row' = [row EXCEPT ![id] = Notice(p, m, mail.items \ {i})]
      /\ money' = money /\ gold' = [gold EXCEPT ![p] = money[p]]
      /\ ledger' = ledger - 0 /\ UNCHANGED <<online, minted>>
  BY TakeItemGives
<1>2. mail \in Notices /\ row[id] = mail /\ online[p] /\ mail # NoMail
  BY CachedNotice
<1>3. m \in Nat /\ Amount(row[id]) = m /\ mail.items \in SUBSET Items /\ m \in 0..(UINT32 - 1)
  <2>1. m \in 0..(UINT32 - 1) /\ mail.items \in SUBSET Items
    BY <1>2, NoticeFields
  <2>2. QED
    BY <1>2, <2>1, MailAssumption DEF Amount
<1> DEFINE n == Notice(p, m, mail.items \ {i})
<1>4. n # NoMail /\ n.money = m
  <2> DEFINE S == mail.items \ {i}
  <2>1. S \in SUBSET Items
    BY <1>3
  <2> HIDE DEF S, m
  <2>2. Notice(p, m, S) \in Notices /\ Notice(p, m, S).money = m
    BY <1>3, <2>1, NoticeOK
  <2>3. QED
    BY <2>2, NoNotice DEF S
<1>5. Amount(n) = m
  BY <1>4 DEF Amount
<1>6. row' = [row EXCEPT ![id] = n]
  BY <1>1
<1> HIDE DEF n, m, mail
<1>7. InMails(row') = InMails(row) - m + m /\ InMails(row) \in Nat /\ InMails(row') \in Nat
  BY <1>0, <1>3, <1>5, <1>6, RowMove
<1>8. PursesFit(money, gold) /\ PursesFit(money', gold')
  BY <1>0, HouseTypes
<1>9. money' = [money EXCEPT ![p] = money[p] + 0] /\ gold' = [gold EXCEPT ![p] = money'[p]]
  <2>1. money[p] + 0 = money[p]
    BY <1>8, MailAssumption DEF PursesFit
  <2>2. QED
    BY <1>1, <1>8, <2>1 DEF PursesFit
<1>10. /\ InPurses(online', money', gold') = InPurses(online, money, gold) + 0
       /\ InPeaks(online', money', gold') <= InPeaks(online, money, gold) + 0
       /\ InPurses(online, money, gold) \in Nat /\ InPurses(online', money', gold') \in Nat
       /\ InPeaks(online, money, gold) \in Nat /\ InPeaks(online', money', gold') \in Nat
  BY <1>1, <1>2, <1>8, <1>9, OwnerMove
<1>11. 0 \in Int /\ 0 \in Nat /\ InMails(row') = InMails(row) + 0 /\ ledger' = ledger + 0 + 0
       /\ 0 + 0 <= 0 /\ minted' = minted + 0 /\ minted' <= Supply
  BY <1>1, <1>3, <1>7 DEF HouseAccounts, HouseBooks
<1>12. QED
  BY <1>7, <1>10, <1>11, PlayerBalance

LEMMA ReturnMoves ==
    ASSUME AuctionsFit, HouseInv, HouseAccounts, NEW p \in Players, NEW id \in MailIds, box[p][id] # NoMail,
           HandleMailReturnToSender(p, id), UNCHANGED <<auction, started>>
    PROVE  HouseAccounts'
<1> DEFINE m == box[p][id].money
<1>0. HouseInv'
  BY ReturnHouse
<1>1. /\ row' = [row EXCEPT ![id] = NoMail] /\ ledger' = ledger - m
      /\ UNCHANGED <<gold, online, money, minted>>
  BY ReturnGives
<1>2. m \in Nat /\ Amount(row[id]) = m
  <2>1. box[p][id] \in Notices /\ row[id] = box[p][id]
    BY CachedNotice
  <2>2. m \in 0..(UINT32 - 1) /\ box[p][id] # NoMail
    BY <2>1, NoticeFields
  <2>3. QED
    BY <2>1, <2>2, MailAssumption DEF Amount
<1>3. Amount(NoMail) = 0
  BY DEF Amount
<1> HIDE DEF m
<1>4. InMails(row') = InMails(row) - m + 0 /\ InMails(row) \in Nat /\ InMails(row') \in Nat
  BY <1>0, <1>1, <1>2, <1>3, RowMove
<1>5. /\ InPurses(online', money', gold') = InPurses(online, money, gold)
      /\ InPeaks(online', money', gold') = InPeaks(online, money, gold)
      /\ InPurses(online, money, gold) \in Nat /\ InPeaks(online, money, gold) \in Nat
  BY <1>1, PursesUnchanged DEF HouseInv
<1> DEFINE less == 0 - m
<1>6. less \in Int /\ InMails(row') = InMails(row) + less /\ ledger' = ledger + 0 + less
       /\ 0 + less <= 0 /\ minted' = minted + 0 /\ minted' <= Supply /\ 0 \in Nat /\ 0 \in Int
       /\ InPurses(online', money', gold') = InPurses(online, money, gold) + 0
       /\ InPeaks(online', money', gold') <= InPeaks(online, money, gold) + 0
       /\ InPurses(online', money', gold') \in Nat /\ InPeaks(online', money', gold') \in Nat
  BY <1>1, <1>2, <1>4, <1>5 DEF HouseAccounts, HouseBooks
<1> HIDE DEF less
<1>7. QED
  BY <1>4, <1>5, <1>6, PlayerBalance

LEMMA SessionMoves ==
    ASSUME AuctionsFit, HouseInv, HouseAccounts, NEW p \in Players, Sessions(p), UNCHANGED <<auction, started>>
    PROVE  HouseAccounts'
<1>0. HouseInv'
  BY AutoSaveHouse, LogoutHouse, LoginHouse, EarnHouse DEF Sessions
<1>1. PursesFit(money, gold) /\ PursesFit(money', gold') /\ InMails(row) \in Nat
  BY <1>0, HouseTypes, RowsNat
<1>2. /\ money[p] \in Nat /\ gold[p] \in Nat /\ ledger \in Nat /\ minted \in Nat /\ minted <= Supply
  BY <1>1, MailAssumption DEF PursesFit, HouseAccounts, HouseBooks
<1>3. ASSUME row' = row, ledger' = ledger, minted' = minted,
             \A q \in Players \ {p} : online'[q] = online[q] /\ money'[q] = money[q] /\ gold'[q] = gold[q],
             PursesOf(online', money', gold')[p] = PursesOf(online, money, gold)[p],
             PeaksOf(online', money', gold')[p] <= PeaksOf(online, money, gold)[p]
      PROVE  HouseAccounts'
  <2>1. /\ InPurses(online', money', gold') = InPurses(online, money, gold) + 0
        /\ InPeaks(online', money', gold') <= InPeaks(online, money, gold)
        /\ InPurses(online, money, gold) \in Nat /\ InPurses(online', money', gold') \in Nat
        /\ InPeaks(online, money, gold) \in Nat /\ InPeaks(online', money', gold') \in Nat
    BY <1>1, <1>3, OwnerStays
  <2>2. /\ InMails(row') = InMails(row) + 0 /\ InMails(row') \in Nat /\ ledger' = ledger + 0 + 0
        /\ 0 + 0 <= 0 /\ minted' = minted + 0 /\ minted' <= Supply /\ 0 \in Nat /\ 0 \in Int
    BY <1>1, <1>2, <1>3
  <2>3. QED
    BY <2>1, <2>2, PlayerBalance
<1>4. CASE AutoSave(p)
  <2>1. /\ online[p] /\ gold' = [gold EXCEPT ![p] = money[p]] /\ row' = row /\ ledger' = ledger - 0
        /\ UNCHANGED <<online, money, minted>>
    BY <1>4, SaveGives DEF AutoSave
  <2>2. /\ ledger' = ledger
        /\ \A q \in Players \ {p} : online'[q] = online[q] /\ money'[q] = money[q] /\ gold'[q] = gold[q]
    BY <1>1, <1>2, <2>1 DEF PursesFit
  <2>3. gold'[p] = money[p] /\ money'[p] = money[p] /\ online'[p] /\ online[p]
    BY <1>1, <2>1 DEF PursesFit
  <2>4. /\ PursesOf(online', money', gold')[p] = PursesOf(online, money, gold)[p]
        /\ PeaksOf(online', money', gold')[p] <= PeaksOf(online, money, gold)[p]
    BY <1>2, <2>3 DEF PursesOf, PeaksOf
  <2>5. QED
    BY <1>3, <2>1, <2>2, <2>4
<1>5. CASE LogoutPlayer(p)
  <2>1. /\ online[p] /\ gold' = [gold EXCEPT ![p] = money[p]] /\ row' = row /\ ledger' = ledger - 0
        /\ online' = [online EXCEPT ![p] = FALSE] /\ money' = [money EXCEPT ![p] = 0]
        /\ minted' = minted
    BY <1>5, SaveGives DEF LogoutPlayer, Emptied
  <2>2. online \in [Players -> BOOLEAN]
    BY DEF HouseInv, PlayersOK
  <2>3. /\ ledger' = ledger
        /\ \A q \in Players \ {p} : online'[q] = online[q] /\ money'[q] = money[q] /\ gold'[q] = gold[q]
    BY <1>1, <1>2, <2>1, <2>2 DEF PursesFit
  <2>4. gold'[p] = money[p] /\ ~online'[p] /\ online[p]
    BY <1>1, <2>1, <2>2 DEF PursesFit
  <2>5. /\ PursesOf(online', money', gold')[p] = PursesOf(online, money, gold)[p]
        /\ PeaksOf(online', money', gold')[p] <= PeaksOf(online, money, gold)[p]
    BY <1>2, <2>4 DEF PursesOf, PeaksOf
  <2>6. QED
    BY <1>3, <2>1, <2>3, <2>5
<1>6. CASE Login(p)
  <2>1. /\ ~online[p] /\ online' = [online EXCEPT ![p] = TRUE] /\ money' = [money EXCEPT ![p] = gold[p]]
        /\ UNCHANGED <<row, gold, ledger, minted>>
    BY <1>6 DEF Login, database, history
  <2>2. online \in [Players -> BOOLEAN]
    BY DEF HouseInv, PlayersOK
  <2>3. \A q \in Players \ {p} : online'[q] = online[q] /\ money'[q] = money[q] /\ gold'[q] = gold[q]
    BY <1>1, <2>1, <2>2 DEF PursesFit
  <2>4. gold'[p] = gold[p] /\ money'[p] = gold[p] /\ online'[p] /\ ~online[p]
    BY <1>1, <2>1, <2>2 DEF PursesFit
  <2>5. /\ PursesOf(online', money', gold')[p] = PursesOf(online, money, gold)[p]
        /\ PeaksOf(online', money', gold')[p] <= PeaksOf(online, money, gold)[p]
    BY <1>2, <2>4 DEF PursesOf, PeaksOf
  <2>6. QED
    BY <1>3, <2>1, <2>3, <2>5
<1>7. CASE Earn(p)
  <2>1. /\ online[p] /\ minted < Supply /\ ModifyMoney(money[p], 1) # money[p]
        /\ money' = [money EXCEPT ![p] = ModifyMoney(@, 1)]
        /\ minted' = minted + 1 /\ ledger' = ledger + 1
        /\ UNCHANGED <<row, gold, online>>
    BY <1>7 DEF Earn, Supply, database
  <2>2. ModifyMoney(money[p], 1) = money[p] + 1
    BY <1>2, <2>1, MailAssumption DEF ModifyMoney
  <2>3. money' = [money EXCEPT ![p] = money[p] + 1] /\ gold' = gold /\ online' = online /\ 1 \in Nat
    BY <2>1, <2>2
  <2>4. /\ InPurses(online', money', gold') = InPurses(online, money, gold) + 1
        /\ InPeaks(online', money', gold') <= InPeaks(online, money, gold) + 1
        /\ InPurses(online, money, gold) \in Nat /\ InPurses(online', money', gold') \in Nat
        /\ InPeaks(online, money, gold) \in Nat /\ InPeaks(online', money', gold') \in Nat
    BY <1>1, <2>1, <2>3, OwnerMove
  <2>5. /\ InMails(row') = InMails(row) + 0 /\ InMails(row') \in Nat /\ ledger' = ledger + 1 + 0
        /\ 1 + 0 <= 1 /\ minted' = minted + 1 /\ minted' <= Supply /\ 0 \in Int /\ 1 \in Int
    BY <1>1, <1>2, <2>1, SupplyNat
  <2>6. QED
    BY <2>3, <2>4, <2>5, PlayerBalance
<1>8. QED
  BY <1>4, <1>5, <1>6, <1>7 DEF Sessions

LEMMA LoadMoves ==
    ASSUME AuctionsFit, HouseInv, HouseAccounts, NEW p \in Players, LoadMail(p), UNCHANGED <<auction, started>>
    PROVE  HouseAccounts'
<1>1. UNCHANGED <<row, gold, online, money, ledger, minted>>
  BY DEF LoadMail, database, history
<1>2. /\ InPurses(online', money', gold') = InPurses(online, money, gold)
      /\ InPeaks(online', money', gold') = InPeaks(online, money, gold)
      /\ InPurses(online, money, gold) \in Nat /\ InPeaks(online, money, gold) \in Nat
  BY <1>1, PursesUnchanged DEF HouseInv
<1>3. InMails(row) \in Nat
  BY RowsNat
<1>4. /\ InMails(row') = InMails(row) + 0 /\ InMails(row') \in Nat /\ ledger' = ledger + 0 + 0
      /\ 0 + 0 <= 0 /\ minted' = minted + 0 /\ minted' <= Supply /\ 0 \in Nat /\ 0 \in Int
      /\ InPurses(online', money', gold') = InPurses(online, money, gold) + 0
      /\ InPeaks(online', money', gold') <= InPeaks(online, money, gold) + 0
      /\ InPurses(online', money', gold') \in Nat /\ InPeaks(online', money', gold') \in Nat
  BY <1>1, <1>2, <1>3 DEF HouseAccounts, HouseBooks
<1>5. QED
  BY <1>2, <1>3, <1>4, PlayerBalance

LEMMA HouseAccountsInit == AuctionInit => HouseAccounts
<1> SUFFICES ASSUME AuctionInit PROVE HouseAccounts
  OBVIOUS
<1> DEFINE n == Cardinality(Players)
           k == Purse * n
<1>1. n \in Nat /\ Purse \in Nat /\ MaxEarned \in Nat
  BY MailAssumption, FS_CardinalityType
<1>2. ledger = k /\ minted = k /\ started = 0
  BY DEF AuctionInit, Init
<1>3. k \in Nat /\ n * Purse = k /\ Supply = k + MaxEarned
  <2>1. \A s, t \in Nat : s * t \in Nat /\ t * s = s * t
    OBVIOUS
  <2>2. QED
    BY <1>1, <2>1 DEF Supply
<1> HIDE DEF k
<1>4. InPurses(online, money, gold) = k
  <2> DEFINE a == PursesOf(online, money, gold)
  <2>1. \A p \in Players : a[p] = Purse
    BY DEF AuctionInit, Init, PursesOf
  <2>2. IsFiniteSet(Players) /\ Purse \in Int
    BY MailAssumption
  <2> HIDE DEF a
  <2>3. SumFunctionOnSet(a, Players) = Cardinality(Players) * Purse
    BY <2>1, <2>2, SumConstant
  <2>4. QED
    BY <1>3, <2>3 DEF InPurses, a
<1>5. InPeaks(online, money, gold) = k
  <2> DEFINE a == PeaksOf(online, money, gold)
  <2>1. \A p \in Players : a[p] = Purse
    BY DEF AuctionInit, Init, PeaksOf
  <2>2. IsFiniteSet(Players) /\ Purse \in Int
    BY MailAssumption
  <2> HIDE DEF a
  <2>3. SumFunctionOnSet(a, Players) = Cardinality(Players) * Purse
    BY <2>1, <2>2, SumConstant
  <2>4. QED
    BY <1>3, <2>3 DEF InPeaks, a
<1>6. InMails(row) = 0
  <2> DEFINE a == Amounts(row)
  <2>1. \A id \in MailIds : a[id] = 0
    BY DEF AuctionInit, Init, Amounts, Amount
  <2>2. IsFiniteSet(MailIds) /\ Cardinality(MailIds) \in Nat
    BY MailAssumption, FS_CardinalityType
  <2> HIDE DEF a
  <2>3. SumFunctionOnSet(a, MailIds) = Cardinality(MailIds) * 0
    BY <2>1, <2>2, SumConstant
  <2>4. QED
    BY <2>2, <2>3 DEF InMails, a
<1>7. InEscrow(auction) = 0
  <2> DEFINE a == [i \in Items |-> Held(auction[i])]
  <2>1. \A i \in Items : a[i] = 0
    BY DEF AuctionInit, Held
  <2>2. IsFiniteSet(Items) /\ Cardinality(Items) \in Nat
    BY MailAssumption, FS_CardinalityType
  <2> HIDE DEF a
  <2>3. SumFunctionOnSet(a, Items) = Cardinality(Items) * 0
    BY <2>1, <2>2, SumConstant
  <2>4. QED
    BY <2>2, <2>3 DEF InEscrow, a
<1>8. Deposit * started = 0 /\ started \in Nat /\ started <= MaxAuctions
  BY <1>2, AuctionAssumption
<1>9. HouseBooks
  BY <1>1, <1>2, <1>3, <1>4, <1>5, <1>6, <1>7, <1>8 DEF HouseBooks
<1>10. BidsPaid(auction)
  BY DEF AuctionInit, BidsPaid
<1>11. QED
  BY <1>9, <1>10 DEF HouseAccounts

LEMMA HouseAccountsStep ==
    ASSUME AuctionsFit, HouseInv, HouseAccounts, [AuctionNext]_allVars
    PROVE  HouseAccounts'
<1>1. CASE \E p \in Players, i \in Items : HandleAuctionSellItem(p, i)
  BY <1>1, SellAccounts
<1>2. CASE \E p \in Players, i \in Items : HandleAuctionPlaceBid(p, i)
  <2>1. PICK p \in Players, i \in Items : HandleAuctionPlaceBid(p, i)
    BY <1>2
  <2>2. PICK price \in Prices \ {0} :
            /\ online[p] /\ auction[i] # NoAuction /\ auction[i].owner # p
            /\ Acceptable(auction[i], price) /\ money[p] >= price
            /\ PlaceBid(p, i, price) \/ Buyout(p, i, price)
            /\ UNCHANGED <<online, loaded, deleted, minted, started>>
    BY <2>1 DEF HandleAuctionPlaceBid
  <2>3. price > auction[i].bid
    BY <2>2 DEF Acceptable
  <2>4. QED
    BY <2>2, <2>3, BidAccounts, BuyoutAccounts
<1>3. CASE \E p \in Players, i \in Items : HandleAuctionRemoveItem(p, i)
  BY <1>3, RemoveAccounts
<1>4. CASE \E i \in Items : Update(i)
  BY <1>4, UpdateAccounts
<1>5. CASE \E p \in Players : (CollectMail(p) \/ Sessions(p)) /\ UNCHANGED auctionVars
  <2>1. PICK p \in Players : (CollectMail(p) \/ Sessions(p)) /\ UNCHANGED auctionVars
    BY <1>5
  <2>2. UNCHANGED <<auction, started>>
    BY <2>1 DEF auctionVars
  <2>3. CASE CollectMail(p)
    <3>1. CASE LoadMail(p)
      BY <2>2, <3>1, LoadMoves
    <3>2. CASE \E id \in Mails(box[p]) : \/ HandleMailTakeItem(p, id) \/ HandleMailTakeMoney(p, id)
                                         \/ HandleMailReturnToSender(p, id)
      <4>1. PICK id \in Mails(box[p]) : \/ HandleMailTakeItem(p, id) \/ HandleMailTakeMoney(p, id)
                                        \/ HandleMailReturnToSender(p, id)
        BY <3>2
      <4>2. id \in MailIds /\ box[p][id] # NoMail
        BY DEF Mails
      <4>3. QED
        BY <2>2, <4>1, <4>2, TakeItemMoves, TakeMoneyMoves, ReturnMoves
    <3>3. QED
      BY <2>3, <3>1, <3>2 DEF CollectMail
  <2>4. CASE Sessions(p)
    BY <2>2, <2>4, SessionMoves
  <2>5. QED
    BY <2>1, <2>3, <2>4
<1>6. CASE Restart
  BY <1>6, RestartAccounts
<1>7. CASE UNCHANGED allVars
  <2>1. UNCHANGED <<row, gold, online, money, ledger, minted, auction, started>>
    BY <1>7 DEF allVars, vars, database, memory, history, auctionVars
  <2>2. QED
    BY <2>1 DEF HouseAccounts, HouseBooks, BidsPaid
<1>8. QED
  BY <1>1, <1>2, <1>3, <1>4, <1>5, <1>6, <1>7 DEF AuctionNext

\* Where every cached letter is its row, the letters are the rows.
LEMMA CurrentNotice == ASSUME HouseInv PROVE Current = row
<1>1. ASSUME NEW id \in MailIds PROVE Current[id] = row[id]
  <2>1. CASE id \in Cached
    <3> DEFINE p == CHOOSE q \in Players : id \in Mails(box[q])
    <3>1. p \in Players /\ id \in Mails(box[p])
      BY <2>1 DEF Cached
    <3>2. Current[id] = box[p][id]
      BY <2>1 DEF Current
    <3> HIDE DEF p
    <3>3. QED
      BY <3>1, <3>2 DEF Mails, HouseInv, NoticesOK
  <2>2. CASE id \notin Cached
    BY <2>2 DEF Current
  <2>3. QED
    BY <2>1, <2>2
<1>2. Current = [id \in MailIds |-> Current[id]] /\ row = [id \in MailIds |-> row[id]]
  BY DEF Current, HouseInv, NoticesOK
<1>3. QED
  BY <1>1, <1>2

LEMMA HouseAccountsAccount == HouseInv /\ HouseAccounts => AuctionMoneyAccounted
<1> SUFFICES ASSUME HouseInv, HouseAccounts PROVE AuctionMoneyAccounted
  OBVIOUS
<1>1. SumFunction([p \in Players |-> Owns(p)]) = InPurses(online, money, gold)
  <2> DEFINE a == PursesOf(online, money, gold)
  <2>1. [p \in Players |-> Owns(p)] = a
    BY DEF Owns, PursesOf
  <2>2. DOMAIN a = Players
    BY DEF PursesOf
  <2> HIDE DEF a
  <2>3. SumFunction(a) = SumFunctionOnSet(a, Players)
    BY <2>2 DEF SumFunction, SumFunctionOnSet, FoldFunction
  <2>4. QED
    BY <2>1, <2>3 DEF InPurses, a
<1>2. Worth(Current, Mails(Current)) = InMails(row)
  BY CurrentNotice, NoticeAmount, WorthOfMails
<1>3. Escrow = InEscrow(auction) /\ InEscrow(auction) \in Nat /\ InMails(row) \in Nat
  BY EscrowIs, EscrowNat, RowsNat
<1>4. SumFunction([p \in Players |-> Owns(p)]) + Worth(Current, Mails(Current)) + Escrow = ledger
  BY <1>1, <1>2, <1>3 DEF HouseAccounts, HouseBooks
<1>5. \A i \in Auctions : auction[i].bid = auction[i].paid
  BY DEF Auctions, HouseAccounts, BidsPaid
<1>6. DurableMoney + Escrow <= minted + Deposit * started
  <2> DEFINE x == Deposit * started
             g == SumFunctionOnSet(gold, Players)
  <2>1. /\ g \in Nat /\ g <= InPeaks(online, money, gold) /\ InPeaks(online, money, gold) \in Nat
        /\ DurableMoney = g + InMails(row)
    BY GoldIs
  <2>2. InPeaks(online, money, gold) + InMails(row) + InEscrow(auction) <= minted + x /\ minted \in Nat
    BY DEF HouseAccounts, HouseBooks
  <2>3. x \in Nat
    BY AuctionAssumption DEF HouseAccounts, HouseBooks
  <2> HIDE DEF x, g
  <2>4. DurableMoney + Escrow <= minted + x
    BY <1>3, <2>1, <2>2, <2>3
  <2>5. QED
    BY <2>4 DEF x
<1>7. QED
  BY <1>4, <1>5, <1>6 DEF AuctionMoneyAccounted

LEMMA HouseOnePlace == HouseInv => ItemsAreNotCopied
<1> SUFFICES ASSUME HouseInv, NEW i \in Items PROVE OnePlace(i)
  BY DEF ItemsAreNotCopied
<1>1. \A p \in Players : Has(p) = stored[p]
  BY DEF HouseInv, BagsAreSaved, Has
<1>2. \A id \in Mails(row) : id \in MailIds /\ (i \in row[id].items => i \in InMail(id))
  BY DEF Mails, InMail
<1>3. Current = row
  BY CurrentNotice
<1> DEFINE S == {p \in Players : i \in stored[p]} \cup {id \in Mails(row) : i \in row[id].items}
           P == {p \in Players : i \in stored[p]}
           M == {id \in Mails(row) : i \in row[id].items}
<1>4. \A p, q \in P : p = q
  BY DEF HouseInv, Apart
<1>5. \A id, k \in M : id = k
  BY <1>2 DEF HouseInv, Apart
<1>6. P = {} \/ M = {}
  BY <1>2 DEF HouseInv, Apart
<1>7. Cardinality(S) <= 1
  <2>1. \A x, y \in S : x = y
    <3> HIDE DEF P, M
    <3>1. \A x, y \in P \cup M : x = y
      BY <1>4, <1>5, <1>6
    <3>2. QED
      BY <3>1 DEF P, M
  <2> HIDE DEF S
  <2>2. QED
    BY <2>1, AtMostOne
<1>8. {p \in Players : i \in Has(p)} = P
  BY <1>1
<1>9. QED
  BY <1>3, <1>7, <1>8 DEF OnePlace

\* What is in an auction is nowhere else, in memory or database.
SoldApart ==
    \A i \in Auctions :
        /\ \A p \in Players : i \notin Has(p) \cup stored[p]
        /\ \A id \in MailIds : /\ Current[id] # NoMail => i \notin Current[id].items
                               /\ row[id] # NoMail => i \notin row[id].items

LEMMA HouseApart == HouseInv => SoldApart
<1> SUFFICES ASSUME HouseInv, NEW i \in Auctions
             PROVE  /\ \A p \in Players : i \notin Has(p) \cup stored[p]
                    /\ \A id \in MailIds : /\ Current[id] # NoMail => i \notin Current[id].items
                                           /\ row[id] # NoMail => i \notin row[id].items
  BY DEF SoldApart
<1>1. i \in Items /\ auction[i] # NoAuction
  BY DEF Auctions
<1>2. /\ \A p \in Players : i \notin stored[p]
      /\ \A id \in MailIds : i \notin InMail(id)
  BY <1>1 DEF HouseInv, AuctionsApart
<1>3. \A p \in Players : Has(p) = stored[p]
  BY DEF HouseInv, BagsAreSaved, Has
<1>4. QED
  BY <1>2, <1>3, CurrentNotice DEF InMail

LEMMA HouseSells == HouseInv /\ HouseBooks => ItemsAreSoldOnce
<1> SUFFICES ASSUME HouseInv, HouseBooks PROVE ItemsAreSoldOnce
  OBVIOUS
<1>1. ASSUME NEW x \in Notices
      PROVE  x \in LetterType(0..(UINT32 - 1)) /\ x \in LetterType(Nat)
  <2>1. x.money \in 0..(UINT32 - 1) /\ x.money \in Nat /\ 0 \in 0..(UINT32 - 1)
    BY MailAssumption DEF Notices
  <2>2. QED
    BY <2>1 DEF Notices, LetterType
<1>2. /\ \A id \in Mails(row) : row[id] \in LetterType(0..(UINT32 - 1))
      /\ \A p \in Players : \A id \in Mails(box[p]) :
             box[p][id] \in LetterType(Nat) /\ box[p][id].receiver = p /\ loaded[p]
  BY <1>1 DEF Mails, HouseInv, NoticesOK
<1>3. TypeOK
  BY <1>2 DEF TypeOK, HouseInv, PlayersOK, PursesFit, HouseBooks
<1>4. AuctionTypeOK
  <2>1. auction \in [Items -> {NoAuction} \cup Listings]
    BY DEF HouseInv, AuctionsOK
  <2>2. \A i \in Auctions : auction[i].bidder # auction[i].owner
    BY DEF Auctions, HouseInv, AuctionsOK
  <2>3. QED
    BY <1>3, <2>1, <2>2 DEF AuctionTypeOK, Listings
<1>5. QED
  BY <1>4, HouseApart, HouseOnePlace DEF SoldApart, ItemsAreSoldOnce

\* In a world whose money and deposits fit in 32 bits the accounts of the house
\* are right in every state.
LEMMA HouseAlways == AuctionsFit => (AuctionSpec => [](HouseInv /\ HouseAccounts))
<1> SUFFICES ASSUME AuctionsFit PROVE AuctionSpec => [](HouseInv /\ HouseAccounts)
  OBVIOUS
<1>1. AuctionInit => HouseInv /\ HouseAccounts
  BY HouseInit, HouseAccountsInit
<1>2. (HouseInv /\ HouseAccounts) /\ [AuctionNext]_allVars => (HouseInv /\ HouseAccounts)'
  BY HouseStep, HouseAccountsStep
<1>3. QED
  BY <1>1, <1>2, PTL DEF AuctionSpec

\* Every coin is in a purse, a letter or an auction, but for the cuts and the
\* deposits the house keeps; a bid is what the bidder paid; and a crash makes no
\* money but the deposits.
THEOREM AuctionMoneyIsAccounted == AuctionsFit => (AuctionSpec => []AuctionMoneyAccounted)
<1> SUFFICES ASSUME AuctionsFit PROVE AuctionSpec => []AuctionMoneyAccounted
  OBVIOUS
<1>1. AuctionSpec => [](HouseInv /\ HouseAccounts)
  BY HouseAlways
<1>2. HouseInv /\ HouseAccounts => AuctionMoneyAccounted
  BY HouseAccountsAccount
<1>3. QED
  BY <1>1, <1>2, PTL

\* Whatever the amounts, an item is in one auction, one letter or one bag, in
\* memory and in the database.
THEOREM SoldItemsInOnePlace == AuctionSpec => [](ItemsAreNotCopied /\ SoldApart)
<1>1. HouseInv => ItemsAreNotCopied /\ SoldApart
  BY HouseOnePlace, HouseApart
<1>2. QED
  BY <1>1, HouseIsConsistent, PTL

\* The same with the types, of which those of the amounts need a world that fits.
THEOREM ItemsAreSold == AuctionsFit => (AuctionSpec => []ItemsAreSoldOnce)
<1> SUFFICES ASSUME AuctionsFit PROVE AuctionSpec => []ItemsAreSoldOnce
  OBVIOUS
<1>1. AuctionSpec => [](HouseInv /\ HouseAccounts)
  BY HouseAlways
<1>2. HouseInv /\ HouseAccounts => ItemsAreSoldOnce
  BY HouseSells DEF HouseAccounts
<1>3. QED
  BY <1>1, <1>2, PTL

------------------------------------------------------------------------------
(* What the letters of a step say.                                            *)

LEMMA PostSends ==
    ASSUME HouseInv, NEW letters \in Seq(Notices), Post(letters), UNCHANGED loaded, NEW n \in 1..Len(letters)
    PROVE  Sent(letters[n])
<1>1. PICK ids \in [1..Len(letters) -> MailIds] :
          \A k \in 1..Len(letters) : row[ids[k]] = NoMail /\ row'[ids[k]] = letters[k]
  BY PostGives
<1>2. QED
  BY <1>1 DEF Sent

LEMMA SendsOne == ASSUME HouseInv, NEW x \in Notices, Post(<<x>>), UNCHANGED loaded PROVE Sent(x)
<1> DEFINE s == <<x>>
<1>1. s \in Seq(Notices) /\ 1 \in 1..Len(s) /\ s[1] = x /\ Post(s)
  OBVIOUS
<1> HIDE DEF s
<1>2. QED
  BY <1>1, PostSends

LEMMA SendsTwo ==
    ASSUME HouseInv, NEW x \in Notices, NEW y \in Notices, Post(<<x, y>>), UNCHANGED loaded
    PROVE  Sent(x) /\ Sent(y)
<1> DEFINE s == <<x, y>>
<1>1. s \in Seq(Notices) /\ 1 \in 1..Len(s) /\ s[1] = x /\ 2 \in 1..Len(s) /\ s[2] = y /\ Post(s)
  OBVIOUS
<1> HIDE DEF s
<1>2. Sent(s[1]) /\ Sent(s[2])
  BY <1>1, PostSends
<1>3. QED
  BY <1>1, <1>2

LEMMA SendsThree ==
    ASSUME HouseInv, NEW x \in Notices, NEW y \in Notices, NEW z \in Notices, Post(<<x, y, z>>), UNCHANGED loaded
    PROVE  Sent(x) /\ Sent(y) /\ Sent(z)
<1> DEFINE s == <<x, y, z>>
<1>1. s \in Seq(Notices) /\ Len(s) = 3 /\ s[1] = x /\ s[2] = y /\ s[3] = z /\ Post(s)
  OBVIOUS
<1> HIDE DEF s
<1>2. 1 \in 1..Len(s) /\ 2 \in 1..Len(s) /\ 3 \in 1..Len(s)
  BY <1>1
<1>3. Sent(s[1]) /\ Sent(s[2]) /\ Sent(s[3])
  BY <1>1, <1>2, PostSends
<1>4. QED
  BY <1>1, <1>3

\* Only these handlers touch an auction that is up.
LEMMA WhoEnds ==
    ASSUME HouseInv, [AuctionNext]_allVars, NEW i \in Items, auction[i] # NoAuction, auction'[i] # auction[i]
    PROVE  \/ \E p \in Players, price \in Prices \ {0} :
                  /\ online[p] /\ auction[i].owner # p /\ Acceptable(auction[i], price)
                  /\ PlaceBid(p, i, price) \/ Buyout(p, i, price)
                  /\ UNCHANGED loaded
           \/ \E p \in Players : HandleAuctionRemoveItem(p, i)
           \/ Update(i)
<1>0. auction \in [Items -> Listings \cup {NoAuction}]
  BY DEF HouseInv, AuctionsOK
<1>1. ASSUME NEW p \in Players, NEW j \in Items, HandleAuctionSellItem(p, j) PROVE FALSE
  <2>1. auction[j] = NoAuction /\ \A k \in Items \ {j} : auction'[k] = auction[k]
    BY <1>0, <1>1 DEF HandleAuctionSellItem
  <2>2. QED
    BY <2>1
<1>2. ASSUME NEW p \in Players, NEW j \in Items, HandleAuctionPlaceBid(p, j)
      PROVE  \E price \in Prices \ {0} :
                  /\ online[p] /\ auction[i].owner # p /\ Acceptable(auction[i], price)
                  /\ PlaceBid(p, i, price) \/ Buyout(p, i, price)
                  /\ UNCHANGED loaded
  <2>1. PICK price \in Prices \ {0} :
            /\ online[p] /\ auction[j].owner # p /\ Acceptable(auction[j], price)
            /\ PlaceBid(p, j, price) \/ Buyout(p, j, price)
            /\ UNCHANGED loaded
    BY <1>2 DEF HandleAuctionPlaceBid
  <2>2. \A k \in Items \ {j} : auction'[k] = auction[k]
    <3>1. CASE PlaceBid(p, j, price)
      <4> DEFINE a == auction[j]
                 now == PriceFor(a, p, price)
      <4>1. auction' = [auction EXCEPT ![j].bidder = p, ![j].bid = price % UINT32,
                                       ![j].paid = IF a.bidder = p THEN @ + now ELSE now]
        BY <3>1, Zenon DEF PlaceBid
      <4> HIDE DEF a, now
      <4>2. QED
        BY <1>0, <4>1
    <3>2. CASE Buyout(p, j, price)
      <4>1. Closed(j)
        BY <3>2, Zenon DEF Buyout
      <4>2. QED
        BY <1>0, <4>1 DEF Closed
    <3>3. QED
      BY <2>1, <3>1, <3>2
  <2>3. i = j
    BY <2>2
  <2>4. QED
    BY <2>1, <2>3
<1>3. ASSUME NEW p \in Players, NEW j \in Items, HandleAuctionRemoveItem(p, j)
      PROVE  HandleAuctionRemoveItem(p, i)
  <2>1. Closed(j)
    BY <1>3 DEF HandleAuctionRemoveItem
  <2>2. i = j
    BY <1>0, <2>1 DEF Closed
  <2>3. QED
    BY <1>3, <2>2
<1>4. ASSUME NEW j \in Items, Update(j) PROVE Update(i)
  <2>1. Closed(j)
    BY <1>4 DEF Update
  <2>2. i = j
    BY <1>0, <2>1 DEF Closed
  <2>3. QED
    BY <1>4, <2>2
<1>5. UNCHANGED auctionVars => FALSE
  BY DEF auctionVars
<1>6. Restart => UNCHANGED auctionVars
  BY DEF Restart
<1>7. UNCHANGED allVars => UNCHANGED auctionVars
  BY DEF allVars
<1>8. QED
  BY <1>1, <1>2, <1>3, <1>4, <1>5, <1>6, <1>7 DEF AuctionNext

\* The letters of the handler that changes an auction that is up.
LEMMA BidSends ==
    ASSUME HouseInv, BidsPaid(auction), NEW i \in Items, auction[i] # NoAuction,
           NEW p \in Players, NEW price, PlaceBid(p, i, price), UNCHANGED loaded
    PROVE  /\ auction'[i] # NoAuction /\ auction'[i].bidder = p
           /\ auction[i].bidder \notin {None, p} => Sent(Outbidded(auction[i]))
<1> DEFINE a == auction[i]
           now == PriceFor(a, p, price)
<1>1. /\ auction' = [auction EXCEPT ![i].bidder = p, ![i].bid = price % UINT32,
                                    ![i].paid = IF a.bidder = p THEN @ + now ELSE now]
      /\ Post(Refunds(a, p, price))
  BY Zenon DEF PlaceBid
<1>2. a \in Listings /\ auction \in [Items -> Listings \cup {NoAuction}]
  BY DEF HouseInv, AuctionsOK
<1>3. auction'[i] = [a EXCEPT !.bidder = p, !.bid = price % UINT32,
                              !.paid = IF a.bidder = p THEN @ + now ELSE now]
  <2> HIDE DEF now
  <2>1. QED
    BY <1>1, <1>2
<1>4. auction'[i].bidder = p
  <2> HIDE DEF now
  <2>1. QED
    BY <1>2, <1>3 DEF Listings
<1>5. auction'[i] # NoAuction
  <2> HIDE DEF now
  <2>1. auction'[i].owner = a.owner /\ a.owner \in Players
    BY <1>2, <1>3 DEF Listings
  <2>2. NoAuction.owner = None
    BY DEF NoAuction
  <2>3. QED
    BY <2>1, <2>2, MailAssumption
<1>6. ASSUME a.bidder \notin {None, p} PROVE Sent(Outbidded(a))
  <2> DEFINE x == Outbidded(a)
  <2>1. Refunds(a, p, price) = <<x>>
    BY <1>6 DEF Refunds
  <2>2. x \in Notices
    BY <1>2, <1>6, HouseLetters
  <2>3. Post(<<x>>)
    BY <1>1, <2>1
  <2> HIDE DEF x
  <2>4. Sent(x)
    BY <2>2, <2>3, SendsOne
  <2>5. QED
    BY <2>4 DEF x
<1>7. QED
  BY <1>4, <1>5, <1>6

LEMMA BuyoutSends ==
    ASSUME HouseInv, BidsPaid(auction), NEW i \in Items, auction[i] # NoAuction,
           NEW p \in Players, NEW price, Buyout(p, i, price), UNCHANGED loaded,
           NEW sold, sold = [auction[i] EXCEPT !.bidder = p, !.bid = auction[i].buyout]
    PROVE  /\ auction[i].buyout > 0
           /\ auction[i].bidder \notin {None, p} => Sent(Outbidded(auction[i]))
           /\ Sent(Successful(sold)) /\ Sent(Won(sold, i))
<1> DEFINE a == auction[i]
<1>1. /\ IsBuyout(a, price)
      /\ Post(Refunds(a, p, price) \o <<Successful(sold), Won(sold, i)>>)
  BY Zenon DEF Buyout
<1>2. a \in Listings
  BY DEF HouseInv, AuctionsOK
<1>3. sold \in Listings /\ sold.bidder # None
  BY <1>2, SoldOK
<1> DEFINE y == Successful(sold)
           z == Won(sold, i)
<1>4. y \in Notices /\ z \in Notices
  BY <1>3, HouseLetters
<1>5. CASE a.bidder \in {None, p}
  <2>1. Refunds(a, p, price) = <<>>
    BY <1>5 DEF Refunds
  <2>2. Post(<<>> \o <<y, z>>)
    BY <1>1, <2>1
  <2> HIDE DEF y, z
  <2>3. Post(<<y, z>>)
    BY <1>4, <2>2, Joined
  <2>4. Sent(y) /\ Sent(z)
    BY <1>4, <2>3, SendsTwo
  <2>5. QED
    BY <1>1, <1>5, <2>4 DEF y, z, IsBuyout
<1>6. CASE a.bidder \notin {None, p}
  <2> DEFINE x == Outbidded(a)
  <2>1. Refunds(a, p, price) = <<x>>
    BY <1>6 DEF Refunds
  <2>2. Post(<<x>> \o <<y, z>>)
    BY <1>1, <2>1
  <2>3. x \in Notices
    BY <1>2, <1>6, HouseLetters
  <2> HIDE DEF x, y, z
  <2>4. Post(<<x, y, z>>)
    BY <1>4, <2>2, <2>3, JoinedThree
  <2>5. Sent(x) /\ Sent(y) /\ Sent(z)
    BY <1>4, <2>3, <2>4, SendsThree
  <2>6. QED
    BY <1>1, <2>5 DEF x, y, z, IsBuyout
<1>7. QED
  BY <1>5, <1>6

LEMMA RemoveSends ==
    ASSUME HouseInv, BidsPaid(auction), NEW i \in Items, NEW p \in Players, HandleAuctionRemoveItem(p, i)
    PROVE  /\ auction[i].bidder # None => Sent(Outbidded(auction[i]))
           /\ Sent(Expired(auction[i], i))
<1> DEFINE a == auction[i]
           z == Expired(a, i)
<1>1. /\ a # NoAuction /\ UNCHANGED loaded
      /\ Post((IF a.bidder = None THEN <<>> ELSE <<CancelledToBidder(a)>>) \o <<z>>)
  BY Zenon DEF HandleAuctionRemoveItem
<1>2. a \in Listings
  BY <1>1 DEF HouseInv, AuctionsOK
<1>3. z \in Notices
  BY <1>2, HouseLetters
<1>4. CASE a.bidder = None
  <2>1. Post(<<>> \o <<z>>)
    BY <1>1, <1>4
  <2> HIDE DEF z
  <2>2. Post(<<z>>)
    BY <1>3, <2>1, Joined
  <2>3. Sent(z)
    BY <1>1, <1>3, <2>2, SendsOne
  <2>4. QED
    BY <1>4, <2>3 DEF z
<1>5. CASE a.bidder # None
  <2> DEFINE x == Outbidded(a)
  <2>1. x \in Notices /\ CancelledToBidder(a) = x
    BY <1>2, <1>5, HouseLetters
  <2>2. Post(<<x>> \o <<z>>)
    BY <1>1, <1>5, <2>1
  <2> HIDE DEF x, z
  <2>3. Post(<<x, z>>)
    BY <1>3, <2>1, <2>2, Joined
  <2>4. Sent(x) /\ Sent(z)
    BY <1>1, <1>3, <2>1, <2>3, SendsTwo
  <2>5. QED
    BY <2>4 DEF x, z
<1>6. QED
  BY <1>4, <1>5

LEMMA UpdateSends ==
    ASSUME HouseInv, BidsPaid(auction), NEW i \in Items, Update(i)
    PROVE  /\ auction[i].bidder = None => Sent(Expired(auction[i], i))
           /\ auction[i].bidder # None => Sent(Successful(auction[i])) /\ Sent(Won(auction[i], i))
<1> DEFINE a == auction[i]
<1>1. /\ a # NoAuction /\ UNCHANGED loaded
      /\ \/ a.bidder = None /\ Post(<<Expired(a, i)>>)
         \/ a.bidder # None /\ Post(<<Successful(a), Won(a, i)>>)
  BY DEF Update
<1>2. a \in Listings
  BY <1>1 DEF HouseInv, AuctionsOK
<1>3. CASE a.bidder = None
  <2>1. Expired(a, i) \in Notices
    BY <1>2, HouseLetters
  <2>2. QED
    BY <1>1, <1>3, <2>1, SendsOne
<1>4. CASE a.bidder # None
  <2>1. Successful(a) \in Notices /\ Won(a, i) \in Notices
    BY <1>2, <1>4, HouseLetters
  <2>2. QED
    BY <1>1, <1>4, <2>1, SendsTwo
<1>5. QED
  BY <1>3, <1>4

\* The letter to a bidder who loses an auction is his refund.
LEMMA RefundOf ==
    ASSUME HouseInv, BidsPaid(auction), NEW i \in Items, auction[i] # NoAuction
    PROVE  Outbidded(auction[i]) = Notice(auction[i].bidder, auction[i].paid, {})
<1>1. auction[i].bid = auction[i].paid
  BY DEF BidsPaid
<1>2. QED
  BY <1>1 DEF Outbidded

Refunded(i) ==
    (auction[i].bidder # None /\ (auction'[i] = NoAuction \/ auction'[i].bidder # auction[i].bidder)) =>
        Sent(Notice(auction[i].bidder, auction[i].paid, {})) \/ Sent(Won(auction[i], i))

LEMMA RefundStep ==
    ASSUME HouseInv, BidsPaid(auction), [AuctionNext]_allVars, NEW i \in Items, auction[i] # NoAuction
    PROVE  Refunded(i)
<1> SUFFICES ASSUME auction[i].bidder # None,
                    auction'[i] = NoAuction \/ auction'[i].bidder # auction[i].bidder
             PROVE  Sent(Outbidded(auction[i])) \/ Sent(Won(auction[i], i))
  BY RefundOf DEF Refunded
<1>1. auction'[i] # auction[i]
  OBVIOUS
<1>2. CASE \E p \in Players, price \in Prices \ {0} :
                  (PlaceBid(p, i, price) \/ Buyout(p, i, price)) /\ UNCHANGED loaded
  <2>1. PICK p \in Players, price \in Prices \ {0} :
                  (PlaceBid(p, i, price) \/ Buyout(p, i, price)) /\ UNCHANGED loaded
    BY <1>2
  <2>2. CASE PlaceBid(p, i, price)
    BY <2>1, <2>2, BidSends
  <2>3. CASE Buyout(p, i, price)
    <3> DEFINE sold == [auction[i] EXCEPT !.bidder = p, !.bid = auction[i].buyout]
    <3>1. /\ auction[i].bidder \notin {None, p} => Sent(Outbidded(auction[i]))
          /\ Sent(Won(sold, i))
      BY <2>1, <2>3, BuyoutSends
    <3>2. sold.bidder = p
      <4>1. auction[i] \in Listings
        BY DEF HouseInv, AuctionsOK
      <4>2. QED
        BY <4>1 DEF Listings
    <3>3. auction[i].bidder = p => Won(sold, i) = Won(auction[i], i)
      <4> HIDE DEF sold
      <4>1. QED
        BY <3>2 DEF Won
    <3>4. QED
      BY <3>1, <3>3
  <2>4. QED
    BY <2>1, <2>2, <2>3
<1>3. CASE \E p \in Players : HandleAuctionRemoveItem(p, i)
  BY <1>3, RemoveSends
<1>4. CASE Update(i)
  BY <1>4, UpdateSends
<1>5. QED
  BY <1>1, <1>2, <1>3, <1>4, WhoEnds

Settled(i) ==
    auction'[i] = NoAuction =>
        \/ Sent(Expired(auction[i], i))
        \/ \E q \in Players \ {auction[i].owner}, price \in {auction[i].bid, auction[i].buyout} \ {0} :
               \E sold : /\ sold = [auction[i] EXCEPT !.bidder = q, !.bid = price]
                         /\ Sent(Won(sold, i)) /\ Sent(Successful(sold))

LEMMA SettleStep ==
    ASSUME HouseInv, BidsPaid(auction), [AuctionNext]_allVars, NEW i \in Items, auction[i] # NoAuction
    PROVE  Settled(i)
<1> DEFINE a == auction[i]
<1> SUFFICES ASSUME auction'[i] = NoAuction
             PROVE  \/ Sent(Expired(a, i))
                    \/ \E q \in Players \ {a.owner}, price \in {a.bid, a.buyout} \ {0}, sold \in Listings :
                           /\ sold = [a EXCEPT !.bidder = q, !.bid = price]
                           /\ Sent(Won(sold, i)) /\ Sent(Successful(sold))
  BY Zenon DEF Settled
<1>1. auction'[i] # auction[i]
  OBVIOUS
<1>2. a \in Listings /\ a.bidder \in Players \cup {None} /\ a.bidder # a.owner
      /\ (a.bidder = None <=> a.bid = 0) /\ a.buyout \in Nat
  BY ListingOK
<1>3. CASE \E p \in Players, price \in Prices \ {0} :
                  /\ auction[i].owner # p
                  /\ (PlaceBid(p, i, price) \/ Buyout(p, i, price)) /\ UNCHANGED loaded
  <2>1. PICK p \in Players, price \in Prices \ {0} :
                  /\ auction[i].owner # p
                  /\ (PlaceBid(p, i, price) \/ Buyout(p, i, price)) /\ UNCHANGED loaded
    BY <1>3
  <2>2. ~PlaceBid(p, i, price)
    BY <2>1, BidSends
  <2>3. Buyout(p, i, price)
    BY <2>1, <2>2
  <2>4. PICK sold : sold = [a EXCEPT !.bidder = p, !.bid = a.buyout]
    OBVIOUS
  <2>5. a.buyout > 0 /\ Sent(Successful(sold)) /\ Sent(Won(sold, i))
    BY <2>1, <2>3, <2>4, BuyoutSends
  <2>6. sold \in Listings
    BY <1>2, <2>4, SoldOK
  <2>7. p \in Players \ {a.owner} /\ a.buyout \in {a.bid, a.buyout} \ {0}
    BY <1>2, <2>1, <2>5
  <2>8. QED
    BY <2>4, <2>5, <2>6, <2>7
<1>4. CASE \E p \in Players : HandleAuctionRemoveItem(p, i)
  BY <1>4, RemoveSends
<1>5. CASE Update(i)
  <2>1. CASE a.bidder = None
    BY <1>5, <2>1, UpdateSends
  <2>2. CASE a.bidder # None
    <3>1. Sent(Successful(a)) /\ Sent(Won(a, i))
      BY <1>5, <2>2, UpdateSends
    <3>2. a = [a EXCEPT !.bidder = a.bidder, !.bid = a.bid]
      BY <1>2 DEF Listings
    <3>3. a.bidder \in Players \ {a.owner} /\ a.bid \in {a.bid, a.buyout} \ {0}
      BY <1>2, <2>2
    <3> HIDE DEF a
    <3>4. QED
      BY <1>2, <3>1, <3>2, <3>3
  <2>3. QED
    BY <2>1, <2>2
<1>6. QED
  BY <1>1, <1>3, <1>4, <1>5, WhoEnds

\* A bidder who ceases to be the highest is mailed what he paid in the same
\* transaction, unless that transaction delivers him the item.
THEOREM OutbidIsRefunded == AuctionsFit => (AuctionSpec => LosersAreRefunded)
<1>1. SUFFICES ASSUME AuctionsFit PROVE AuctionSpec => LosersAreRefunded
  OBVIOUS
<1>2. AuctionSpec => [](HouseInv /\ HouseAccounts)
  BY <1>1, HouseAlways
<1>3. ASSUME HouseInv /\ HouseAccounts, [AuctionNext]_allVars
      PROVE  [\A i \in Auctions :
                 LET a == auction[i] IN
                 (a.bidder # None /\ (auction'[i] = NoAuction \/ auction'[i].bidder # a.bidder)) =>
                     Sent(Notice(a.bidder, a.paid, {})) \/ Sent(Won(a, i))]_allVars
  <2>1. \A i \in Auctions : Refunded(i)
    BY <1>3, RefundStep DEF Auctions, HouseAccounts, HouseBooks
  <2>2. QED
    BY <2>1, Zenon DEF Refunded
<1>4. QED
  BY <1>2, <1>3, PTL DEF AuctionSpec, LosersAreRefunded

\* An auction ends by giving the owner his item back, or his price, less the
\* cut, for delivering the item to another player.
THEOREM SellersAreSettled == AuctionsFit => (AuctionSpec => AuctionsAreSettled)
<1>1. SUFFICES ASSUME AuctionsFit PROVE AuctionSpec => AuctionsAreSettled
  OBVIOUS
<1>2. AuctionSpec => [](HouseInv /\ HouseAccounts)
  BY <1>1, HouseAlways
<1>3. ASSUME HouseInv /\ HouseAccounts, [AuctionNext]_allVars
      PROVE  [\A i \in Auctions :
                 LET a == auction[i] IN
                 auction'[i] = NoAuction =>
                     \/ Sent(Expired(a, i))
                     \/ \E q \in Players \ {a.owner}, price \in {a.bid, a.buyout} \ {0} :
                            LET sold == [a EXCEPT !.bidder = q, !.bid = price]
                            IN Sent(Won(sold, i)) /\ Sent(Successful(sold))]_allVars
  <2>1. \A i \in Auctions : Settled(i)
    BY <1>3, SettleStep DEF Auctions, HouseAccounts, HouseBooks
  <2>2. QED
    BY <2>1, Zenon DEF Settled
<1>4. QED
  BY <1>2, <1>3, PTL DEF AuctionSpec, AuctionsAreSettled
================================================================================
