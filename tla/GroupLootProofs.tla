---------------------------- MODULE GroupLootProofs ---------------------------
(***************************************************************************)
(* Groups and rolls for any finite set of players and any set of items.    *)
(***************************************************************************)
EXTENDS GroupLoot, FiniteSetTheorems, TLAPS

Vote == {Unanswered, "pass", "need", "greed", "disenchant"}
RollType == [open : BOOLEAN, votes : UNION {[S -> Vote] : S \in SUBSET Players},
             rolling : Int, need : Int, greed : Int, pass : Int]

\* The totals of one roll.
CountsOK(roll) ==
    /\ roll.rolling = Cardinality(DOMAIN roll.votes)
    /\ roll.need = Cardinality(Voters(roll, {"need"}))
    /\ roll.greed = Cardinality(Voters(roll, {"greed", "disenchant"}))
    /\ roll.pass = Cardinality(Voters(roll, {"pass"}))

RollsOK == rolls \in [Items -> RollType] /\ \A i \in Items : CountsOK(rolls[i])
VotersAreMembers == \A i \in Items : DOMAIN rolls[i].votes \subseteq members
BlockedWhileOpen == \A i \in Items : Open(i) => loot[i].blocked

IInv == TypeOK /\ RollsOK /\ VotersAreMembers /\ LeaderIsMember /\ BlockedWhileOpen

------------------------------------------------------------------------------
(* Counting votes.                                                          *)

LEMMA VotersFinite ==
    ASSUME NEW roll \in RollType, NEW choices
    PROVE  /\ DOMAIN roll.votes \subseteq Players /\ roll.votes \in [DOMAIN roll.votes -> Vote]
           /\ IsFiniteSet(DOMAIN roll.votes) /\ Cardinality(DOMAIN roll.votes) \in Nat
           /\ Voters(roll, choices) \subseteq DOMAIN roll.votes
           /\ IsFiniteSet(Voters(roll, choices)) /\ Cardinality(Voters(roll, choices)) \in Nat
<1>1. PICK S \in SUBSET Players : roll.votes \in [S -> Vote]
  BY DEF RollType
<1>2. DOMAIN roll.votes = S
  BY <1>1
<1>3. Voters(roll, choices) \subseteq S
  BY <1>2 DEF Voters
<1>4. IsFiniteSet(S) /\ IsFiniteSet(Voters(roll, choices))
  BY <1>3, GroupLootAssumption, FS_Subset
<1>5. QED
  BY <1>1, <1>2, <1>3, <1>4, FS_CardinalityType

\* A closed roll.
LEMMA NoRollOK == NoRoll \in RollType /\ CountsOK(NoRoll) /\ DOMAIN NoRoll.votes = {}
<1>1. NoVotes \in [{} -> Vote] /\ DOMAIN NoVotes = {}
  BY DEF NoVotes
<1>2. NoRoll \in RollType
  BY <1>1 DEF NoRoll, RollType
<1>3. \A choices : Voters(NoRoll, choices) = {}
  BY <1>1 DEF NoRoll, Voters
<1>4. NoRoll.votes = NoVotes /\ NoRoll.rolling = 0 /\ NoRoll.need = 0 /\ NoRoll.greed = 0 /\ NoRoll.pass = 0
  BY DEF NoRoll
<1>5. CountsOK(NoRoll)
  BY <1>1, <1>3, <1>4, FS_EmptySet DEF CountsOK
<1>6. QED
  BY <1>1, <1>2, <1>4, <1>5

\* A vote goes to one total.
LEMMA CountVoteOK ==
    ASSUME NEW roll \in RollType, CountsOK(roll), NEW p \in DOMAIN roll.votes,
           roll.votes[p] = Unanswered, NEW choice \in Vote \ {Unanswered}
    PROVE  /\ CountVote(roll, p, choice) \in RollType /\ CountsOK(CountVote(roll, p, choice))
           /\ CountVote(roll, p, choice).votes = [roll.votes EXCEPT ![p] = choice]
           /\ CountVote(roll, p, choice).open = roll.open
<1> DEFINE new == CountVote(roll, p, choice)
<1>1. /\ new.open = roll.open /\ new.rolling = roll.rolling
      /\ new.votes = [roll.votes EXCEPT ![p] = choice]
      /\ new.need = IF choice = "need" THEN roll.need + 1 ELSE roll.need
      /\ new.pass = IF choice = "pass" THEN roll.pass + 1 ELSE roll.pass
      /\ new.greed = IF choice \in {"greed", "disenchant"} THEN roll.greed + 1 ELSE roll.greed
      /\ new = [open |-> new.open, votes |-> new.votes, rolling |-> new.rolling,
                need |-> new.need, greed |-> new.greed, pass |-> new.pass]
  BY DEF CountVote, RollType, Vote
<1>2. DOMAIN new.votes = DOMAIN roll.votes /\ new.votes \in [DOMAIN roll.votes -> Vote]
  BY <1>1, VotersFinite
<1>3. new \in RollType
  <2>1. new.votes \in UNION {[S -> Vote] : S \in SUBSET Players}
    BY <1>2, VotersFinite
  <2>2. roll.need \in Int /\ roll.greed \in Int /\ roll.pass \in Int /\ roll.rolling \in Int /\ roll.open \in BOOLEAN
    BY DEF RollType
  <2>3. new.need \in Int /\ new.greed \in Int /\ new.pass \in Int /\ new.rolling \in Int /\ new.open \in BOOLEAN
    BY <1>1, <2>2
  <2>4. QED
    BY <1>1, <2>1, <2>3 DEF RollType
<1>4. ASSUME NEW choices, Unanswered \notin choices
      PROVE  Cardinality(Voters(new, choices)) =
               IF choice \in choices THEN Cardinality(Voters(roll, choices)) + 1
               ELSE Cardinality(Voters(roll, choices))
  <2>1. p \notin Voters(roll, choices)
    BY <1>4 DEF Voters
  <2>2. Voters(new, choices) = IF choice \in choices THEN Voters(roll, choices) \cup {p}
                               ELSE Voters(roll, choices)
    BY <1>1, <1>2, <2>1 DEF Voters
  <2>3. QED
    BY <2>1, <2>2, VotersFinite, FS_AddElement
<1>5. CountsOK(new)
  <2>1. Cardinality(Voters(new, {"need"})) = new.need
    BY <1>1, <1>4 DEF CountsOK, Unanswered
  <2>2. Cardinality(Voters(new, {"pass"})) = new.pass
    BY <1>1, <1>4 DEF CountsOK, Unanswered
  <2>3. Cardinality(Voters(new, {"greed", "disenchant"})) = new.greed
    BY <1>1, <1>4 DEF CountsOK, Unanswered
  <2>4. QED
    BY <1>1, <1>2, <2>1, <2>2, <2>3 DEF CountsOK
<1>6. QED
  BY <1>1, <1>3, <1>5

\* A vote that is taken back leaves its total.
LEMMA WithoutVoteOK ==
    ASSUME NEW roll \in RollType, CountsOK(roll), NEW p
    PROVE  /\ WithoutVote(roll, p) \in RollType /\ CountsOK(WithoutVote(roll, p))
           /\ DOMAIN WithoutVote(roll, p).votes = DOMAIN roll.votes \ {p}
           /\ WithoutVote(roll, p).open = roll.open
<1> DEFINE new == WithoutVote(roll, p)
<1>1. CASE p \notin DOMAIN roll.votes
  BY <1>1 DEF WithoutVote
<1>2. CASE p \in DOMAIN roll.votes
  <2> DEFINE Less(choices) == Cardinality({p} \cap Voters(roll, choices))
  <2>1. /\ new.open = roll.open /\ new.rolling = roll.rolling - 1
        /\ new.votes = [q \in DOMAIN roll.votes \ {p} |-> roll.votes[q]]
        /\ new.need = roll.need - Less({"need"})
        /\ new.pass = roll.pass - Less({"pass"})
        /\ new.greed = roll.greed - Less({"greed", "disenchant"})
        /\ new = [open |-> new.open, votes |-> new.votes, rolling |-> new.rolling,
                  need |-> new.need, greed |-> new.greed, pass |-> new.pass]
    BY <1>2 DEF WithoutVote, RollType
  <2>2. DOMAIN new.votes = DOMAIN roll.votes \ {p} /\ new.votes \in [DOMAIN roll.votes \ {p} -> Vote]
    BY <2>1, VotersFinite
  <2>3. ASSUME NEW choices
        PROVE  Cardinality(Voters(new, choices)) = Cardinality(Voters(roll, choices)) - Less(choices)
               /\ Less(choices) \in Nat
    <3>1. Voters(new, choices) = Voters(roll, choices) \ {p}
      BY <2>1, <2>2 DEF Voters
    <3>2. Less(choices) = IF p \in Voters(roll, choices) THEN 1 ELSE 0
      <4>1. {p} \cap Voters(roll, choices) = IF p \in Voters(roll, choices) THEN {p} ELSE {}
        OBVIOUS
      <4>2. QED
        BY <4>1, FS_Singleton, FS_EmptySet
    <3>3. Cardinality(Voters(roll, choices) \ {p}) =
            IF p \in Voters(roll, choices) THEN Cardinality(Voters(roll, choices)) - 1
            ELSE Cardinality(Voters(roll, choices))
      BY VotersFinite, FS_RemoveElement
    <3> HIDE DEF new, Less
    <3>4. QED
      BY <3>1, <3>2, <3>3, VotersFinite
  <2>4. new \in RollType
    <3>1. new.votes \in UNION {[S -> Vote] : S \in SUBSET Players}
      BY <2>2, VotersFinite
    <3>2. roll.need \in Int /\ roll.greed \in Int /\ roll.pass \in Int /\ roll.rolling \in Int /\ roll.open \in BOOLEAN
      BY DEF RollType
    <3>3. new.need \in Int /\ new.greed \in Int /\ new.pass \in Int /\ new.rolling \in Int /\ new.open \in BOOLEAN
      BY <2>1, <2>3, <3>2
    <3>4. QED
      BY <2>1, <3>1, <3>3 DEF RollType
  <2>5. CountsOK(new)
    <3>1. Cardinality(DOMAIN new.votes) = Cardinality(DOMAIN roll.votes) - 1
      BY <1>2, <2>2, VotersFinite, FS_RemoveElement
    <3>2. QED
      BY <2>1, <2>3, <3>1 DEF CountsOK
  <2>6. QED
    BY <2>1, <2>2, <2>4, <2>5
<1>3. QED
  BY <1>1, <1>2

------------------------------------------------------------------------------
(* The invariant.                                                           *)

LEMMA IInvInit == Init => IInv
<1> SUFFICES ASSUME Init PROVE IInv
  OBVIOUS
<1>1. TypeOK
  BY DEF Init, TypeOK, LootItem
<1>2. RollsOK /\ VotersAreMembers
  BY NoRollOK DEF Init, RollsOK, VotersAreMembers
<1>3. LeaderIsMember /\ BlockedWhileOpen
  BY DEF Init, LeaderIsMember, BlockedWhileOpen, Open, NoRoll
<1>4. QED
  BY <1>1, <1>2, <1>3 DEF IInv

\* The rolls begin.
LEMMA StartRollsStep ==
    ASSUME IInv, NEW near \in SUBSET Players, NEW passing \in SUBSET Players, StartRolls(near, passing)
    PROVE  IInv'
<1> DEFINE votes == [p \in near |-> IF p \in passing THEN "pass" ELSE Unanswered]
           roll == [open |-> TRUE, votes |-> votes, rolling |-> Cardinality(near),
                    need |-> 0, greed |-> 0, pass |-> Cardinality(passing)]
<1>1. /\ rolls' = [i \in Items |-> roll] /\ near \subseteq members /\ passing \subseteq near
      /\ UNCHANGED <<members, leader, online>> /\ corpse' = "corpse" /\ timer' = TRUE
      /\ loot' = [i \in Items |-> [loot[i] EXCEPT !.blocked = TRUE]]
  BY DEF StartRolls
<1>2. IsFiniteSet(near) /\ IsFiniteSet(passing)
  BY GroupLootAssumption, FS_Subset
<1>3. Cardinality(near) \in Nat /\ Cardinality(passing) \in Nat
  BY <1>2, FS_CardinalityType
<1>4. votes \in [near -> Vote] /\ DOMAIN votes = near
  BY DEF Vote
<1>5. roll \in RollType
  <2>1. votes \in UNION {[S -> Vote] : S \in SUBSET Players}
    BY <1>4
  <2> HIDE DEF votes
  <2>2. QED
    BY <1>3, <2>1 DEF RollType
<1>6. CountsOK(roll)
  <2>1. Voters(roll, {"need"}) = {} /\ Voters(roll, {"greed", "disenchant"}) = {}
    BY <1>4 DEF Voters, Unanswered
  <2>2. Voters(roll, {"pass"}) = passing
    BY <1>1, <1>4 DEF Voters, Unanswered
  <2>3. QED
    BY <1>4, <2>1, <2>2, FS_EmptySet DEF CountsOK
<1>7. RollsOK' /\ VotersAreMembers'
  <2>1. DOMAIN roll.votes \subseteq members
    BY <1>1, <1>4
  <2> HIDE DEF roll
  <2>2. QED
    BY <1>1, <1>5, <1>6, <2>1 DEF RollsOK, VotersAreMembers
<1>8. TypeOK'
  BY <1>1 DEF TypeOK, IInv, LootItem
<1>9. LeaderIsMember' /\ BlockedWhileOpen'
  BY <1>1 DEF LeaderIsMember, BlockedWhileOpen, IInv, TypeOK, LootItem
<1>10. QED
  BY <1>7, <1>8, <1>9 DEF IInv

\* Those among whom the dice decide.
Best(roll) == Voters(roll, IF roll.need > 0 THEN {"need"} ELSE {"greed", "disenchant"})

\* With exact totals the first voter of the code's loops, who need not have
\* asked for the item, never wins: all pass, or one of the best is chosen.
LEMMA CountTheRollOutcomes ==
    ASSUME NEW i \in Items, NEW roll \in RollType, CountsOK(roll), NEW item \in CountTheRoll(i, roll)
    PROVE  \/ Best(roll) = {} /\ item = [loot[i] EXCEPT !.blocked = FALSE]
           \/ \E p \in Best(roll) :
                 \/ p \notin online /\ item = loot[i]
                 \/ p \in online /\ item \in {[loot[i] EXCEPT !.looter = p], [loot[i] EXCEPT !.blocked = FALSE]}
<1>1. /\ roll.need \in Nat /\ roll.greed \in Nat
      /\ roll.need = 0 <=> Voters(roll, {"need"}) = {}
      /\ roll.greed = 0 <=> Voters(roll, {"greed", "disenchant"}) = {}
  <2>1. \A choices : /\ IsFiniteSet(Voters(roll, choices)) /\ Cardinality(Voters(roll, choices)) \in Nat
    BY VotersFinite
  <2>2. QED
    BY <2>1, FS_EmptySet DEF CountsOK
<1>2. CASE roll.need + roll.greed = 0
  <2>1. item = [loot[i] EXCEPT !.blocked = FALSE]
    BY <1>2 DEF CountTheRoll
  <2>2. Best(roll) = {}
    BY <1>1, <1>2 DEF Best
  <2>3. QED
    BY <2>1, <2>2
<1>3. CASE roll.need + roll.greed # 0
  <2> DEFINE best == IF roll.need > 0 THEN Voters(roll, {"need"}) ELSE Voters(roll, {"greed", "disenchant"})
             To(p) == IF p \notin online THEN {loot[i]}
                      ELSE IF roll.need = 0 /\ roll.votes[p] = "disenchant" THEN {[loot[i] EXCEPT !.looter = p]}
                      ELSE {[loot[i] EXCEPT !.looter = p]} \cup {[loot[i] EXCEPT !.blocked = FALSE]}
  <2>1. best = Best(roll) /\ best # {}
    BY <1>1, <1>3 DEF Best
  <2>2. DOMAIN roll.votes # {}
    BY <2>1, VotersFinite DEF Best
  <2>3. item \in UNION {To(p) : p \in best}
    BY <1>3, <2>1, <2>2 DEF CountTheRoll
  <2>4. PICK p \in best : item \in To(p)
    BY <2>3
  <2>5. CASE p \notin online
    BY <2>1, <2>4, <2>5
  <2>6. CASE p \in online
    <3>1. item \in {[loot[i] EXCEPT !.looter = p], [loot[i] EXCEPT !.blocked = FALSE]}
      BY <2>4, <2>6
    <3>2. QED
      BY <2>1, <2>6, <3>1
  <2>7. QED
    BY <2>5, <2>6
<1>4. QED
  BY <1>2, <1>3

\* Each of these is a state of the item.
LEMMA CountTheRollType ==
    ASSUME TypeOK, NEW i \in Items, NEW roll \in RollType, CountsOK(roll)
    PROVE  CountTheRoll(i, roll) \subseteq LootItem
<1>1. Best(roll) \subseteq Players
  BY VotersFinite DEF Best
<1>2. loot[i] \in LootItem
  BY DEF TypeOK
<1>3. /\ [loot[i] EXCEPT !.blocked = FALSE] \in LootItem
      /\ \A p \in Players : [loot[i] EXCEPT !.looter = p] \in LootItem
  BY <1>2 DEF LootItem
<1>4. ASSUME NEW item \in CountTheRoll(i, roll) PROVE item \in LootItem
  <2>1. item \in {loot[i], [loot[i] EXCEPT !.blocked = FALSE]}
        \/ \E p \in Players : item = [loot[i] EXCEPT !.looter = p]
    BY <1>1, CountTheRollOutcomes
  <2>2. QED
    BY <1>2, <1>3, <2>1
<1>5. QED
  BY <1>4

\* A vote, and the end of the roll if it was the last.
LEMMA CountRollVoteStep ==
    ASSUME IInv, NEW p \in Players, NEW i \in Items, NEW choice \in Choices(i), CountRollVote(p, i, choice)
    PROVE  IInv'
<1> DEFINE roll == CountVote(rolls[i], p, choice)
<1>1. /\ rolls[i] \in RollType /\ CountsOK(rolls[i]) /\ DOMAIN rolls[i].votes \subseteq members
      /\ p \in DOMAIN rolls[i].votes /\ rolls[i].votes[p] = Unanswered /\ Open(i)
      /\ UNCHANGED <<members, leader, online, corpse, timer>>
  BY DEF CountRollVote, IInv, RollsOK, VotersAreMembers, IsValid
<1>2. choice \in Vote \ {Unanswered}
  BY DEF Choices, Vote, Unanswered
<1>3. roll \in RollType /\ CountsOK(roll) /\ DOMAIN roll.votes \subseteq members
  <2>1. roll \in RollType /\ CountsOK(roll) /\ roll.votes = [rolls[i].votes EXCEPT ![p] = choice]
    BY <1>1, <1>2, CountVoteOK
  <2> HIDE DEF roll
  <2>2. QED
    BY <1>1, <2>1
<1>4. \/ rolls' = [rolls EXCEPT ![i] = roll] /\ loot' = loot
      \/ /\ rolls' = [rolls EXCEPT ![i] = NoRoll]
         /\ \E item \in CountTheRoll(i, roll) : loot' = [loot EXCEPT ![i] = item]
  BY DEF CountRollVote
<1> HIDE DEF roll
<1>5. RollsOK' /\ VotersAreMembers'
  BY <1>1, <1>3, <1>4, NoRollOK DEF IInv, RollsOK, VotersAreMembers
<1>6. loot' \in [Items -> LootItem]
  BY <1>3, <1>4, CountTheRollType DEF IInv, TypeOK
<1>7. TypeOK' /\ LeaderIsMember'
  BY <1>1, <1>6 DEF IInv, TypeOK, LeaderIsMember
<1>8. BlockedWhileOpen'
  <2>1. CASE rolls' = [rolls EXCEPT ![i] = roll] /\ loot' = loot
    BY <1>1, <2>1 DEF IInv, BlockedWhileOpen, Open, RollsOK
  <2>2. CASE /\ rolls' = [rolls EXCEPT ![i] = NoRoll]
             /\ \E item \in CountTheRoll(i, roll) : loot' = [loot EXCEPT ![i] = item]
    <3>1. ~Open(i)'
      BY <2>2 DEF IInv, RollsOK, Open, NoRoll
    <3>2. \A j \in Items \ {i} : Open(j)' = Open(j) /\ loot'[j] = loot[j]
      BY <2>2 DEF IInv, RollsOK, TypeOK, Open
    <3>3. QED
      BY <3>1, <3>2 DEF IInv, BlockedWhileOpen
  <2>3. QED
    BY <1>4, <2>1, <2>2
<1>9. QED
  BY <1>5, <1>7, <1>8 DEF IInv

\* The timer ends every roll.
LEMMA GroupLootTimerStep == IInv /\ GroupLootTimer => IInv'
<1> SUFFICES ASSUME IInv, GroupLootTimer PROVE IInv'
  OBVIOUS
<1>1. UNCHANGED <<members, leader, online, corpse>> /\ timer' = FALSE
  BY DEF GroupLootTimer
<1>2. CASE UNCHANGED <<loot, rolls>>
  BY <1>1, <1>2 DEF IInv, TypeOK, RollsOK, VotersAreMembers, LeaderIsMember, BlockedWhileOpen, Open
<1>3. CASE EndRoll
  <2>1. rolls' = [i \in Items |-> NoRoll]
    BY <1>3 DEF EndRoll
  <2>2. loot' \in [Items -> LootItem]
    <3> DEFINE ends == [i \in Items |-> IF IsValid(i) THEN CountTheRoll(i, rolls[i]) ELSE {loot[i]}]
    <3>1. \A i \in Items : ends[i] \subseteq LootItem
      BY CountTheRollType DEF IInv, TypeOK, RollsOK
    <3>2. loot' \in [Items -> UNION {ends[i] : i \in Items}] /\ \A i \in Items : loot'[i] \in ends[i]
      BY <1>3 DEF EndRoll
    <3> HIDE DEF ends
    <3>3. QED
      BY <3>1, <3>2
  <2>3. RollsOK' /\ VotersAreMembers'
    BY <2>1, NoRollOK DEF RollsOK, VotersAreMembers
  <2>4. TypeOK' /\ LeaderIsMember' /\ BlockedWhileOpen'
    BY <1>1, <2>1, <2>2 DEF IInv, TypeOK, LeaderIsMember, BlockedWhileOpen, Open, NoRoll
  <2>5. QED
    BY <2>3, <2>4 DEF IInv
<1>4. QED
  BY <1>2, <1>3 DEF GroupLootTimer

\* A member goes with his vote; somebody who is connected leads on.
LEMMA RemoveMemberStep ==
    ASSUME IInv, NEW p \in members, RemoveMember(p), UNCHANGED <<loot, corpse, timer>>,
           online' \subseteq Players
    PROVE  IInv'
<1>1. CASE Disband
  BY <1>1, NoRollOK DEF Disband, IInv, TypeOK, RollsOK, VotersAreMembers, LeaderIsMember,
                        BlockedWhileOpen, Open, NoRoll
<1>2. CASE ~Disband
  <2>1. /\ members' = members \ {p}
        /\ rolls' = [i \in Items |-> WithoutVote(rolls[i], p)]
        /\ leader' \in IF leader = p THEN members' \cap online ELSE {leader}
    BY <1>2 DEF RemoveMember
  <2>2. \A i \in Items :
            /\ WithoutVote(rolls[i], p) \in RollType /\ CountsOK(WithoutVote(rolls[i], p))
            /\ DOMAIN WithoutVote(rolls[i], p).votes = DOMAIN rolls[i].votes \ {p}
            /\ WithoutVote(rolls[i], p).open = rolls[i].open
    BY WithoutVoteOK DEF IInv, RollsOK
  <2>3. RollsOK' /\ VotersAreMembers' /\ BlockedWhileOpen'
    BY <2>1, <2>2 DEF IInv, RollsOK, VotersAreMembers, BlockedWhileOpen, Open
  <2>4. TypeOK' /\ LeaderIsMember'
    BY <2>1 DEF IInv, TypeOK, LeaderIsMember
  <2>5. QED
    BY <2>3, <2>4 DEF IInv
<1>3. QED
  BY <1>1, <1>2

LEMMA IInvStep == IInv /\ [Next]_vars => IInv'
<1> SUFFICES ASSUME IInv, [Next]_vars PROVE IInv'
  OBVIOUS
<1>1. CASE \E near, passing \in SUBSET Players : StartRolls(near, passing)
  BY <1>1, StartRollsStep
<1>2. ASSUME NEW p \in Players, Leave(p) PROVE IInv'
  BY <1>2, RemoveMemberStep DEF Leave, IInv, TypeOK
<1>3. ASSUME NEW p \in Players, AddMember(p) PROVE IInv'
  BY <1>3 DEF AddMember, IInv, TypeOK, RollsOK, VotersAreMembers, LeaderIsMember, BlockedWhileOpen, Open
<1>4. ASSUME NEW p \in Players, ChangeLeader(p) PROVE IInv'
  BY <1>4 DEF ChangeLeader, IInv, TypeOK, RollsOK, VotersAreMembers, LeaderIsMember, BlockedWhileOpen, Open
<1>5. ASSUME NEW p \in Players, Login(p) PROVE IInv'
  BY <1>5 DEF Login, IInv, TypeOK, RollsOK, VotersAreMembers, LeaderIsMember, BlockedWhileOpen, Open
<1>6. ASSUME NEW p \in Players, NEW leaves \in BOOLEAN, LogoutPlayer(p, leaves) PROVE IInv'
  <2>1. online' \subseteq Players /\ UNCHANGED <<loot, corpse, timer>>
    BY <1>6 DEF LogoutPlayer, IInv, TypeOK
  <2>2. CASE leaves /\ p \in members
    BY <1>6, <2>1, <2>2, RemoveMemberStep DEF LogoutPlayer
  <2>3. CASE ~(leaves /\ p \in members)
    BY <1>6, <2>1, <2>3 DEF LogoutPlayer, IInv, TypeOK, RollsOK, VotersAreMembers, LeaderIsMember,
                            BlockedWhileOpen, Open
  <2>4. QED
    BY <2>2, <2>3
<1>7. ASSUME NEW p \in Players, NEW i \in Items, StoreLootItem(p, i) PROVE IInv'
  <2>1. loot' = [loot EXCEPT ![i].looter = p] /\ loot \in [Items -> LootItem]
    BY <1>7 DEF StoreLootItem, IInv, TypeOK
  <2>2. loot' \in [Items -> LootItem] /\ \A j \in Items : loot'[j].blocked = loot[j].blocked
    BY <2>1 DEF LootItem
  <2>3. QED
    BY <1>7, <2>2 DEF StoreLootItem, IInv, TypeOK, RollsOK, VotersAreMembers, LeaderIsMember,
                      BlockedWhileOpen, Open
<1>8. ASSUME NEW p \in Players, NEW i \in Items, NEW choice \in Choices(i), CountRollVote(p, i, choice)
      PROVE  IInv'
  BY <1>8, CountRollVoteStep
<1>9. CASE GroupLootTimer
  BY <1>9, GroupLootTimerStep
<1>10. CASE CorpseGone
  BY <1>10 DEF CorpseGone, IInv, TypeOK, RollsOK, VotersAreMembers, LeaderIsMember, BlockedWhileOpen, Open
<1>11. CASE UNCHANGED vars
  BY <1>11 DEF vars, IInv, TypeOK, RollsOK, VotersAreMembers, LeaderIsMember, BlockedWhileOpen, Open
<1>12. QED
  BY <1>1, <1>2, <1>3, <1>4, <1>5, <1>6, <1>7, <1>8, <1>9, <1>10, <1>11 DEF Next

LEMMA IInvAlways == Spec => []IInv
<1>1. QED
  BY IInvInit, IInvStep, PTL DEF Spec

------------------------------------------------------------------------------
(* Results.                                                                 *)

\* The totals of every roll are those of its votes, and voters are members,
\* whoever joins, votes and leaves (CountRollVote, RemoveMember).
THEOREM TotalsExact == Spec => []RollCountsAreVotes
<1>1. IInv => RollCountsAreVotes
  BY DEF IInv, RollCountsAreVotes, RollsOK, VotersAreMembers, CountsOK
<1>2. QED
  BY <1>1, IInvAlways, PTL

\* A group is led by a member (RemoveMember, ChangeLeader, Disband).
THEOREM LeaderStays == Spec => []LeaderIsMember
<1>1. IInv => LeaderIsMember
  BY DEF IInv
<1>2. QED
  BY <1>1, IInvAlways, PTL

\* The item of a roll counted at its last vote or by the timer goes to one of
\* those who asked for it most.
LEMMA LooterIsBest ==
    ASSUME IInv, NEW i \in Items, NEW roll \in RollType, CountsOK(roll),
           loot'[i] \in CountTheRoll(i, roll), loot'[i].looter # loot[i].looter
    PROVE  loot'[i].looter \in Best(roll)
<1>1. loot[i] \in LootItem
  BY DEF IInv, TypeOK
<1>2. \/ loot'[i] \in {loot[i], [loot[i] EXCEPT !.blocked = FALSE]}
      \/ \E p \in Best(roll) : loot'[i] = [loot[i] EXCEPT !.looter = p]
  BY CountTheRollOutcomes
<1>3. QED
  BY <1>1, <1>2 DEF LootItem

\* Nothing else gives away an item that is rolled for.
LEMMA OnlyRollsGive ==
    ASSUME IInv, [Next]_vars, NEW i \in Items, Open(i), loot'[i].looter # loot[i].looter
    PROVE  \/ GroupLootTimer /\ EndRoll /\ IsValid(i)
           \/ \E p \in Players, choice \in Choices(i) : CountRollVote(p, i, choice)
<1>1. loot \in [Items -> LootItem] /\ loot[i].blocked
  BY DEF IInv, TypeOK, BlockedWhileOpen
<1>2. ASSUME NEW near \in SUBSET Players, NEW passing \in SUBSET Players, StartRolls(near, passing)
      PROVE  FALSE
  BY <1>1, <1>2 DEF StartRolls, LootItem
<1>3. ASSUME NEW p \in Players, NEW j \in Items, StoreLootItem(p, j) PROVE FALSE
  BY <1>1, <1>3 DEF StoreLootItem, LootItem
<1>4. ASSUME NEW p \in Players, NEW j \in Items, NEW choice \in Choices(j), CountRollVote(p, j, choice)
      PROVE  i = j
  BY <1>1, <1>4 DEF CountRollVote
<1>5. ASSUME GroupLootTimer PROVE EndRoll /\ IsValid(i)
  BY <1>5 DEF GroupLootTimer, IsValid
<1>6. loot' # loot
  OBVIOUS
<1>7. ASSUME NEW p \in Players
      PROVE  /\ ~Leave(p) /\ ~AddMember(p) /\ ~ChangeLeader(p) /\ ~Login(p)
             /\ \A leaves \in BOOLEAN : ~LogoutPlayer(p, leaves)
  BY <1>6 DEF Leave, AddMember, ChangeLeader, Login, LogoutPlayer
<1>8. ~CorpseGone /\ ~UNCHANGED vars
  BY <1>6 DEF CorpseGone, vars
<1>9. QED
  BY <1>2, <1>3, <1>4, <1>5, <1>7, <1>8 DEF Next

\* A roll never gives the item to somebody who has passed, or past somebody who
\* needs it to one who does not (CountTheRoll).
THEOREM BestVoteAlways == Spec => BestVoteWins
<1>1. ASSUME IInv, [Next]_vars, NEW i \in Items, Open(i), loot'[i].looter # loot[i].looter
      PROVE  LET p == loot'[i].looter
                 votes == rolls[i].votes
             IN /\ p \in members \cap DOMAIN votes /\ votes[p] # "pass"
                /\ votes[p] = Unanswered => timer' = timer
                /\ (\E q \in DOMAIN votes : votes[q] = "need") => votes[p] \in {"need", Unanswered}
  <2> DEFINE p == loot'[i].looter
             votes == rolls[i].votes
  <2>1. rolls[i] \in RollType /\ CountsOK(rolls[i]) /\ DOMAIN votes \subseteq members
    BY <1>1 DEF IInv, RollsOK, VotersAreMembers
  <2>2. ASSUME NEW roll \in RollType, CountsOK(roll), p \in Best(roll)
        PROVE  /\ p \in DOMAIN roll.votes
               /\ roll.votes[p] \in {"need", "greed", "disenchant"}
               /\ (\E q \in DOMAIN roll.votes : roll.votes[q] = "need") => roll.votes[p] = "need"
    <3>1. roll.need = 0 => Voters(roll, {"need"}) = {}
      BY <2>2, VotersFinite, FS_EmptySet DEF CountsOK
    <3>2. roll.need \in Nat
      BY <2>2, VotersFinite DEF CountsOK
    <3>3. QED
      BY <2>2, <3>1, <3>2 DEF Best, Voters
  <2>3. CASE GroupLootTimer /\ EndRoll /\ IsValid(i)
    <3>1. loot'[i] \in CountTheRoll(i, rolls[i])
      BY <2>3 DEF EndRoll
    <3>2. p \in Best(rolls[i])
      BY <1>1, <2>1, <3>1, LooterIsBest
    <3>3. QED
      BY <2>1, <2>2, <3>2 DEF Unanswered
  <2>4. ASSUME NEW q \in Players, NEW choice \in Choices(i), CountRollVote(q, i, choice)
        PROVE  /\ p \in members \cap DOMAIN votes /\ votes[p] # "pass" /\ timer' = timer
               /\ (\E r \in DOMAIN votes : votes[r] = "need") => votes[p] \in {"need", Unanswered}
    <3> DEFINE roll == CountVote(rolls[i], q, choice)
    <3>1. q \in DOMAIN votes /\ votes[q] = Unanswered /\ choice \in Vote \ {Unanswered} /\ timer' = timer
      BY <2>4 DEF CountRollVote, Choices, Vote, Unanswered
    <3>2. roll \in RollType /\ CountsOK(roll) /\ roll.votes = [votes EXCEPT ![q] = choice]
      BY <2>1, <3>1, CountVoteOK
    <3>3. loot'[i] \in CountTheRoll(i, roll)
      BY <1>1, <2>4 DEF CountRollVote, IInv, TypeOK
    <3> HIDE DEF roll
    <3>4. p \in Best(roll)
      BY <1>1, <3>2, <3>3, LooterIsBest
    <3>5. /\ p \in DOMAIN roll.votes /\ roll.votes[p] \in {"need", "greed", "disenchant"}
          /\ (\E r \in DOMAIN roll.votes : roll.votes[r] = "need") => roll.votes[p] = "need"
      BY <2>2, <3>2, <3>4
    <3>6. DOMAIN roll.votes = DOMAIN votes /\ \A r \in DOMAIN votes \ {q} : roll.votes[r] = votes[r]
      BY <3>2
    <3>7. CASE p = q
      BY <2>1, <3>1, <3>7 DEF Unanswered
    <3>8. CASE p # q
      <4>1. p \in DOMAIN votes /\ votes[p] \in {"need", "greed", "disenchant"}
        BY <3>5, <3>6, <3>8
      <4>2. ASSUME NEW r \in DOMAIN votes, votes[r] = "need" PROVE votes[p] = "need"
        BY <3>1, <3>5, <3>6, <3>8, <4>2 DEF Unanswered
      <4>3. QED
        BY <2>1, <3>1, <4>1, <4>2
    <3>9. QED
      BY <3>7, <3>8
  <2>5. QED
    BY <1>1, <2>3, <2>4, OnlyRollsGive
<1>2. IInv /\ [Next]_vars =>
        [\A i \in Items : (Open(i) /\ loot'[i].looter # loot[i].looter) =>
             LET p == loot'[i].looter
                 votes == rolls[i].votes
             IN /\ p \in members \cap DOMAIN votes /\ votes[p] # "pass"
                /\ votes[p] = Unanswered => timer' = timer
                /\ (\E q \in DOMAIN votes : votes[q] = "need") => votes[p] \in {"need", Unanswered}]_vars
  BY <1>1
<1>3. QED
  BY <1>2, IInvAlways, PTL DEF Spec, BestVoteWins

\* With all voters connected, CountTheRoll leaves the item to somebody or to all.
LEMMA CountSettles ==
    ASSUME IInv, NEW i \in Items, NEW roll \in RollType, CountsOK(roll), DOMAIN roll.votes \subseteq online,
           loot'[i] \in CountTheRoll(i, roll)
    PROVE  loot'[i].looter # Nobody \/ ~loot'[i].blocked
<1>1. loot[i] \in LootItem /\ Best(roll) \subseteq online /\ Best(roll) \subseteq Players
  BY VotersFinite DEF IInv, TypeOK, Best
<1>2. \/ Best(roll) = {} /\ loot'[i] = [loot[i] EXCEPT !.blocked = FALSE]
      \/ \E p \in Best(roll) :
            \/ p \notin online /\ loot'[i] = loot[i]
            \/ p \in online /\ loot'[i] \in {[loot[i] EXCEPT !.looter = p], [loot[i] EXCEPT !.blocked = FALSE]}
  BY CountTheRollOutcomes
<1>3. \/ loot'[i] = [loot[i] EXCEPT !.blocked = FALSE]
      \/ \E p \in Best(roll) : loot'[i] = [loot[i] EXCEPT !.looter = p]
  BY <1>1, <1>2
<1>4. Nobody \notin Players
  BY GroupLootAssumption
<1>5. QED
  BY <1>1, <1>3, <1>4 DEF LootItem

\* Only the last vote, the timer and the end of the group end a roll.
LEMMA OnlyCountingEnds ==
    ASSUME IInv, [Next]_vars, NEW i \in Items, Open(i), ~Open(i)', members' # {}
    PROVE  \/ GroupLootTimer /\ EndRoll /\ IsValid(i)
           \/ \E p \in Players, choice \in Choices(i) : CountRollVote(p, i, choice)
<1>1. rolls \in [Items -> RollType]
  BY DEF IInv, RollsOK
<1>2. ASSUME NEW p \in Players, RemoveMember(p) PROVE FALSE
  <2>1. ~Disband
    BY DEF Disband
  <2>2. rolls' = [j \in Items |-> WithoutVote(rolls[j], p)]
    BY <1>2, <2>1 DEF RemoveMember
  <2>3. WithoutVote(rolls[i], p).open = rolls[i].open
    BY WithoutVoteOK DEF IInv, RollsOK
  <2>4. QED
    BY <2>2, <2>3 DEF Open
<1>3. ASSUME UNCHANGED rolls PROVE FALSE
  BY <1>3 DEF Open
<1>4. ASSUME NEW p \in Players
      PROVE  /\ ~Leave(p) /\ ~AddMember(p) /\ ~ChangeLeader(p) /\ ~Login(p) /\ ~CorpseGone
             /\ \A leaves \in BOOLEAN : ~LogoutPlayer(p, leaves)
             /\ \A j \in Items : ~StoreLootItem(p, j)
  BY <1>2, <1>3 DEF Leave, AddMember, ChangeLeader, Login, LogoutPlayer, StoreLootItem, CorpseGone
<1>5. ASSUME NEW near \in SUBSET Players, NEW passing \in SUBSET Players, StartRolls(near, passing)
      PROVE  FALSE
  BY <1>5 DEF StartRolls, Open
<1>6. ASSUME NEW p \in Players, NEW j \in Items, NEW choice \in Choices(j), CountRollVote(p, j, choice)
      PROVE  i = j
  BY <1>1, <1>6 DEF CountRollVote, Open
<1>7. ASSUME GroupLootTimer PROVE EndRoll /\ IsValid(i)
  BY <1>3, <1>7 DEF GroupLootTimer, IsValid
<1>8. ~UNCHANGED vars /\ ~CorpseGone
  BY <1>3 DEF vars, CorpseGone
<1>9. QED
  BY <1>4, <1>5, <1>6, <1>7, <1>8 DEF Next

\* When a roll ends in a group that goes on, with its voters connected, the
\* item is given or free for all (CountTheRoll).
THEOREM SettledAlways == Spec => RollSettlesItem
<1>1. ASSUME IInv, [Next]_vars, NEW i \in Items, Open(i), ~Open(i)', members' # {},
             DOMAIN rolls[i].votes \subseteq online
      PROVE  loot'[i].looter # Nobody \/ ~loot'[i].blocked
  <2>1. rolls[i] \in RollType /\ CountsOK(rolls[i])
    BY <1>1 DEF IInv, RollsOK
  <2>2. CASE GroupLootTimer /\ EndRoll /\ IsValid(i)
    <3>1. loot'[i] \in CountTheRoll(i, rolls[i])
      BY <2>2 DEF EndRoll
    <3>2. QED
      BY <1>1, <2>1, <3>1, CountSettles
  <2>3. ASSUME NEW q \in Players, NEW choice \in Choices(i), CountRollVote(q, i, choice)
        PROVE  loot'[i].looter # Nobody \/ ~loot'[i].blocked
    <3> DEFINE roll == CountVote(rolls[i], q, choice)
    <3>1. q \in DOMAIN rolls[i].votes /\ rolls[i].votes[q] = Unanswered /\ choice \in Vote \ {Unanswered}
      BY <2>3 DEF CountRollVote, Choices, Vote, Unanswered
    <3>2. roll \in RollType /\ CountsOK(roll) /\ roll.votes = [rolls[i].votes EXCEPT ![q] = choice]
          /\ roll.open = rolls[i].open
      BY <2>1, <3>1, CountVoteOK
    <3>3. rolls' = [rolls EXCEPT ![i] = roll] \/ \E item \in CountTheRoll(i, roll) : loot' = [loot EXCEPT ![i] = item]
      BY <2>3 DEF CountRollVote
    <3> HIDE DEF roll
    <3>4. rolls' # [rolls EXCEPT ![i] = roll]
      BY <1>1, <3>2 DEF Open, IInv, RollsOK
    <3>5. loot'[i] \in CountTheRoll(i, roll)
      BY <1>1, <3>3, <3>4 DEF IInv, TypeOK
    <3>6. DOMAIN roll.votes \subseteq online
      BY <1>1, <3>2
    <3>7. QED
      BY <1>1, <3>2, <3>5, <3>6, CountSettles
  <2>4. QED
    BY <1>1, <2>2, <2>3, OnlyCountingEnds
<1>2. IInv /\ [Next]_vars =>
        [\A i \in Items : (Open(i) /\ ~Open(i)' /\ members' # {} /\ DOMAIN rolls[i].votes \subseteq online) =>
             loot'[i].looter # Nobody \/ ~loot'[i].blocked]_vars
  BY <1>1
<1>3. QED
  BY <1>2, IInvAlways, PTL DEF Spec, RollSettlesItem
==============================================================================
