------------------------------- MODULE GroupLoot ------------------------------
(***************************************************************************)
(* One group, one corpse and the rolls for its items.  Votes come from     *)
(* sessions, the end of the rolls from the creature's own timer; in        *)
(* between members leave, are kicked, lose their connection and come back, *)
(* the group disbands and the corpse disappears.  Not modelled: battle-    *)
(* ground and dungeon finder groups, master looting, instance bindings.    *)
(***************************************************************************)
EXTENDS Integers, FiniteSets

CONSTANTS Players,
          Items,           \* the items of the corpse over the loot threshold
          Disenchantable,  \* those whose rollVoteMask allows to disenchant
          Droppers,        \* bound: players who may lose their connection or log out
          Nobody

ASSUME GroupLootAssumption ==
    /\ IsFiniteSet(Players) /\ Nobody \notin Players
    /\ Disenchantable \subseteq Items /\ Droppers \subseteq Players

VARIABLES members,  \* m_memberSlots; {} when the group was disbanded
          leader,   \* m_leaderGuid
          online,   \* the players that are connected
          rolls,    \* RollId: the open roll of each item, or NoRoll
          loot,     \* per item: is_blocked, and who has looted it
          corpse,   \* "alive" until first looted, "corpse", then "gone"
          timer     \* m_groupLootTimer is running for this group

vars == <<members, leader, online, rolls, loot, corpse, timer>>

\* NOT_EMITED_YET, and what a member may choose.
Unanswered == "none"
Choices(i) == {"pass", "need", "greed"} \cup (IF i \in Disenchantable THEN {"disenchant"} ELSE {})
NoVotes == [p \in {} |-> Unanswered]
NoRoll == [open |-> FALSE, votes |-> NoVotes, rolling |-> 0, need |-> 0, greed |-> 0, pass |-> 0]
Open(i) == rolls[i].open
\* getLoot() # NULL: the loot unlinks its rolls when it is cleared or freed.
IsValid(i) == Open(i) /\ corpse = "corpse"
LootItem == [blocked : BOOLEAN, looter : Players \cup {Nobody}]

Init ==
    /\ members = Players /\ leader \in Players /\ online = Players
    /\ rolls = [i \in Items |-> NoRoll]
    /\ loot = [i \in Items |-> [blocked |-> FALSE, looter |-> Nobody]]
    /\ corpse = "alive" /\ timer = FALSE

------------------------------------------------------------------------------
(* The roll.                                                                *)

Voters(roll, choices) == {p \in DOMAIN roll.votes : roll.votes[p] \in choices}

\* GroupLoot and NeedBeforeGreed, when a member first opens the corpse: those
\* near may roll, some of them pass on all loot.
StartRolls(near, passing) ==
    /\ corpse = "alive" /\ corpse' = "corpse"
    /\ near \subseteq members \cap online /\ near # {} /\ passing \subseteq near
    /\ rolls' = [i \in Items |->
           [open |-> TRUE, votes |-> [p \in near |-> IF p \in passing THEN "pass" ELSE Unanswered],
            rolling |-> Cardinality(near), need |-> 0, greed |-> 0, pass |-> Cardinality(passing)]]
    /\ loot' = [i \in Items |-> [loot[i] EXCEPT !.blocked = TRUE]]
    /\ timer' = TRUE
    /\ UNCHANGED <<members, leader, online>>

\* CountRollVote's switch.
CountVote(roll, p, choice) ==
    LET voted == [roll EXCEPT !.votes[p] = choice] IN
    CASE choice = "pass" -> [voted EXCEPT !.pass = @ + 1]
      [] choice = "need" -> [voted EXCEPT !.need = @ + 1]
      [] OTHER           -> [voted EXCEPT !.greed = @ + 1]

\* Faulty variant: the item stays blocked when everybody passed.
GiveOrKeepBlocked(i, roll) ==
    LET To(p) == IF p \in online THEN {[loot[i] EXCEPT !.looter = p], [loot[i] EXCEPT !.blocked = FALSE]}
                 ELSE {loot[i]}
    IN IF roll.need + roll.greed > 0
       THEN UNION {To(p) : p \in Voters(roll, {"need", "greed", "disenchant"})} ELSE {loot[i]}

\* CountTheRoll: what may become of the item.  The first voter is the winner
\* until somebody has thrown more than 0; a winner who is away is not replaced;
\* one without room leaves the item to all, unless it is disenchanted.
CountTheRoll(i, roll) ==
    LET best == IF roll.need > 0 THEN Voters(roll, {"need"}) ELSE Voters(roll, {"greed", "disenchant"})
        winners == IF best = {} THEN DOMAIN roll.votes ELSE best
        Given(p) == {[loot[i] EXCEPT !.looter = p]}
        To(p) == IF p \notin online THEN {loot[i]}
                 ELSE IF roll.need = 0 /\ roll.votes[p] = "disenchant" THEN Given(p)
                 ELSE Given(p) \cup {[loot[i] EXCEPT !.blocked = FALSE]}
    IN IF roll.need + roll.greed = 0 THEN {[loot[i] EXCEPT !.blocked = FALSE]}
       ELSE IF DOMAIN roll.votes = {} THEN {loot[i]}
       ELSE UNION {To(p) : p \in winners}

\* HandleLootRoll, CountRollVote.  The client asks each member once.
CountRollVote(p, i, choice) ==
    /\ p \in online \cap members /\ IsValid(i) /\ p \in DOMAIN rolls[i].votes
    /\ rolls[i].votes[p] = Unanswered /\ choice \in Choices(i)
    /\ LET roll == CountVote(rolls[i], p, choice) IN
       IF roll.pass + roll.need + roll.greed >= roll.rolling
       THEN /\ \E item \in CountTheRoll(i, roll) : loot' = [loot EXCEPT ![i] = item]
            /\ rolls' = [rolls EXCEPT ![i] = NoRoll]
       ELSE rolls' = [rolls EXCEPT ![i] = roll] /\ UNCHANGED loot
    /\ UNCHANGED <<members, leader, online, corpse, timer>>

\* Faulty variant: the iterator is not set back after a roll was erased.
EndSomeRoll ==
    /\ \E i \in {i \in Items : IsValid(i)} : \E item \in CountTheRoll(i, rolls[i]) :
           loot' = [loot EXCEPT ![i] = item] /\ rolls' = [rolls EXCEPT ![i] = NoRoll]

\* Every roll of this loot is counted as it stands.
EndRoll ==
    /\ LET ends == [i \in Items |-> IF IsValid(i) THEN CountTheRoll(i, rolls[i]) ELSE {loot[i]}] IN
       loot' \in {l \in [Items -> UNION {ends[i] : i \in Items}] : \A i \in Items : l[i] \in ends[i]}
    /\ rolls' = [i \in Items |-> NoRoll]

\* Creature::Update, CORPSE: the timer of the rolls has run out.
GroupLootTimer ==
    /\ corpse = "corpse" /\ timer /\ timer' = FALSE
    /\ IF members # {} /\ \E i \in Items : IsValid(i) THEN EndRoll ELSE UNCHANGED <<loot, rolls>>
    /\ UNCHANGED <<members, leader, online, corpse>>

\* RemoveCorpse at m_corpseRemoveTime, or the creature is despawned or its map
\* unloaded while the rolls are open.
CorpseGone ==
    /\ corpse = "corpse" /\ corpse' = "gone"
    /\ UNCHANGED <<members, leader, online, rolls, loot, timer>>

\* Player::StoreLootItem.
StoreLootItem(p, i) ==
    /\ corpse = "corpse" /\ p \in online /\ ~loot[i].blocked /\ loot[i].looter = Nobody
    /\ loot' = [loot EXCEPT ![i].looter = p]
    /\ UNCHANGED <<members, leader, online, rolls, corpse, timer>>

------------------------------------------------------------------------------
(* The group.                                                               *)

\* RollId is cleared, the items stay as they are.
Disband ==
    /\ members' = {} /\ rolls' = [i \in Items |-> NoRoll]
    /\ UNCHANGED leader

\* Faulty variant: the passes of a member who leaves are still counted.
WithoutVoteButPass(roll, p) ==
    [roll EXCEPT !.votes = [q \in DOMAIN @ \ {p} |-> @[q]],
                 !.rolling = @ - 1,
                 !.need = @ - Cardinality({p} \cap Voters(roll, {"need"})),
                 !.greed = @ - Cardinality({p} \cap Voters(roll, {"greed", "disenchant"}))]

\* Faulty variant: neither are his needs taken back.
WithoutVoteOnly(roll, p) ==
    [roll EXCEPT !.votes = [q \in DOMAIN @ \ {p} |-> @[q]], !.rolling = @ - 1]

\* RemoveMember takes the vote out of an open roll.  The CountRollVote that
\* follows finds no vote of his and returns: the roll is not counted here, even
\* if all who remain have voted.
WithoutVote(roll, p) ==
    IF p \notin DOMAIN roll.votes THEN roll
    ELSE [roll EXCEPT !.votes = [q \in DOMAIN @ \ {p} |-> @[q]],
                      !.rolling = @ - 1,
                      !.need = @ - Cardinality({p} \cap Voters(roll, {"need"})),
                      !.greed = @ - Cardinality({p} \cap Voters(roll, {"greed", "disenchant"})),
                      !.pass = @ - Cardinality({p} \cap Voters(roll, {"pass"}))]

\* Faulty variant: the group goes on without anybody who could lead it.
RemoveMemberOnly(p) ==
    IF Cardinality(members) <= 2 THEN Disband
    ELSE /\ members' = members \ {p}
         /\ rolls' = [i \in Items |-> WithoutVote(rolls[i], p)]
         /\ leader' \in IF leader = p /\ members' \cap online # {} THEN members' \cap online ELSE {leader}

\* RemoveMember: the next leader is one who is connected; a group with less
\* than two of them is disbanded.
RemoveMember(p) ==
    IF Cardinality(members) <= 2 \/ Cardinality((members \ {p}) \cap online) < 2 THEN Disband
    ELSE /\ members' = members \ {p}
         /\ rolls' = [i \in Items |-> WithoutVote(rolls[i], p)]
         /\ leader' \in IF leader = p THEN members' \cap online ELSE {leader}

\* HandleGroupDisbandOpcode, and HandleGroupUninviteOpcode by the leader.
Leave(p) ==
    /\ p \in members /\ (p \in online \/ (leader \in online /\ leader # p))
    /\ RemoveMember(p)
    /\ UNCHANGED <<online, loot, corpse, timer>>

\* An invitation is accepted: AddMember.
AddMember(p) ==
    /\ members # {} /\ p \in online \ members
    /\ members' = members \cup {p}
    /\ UNCHANGED <<leader, online, rolls, loot, corpse, timer>>

ChangeLeader(p) ==
    /\ leader \in members \cap online /\ p \in members \cap online
    /\ leader' = p
    /\ UNCHANGED <<members, online, rolls, loot, corpse, timer>>

\* LogoutPlayer: one who logs out leaves a party; one whose connection is lost,
\* and any member of a raid, stays a member with his votes.
LogoutPlayer(p, leaves) ==
    /\ p \in online \cap Droppers /\ online' = online \ {p}
    /\ IF leaves /\ p \in members THEN RemoveMember(p) ELSE UNCHANGED <<members, leader, rolls>>
    /\ UNCHANGED <<loot, corpse, timer>>

\* _LoadGroup finds him among the members, if the group is still there.
Login(p) ==
    /\ p \notin online /\ online' = online \cup {p}
    /\ UNCHANGED <<members, leader, rolls, loot, corpse, timer>>

Next ==
    \/ \E near, passing \in SUBSET Players : StartRolls(near, passing)
    \/ \E p \in Players : \/ Leave(p) \/ AddMember(p) \/ ChangeLeader(p) \/ Login(p)
                          \/ \E leaves \in BOOLEAN : LogoutPlayer(p, leaves)
                          \/ \E i \in Items : \/ StoreLootItem(p, i)
                                              \/ \E choice \in Choices(i) : CountRollVote(p, i, choice)
    \/ GroupLootTimer \/ CorpseGone

\* The map goes on updating its creatures; nobody need vote.
Spec == Init /\ [][Next]_vars /\ WF_vars(GroupLootTimer)

------------------------------------------------------------------------------
(* Properties.                                                              *)

TypeOK ==
    /\ members \subseteq Players /\ leader \in Players /\ online \subseteq Players
    /\ loot \in [Items -> LootItem]
    /\ corpse \in {"alive", "corpse", "gone"} /\ timer \in BOOLEAN

\* The totals CountTheRoll decides by are those of the votes that are left
\* after members have voted, left in the middle of a roll and come back, and
\* only members have votes.
RollCountsAreVotes ==
    /\ TypeOK
    /\ \A i \in Items : LET roll == rolls[i] IN
           /\ DOMAIN roll.votes \subseteq members
           /\ roll.rolling = Cardinality(DOMAIN roll.votes)
           /\ roll.need = Cardinality(Voters(roll, {"need"}))
           /\ roll.greed = Cardinality(Voters(roll, {"greed", "disenchant"}))
           /\ roll.pass = Cardinality(Voters(roll, {"pass"}))

\* A group that exists is led by one of its members, whoever leaves and
\* whoever is away then.
LeaderIsMember == members # {} => leader \in members

\* A roll gives the item to a member who has answered, never to one who has
\* passed, nor past one who needs it to one who does not.
BestVoteWins ==
    [][\A i \in Items : (Open(i) /\ loot'[i].looter # loot[i].looter) =>
           LET p == loot'[i].looter
               votes == rolls[i].votes
           IN /\ p \in members \cap DOMAIN votes /\ votes[p] # "pass"
              /\ votes[p] = Unanswered => timer' = timer
              /\ (\E q \in DOMAIN votes : votes[q] = "need") => votes[p] \in {"need", Unanswered}]_vars

\* When a roll is over the item is given or can be looted by all, provided the
\* group is still there and no one who has a vote is away (an item won by
\* somebody who is away, or left by a group that is disbanded, stays blocked).
RollSettlesItem ==
    [][\A i \in Items : (Open(i) /\ ~Open(i)' /\ members' # {}
                             /\ DOMAIN rolls[i].votes \subseteq online) =>
           loot'[i].looter # Nobody \/ ~loot'[i].blocked]_vars

\* A roll ends though nobody votes, members are away or leave, unless the
\* corpse is gone first.
RollEnds == \A i \in Items : Open(i) ~> (~Open(i) \/ corpse = "gone")
==============================================================================
