--------------------------- MODULE BattlegroundQueue --------------------------
(***************************************************************************)
(* The queue of one battleground type and level bracket, the battlegrounds *)
(* it fills, and what each player knows of it.  Everything runs in the     *)
(* world thread: a handler is one step, and so is each part of             *)
(* BattlegroundMgr::Update (a battleground's Update, a timed event, a      *)
(* scheduled update of the queue); players come, answer, leave, log out    *)
(* and in between them.  Not modelled: arenas, a second queue, balancing   *)
(* by Battleground.InvitationType # 0, the testing switches.               *)
(***************************************************************************)
EXTENDS Integers, SequencesExt, FiniteSetsExt

CONSTANTS Players,
          Team,               \* GetTeam() of each player
          Instances,          \* bound: instance ids of battlegrounds
          MinPlayersPerTeam,
          Capacities,         \* what MaxPlayersPerTeam may be configured to
          InviteWait,         \* INVITE_ACCEPT_WAIT_TIME in clock ticks
          Droppers            \* bound: players who may log out

Teams == {"alliance", "horde"}
Other(t) == IF t = "alliance" THEN "horde" ELSE "alliance"
Kinds == {"premade", "normal"}
NoBattleground == 0

ASSUME QueueAssumption ==
    /\ IsFiniteSet(Players) /\ Team \in [Players -> Teams]
    /\ Instances \subseteq Nat \ {NoBattleground} /\ InviteWait \in Nat \ {0}
    /\ MinPlayersPerTeam \in Nat \ {0} /\ Capacities \subseteq Nat
    /\ Droppers \subseteq Players

VARIABLES
    queue,     \* m_QueuedGroups: for each kind and team the groups in order
    bg,        \* the battlegrounds by instance id; the template has id 0
    freeSlots, \* BGFreeSlotQueue: the instances that may take players
    events,    \* m_events: the BGQueueRemoveEvents
    scheduled, \* m_QueueUpdateScheduler names this queue
    used,      \* the player has a slot for this queue
    invitedTo, \* invitedToInstance of that slot
    bgId,      \* m_bgData.bgInstanceID, saved with the player
    where,     \* the map of the player, saved too
    online

playerVars == <<used, invitedTo, bgId, where, online>>
vars == <<queue, bg, freeSlots, events, scheduled, playerVars>>

\* Times are kept as what is left until they are reached, for a group's
\* RemoveInviteTime and an event's m_RemoveTime alike.
Group(members) == [players |-> members, bg |-> NoBattleground, left |-> 0]
Deleted == [status |-> "none", players |-> {}, invited |-> [t \in Teams |-> 0], offline |-> <<>>]

MaxPlayersPerTeam == bg[0].max

\* What remains of a list when only members of S may stay.
Within(list, S) ==
    FoldLeft(LAMBDA kept, x : IF x \in S THEN Append(kept, x) ELSE kept, <<>>, list)

Init ==
    /\ queue = [k \in Kinds |-> [t \in Teams |-> <<>>]]
    /\ \E m \in Capacities :
           bg = [i \in Instances \cup {0} |-> IF i = 0 THEN [max |-> m] ELSE Deleted]
    /\ freeSlots = <<>> /\ events = {} /\ scheduled = FALSE
    /\ used = [p \in Players |-> FALSE]
    /\ invitedTo = [p \in Players |-> NoBattleground]
    /\ bgId = [p \in Players |-> NoBattleground]
    /\ where = [p \in Players |-> "world"]
    /\ online = [p \in Players |-> TRUE]

------------------------------------------------------------------------------
(* BattlegroundQueue: the groups.                                           *)

Groups == UNION {ToSet(queue[k][t]) : k \in Kinds, t \in Teams}
Queued(p) == \E g \in Groups : p \in g.players
GroupOf(p) == CHOOSE g \in Groups : p \in g.players
Invited(p) == Queued(p) /\ GroupOf(p).bg # NoBattleground

Exists(i) == i \in Instances /\ bg[i].status # "none"

AddGroup(members, isPremade) ==
    LET k == IF isPremade THEN "premade" ELSE "normal"
        t == CHOOSE t \in Teams : \A p \in members : Team[p] = t
    IN queue' = [queue EXCEPT ![k][t] = Append(@, Group(members))]

WithoutPlayer(p) ==
    [k \in Kinds |-> [t \in Teams |->
        LET rest == [n \in DOMAIN queue[k][t] |-> [queue[k][t][n] EXCEPT !.players = @ \ {p}]]
        IN Within(rest, {g \in ToSet(rest) : g.players # {}})]]

\* Faulty variant: an ended battleground is not told.
DecreaseUnlessEnded(b, p) ==
    IF Invited(p) /\ Exists(GroupOf(p).bg) /\ bg[GroupOf(p).bg].status # "leave"
    THEN [b EXCEPT ![GroupOf(p).bg].invited[Team[p]] = @ - 1] ELSE b

\* RemovePlayer(p, true), in battlegrounds b: the place it was invited to is
\* given back.
DecreaseInvitedCount(b, p) ==
    IF Invited(p) /\ Exists(GroupOf(p).bg)
    THEN [b EXCEPT ![GroupOf(p).bg].invited[Team[p]] = @ - 1] ELSE b

RemoveQueueId(p) ==
    /\ used' = [used EXCEPT ![p] = FALSE]
    /\ invitedTo' = [invitedTo EXCEPT ![p] = NoBattleground]

------------------------------------------------------------------------------
(* BattlegroundQueueUpdate, on a record of what it changes.                 *)

Pool == [groups |-> {}, count |-> 0, full |-> FALSE]
Size(g) == Cardinality(g.players)

\* Faulty variant: a group is added while a single place is free.
SelectAnyGroup(pool, g, desired) ==
    IF g.bg = NoBattleground /\ desired > pool.count
    THEN [pool EXCEPT !.groups = @ \cup {g}, !.count = @ + Size(g)]
    ELSE [pool EXCEPT !.full = pool.count >= desired]

\* SelectionPool::AddGroup.
SelectGroup(pool, g, desired) ==
    IF g.bg = NoBattleground /\ desired >= pool.count + Size(g)
    THEN [pool EXCEPT !.groups = @ \cup {g}, !.count = @ + Size(g)]
    ELSE [pool EXCEPT !.full = pool.count >= desired]

SelectAll(pool, groups, desired) ==
    FoldLeft(LAMBDA q, g : IF q.full THEN q ELSE SelectGroup(q, g, desired), pool, groups)

Count(i, t) == Cardinality({p \in bg[i].players : Team[p] = t})
Smaller(a, b) == IF a < b THEN a ELSE b
\* What may join a side that has `mine` when the other has `theirs`.
Balance(mine, theirs) == IF theirs > mine THEN theirs - mine ELSE IF theirs = mine THEN 1 ELSE 0

GetFreeSlotsForTeam(b, i, t) ==
    LET invited == b[i].invited[t]
        room == IF invited < MaxPlayersPerTeam THEN MaxPlayersPerTeam - invited ELSE 0
        otherIn == Count(i, Other(t))
        byPlayers == IF otherIn < Count(i, t) /\ invited <= MinPlayersPerTeam
                     THEN MinPlayersPerTeam - invited + 1
                     ELSE Balance(Count(i, t), otherIn)
    IN CASE b[i].status = "join" -> room
         [] b[i].status = "progress" ->
                Smaller(Smaller(Balance(invited, b[i].invited[Other(t)]), room), byPlayers)
         [] OTHER -> 0

\* InviteGroupToBG for each of the groups.
InviteGroups(s, groups, i) ==
    LET called == {p \in UNION {g.players : g \in groups} : online[p]}
        Mark(g) == IF g \in groups THEN [g EXCEPT !.bg = i, !.left = InviteWait] ELSE g
    IN [queue |-> [k \in Kinds |-> [t \in Teams |->
                      [n \in DOMAIN s.queue[k][t] |-> Mark(s.queue[k][t][n])]]],
        bg |-> [s.bg EXCEPT ![i].invited = [t \in Teams |->
                      @[t] + Cardinality({p \in called : Team[p] = t})]],
        freeSlots |-> s.freeSlots,
        events |-> s.events \cup {[player |-> p, bg |-> i, left |-> InviteWait] : p \in called},
        invitedTo |-> [p \in Players |-> IF p \in called THEN i ELSE s.invitedTo[p]]]

HasFreeSlots(i) == Cardinality(bg[i].players) < 2 * MaxPlayersPerTeam

\* FillPlayersToBG, and the invitations.
FillPlayersToBG(s, i) ==
    LET Selected(t) == SelectAll(Pool, s.queue["normal"][t], GetFreeSlotsForTeam(s.bg, i, t)).groups
        filled == InviteGroups(s, UNION {Selected(t) : t \in Teams}, i)
    IN IF HasFreeSlots(i) THEN filled
       ELSE [filled EXCEPT !.freeSlots = Within(@, Instances \ {i})]

\* CreateNewBattleground, the invitations and StartBattleground.
StartWith(s, groups) ==
    LET free == {i \in Instances : s.bg[i].status = "none"}
        i == CHOOSE i \in free : \A j \in free : i <= j
        new == [s EXCEPT !.bg[i] = [Deleted EXCEPT !.status = "join"]]
    IN IF free = {} THEN s
       ELSE [InviteGroups(new, groups, i) EXCEPT !.freeSlots = <<i>> \o @]

Waiting(groups) == Within(groups, {g \in ToSet(groups) : g.bg = NoBattleground})

\* CheckPremadeMatch: a premade group of each side, and others up to the
\* size of the smaller one; or, without a match, a group that has waited long
\* enough (the team is in late) is moved to the normal queue.
CheckPremadeMatch(s, late) ==
    LET First(t) == SelectGroup(Pool, Head(Waiting(s.queue["premade"][t])), MaxPlayersPerTeam)
        room == Smaller(First("alliance").count, First("horde").count)
        Selected(t) == SelectAll(First(t), Waiting(s.queue["normal"][t]), room).groups
        Moves(t) ==
            /\ s.queue["premade"][t] # <<>>
            /\ LET g == Head(s.queue["premade"][t]) IN
               g.bg = NoBattleground /\ (t \in late \/ Size(g) < MinPlayersPerTeam)
    IN IF \A t \in Teams : Waiting(s.queue["premade"][t]) # <<>>
       THEN StartWith(s, UNION {Selected(t) : t \in Teams})
       ELSE [s EXCEPT !.queue = [k \in Kinds |-> [t \in Teams |->
                CASE ~Moves(t) -> s.queue[k][t]
                  [] Moves(t) /\ k = "premade" -> Tail(s.queue[k][t])
                  [] Moves(t) /\ k = "normal" -> <<Head(s.queue["premade"][t])>> \o s.queue[k][t]]]]

SelectEnough(groups) ==
    FoldLeft(LAMBDA q, g : IF q.count >= MinPlayersPerTeam THEN q ELSE SelectGroup(q, g, MaxPlayersPerTeam),
             Pool, groups)

CheckNormalMatch(s) ==
    LET Enough(t) == SelectEnough(Waiting(s.queue["normal"][t]))
    IN IF \A t \in Teams : Enough(t).count >= MinPlayersPerTeam
       THEN StartWith(s, UNION {Enough(t).groups : t \in Teams})
       ELSE s

BattlegroundQueueUpdate ==
    /\ scheduled /\ scheduled' = FALSE
    /\ \E late \in SUBSET Teams :
       LET now == [queue |-> queue, bg |-> bg, freeSlots |-> freeSlots, events |-> events,
                   invitedTo |-> invitedTo]
           filled == FoldLeft(FillPlayersToBG, now, freeSlots)
           s == CheckNormalMatch(CheckPremadeMatch(filled, late))
       IN /\ queue' = s.queue /\ bg' = s.bg /\ freeSlots' = s.freeSlots
          /\ events' = s.events /\ invitedTo' = s.invitedTo
    /\ UNCHANGED <<used, bgId, where, online>>

------------------------------------------------------------------------------
(* The invitation's end.                                                    *)

\* Time passes when every event that is due was executed.
ClockTick ==
    /\ events # {} /\ \A e \in events : e.left > 0
    /\ events' = {[e EXCEPT !.left = @ - 1] : e \in events}
    /\ queue' = [k \in Kinds |-> [t \in Teams |-> [n \in DOMAIN queue[k][t] |->
                    [queue[k][t][n] EXCEPT !.left = IF @ > 0 THEN @ - 1 ELSE 0]]]]
    /\ UNCHANGED <<bg, freeSlots, scheduled, playerVars>>

\* Faulty variant: another invitation to the same battleground will do.
IsPlayerInvitedTo(p, i, left) == Queued(p) /\ GroupOf(p).bg = i

IsPlayerInvited(p, i, left) == Queued(p) /\ GroupOf(p).bg = i /\ GroupOf(p).left = left

\* BGQueueRemoveEvent::Execute.
RemoveEvent(e) ==
    /\ e \in events /\ e.left = 0 /\ events' = events \ {e}
    /\ IF online[e.player] /\ used[e.player] /\ IsPlayerInvited(e.player, e.bg, e.left)
       THEN /\ RemoveQueueId(e.player)
            /\ queue' = WithoutPlayer(e.player)
            /\ bg' = DecreaseInvitedCount(bg, e.player)
            /\ scheduled' = (scheduled \/ (Exists(e.bg) /\ bg[e.bg].status # "leave"))
       ELSE UNCHANGED <<queue, bg, scheduled, used, invitedTo>>
    /\ UNCHANGED <<freeSlots, bgId, where, online>>

------------------------------------------------------------------------------
(* What players do.                                                         *)

\* HandleBattlemasterJoinOpcode, alone or as the leader of a group.
Join(members) ==
    /\ members # {} /\ \A p, q \in members : Team[p] = Team[q]
    /\ \A p \in members : online[p] /\ ~used[p]
    /\ \E leader \in members : bgId[leader] = NoBattleground
    /\ AddGroup(members, Cardinality(members) > 1 /\ Cardinality(members) >= MinPlayersPerTeam)
    /\ used' = [p \in Players |-> used[p] \/ p \in members]
    /\ invitedTo' = [p \in Players |-> IF p \in members THEN NoBattleground ELSE invitedTo[p]]
    /\ scheduled' = TRUE
    /\ UNCHANGED <<bg, freeSlots, events, bgId, where, online>>

\* HandleBattleFieldPortOpcode: enter.
EnterBattle(p) ==
    /\ online[p] /\ where[p] = "world" /\ used[p]
    /\ Invited(p) /\ Exists(GroupOf(p).bg) /\ invitedTo[p] # NoBattleground
    /\ queue' = WithoutPlayer(p)
    /\ bgId' = [bgId EXCEPT ![p] = GroupOf(p).bg]
    /\ where' = [where EXCEPT ![p] = "teleport"]
    /\ UNCHANGED <<bg, freeSlots, events, scheduled, used, invitedTo, online>>

\* HandleBattleFieldPortOpcode: leave the queue, with or without an invitation.
LeaveQueue(p) ==
    /\ online[p] /\ where[p] # "teleport" /\ used[p] /\ Queued(p)
    /\ RemoveQueueId(p)
    /\ queue' = WithoutPlayer(p) /\ bg' = DecreaseInvitedCount(bg, p)
    /\ scheduled' = TRUE
    /\ UNCHANGED <<freeSlots, events, bgId, where, online>>

\* HandleMoveWorldportAckOpcode and Battleground::AddPlayer.  A battleground
\* that is gone has no map to enter.
WorldportAck(p) ==
    /\ online[p] /\ where[p] = "teleport" /\ Exists(bgId[p])
    /\ where' = [where EXCEPT ![p] = "battleground"]
    /\ bg' = IF invitedTo[p] = bgId[p] THEN [bg EXCEPT ![bgId[p]].players = @ \cup {p}] ELSE bg
    /\ UNCHANGED <<queue, freeSlots, events, scheduled, used, invitedTo, bgId, online>>

------------------------------------------------------------------------------
(* Battleground.                                                            *)

\* AddToBGFreeSlotQueue, after players left i.
AddToBGFreeSlotQueue(i) ==
    /\ scheduled' = TRUE
    /\ freeSlots' = IF Contains(freeSlots, i) THEN freeSlots ELSE <<i>> \o freeSlots

\* RemovePlayerAtLeave for some of the players of i; those who are connected
\* give up their slot and are taken back to where they came from.
RemovePlayersAtLeave(i, leaving) ==
    LET there == {p \in leaving : online[p]} IN
    /\ bg' = [bg EXCEPT ![i].players = @ \ leaving,
                        ![i].invited = [t \in Teams |-> @[t] - Cardinality({p \in leaving : Team[p] = t})]]
    /\ used' = [p \in Players |-> used[p] /\ p \notin there]
    /\ invitedTo' = [p \in Players |-> IF p \in there THEN NoBattleground ELSE invitedTo[p]]
    /\ bgId' = [p \in Players |-> IF p \in there THEN NoBattleground ELSE bgId[p]]
    /\ where' = [p \in Players |-> IF p \in there THEN "world" ELSE where[p]]
    /\ IF bg[i].status \in {"join", "progress"} THEN AddToBGFreeSlotQueue(i)
       ELSE UNCHANGED <<freeSlots, scheduled>>
    /\ UNCHANGED <<queue, events, online>>

LeaveBattleground(p) ==
    /\ online[p] /\ where[p] = "battleground" /\ Exists(bgId[p]) /\ p \in bg[bgId[p]].players
    /\ RemovePlayersAtLeave(bgId[p], {p})

\* Faulty variant: invitations do not keep a battleground.
DeleteEmptyBattleground(i) ==
    /\ Exists(i) /\ bg[i].players = {}
    /\ bg' = [bg EXCEPT ![i] = Deleted]
    /\ freeSlots' = Within(freeSlots, Instances \ {i})
    /\ UNCHANGED <<queue, events, scheduled, playerVars>>

\* Update of a battleground without players: it is deleted when none is invited.
DeleteBattleground(i) ==
    /\ Exists(i) /\ bg[i].players = {} /\ \A t \in Teams : bg[i].invited[t] = 0
    /\ bg' = [bg EXCEPT ![i] = Deleted]
    /\ freeSlots' = Within(freeSlots, Instances \ {i})
    /\ UNCHANGED <<queue, events, scheduled, playerVars>>

\* _ProcessJoin: the doors open.
StartFight(i) ==
    /\ bg[i].status = "join" /\ bg[i].players # {}
    /\ bg' = [bg EXCEPT ![i].status = "progress"]
    /\ UNCHANGED <<queue, freeSlots, events, scheduled, playerVars>>

\* _ProcessOfflineQueue: the first has been away for MAX_OFFLINE_TIME.
ProcessOfflineQueue(i) ==
    /\ bg[i].status = "progress" /\ bg[i].offline # <<>> /\ Head(bg[i].offline) \in bg[i].players
    /\ LET p == Head(bg[i].offline) IN
       /\ bg' = [bg EXCEPT ![i].players = @ \ {p}, ![i].invited[Team[p]] = @ - 1,
                           ![i].offline = Tail(@)]
       /\ AddToBGFreeSlotQueue(i)
    /\ UNCHANGED <<queue, events, playerVars>>

\* EndBattleground, by a victory or for want of players; EndNow.
EndBattleground(i) ==
    /\ bg[i].status \in {"join", "progress"} /\ bg[i].players # {}
    /\ bg' = [bg EXCEPT ![i].status = "leave"]
    /\ freeSlots' = Within(freeSlots, Instances \ {i})
    /\ UNCHANGED <<queue, events, scheduled, playerVars>>

\* _ProcessLeave, TIME_AUTOCLOSE_BATTLEGROUND later.
ProcessLeave(i) ==
    /\ bg[i].status = "leave" /\ bg[i].players # {}
    /\ RemovePlayersAtLeave(i, bg[i].players)

------------------------------------------------------------------------------
(* Log out and in.                                                          *)

\* LogoutPlayer finishes a pending transfer first.
LogoutPlayer(p) ==
    /\ p \in Droppers /\ online[p] /\ where[p] # "teleport"
    /\ online' = [online EXCEPT ![p] = FALSE]
    /\ RemoveQueueId(p)
    /\ queue' = WithoutPlayer(p)
    /\ bg' = LET b == DecreaseInvitedCount(bg, p) IN
             IF Exists(bgId[p]) /\ p \in bg[bgId[p]].players
             THEN [b EXCEPT ![bgId[p]].offline = Append(@, p)] ELSE b
    /\ UNCHANGED <<freeSlots, events, scheduled, bgId, where>>

\* LoadFromDB of a player saved in a battleground: back to it, or to the
\* entry point when it is over or gone.
Login(p) ==
    /\ ~online[p] /\ online' = [online EXCEPT ![p] = TRUE]
    /\ LET i == bgId[p]
           member == Exists(i) /\ p \in bg[i].players
       IN IF where[p] = "battleground" /\ member /\ bg[i].status # "leave"
          THEN /\ used' = [used EXCEPT ![p] = TRUE]
               /\ invitedTo' = [invitedTo EXCEPT ![p] = i]
               /\ bg' = [bg EXCEPT ![i].offline = Within(@, Players \ {p})]
               /\ UNCHANGED <<bgId, where>>
          ELSE /\ bg' = IF member THEN [bg EXCEPT ![i].players = @ \ {p},
                                                  ![i].invited[Team[p]] = @ - 1] ELSE bg
               /\ bgId' = [bgId EXCEPT ![p] = NoBattleground]
               /\ where' = [where EXCEPT ![p] = "world"]
               /\ UNCHANGED <<used, invitedTo>>
    /\ UNCHANGED <<queue, freeSlots, events, scheduled>>

Next ==
    \/ \E members \in SUBSET Players : Join(members)
    \/ \E p \in Players : \/ EnterBattle(p) \/ LeaveQueue(p) \/ WorldportAck(p)
                          \/ LeaveBattleground(p) \/ LogoutPlayer(p) \/ Login(p)
    \/ \E i \in Instances : \/ DeleteBattleground(i) \/ StartFight(i) \/ ProcessOfflineQueue(i)
                            \/ EndBattleground(i) \/ ProcessLeave(i)
    \/ BattlegroundQueueUpdate \/ ClockTick \/ \E e \in events : RemoveEvent(e)

Spec == Init /\ [][Next]_vars

\* The world thread keeps updating battlegrounds and events; a transfer
\* ends by the client or by its logout.  Players need not answer or leave, and
\* no battle need come to its end.
FairSpec ==
    /\ Spec
    /\ WF_vars(ClockTick \/ \E e \in events : RemoveEvent(e))
    /\ WF_vars(\E p \in Players : WorldportAck(p))
    /\ \A i \in Instances : WF_vars(DeleteBattleground(i) \/ ProcessLeave(i))

------------------------------------------------------------------------------
(* Properties.                                                              *)

TypeOK ==
    /\ \A k \in Kinds, t \in Teams : \A g \in ToSet(queue[k][t]) :
           /\ g.players # {} /\ \A p \in g.players : Team[p] = t
           /\ g.bg \in Instances \cup {NoBattleground} /\ g.left \in 0..InviteWait
    /\ \A i \in Instances : bg[i].status \in {"none", "join", "progress", "leave"}
    /\ ToSet(freeSlots) \subseteq Instances /\ scheduled \in BOOLEAN
    /\ \A p \in Players : where[p] \in {"world", "teleport", "battleground"}

\* m_InvitedAlliance and m_InvitedHorde count exactly the players invited and
\* not yet gone, on their way, and inside, connected or not: through every
\* answer, timeout, logout and return no place is lost or given twice, and no
\* team gets more than its places.
InvitedCountIsExact ==
    /\ TypeOK
    /\ \A i \in Instances :
           LET expected == (UNION {g.players : g \in {g \in Groups : g.bg = i}})
                           \cup {p \in Players : where[p] = "teleport" /\ bgId[p] = i}
                           \cup bg[i].players
           IN \A t \in Teams :
                  /\ bg[i].invited[t] = Cardinality({p \in expected : Team[p] = t})
                  /\ bg[i].invited[t] <= MaxPlayersPerTeam

\* A battleground is there as long as someone is invited to it, on the way to
\* it or in it, and exactly these and the waiting players hold a slot.
BattlegroundAwaitsItsPlayers ==
    \A p \in Players :
        /\ Invited(p) => Exists(GroupOf(p).bg)
        /\ where[p] = "teleport" \/ (where[p] = "battleground" /\ online[p])
               => Exists(bgId[p]) /\ invitedTo[p] = bgId[p]
        /\ used[p] = (online[p] /\ (Queued(p) \/ where[p] # "world"))

\* An event made for an invitation that the player has already answered does
\* not end a later one, be it to the same battleground (cases 3 and 4 of the
\* comment at BattlegroundQueue.cpp:1016).
NoInvitationIsCutShort ==
    [][\A e \in events \ events' : e.left = 0 =>
           \A p \in Players : (Invited(p) /\ GroupOf(p).left > 0) => Invited(p)']_vars

\* A battleground that has ended is deleted, whoever was invited, on the way,
\* inside or logged out.
EndedBattlegroundIsDeleted ==
    \A i \in Instances : bg[i].status = "leave" ~> bg[i].status # "leave"
==============================================================================
