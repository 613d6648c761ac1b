----------------------------- MODULE SessionQueue ----------------------------
(***************************************************************************)
(* game: the sessions of the world server and the queue for a place on it  *)
(* (World.cpp: AddSession_, AddQueuedPlayer, RemoveQueuedPlayer,           *)
(* UpdateSessions, KickAll; the removal of a session in WorldSession.cpp). *)
(* Network threads create sessions and lose sockets at any time; the rest  *)
(* is the world thread, which runs UpdateSessions in every update.         *)
(***************************************************************************)
EXTENDS Integers, FiniteSets, SequencesExt

CONSTANTS Accounts,
          None,        \* no session
          MaxSessions, \* bound: WorldSession objects at the same time
          PlayerLimit, \* m_playerLimit, 0 for none
          SkipQueue,   \* accounts with RBAC_PERM_SKIP_QUEUE
          Tolerance,   \* DisconnectToleranceInterval is set
          ExpireTime   \* bound: updates a player stays after his socket is lost

ASSUME SessionAssumption ==
    /\ MaxSessions \in Nat /\ PlayerLimit \in Nat /\ ExpireTime \in Nat \ {0}
    /\ SkipQueue \subseteq Accounts /\ Tolerance \in BOOLEAN /\ IsFiniteSet(Accounts)
    /\ None \notin Accounts \cup Nat

Sessions == 1..MaxSessions
NoSession == [account |-> None]

VARIABLES
    session,        \* the WorldSession objects, with the state of their sockets
                    \* and two histories: the last queue position sent, and the
                    \* updates since the socket was lost
    addSessQueue,   \* sessions the network threads hand to the world thread
    m_sessions, m_QueuedPlayer,
    m_disconnects,  \* accounts with an entry
    pc,             \* where UpdateSessions is: "add", "update" or "stopped"
    todo,           \* accounts its loop has not come to
    stopping        \* KickAll was called

vars == <<session, addSessQueue, m_sessions, m_QueuedPlayer, m_disconnects, pc, todo, stopping>>

Exists(s) == session[s] # NoSession
Listed == {a \in Accounts : m_sessions[a] # None}

Init ==
    /\ session = [s \in Sessions |-> NoSession]
    /\ addSessQueue = <<>> /\ m_QueuedPlayer = <<>>
    /\ m_sessions = [a \in Accounts |-> None]
    /\ m_disconnects = {} /\ todo = {} /\ pc = "add" /\ stopping = FALSE

------------------------------------------------------------------------------
(* The network threads.                                                     *)

\* An authenticated socket hands a new session to the world thread.  Which
\* object it is does not matter.
NewSession == CHOOSE s \in Sessions : ~Exists(s)

HandleAuthSession(a) ==
    /\ \E s \in Sessions : ~Exists(s)
    /\ session' = [session EXCEPT ![NewSession] =
           [account |-> a, open |-> TRUE, forceExit |-> FALSE, expireTime |-> ExpireTime,
            character |-> "none", inQueue |-> FALSE, told |-> 0, late |-> 0]]
    /\ addSessQueue' = Append(addSessQueue, NewSession)
    /\ UNCHANGED <<m_sessions, m_QueuedPlayer, m_disconnects, pc, todo, stopping>>

\* The client goes away, or has been idle for too long.
CloseSocket(s) ==
    /\ Exists(s) /\ session[s].open
    /\ session' = [session EXCEPT ![s].open = FALSE]
    /\ UNCHANGED <<addSessQueue, m_sessions, m_QueuedPlayer, m_disconnects, pc, todo, stopping>>

------------------------------------------------------------------------------
(* The queue.                                                               *)

Position(queue, s) == CHOOSE k \in DOMAIN queue : queue[k] = s

\* Faulty variant: the session that goes is counted.
OthersAndLeaver(queue, found) == Cardinality(Listed) - Len(queue)

\* "if (!found && sessions) --sessions;"
Others(queue, found) ==
    LET sessions == Cardinality(Listed) - Len(queue)
    IN IF ~found /\ sessions > 0 THEN sessions - 1 ELSE sessions

HasPlace(others) == PlayerLimit = 0 \/ others < PlayerLimit

\* World::RemoveQueuedPlayer: takes s out of the queue if he is in it, lets in
\* the first who waits if there is a place without s, and tells those who
\* move up.  st holds the queue and the sessions.
RemoveQueuedPlayer(st, s) ==
    LET found == s \in Range(st.queue)
        rest == IF found THEN RemoveAt(st.queue, Position(st.queue, s)) ELSE st.queue
        admits == HasPlace(Others(st.queue, found)) /\ rest # <<>>
        queue == IF admits THEN Tail(rest) ELSE rest
        first == IF admits THEN 1 ELSE IF found THEN Position(st.queue, s) ELSE Len(queue) + 1
        movesUp(x) == \E k \in first..Len(queue) : queue[k] = x
        After(x) ==
            IF admits /\ x = Head(rest) THEN [st.session[x] EXCEPT !.inQueue = FALSE, !.told = 0]
            ELSE IF found /\ x = s THEN [st.session[x] EXCEPT !.inQueue = FALSE]
            ELSE IF movesUp(x) THEN [st.session[x] EXCEPT !.told = Position(queue, x)]
            ELSE st.session[x]
    IN [found |-> found, queue |-> queue, session |-> [x \in Sessions |-> After(x)]]

World == [found |-> FALSE, queue |-> m_QueuedPlayer, session |-> session]

\* Faulty variant: the newcomer is put before the others.
JoinsAtFront(queue, s) == <<s>> \o queue

Joins(queue, s) == Append(queue, s)

AddQueuedPlayer(st, s) ==
    [st EXCEPT !.queue = Joins(@, s),
               !.session[s] = [@ EXCEPT !.inQueue = TRUE, !.told = Position(Joins(st.queue, s), s)]]

\* HasRecentlyDisconnected: difftime(then, now) is never positive, so an entry
\* is always within the tolerance and is never erased.
HasRecentlyDisconnected(a) == Tolerance /\ a \in m_disconnects
Exempt(a) == a \in SkipQueue \/ HasRecentlyDisconnected(a)

------------------------------------------------------------------------------
(* The world thread: UpdateSessions.                                        *)

\* Faulty variant: a session that is replaced stays in the queue.
ReplacedInPlace(old) == [World EXCEPT !.session[old] = NoSession]

\* The old session of an account is taken out of the queue and deleted.
Replaced(old) ==
    LET st == RemoveQueuedPlayer(World, old)
    IN [st EXCEPT !.session[old] = NoSession]

\* AddSession_ kicks a session whose account is loading a character; otherwise
\* the session takes the place of the old one, or joins the queue.
AddSession_ ==
    /\ pc = "add" /\ addSessQueue # <<>>
    /\ addSessQueue' = Tail(addSessQueue)
    /\ LET s == Head(addSessQueue)
           a == session[s].account
           old == m_sessions[a]
           st == IF old = None THEN World ELSE Replaced(old)
           sessions == Cardinality(Listed \cup {a}) - (IF st.found THEN 0 ELSE 1)
           waits == PlayerLimit > 0 /\ sessions >= PlayerLimit /\ ~Exempt(a)
           after == IF waits THEN AddQueuedPlayer(st, s) ELSE st
           loading == old # None /\ session[old].character = "loading"
       IN
       \/ /\ loading
          /\ session' = [session EXCEPT ![s] = NoSession]
          /\ UNCHANGED <<m_sessions, m_QueuedPlayer>>
       \/ /\ ~loading
          /\ m_sessions' = [m_sessions EXCEPT ![a] = s]
          /\ m_QueuedPlayer' = after.queue
          /\ session' = after.session
    /\ UNCHANGED <<m_disconnects, pc, todo, stopping>>

StartVisits ==
    /\ pc = "add" /\ addSessQueue = <<>>
    /\ pc' = "update" /\ todo' = Listed
    /\ UNCHANGED <<session, addSessQueue, m_sessions, m_QueuedPlayer, m_disconnects, stopping>>

\* What packets and query results may make of the character of a session;
\* one that waits in the queue may not log in.
CharacterAfter(s) ==
    CASE session[s].character = "none" ->
            IF session[s].inQueue THEN {"none"} ELSE {"none", "loading", "world"}
      [] session[s].character = "loading" -> {"none", "loading", "world"}
      [] session[s].character = "world" -> {"none", "world"}

\* A session without socket ends, but a player who was not kicked may stay
\* for some time.
Ends(v) == ~v.open /\ (v.expireTime = 0 \/ v.forceExit \/ v.character # "world")

\* WorldSession::Update, which handles packets and may kick, and the removal
\* of a session that has ended.
UpdateSession(a) ==
    LET s == m_sessions[a] IN
    /\ pc = "update" /\ a \in todo
    /\ todo' = todo \ {a}
    /\ \E c \in CharacterAfter(s), kicked \in BOOLEAN :
          LET open == session[s].open /\ ~kicked
              v == [session[s] EXCEPT
                       !.character = c, !.open = open, !.forceExit = @ \/ kicked,
                       !.expireTime = IF open \/ @ = 0 THEN @ ELSE @ - 1]
              once == RemoveQueuedPlayer(World, s)
              twice == RemoveQueuedPlayer(once, s)
          IN
          \/ /\ ~Ends(v)
             /\ session' = [session EXCEPT ![s] = v]
             /\ UNCHANGED <<m_sessions, m_QueuedPlayer, m_disconnects>>
          \/ /\ Ends(v)
             /\ m_disconnects' = IF ~once.found /\ Tolerance THEN m_disconnects \cup {a}
                                 ELSE m_disconnects
             /\ m_QueuedPlayer' = twice.queue
             /\ session' = [twice.session EXCEPT ![s] = NoSession]
             /\ m_sessions' = [m_sessions EXCEPT ![a] = None]
    /\ UNCHANGED <<addSessQueue, pc, stopping>>

\* KickPlayer from a handler of another session or a command.
KickPlayer(a) ==
    LET s == m_sessions[a] IN
    /\ pc = "update" /\ s # None
    /\ session' = [session EXCEPT ![s] = [@ EXCEPT !.open = FALSE, !.forceExit = TRUE]]
    /\ UNCHANGED <<addSessQueue, m_sessions, m_QueuedPlayer, m_disconnects, pc, todo, stopping>>

EndUpdate ==
    /\ pc = "update" /\ todo = {}
    /\ pc' = IF stopping THEN "stopped" ELSE "add"
    /\ session' = [s \in Sessions |->
                     IF \E a \in Listed : m_sessions[a] = s /\ ~session[s].open
                     THEN [session[s] EXCEPT !.late = @ + 1] ELSE session[s]]
    /\ UNCHANGED <<addSessQueue, m_sessions, m_QueuedPlayer, m_disconnects, todo, stopping>>

\* The end of the server: KickAll and one last UpdateSessions.
KickAll ==
    /\ pc = "update" /\ todo = {} /\ ~stopping
    /\ stopping' = TRUE /\ pc' = "add"
    /\ m_QueuedPlayer' = <<>>
    /\ session' = [s \in Sessions |->
                     IF \E a \in Accounts : m_sessions[a] = s
                     THEN [session[s] EXCEPT !.open = FALSE, !.forceExit = TRUE] ELSE session[s]]
    /\ UNCHANGED <<addSessQueue, m_sessions, m_disconnects, todo>>

UpdateSessions ==
    AddSession_ \/ StartVisits \/ (\E a \in Accounts : UpdateSession(a)) \/ EndUpdate

Next ==
    \/ \E a \in Accounts : HandleAuthSession(a) \/ KickPlayer(a)
    \/ \E s \in Sessions : CloseSocket(s)
    \/ UpdateSessions \/ KickAll

Spec == Init /\ [][Next]_vars

------------------------------------------------------------------------------
(* Properties.                                                              *)

SessionType ==
    [account : Accounts, open : BOOLEAN, forceExit : BOOLEAN, expireTime : 0..ExpireTime,
     character : {"none", "loading", "world"}, inQueue : BOOLEAN, told : Nat, late : Nat]

\* The types of the state; a part of QueueIsConsistent.
TypeOK ==
    /\ session \in [Sessions -> SessionType \cup {NoSession}]
    /\ addSessQueue \in Seq(Sessions) /\ m_QueuedPlayer \in Seq(Sessions)
    /\ m_sessions \in [Accounts -> Sessions \cup {None}]
    /\ m_disconnects \subseteq Accounts /\ todo \subseteq Accounts
    /\ pc \in {"add", "update", "stopped"} /\ stopping \in BOOLEAN

\* The lists hold sessions that exist, each once and under its own account;
\* those who wait are in the queue, not in the game, and were last told the
\* position they have.
QueueIsConsistent ==
    /\ TypeOK
    /\ \A a \in Listed : Exists(m_sessions[a]) /\ session[m_sessions[a]].account = a
    /\ \A s \in Range(addSessQueue) : Exists(s) /\ \A a \in Accounts : m_sessions[a] # s
    /\ IsInjective(m_QueuedPlayer) /\ IsInjective(addSessQueue)
    /\ \A s \in Range(m_QueuedPlayer) : \E a \in Listed : m_sessions[a] = s
    /\ ~stopping =>
         \A s \in Sessions : Exists(s) =>
             /\ session[s].inQueue <=> s \in Range(m_QueuedPlayer)
             /\ session[s].inQueue =>
                   /\ session[s].character = "none"
                   /\ session[s].told = Position(m_QueuedPlayer, s)

Active == {a \in Listed : m_sessions[a] \notin Range(m_QueuedPlayer)}

\* "Maximum number of players in the world. Excluding Mods, GMs and Admins."
\* (worldserver.conf.dist:196), and those who were there before.  Nobody waits
\* while there is a place, and a session whose socket is gone gives its place
\* back after a bounded number of updates, whatever its character is doing.
PlacesAreShared ==
    /\ (PlayerLimit > 0 /\ ~stopping) => Cardinality({a \in Active : ~Exempt(a)}) <= PlayerLimit
    /\ m_QueuedPlayer # <<>> => PlayerLimit > 0 /\ Cardinality(Active) >= PlayerLimit
    /\ \A a \in Listed : session[m_sessions[a]].late <= ExpireTime

\* Whoever waits is overtaken by nobody: no session comes to stand before him,
\* he is let in after those before him, and who comes later waits, too, unless
\* he is exempt.
NobodyOvertakes ==
    [][~stopping' =>
        /\ \A x \in Range(m_QueuedPlayer) \cap Range(m_QueuedPlayer') :
               \A k \in 1..(Position(m_QueuedPlayer', x) - 1) :
                   \E j \in 1..(Position(m_QueuedPlayer, x) - 1) :
                       m_QueuedPlayer[j] = m_QueuedPlayer'[k]
        /\ \A x \in Range(m_QueuedPlayer) \ Range(m_QueuedPlayer') :
               session'[x] # NoSession =>
                   \A j \in 1..(Position(m_QueuedPlayer, x) - 1) :
                       m_QueuedPlayer[j] \notin Range(m_QueuedPlayer')
        /\ \A a \in Accounts :
               (m_sessions'[a] \notin {None, m_sessions[a]} /\ m_QueuedPlayer # <<>>)
                   => Exempt(a) \/ m_sessions'[a] \in Range(m_QueuedPlayer')]_vars
==============================================================================
