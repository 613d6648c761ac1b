------------------------------ MODULE SocketProofs -----------------------------
(***************************************************************************)
(* Flags, lock, session and bytes of a socket, for packets and buffers of  *)
(* every size and any number of packets.                                   *)
(***************************************************************************)
EXTENDS Socket, SequenceTheorems, WellFoundedInduction, TLAPS

FlagsOK == closed \in BOOLEAN /\ closing \in BOOLEAN

\* _writeLock is held by the thread that is between taking and giving it back,
\* so that no two are there.
Writing == {"open", "write", "queue"}
LockIsHeld ==
    /\ pc \in [Threads -> {"start", "add", "idle", "try", "lock", "open", "write", "queue",
                           "handle", "send", "push", "next"}]
    /\ writeLock \in {"none", "network", "writer"}
    /\ \A t \in Threads : pc[t] \in Writing <=> writeLock = t

IInv == FlagsOK /\ LockIsHeld /\ SessionOutlivesSocket

\* What the steps outside the lock do with it.
LEMMA NotWritingOK ==
    ASSUME LockIsHeld, NEW t \in Threads, pc[t] \notin Writing, writeLock' = writeLock,
           NEW place \in {"start", "add", "idle", "try", "lock", "handle", "send", "push", "next"},
           Go(t, place)
    PROVE  LockIsHeld'
  BY DEF LockIsHeld, Writing, Threads, Go

LEMMA UnlockOK ==
    ASSUME LockIsHeld, NEW t \in {"network", "writer"}, pc[t] \in Writing, Unlock(t)
    PROVE  LockIsHeld'
  BY DEF LockIsHeld, Writing, Threads, Unlock, Go

LEMMA StillWritingOK ==
    ASSUME LockIsHeld, NEW t \in {"network", "writer"}, pc[t] \in Writing, writeLock' = writeLock,
           NEW place \in Writing, Go(t, place)
    PROVE  LockIsHeld'
  BY DEF LockIsHeld, Writing, Threads, Go

LEMMA TakesLockOK ==
    ASSUME LockIsHeld, NEW t \in {"network", "writer"}, writeLock = "none", writeLock' = t,
           Go(t, "open")
    PROVE  LockIsHeld'
  BY DEF LockIsHeld, Writing, Threads, Go

LEMMA SameLockOK ==
    ASSUME LockIsHeld, UNCHANGED <<pc, writeLock>>
    PROVE  LockIsHeld'
  BY DEF LockIsHeld

\* Writers leave flags and session alone.
LEMMA WritesOK ==
    ASSUME IInv, NEW t \in {"network", "writer"}, Writes(t)
    PROVE  IInv'
<1>1. LockIsHeld
  BY DEF IInv
<1>2. UNCHANGED <<flags, session>>
  BY DEF Writes, WriteHandler, WriteBuffer, HandleQueue
<1>3. CASE WriteHandler(t)
  <2>1. pc[t] \in Writing
    BY <1>3 DEF WriteHandler, Writing
  <2>2. (Go(t, "write") /\ writeLock' = writeLock) \/ Unlock(t)
    BY <1>3 DEF WriteHandler
  <2>3. LockIsHeld'
    BY <1>1, <2>1, <2>2, UnlockOK, StillWritingOK DEF Writing
  <2>4. QED
    BY <1>2, <2>3 DEF IInv, FlagsOK, SessionOutlivesSocket, IsOpen, flags
<1>4. CASE WriteBuffer(t)
  <2>1. pc[t] \in Writing
    BY <1>4 DEF WriteBuffer, Writing
  <2>2. (Go(t, "queue") /\ writeLock' = writeLock) \/ Unlock(t)
    BY <1>4 DEF WriteBuffer
  <2>3. LockIsHeld'
    BY <1>1, <2>1, <2>2, UnlockOK, StillWritingOK DEF Writing
  <2>4. QED
    BY <1>2, <2>3 DEF IInv, FlagsOK, SessionOutlivesSocket, IsOpen, flags
<1>5. CASE HandleQueue(t)
  <2>1. pc[t] \in Writing
    BY <1>5 DEF HandleQueue, Writing
  <2>2. (Go(t, "open") /\ writeLock' = writeLock) \/ Unlock(t)
    BY <1>5 DEF HandleQueue, Again
  <2>3. LockIsHeld'
    BY <1>1, <2>1, <2>2, UnlockOK, StillWritingOK DEF Writing
  <2>4. QED
    BY <1>2, <2>3 DEF IInv, FlagsOK, SessionOutlivesSocket, IsOpen, flags
<1>6. QED
  BY <1>3, <1>4, <1>5 DEF Writes

\* The flags are only ever set, and a session ends when they are.
LEMMA FlagsAndSession ==
    ASSUME IInv, LockIsHeld', closed' \in {closed, TRUE}, closing' \in {closing, TRUE},
           \/ UNCHANGED session
           \/ session' = "live"
           \/ session' = "deleted" /\ ~IsOpen
    PROVE  IInv'
  BY DEF IInv, FlagsOK, SessionOutlivesSocket, IsOpen

LEMMA ReaderOK == ASSUME IInv, Reader PROVE IInv'
<1> USE DEF Threads, Writing, flags
<1>1. LockIsHeld /\ "reader" \in Threads
  BY DEF IInv
<1>2. CASE Malformed
  BY <1>1, <1>2, NotWritingOK, FlagsAndSession DEF Malformed, CloseSocket
<1>3. CASE HandleSendAuthSession
  BY <1>1, <1>3, NotWritingOK, FlagsAndSession DEF HandleSendAuthSession
<1>4. CASE HandleAuthSession
  <2>1. LockIsHeld'
    BY <1>1, <1>4, NotWritingOK DEF HandleAuthSession
  <2>2. QED
    BY <1>4, <2>1, FlagsAndSession DEF HandleAuthSession
<1>5. CASE HandlePing
  BY <1>1, <1>5, NotWritingOK, FlagsAndSession DEF HandlePing
<1>6. CASE RefusePing
  BY <1>1, <1>6, NotWritingOK, FlagsAndSession DEF RefusePing, CloseSocket
<1>7. CASE QueueToSession
  BY <1>1, <1>7, NotWritingOK, FlagsAndSession DEF QueueToSession
<1>8. CASE SendIfOpen("reader", "next")
  <2>1. Go("reader", "push") \/ Go("reader", "next")
    BY <1>8 DEF SendIfOpen
  <2>2. QED
    BY <1>1, <1>8, <2>1, NotWritingOK, FlagsAndSession DEF SendIfOpen
<1>9. CASE SendPacket("reader", "next")
  BY <1>1, <1>9, NotWritingOK, FlagsAndSession DEF SendPacket
<1>10. CASE DelayedCloseSocket
  BY <1>1, <1>10, SameLockOK, FlagsAndSession DEF DelayedCloseSocket
<1>11. CASE NextMessage
  <2>1. Go("reader", "handle") \/ Go("reader", "idle")
    BY <1>11 DEF NextMessage
  <2>2. QED
    BY <1>1, <1>11, <2>1, NotWritingOK, FlagsAndSession DEF NextMessage
<1>12. QED
  BY <1>2, <1>3, <1>4, <1>5, <1>6, <1>7, <1>8, <1>9, <1>10, <1>11 DEF Reader

LEMMA NetworkOK == ASSUME IInv, Network PROVE IInv'
<1> USE DEF Threads, Writing, flags
<1>1. LockIsHeld /\ "network" \in Threads
  BY DEF IInv
<1>2. CASE AddNewSockets
  BY <1>1, <1>2, SameLockOK, FlagsAndSession DEF AddNewSockets
<1>3. CASE RemoveSocket
  BY <1>1, <1>3, SameLockOK, FlagsAndSession DEF RemoveSocket
<1>4. CASE Update
  BY <1>1, <1>4, NotWritingOK, FlagsAndSession DEF Update
<1>5. CASE TryLock
  <2>1. \/ Go("network", "idle") /\ writeLock' = writeLock
        \/ Go("network", "open") /\ writeLock = "none" /\ writeLock' = "network"
    BY <1>5 DEF TryLock
  <2>2. LockIsHeld'
    BY <1>1, <1>5, <2>1, NotWritingOK, TakesLockOK DEF TryLock
  <2>3. QED
    BY <1>5, <2>2, FlagsAndSession DEF TryLock
<1>6. CASE Writes("network")
  BY <1>6, WritesOK
<1>7. QED
  BY <1>2, <1>3, <1>4, <1>5, <1>6 DEF Network

LEMMA OthersOK ==
    ASSUME IInv,
           \/ Start \/ AddSocket \/ ClientReads \/ ClientLeaves \/ Writer \/ ReadCompletes
           \/ SessionSends \/ KickPlayer \/ EndSession \/ World
    PROVE  IInv'
<1> USE DEF Threads, Writing, flags
<1>1. LockIsHeld /\ {"acceptor", "reader", "writer", "world"} \subseteq Threads
  BY DEF IInv
<1>2. CASE Start
  BY <1>1, <1>2, NotWritingOK, FlagsAndSession DEF Start
<1>3. CASE AddSocket
  BY <1>1, <1>3, NotWritingOK, FlagsAndSession DEF AddSocket
<1>4. CASE ClientReads \/ ClientLeaves
  BY <1>1, <1>4, SameLockOK, FlagsAndSession DEF ClientReads, ClientLeaves
<1>5. CASE Writer
  <2>1. CASE WriteReady
    BY <1>1, <2>1, NotWritingOK, FlagsAndSession DEF WriteReady
  <2>2. CASE WriteHandlerWrapper
    BY <1>1, <2>2, TakesLockOK, FlagsAndSession DEF WriteHandlerWrapper
  <2>3. CASE Writes("writer")
    BY <2>3, WritesOK
  <2>4. QED
    BY <1>5, <2>1, <2>2, <2>3 DEF Writer
<1>6. CASE ReadCompletes
  <2>1. LockIsHeld'
    <3>1. Go("reader", "handle") \/ Go("reader", "idle") \/ pc' = pc
      BY <1>6 DEF ReadCompletes
    <3>2. QED
      BY <1>1, <1>6, <3>1, NotWritingOK, SameLockOK DEF ReadCompletes
  <2>2. QED
    BY <1>6, <2>1, FlagsAndSession DEF ReadCompletes, CloseSocket
<1>7. CASE SessionSends
  BY <1>1, <1>7, NotWritingOK, FlagsAndSession DEF SessionSends
<1>8. CASE KickPlayer
  BY <1>1, <1>8, SameLockOK, FlagsAndSession DEF KickPlayer, CloseSocket
<1>9. CASE EndSession
  BY <1>1, <1>9, SameLockOK, FlagsAndSession DEF EndSession
<1>10. CASE World
  <2>1. CASE SendIfOpen("world", "idle")
    <3>1. Go("world", "push") \/ Go("world", "idle")
      BY <2>1 DEF SendIfOpen
    <3>2. QED
      BY <1>1, <2>1, <3>1, NotWritingOK, FlagsAndSession DEF SendIfOpen
  <2>2. CASE SendPacket("world", "idle")
    BY <1>1, <2>2, NotWritingOK, FlagsAndSession DEF SendPacket
  <2>3. QED
    BY <1>10, <2>1, <2>2 DEF World
<1>11. QED
  BY <1>2, <1>3, <1>4, <1>5, <1>6, <1>7, <1>8, <1>9, <1>10

LEMMA InductiveStep == IInv /\ [Next]_vars => IInv'
<1> SUFFICES ASSUME IInv, [Next]_vars PROVE IInv'
  OBVIOUS
<1>1. CASE UNCHANGED vars
  BY <1>1 DEF vars, flags, IInv, FlagsOK, LockIsHeld, SessionOutlivesSocket, IsOpen
<1>2. CASE Next
  BY <1>2, NetworkOK, ReaderOK, OthersOK DEF Next
<1>3. QED
  BY <1>1, <1>2

LEMMA Inductive == Spec => []IInv
<1>1. Init => IInv
  BY DEF Init, IInv, FlagsOK, LockIsHeld, SessionOutlivesSocket, IsOpen, Writing, Threads
<1>2. QED
  BY <1>1, InductiveStep, PTL DEF Spec

\* _writeLock is taken by the network thread that finds it free and by the
\* writer that waits for it, and given back on every way out of WriteHandler
\* and HandleQueue: the two are never both at work on the queue of messages.
THEOREM OneWriter == Spec => [](pc["network"] \in Writing => pc["writer"] \notin Writing)
<1>1. IInv => (pc["network"] \in Writing => pc["writer"] \notin Writing)
  BY DEF IInv, LockIsHeld, Threads
<1>2. QED
  BY <1>1, Inductive, PTL

\* A session is deleted only when its socket is closed for good: no flag that
\* WorldSession::Update found set is ever taken back by another thread.
THEOREM SessionEndsAfterSocket == Spec => []SessionOutlivesSocket
<1>1. IInv => SessionOutlivesSocket
  BY DEF IInv
<1>2. QED
  BY <1>1, Inductive, PTL

------------------------------------------------------------------------------
(* Sequences of sequences: FlattenSeq is chosen by a recursion on the       *)
(* length, which a smallest counterexample shows to be well defined.        *)

\* A set of natural numbers has a least one.
LEMMA LeastNumber ==
    ASSUME NEW T, T \subseteq Nat, T # {}
    PROVE  \E m \in T : \A k \in T : m <= k
<1> DEFINE Below == {p \in Nat \X Nat : p[1] < p[2]}
<1>1. IsWellFoundedOn(Below, Nat)
  BY ONLY NatLessThanWellFounded, Zenon DEF OpToRel
<1> HIDE DEF Below
<1>2. \E m \in T : \A k \in T : <<k, m>> \notin Below
  BY <1>1, WFMin
<1>3. PICK m \in T : \A k \in T : <<k, m>> \notin Below
  BY <1>2
<1>4. ASSUME NEW k \in T PROVE m <= k
  <2>1. k \in Nat /\ m \in Nat /\ <<k, m>> \in Nat \X Nat /\ ~(<<k, m>> \in Below)
    BY <1>3
  <2>2. ~(k < m)
    BY <2>1 DEF Below
  <2>3. QED
    BY <2>1, <2>2
<1>5. QED
  BY <1>4

\* The function that FlattenSeq chooses for a sequence of sequences.
Flattener(s, g) == g = [i \in 1..Len(s) |-> IF i = 1 THEN s[i] ELSE g[i - 1] \o s[i]]

LEMMA FlattenUnfolds ==
    ASSUME NEW s, Len(s) # 0
    PROVE  FlattenSeq(s) = (CHOOSE g : Flattener(s, g))[Len(s)]
  BY DEF FlattenSeq, Flattener

\* A set of sequences that no sequence enters last is empty: the step of an
\* induction by Append.
LEMMA ShortestFails ==
    ASSUME NEW S, NEW B \in SUBSET Seq(S), <<>> \notin B,
           \A s \in Seq(S), m \in S : s \notin B => Append(s, m) \notin B
    PROVE  B = {}
<1> SUFFICES ASSUME B # {} PROVE FALSE
  OBVIOUS
<1> DEFINE T == {Len(s) : s \in B}
<1>1. T \subseteq Nat /\ T # {}
  <2>1. \A s \in B : Len(s) \in Nat
    BY LenProperties
  <2>2. QED
    BY <2>1
<1>2. PICK n \in T : \A k \in T : n <= k
  <2> HIDE DEF T
  <2> QED BY <1>1, LeastNumber
<1>3. PICK s \in B : n = Len(s)
  BY <1>2
<1>4. PICK r \in Seq(S), m \in S : s = Append(r, m)
  BY <1>3, SequenceEmptyOrAppend
<1>5. Len(r) \in Nat /\ Len(s) = Len(r) + 1
  BY <1>4, AppendProperties, LenProperties
<1>6. r \notin B
  BY <1>2, <1>3, <1>5
<1>7. QED
  BY <1>3, <1>4, <1>6

\* A flattener can be continued by one more sequence.
LEMMA FlattenerGoesOn ==
    ASSUME NEW S, NEW s \in Seq(S), NEW m \in S, NEW g, Flattener(s, g)
    PROVE  \E h : Flattener(Append(s, m), h)
<1> DEFINE t == Append(s, m)
           h == [i \in 1..Len(s) + 1 |->
                   IF i = Len(s) + 1 THEN (IF i = 1 THEN m ELSE g[i - 1] \o m) ELSE g[i]]
<1>1. Len(s) \in Nat /\ Len(t) = Len(s) + 1 /\ t[Len(s) + 1] = m
      /\ \A i \in 1..Len(s) : t[i] = s[i]
  BY AppendProperties, LenProperties
<1>2. ASSUME NEW i \in 1..Len(t)
      PROVE  h[i] = IF i = 1 THEN t[i] ELSE h[i - 1] \o t[i]
  <2>1. CASE i = Len(t)
    BY <1>1, <2>1
  <2>2. CASE i # Len(t)
    <3>1. i \in 1..Len(s) /\ h[i] = g[i] /\ t[i] = s[i] /\ (i # 1 => h[i - 1] = g[i - 1])
      BY <1>1, <2>2
    <3>2. g[i] = IF i = 1 THEN s[i] ELSE g[i - 1] \o s[i]
      BY <3>1 DEF Flattener
    <3>3. QED
      BY <3>1, <3>2
  <2>3. QED
    BY <2>1, <2>2
<1>3. h = [i \in 1..Len(t) |-> h[i]]
  BY <1>1
<1>4. h = [i \in 1..Len(t) |-> IF i = 1 THEN t[i] ELSE h[i - 1] \o t[i]]
  <2> HIDE DEF h, t
  <2> QED BY <1>2, <1>3
<1>5. QED
  BY <1>4 DEF Flattener

LEMMA FlattenerExists ==
    ASSUME NEW S, NEW s \in Seq(S)
    PROVE  \E g : Flattener(s, g)
<1> DEFINE B == {r \in Seq(S) : ~ \E g : Flattener(r, g)}
<1>1. <<>> \notin B
  <2>1. Len(<<>>) = 0
    OBVIOUS
  <2>2. Flattener(<<>>, [i \in 1..0 |-> i])
    BY <2>1 DEF Flattener
  <2>3. QED
    BY <2>2
<1>2. \A r \in Seq(S), m \in S : r \notin B => Append(r, m) \notin B
  BY FlattenerGoesOn
<1>3. B \in SUBSET Seq(S)
  OBVIOUS
<1>4. B = {}
  <2> HIDE DEF B
  <2> QED BY <1>1, <1>2, <1>3, ShortestFails
<1>5. QED
  BY <1>4

\* Two flatteners agree as far as their sequences do.
LEMMA FlattenersAgree ==
    ASSUME NEW S, NEW s \in Seq(S), NEW m \in S, NEW g, Flattener(s, g),
           NEW h, Flattener(Append(s, m), h)
    PROVE  \A i \in 1..Len(s) : h[i] = g[i]
<1> DEFINE T == {i \in 1..Len(s) : h[i] # g[i]}
<1> SUFFICES ASSUME T # {} PROVE FALSE
  OBVIOUS
<1>1. PICK n \in T : \A k \in T : n <= k
  <2>1. T \subseteq Nat
    OBVIOUS
  <2> HIDE DEF T
  <2> QED BY <2>1, LeastNumber
<1>2. Len(s) \in Nat /\ n \in 1..Len(s) /\ n \in 1..Len(Append(s, m)) /\ Append(s, m)[n] = s[n]
  BY <1>1, AppendProperties, LenProperties
<1>3. g[n] = IF n = 1 THEN s[n] ELSE g[n - 1] \o s[n]
  BY <1>2 DEF Flattener
<1>4. h[n] = IF n = 1 THEN s[n] ELSE h[n - 1] \o s[n]
  BY <1>2 DEF Flattener
<1>5. n # 1 => n - 1 \notin T /\ n - 1 \in 1..Len(s)
  BY <1>1, <1>2
<1>6. QED
  BY <1>1, <1>3, <1>4, <1>5

LEMMA FlattenEmpty == FlattenSeq(<<>>) = <<>>
  BY EmptySeq DEF FlattenSeq

\* One more message is flattened to the end.
LEMMA FlattenAppend ==
    ASSUME NEW S, NEW s \in Seq(Seq(S)), NEW m \in Seq(S)
    PROVE  FlattenSeq(Append(s, m)) = FlattenSeq(s) \o m
<1> DEFINE t == Append(s, m)
           g == CHOOSE f : Flattener(s, f)
           h == CHOOSE f : Flattener(t, f)
<1>1. t \in Seq(Seq(S)) /\ Len(s) \in Nat /\ Len(t) = Len(s) + 1 /\ t[Len(s) + 1] = m
  BY AppendProperties, LenProperties
<1>2. Flattener(s, g) /\ Flattener(t, h)
  <2>1. (\E f : Flattener(s, f)) /\ (\E f : Flattener(t, f))
    BY <1>1, FlattenerExists
  <2>2. QED
    BY <2>1
<1>3. FlattenSeq(t) = h[Len(t)]
  <2>1. Len(t) # 0
    BY <1>1
  <2> HIDE DEF t
  <2>2. QED
    BY <2>1, FlattenUnfolds
<1>4. h[Len(t)] = IF Len(t) = 1 THEN m ELSE h[Len(s)] \o m
  <2> HIDE DEF h
  <2>1. Len(t) \in 1..Len(t) /\ t[Len(t)] = m /\ Len(t) - 1 = Len(s)
    BY <1>1
  <2>2. h[Len(t)] = IF Len(t) = 1 THEN t[Len(t)] ELSE h[Len(t) - 1] \o t[Len(t)]
    <3> HIDE DEF t
    <3> QED BY <1>2, <2>1 DEF Flattener
  <2>3. QED
    BY <2>1, <2>2
<1>5. CASE s = <<>>
  <2>1. FlattenSeq(s) = <<>> /\ Len(t) = 1
    BY <1>1, <1>5, FlattenEmpty, EmptySeq
  <2>2. QED
    BY <1>3, <1>4, <2>1, ConcatEmptySeq
<1>6. CASE s # <<>>
  <2>1. Len(s) \in Nat \ {0}
    BY <1>6, EmptySeq
  <2>2. FlattenSeq(s) = g[Len(s)]
    BY <2>1, FlattenUnfolds
  <2>3. h[Len(s)] = g[Len(s)]
    <3>1. Len(s) \in 1..Len(s)
      BY <2>1
    <3> HIDE DEF g, h
    <3>2. QED
      BY <1>2, <3>1, FlattenersAgree
  <2>4. Len(t) # 1
    BY <1>1, <2>1
  <2> HIDE DEF g, h, t
  <2>5. FlattenSeq(t) = h[Len(s)] \o m
    BY <1>3, <1>4, <2>4
  <2>6. QED
    BY <2>2, <2>3, <2>5 DEF t
<1>7. QED
  BY <1>5, <1>6

LEMMA FlattenType ==
    ASSUME NEW S, NEW s \in Seq(Seq(S))
    PROVE  FlattenSeq(s) \in Seq(S)
<1> DEFINE B == {r \in Seq(Seq(S)) : FlattenSeq(r) \notin Seq(S)}
<1>1. <<>> \notin B
  BY FlattenEmpty, EmptySeq
<1>2. \A r \in Seq(Seq(S)), m \in Seq(S) : r \notin B => Append(r, m) \notin B
  BY FlattenAppend, ConcatProperties
<1>3. B \in SUBSET Seq(Seq(S))
  OBVIOUS
<1>4. B = {}
  <2> HIDE DEF B
  <2> QED BY <1>1, <1>2, <1>3, ShortestFails
<1>5. QED
  BY <1>4

\* Whose associativity can be cited for every set at once.
LEMMA ConcatAll ==
    \A S : \A s, t, u \in Seq(S) : (s \o t) \o u = s \o (t \o u)
  BY ConcatAssociative

\* The first message is flattened to the front.
LEMMA FlattenFirst ==
    ASSUME NEW S, NEW s \in Seq(Seq(S)), s # <<>>
    PROVE  FlattenSeq(s) = Head(s) \o FlattenSeq(Tail(s))
<1> DEFINE B == {r \in Seq(Seq(S)) : r # <<>> /\ FlattenSeq(r) # Head(r) \o FlattenSeq(Tail(r))}
<1>1. <<>> \notin B
  OBVIOUS
<1>2. ASSUME NEW r \in Seq(Seq(S)), NEW m \in Seq(S), r \notin B
      PROVE  Append(r, m) \notin B
  <2>1. /\ Head(Append(r, m)) = IF r = <<>> THEN m ELSE Head(r)
        /\ Tail(Append(r, m)) = IF r = <<>> THEN <<>> ELSE Append(Tail(r), m)
        /\ FlattenSeq(Append(r, m)) = FlattenSeq(r) \o m
    BY HeadTailAppend, FlattenAppend
  <2>2. CASE r = <<>>
    BY <2>1, <2>2, FlattenEmpty, ConcatEmptySeq
  <2>3. CASE r # <<>>
    <3>1. Head(r) \in Seq(S) /\ Tail(r) \in Seq(Seq(S))
      BY <2>3, HeadTailProperties
    <3>2. FlattenSeq(r) = Head(r) \o FlattenSeq(Tail(r))
      BY <1>2, <2>3
    <3>3. FlattenSeq(Append(Tail(r), m)) = FlattenSeq(Tail(r)) \o m
      BY <3>1, FlattenAppend
    <3>4. FlattenSeq(Tail(r)) \in Seq(S)
      BY <3>1, FlattenType
    <3>5. (Head(r) \o FlattenSeq(Tail(r))) \o m = Head(r) \o (FlattenSeq(Tail(r)) \o m)
      <4> DEFINE a == Head(r)
                 b == FlattenSeq(Tail(r))
      <4>1. a \in Seq(S) /\ b \in Seq(S) /\ m \in Seq(S)
        BY <3>1, <3>4
      <4> HIDE DEF a, b
      <4>2. (a \o b) \o m = a \o (b \o m)
        BY ONLY <4>1, ConcatAll, SMTT(30)
      <4>3. QED
        BY <4>2 DEF a, b
    <3>6. QED
      BY <2>1, <2>3, <3>1, <3>2, <3>3, <3>4, <3>5
  <2>4. QED
    BY <2>2, <2>3
<1>3. B \in SUBSET Seq(Seq(S))
  OBVIOUS
<1>4. B = {}
  <2> HIDE DEF B
  <2> QED BY <1>1, <1>2, <1>3, ShortestFails
<1>5. QED
  BY <1>4

------------------------------------------------------------------------------
(* The stream of bytes.                                                     *)

Byte == Nat \X Nat

FlagTypes ==
    /\ {isWritingAsync, readOp, writeOp, initialized, denied, full, clientGone} \subseteq BOOLEAN
    /\ membership \in {"none", "new", "listed", "removed"}
    /\ session \in {"none", "live", "deleted"}

\* Nothing can be sent, written or read before Start, which queues its packet
\* without the lock and as the first one.
NothingBeforeStart ==
    pc["acceptor"] = "start" =>
        /\ encrypted = 0 /\ wire = <<>> /\ writeBuffer = <<>> /\ writeQueue = <<>>
        /\ pc["reader"] = "idle" /\ pc["world"] = "idle" /\ session = "none"

\* Who is about to encrypt a packet was counted when he decided to.
Counted == encrypted \in Nat /\ encrypted + Sending("reader") + Sending("world") <= MaxPackets

\* The queue is written only when nothing older is left in the buffer.
Buffers ==
    /\ wire \in Seq(Byte) /\ writeBuffer \in Seq(Byte) /\ writeQueue \in Seq(Seq(Byte))
    /\ Len(writeBuffer) <= BufferSize
    /\ \A t \in {"network", "writer"} : pc[t] = "queue" => writeBuffer = <<>>

\* While the connection lasts, the bytes on the wire and those that wait are
\* the stream; afterwards the wire does not change and is a part of it.
Flows ==
    /\ \E rest \in Seq(Byte) : Stream = wire \o rest
    /\ ~Broken => wire \o Pending = Stream

SInv == IInv /\ FlagTypes /\ NothingBeforeStart /\ Counted /\ Buffers /\ Flows

LEMMA BytesType == ASSUME NEW n \in Nat PROVE Bytes(n) \in Seq(Byte) /\ Len(Bytes(n)) = PacketSize
<1>1. PacketSize \in Nat
  BY SocketAssumption
<1>2. Bytes(n) \in [1..PacketSize -> Byte]
  BY <1>1 DEF Bytes, Byte
<1>3. QED
  BY <1>1, <1>2, SeqDef

Packets(k) == [n \in 1..k |-> Bytes(n)]

LEMMA PacketsGrow ==
    ASSUME NEW k \in Nat
    PROVE  /\ Packets(k) \in Seq(Seq(Byte))
           /\ Packets(k + 1) = Append(Packets(k), Bytes(k + 1))
<1>1. \A j \in Nat : Packets(j) \in [1..j -> Seq(Byte)]
  BY BytesType DEF Packets
<1>2. \A j \in Nat : Packets(j) \in Seq(Seq(Byte)) /\ Len(Packets(j)) = j
  BY <1>1, SeqDef
<1>3. Bytes(k + 1) \in Seq(Byte)
  BY BytesType
<1>4. /\ Append(Packets(k), Bytes(k + 1)) \in Seq(Seq(Byte))
      /\ Len(Append(Packets(k), Bytes(k + 1))) = k + 1
      /\ \A i \in 1..k : Append(Packets(k), Bytes(k + 1))[i] = Packets(k)[i]
      /\ Append(Packets(k), Bytes(k + 1))[k + 1] = Bytes(k + 1)
  BY <1>2, <1>3, AppendProperties
<1>5. ASSUME NEW i \in 1..(k + 1)
      PROVE  Packets(k + 1)[i] = Append(Packets(k), Bytes(k + 1))[i]
  <2>1. CASE i = k + 1
    BY <1>4, <2>1 DEF Packets
  <2>2. CASE i # k + 1
    <3>1. i \in 1..k
      BY <2>2
    <3>2. QED
      BY <1>4, <3>1 DEF Packets
  <2>3. QED
    BY <2>1, <2>2
<1>6. k + 1 \in Nat
  OBVIOUS
<1>7. QED
  BY <1>2, <1>4, <1>5, <1>6, SeqEqual

\* The stream grows by the packet that is encrypted.
LEMMA StreamGrows ==
    ASSUME encrypted \in Nat, encrypted' = encrypted + 1
    PROVE  Stream \in Seq(Byte) /\ Stream' = Stream \o Bytes(encrypted + 1)
<1>1. Stream = FlattenSeq(Packets(encrypted)) /\ Stream' = FlattenSeq(Packets(encrypted + 1))
  BY DEF Stream, Packets
<1>2. Bytes(encrypted + 1) \in Seq(Byte)
  BY BytesType
<1>3. QED
  BY <1>1, <1>2, PacketsGrow, FlattenAppend, FlattenType

LEMMA PendingType == Buffers => FlattenSeq(writeQueue) \in Seq(Byte) /\ Pending \in Seq(Byte)
  BY FlattenType, ConcatProperties DEF Buffers, Pending

\* Steps that touch neither bytes nor packets, and do not reach HandleQueue
\* through WriteHandler.
LEMMA NothingFlows ==
    ASSUME Buffers, Flows, UNCHANGED <<wire, buffers>>, Broken => Broken',
           \A t \in {"network", "writer"} :
               pc'[t] = "queue" => pc[t] = "queue" \/ writeBuffer = <<>>
    PROVE  Buffers' /\ Flows'
<1>1. Pending' = Pending /\ Stream' = Stream
  BY DEF Pending, Stream, buffers
<1>2. QED
  BY <1>1 DEF Buffers, Flows, buffers

\* A packet joins what waits, at the end.
LEMMA PacketFlows ==
    ASSUME Buffers, Flows, encrypted \in Nat, encrypted' = encrypted + 1,
           UNCHANGED <<wire, closed, clientGone>>,
           Pending' = Pending \o Bytes(encrypted + 1)
    PROVE  Flows'
<1> DEFINE b == Bytes(encrypted + 1)
<1>1. b \in Seq(Byte) /\ Stream \in Seq(Byte) /\ Stream' = Stream \o b
  BY BytesType, StreamGrows
<1>2. wire \in Seq(Byte) /\ Pending \in Seq(Byte)
  BY PendingType DEF Buffers
<1> HIDE DEF b
<1>3. \E rest \in Seq(Byte) : Stream' = wire' \o rest
  <2>1. PICK rest \in Seq(Byte) : Stream = wire \o rest
    BY DEF Flows
  <2>2. rest \o b \in Seq(Byte)
    BY <1>1, ConcatProperties
  <2>3. (wire \o rest) \o b = wire \o (rest \o b)
    BY ONLY <1>1, <1>2, <2>1, ConcatAll
  <2>4. Stream' = wire' \o (rest \o b)
    BY <1>1, <2>1, <2>3
  <2>5. QED
    BY <2>2, <2>4
<1>4. ASSUME ~Broken' PROVE wire' \o Pending' = Stream'
  <2>1. wire \o Pending = Stream
    BY <1>4 DEF Flows, Broken
  <2>2. (wire \o Pending) \o b = wire \o (Pending \o b)
    BY ONLY <1>1, <1>2, ConcatAll, SMTT(30)
  <2>3. QED
    BY <1>1, <2>1, <2>2 DEF b
<1>5. QED
  BY <1>3, <1>4 DEF Flows

\* The kernel takes the first of the bytes that wait.
LEMMA TakenFlows ==
    ASSUME Buffers, Flows, Buffers', UNCHANGED encrypted, UNCHANGED <<closed, clientGone>>,
           \/ wire' \o Pending' = wire \o Pending /\ ~Broken
           \/ UNCHANGED wire /\ Broken
    PROVE  Flows'
<1>1. Stream' = Stream
  BY DEF Stream
<1>2. CASE wire' \o Pending' = wire \o Pending /\ ~Broken
  <2>1. wire' \o Pending' = Stream'
    BY <1>1, <1>2 DEF Flows
  <2>2. Pending' \in Seq(Byte)
    BY PendingType, FlattenType, ConcatProperties DEF Buffers, Pending
  <2>3. QED
    BY <2>1, <2>2 DEF Flows
<1>3. CASE UNCHANGED wire /\ Broken
  BY <1>1, <1>3 DEF Flows, Broken
<1>4. QED
  BY <1>2, <1>3

\* The kernel's part of the bytes and the rest make up all of them.
LEMMA Split ==
    ASSUME NEW bytes \in Seq(Byte), NEW n \in 1..Len(bytes)
    PROVE  /\ SubSeq(bytes, 1, n) \in Seq(Byte) /\ Rest(bytes, n) \in Seq(Byte)
           /\ SubSeq(bytes, 1, n) \o Rest(bytes, n) = bytes
           /\ Len(Rest(bytes, n)) = Len(bytes) - n
           /\ n = Len(bytes) => SubSeq(bytes, 1, n) = bytes /\ Rest(bytes, n) = <<>>
<1>1. Len(bytes) \in Nat /\ n \in Int /\ n + 1 \in Int /\ 1 \in Int
  BY LenProperties
<1>2. \A i \in 1..Len(bytes) : bytes[i] \in Byte
  BY ElementOfSeq
<1>3. SubSeq(bytes, 1, n) \in Seq(Byte)
  BY <1>1, <1>2, SubSeqProperties
<1>4. Rest(bytes, n) \in Seq(Byte) /\ Len(Rest(bytes, n)) = Len(bytes) - n
  BY <1>1, <1>2, SubSeqProperties DEF Rest
<1>5. SubSeq(bytes, 1, n) \o Rest(bytes, n) = SubSeq(bytes, 1, Len(bytes))
  BY <1>1, ConcatAdjacentSubSeq DEF Rest
<1>6. SubSeq(bytes, 1, Len(bytes)) = bytes
  BY SubSeqFull
<1>7. n = Len(bytes) => Rest(bytes, n) = <<>>
  BY <1>1, SubSeqEmpty DEF Rest
<1>8. QED
  BY <1>3, <1>4, <1>5, <1>6, <1>7

\* Whose turn it is to write: the other thread is not in HandleQueue.
LEMMA OnlyOneInQueue ==
    ASSUME LockIsHeld, NEW t \in {"network", "writer"}, pc[t] \in Writing, NEW place, Go(t, place),
           NEW u \in {"network", "writer"}, pc'[u] = "queue"
    PROVE  u = t /\ place = "queue"
  BY DEF LockIsHeld, Writing, Threads, Go

LEMMA WriteBufferFlows ==
    ASSUME SInv, NEW t \in {"network", "writer"}, WriteBuffer(t)
    PROVE  Buffers' /\ Flows'
<1> DEFINE F == FlattenSeq(writeQueue)
<1>1. LockIsHeld /\ pc[t] \in Writing /\ Buffers /\ Flows
  BY DEF SInv, IInv, WriteBuffer, Writing
<1>2. F \in Seq(Byte) /\ wire \in Seq(Byte) /\ writeBuffer \in Seq(Byte)
  BY <1>1, PendingType DEF Buffers
<1>3. UNCHANGED <<writeQueue, encrypted, closed>>
  BY DEF WriteBuffer, flags
<1>4. CASE \E n \in 1..Len(writeBuffer) : Taken(writeBuffer, n) /\ writeBuffer' = Rest(writeBuffer, n)
                                          /\ \/ n < Len(writeBuffer) /\ Go(t, "idle")
                                             \/ n = Len(writeBuffer) /\ Go(t, "queue")
  <2>1. PICK n \in 1..Len(writeBuffer) :
            /\ ~Broken /\ wire' = wire \o SubSeq(writeBuffer, 1, n) /\ UNCHANGED clientGone
            /\ writeBuffer' = Rest(writeBuffer, n)
            /\ \/ n < Len(writeBuffer) /\ Go(t, "idle")
               \/ n = Len(writeBuffer) /\ Go(t, "queue")
    BY <1>4 DEF Taken
  <2> DEFINE a == SubSeq(writeBuffer, 1, n)
             r == Rest(writeBuffer, n)
  <2>2. a \in Seq(Byte) /\ r \in Seq(Byte) /\ a \o r = writeBuffer /\ Len(r) = Len(writeBuffer) - n
        /\ (n = Len(writeBuffer) => r = <<>>)
    BY <1>2, Split
  <2> HIDE DEF a, r
  <2>3. Buffers'
    <3>1. wire' \in Seq(Byte) /\ writeBuffer' \in Seq(Byte) /\ writeQueue' \in Seq(Seq(Byte))
      BY <1>1, <1>2, <1>3, <2>1, <2>2, ConcatProperties DEF Buffers, a, r
    <3>2. Len(writeBuffer') <= BufferSize
      <4>1. Len(writeBuffer') = Len(writeBuffer) - n /\ Len(writeBuffer) \in Nat
        BY <1>2, <2>1, <2>2, LenProperties DEF r
      <4>2. QED
        BY <1>1, <4>1, SocketAssumption DEF Buffers
    <3>3. ASSUME NEW u \in {"network", "writer"}, pc'[u] = "queue" PROVE writeBuffer' = <<>>
      BY <1>1, <2>1, <2>2, <3>3, OnlyOneInQueue DEF r
    <3>4. QED
      BY <3>1, <3>2, <3>3 DEF Buffers
  <2>4. wire' \o Pending' = wire \o Pending
    <3> DEFINE w == r \o F
    <3>1. w \in Seq(Byte)
      BY <1>2, <2>2, ConcatProperties
    <3>2. Pending' = w /\ Pending = writeBuffer \o F /\ wire' = wire \o a
      BY <1>3, <2>1 DEF Pending, a, r
    <3>3. w = r \o F
      OBVIOUS
    <3> HIDE DEF F, w
    <3>0. wire \in Seq(Byte) /\ a \in Seq(Byte) /\ r \in Seq(Byte) /\ F \in Seq(Byte) /\ w \in Seq(Byte)
      BY <1>2, <2>2, <3>1
    <3>4. (wire \o a) \o w = wire \o (a \o w)
      <4>1. wire \in Seq(Byte) /\ a \in Seq(Byte) /\ w \in Seq(Byte)
        BY <3>0
      <4>2. QED
        BY ONLY <4>1, ConcatAll, SMTT(30)
    <3>5. (a \o r) \o F = a \o (r \o F)
      <4>1. a \in Seq(Byte) /\ r \in Seq(Byte) /\ F \in Seq(Byte)
        BY <3>0
      <4>2. QED
        BY ONLY <4>1, ConcatAll, SMTT(30)
    <3>6. (wire \o a) \o w = wire \o (writeBuffer \o F)
      BY ONLY <2>2, <3>3, <3>4, <3>5, Zenon
    <3>7. QED
      BY ONLY <3>2, <3>6
  <2>5. QED
    BY <1>1, <1>3, <2>1, <2>3, <2>4, TakenFlows
<1>5. CASE UNCHANGED <<writeBuffer, wire, clientGone>> /\ Go(t, "idle")
  <2>1. \A u \in {"network", "writer"} : pc'[u] = "queue" => pc[u] = "queue"
    BY <1>1, <1>5, OnlyOneInQueue
  <2>2. QED
    BY <1>1, <1>3, <1>5, <2>1, NothingFlows DEF buffers, Broken
<1>6. QED
  BY <1>4, <1>5 DEF WriteBuffer, Unlock, network

\* A message cut short is still the first of the queue.
LEMMA FlattenHead ==
    ASSUME NEW s \in Seq(Seq(Byte)), s # <<>>, NEW r \in Seq(Byte)
    PROVE  /\ [s EXCEPT ![1] = r] \in Seq(Seq(Byte))
           /\ FlattenSeq([s EXCEPT ![1] = r]) = r \o FlattenSeq(Tail(s))
<1> DEFINE t == [s EXCEPT ![1] = r]
<1>1. Len(s) \in Nat \ {0}
  BY EmptySeq
<1>2. t \in Seq(Seq(Byte)) /\ Len(t) = Len(s) /\ \A j \in 1..Len(s) : t[j] = IF j = 1 THEN r ELSE s[j]
  BY <1>1, ExceptSeq
<1> HIDE DEF t
<1>3. t # <<>>
  BY <1>1, <1>2, EmptySeq
<1>4. Head(t) = r
  <2>1. 1 \in 1..Len(s)
    BY <1>1
  <2>2. t[1] = r
    BY <1>2, <2>1, Zenon
  <2>3. Head(t) = t[1]
    OBVIOUS
  <2>4. QED
    BY <2>2, <2>3
<1>5. Tail(t) = Tail(s)
  <2>1. Tail(s) \in Seq(Seq(Byte)) /\ Tail(t) \in Seq(Seq(Byte))
        /\ Len(Tail(s)) = Len(s) - 1 /\ Len(Tail(t)) = Len(s) - 1
        /\ \A i \in 1..(Len(s) - 1) : Tail(t)[i] = t[i + 1] /\ Tail(s)[i] = s[i + 1]
    BY <1>2, <1>3, HeadTailProperties
  <2>2. \A i \in 1..(Len(s) - 1) : Tail(t)[i] = Tail(s)[i]
    BY <1>1, <1>2, <2>1
  <2>3. QED
    BY <2>1, <2>2, SeqEqual
<1>6. FlattenSeq(t) = Head(t) \o FlattenSeq(Tail(t))
  BY <1>2, <1>3, FlattenFirst
<1>7. QED
  BY <1>2, <1>4, <1>5, <1>6 DEF t

LEMMA HandleQueueFlows ==
    ASSUME SInv, NEW t \in {"network", "writer"}, HandleQueue(t)
    PROVE  Buffers' /\ Flows'
<1>1. LockIsHeld /\ pc[t] \in Writing /\ Buffers /\ Flows
  BY DEF SInv, IInv, HandleQueue, Writing
<1>2. UNCHANGED <<writeBuffer, encrypted, closed>> /\ writeBuffer = <<>>
  BY <1>1 DEF HandleQueue, flags, Buffers
<1>3. wire \in Seq(Byte) /\ writeQueue \in Seq(Seq(Byte))
  BY <1>1 DEF Buffers
<1>4. ASSUME wire' \in Seq(Byte), writeQueue' \in Seq(Seq(Byte)), Go(t, "idle") \/ Go(t, "open")
      PROVE  Buffers' /\ Pending' = FlattenSeq(writeQueue') /\ Pending = FlattenSeq(writeQueue)
  <2>1. Buffers'
    BY <1>1, <1>2, <1>4, OnlyOneInQueue DEF Buffers
  <2>2. FlattenSeq(writeQueue') \in Seq(Byte) /\ FlattenSeq(writeQueue) \in Seq(Byte)
    BY <1>3, <1>4, FlattenType
  <2>3. QED
    BY <1>2, <2>1, <2>2, ConcatEmptySeq DEF Pending
<1>5. Go(t, "idle") \/ Go(t, "open")
  BY DEF HandleQueue, Unlock, Again
<1>6. CASE UNCHANGED <<writeQueue, wire, clientGone>>
  <2>1. \A u \in {"network", "writer"} : pc'[u] = "queue" => pc[u] = "queue"
    BY <1>1, <1>5, OnlyOneInQueue
  <2>2. QED
    BY <1>1, <1>2, <1>6, <2>1, NothingFlows DEF buffers, Broken
<1>7. CASE writeQueue # <<>> /\ Broken /\ writeQueue' = Tail(writeQueue) /\ UNCHANGED <<wire, clientGone>>
  <2>1. Tail(writeQueue) \in Seq(Seq(Byte))
    BY <1>3, <1>7, HeadTailProperties
  <2>2. QED
    BY <1>1, <1>2, <1>3, <1>4, <1>5, <1>7, <2>1, TakenFlows
<1>8. CASE /\ writeQueue # <<>>
           /\ \E n \in 1..Len(Head(writeQueue)) :
                 /\ Taken(Head(writeQueue), n)
                 /\ \/ writeQueue' = [writeQueue EXCEPT ![1] = Rest(Head(writeQueue), n)]
                    \/ n = Len(Head(writeQueue)) /\ writeQueue' = Tail(writeQueue)
  <2> DEFINE m == Head(writeQueue)
             F == FlattenSeq(Tail(writeQueue))
  <2>1. PICK n \in 1..Len(m) :
           /\ ~Broken /\ wire' = wire \o SubSeq(m, 1, n) /\ UNCHANGED clientGone
           /\ \/ writeQueue' = [writeQueue EXCEPT ![1] = Rest(m, n)]
              \/ n = Len(m) /\ writeQueue' = Tail(writeQueue)
    BY <1>8 DEF Taken
  <2>2. m \in Seq(Byte) /\ Tail(writeQueue) \in Seq(Seq(Byte)) /\ F \in Seq(Byte)
    BY <1>3, <1>8, HeadTailProperties, FlattenType
  <2>3. FlattenSeq(writeQueue) = m \o F
    BY <1>3, <1>8, FlattenFirst
  <2> DEFINE a == SubSeq(m, 1, n)
             r == Rest(m, n)
  <2>4. a \in Seq(Byte) /\ r \in Seq(Byte) /\ a \o r = m /\ (n = Len(m) => r = <<>>)
    BY <2>2, Split
  <2>5. writeQueue' \in Seq(Seq(Byte)) /\ FlattenSeq(writeQueue') = r \o F
    <3>1. CASE writeQueue' = [writeQueue EXCEPT ![1] = r]
      BY <1>3, <1>8, <2>4, <3>1, FlattenHead
    <3>2. CASE n = Len(m) /\ writeQueue' = Tail(writeQueue)
      BY <2>2, <2>4, <3>2, ConcatEmptySeq
    <3>3. QED
      BY <2>1, <3>1, <3>2
  <2> HIDE DEF a, r, m, F
  <2>6. wire' = wire \o a
    BY <2>1 DEF a
  <2>7. wire' \in Seq(Byte)
    BY <1>3, <2>4, <2>6, ConcatProperties
  <2>8. wire' \o Pending' = wire \o Pending
    <3> DEFINE w == r \o F
    <3>1. w \in Seq(Byte)
      BY <2>2, <2>4, ConcatProperties
    <3>2. Pending' = w /\ Pending = m \o F
      BY <1>4, <1>5, <2>3, <2>5, <2>7
    <3>3. w = r \o F
      OBVIOUS
    <3> HIDE DEF w
    <3>0. wire \in Seq(Byte) /\ a \in Seq(Byte) /\ r \in Seq(Byte) /\ F \in Seq(Byte) /\ w \in Seq(Byte)
      BY <1>3, <2>2, <2>4, <3>1
    <3>4. (wire \o a) \o w = wire \o (a \o w)
      <4>1. wire \in Seq(Byte) /\ a \in Seq(Byte) /\ w \in Seq(Byte)
        BY <3>0
      <4>2. QED
        BY ONLY <4>1, ConcatAll, SMTT(30)
    <3>5. (a \o r) \o F = a \o (r \o F)
      <4>1. a \in Seq(Byte) /\ r \in Seq(Byte) /\ F \in Seq(Byte)
        BY <3>0
      <4>2. QED
        BY ONLY <4>1, ConcatAll, SMTT(30)
    <3>6. (wire \o a) \o w = wire \o (m \o F)
      BY ONLY <2>4, <3>3, <3>4, <3>5, Zenon
    <3>7. QED
      BY ONLY <2>6, <3>2, <3>6
  <2>9. Buffers'
    BY <1>4, <1>5, <2>5, <2>7
  <2>10. QED
    BY <1>1, <1>2, <2>1, <2>8, <2>9, TakenFlows
<1>9. QED
  BY <1>6, <1>7, <1>8 DEF HandleQueue, network

\* What is left of the invariant.
Rules == FlagTypes /\ NothingBeforeStart /\ Counted

\* A network thread or the writer moves, and nothing was there to be written
\* before Start.
LEMMA WriterRules ==
    ASSUME SInv, NEW t \in {"network", "writer"}, NEW place, Go(t, place),
           UNCHANGED <<encrypted, session>>, FlagTypes',
           UNCHANGED <<wire, writeBuffer, writeQueue>> \/ writeBuffer # <<>> \/ writeQueue # <<>>
    PROVE  Rules'
<1>1. \A u \in {"reader", "world", "acceptor"} : pc'[u] = pc[u]
  BY DEF SInv, IInv, LockIsHeld, Threads, Go
<1>2. NothingBeforeStart'
  BY <1>1 DEF SInv, NothingBeforeStart
<1>3. Counted'
  BY <1>1 DEF SInv, Counted, Sending
<1>4. QED
  BY <1>2, <1>3 DEF Rules

LEMMA WritesKeep ==
    ASSUME SInv, NEW t \in {"network", "writer"}, Writes(t)
    PROVE  SInv'
<1>1. IInv'
  BY WritesOK DEF SInv
<1>2. CASE WriteHandler(t)
  <2>1. Go(t, "write") \/ Go(t, "idle")
    BY <1>2 DEF WriteHandler, Unlock
  <2>2. \A u \in {"network", "writer"} : pc'[u] = "queue" => pc[u] = "queue"
    BY <1>2, <2>1, OnlyOneInQueue DEF SInv, IInv, WriteHandler, Writing
  <2>3. UNCHANGED <<wire, buffers, clientGone, closed>> /\ UNCHANGED <<async, reading, network, membership, session>>
    BY <1>2 DEF WriteHandler, network, flags
  <2>4. Buffers' /\ Flows'
    BY <2>2, <2>3, NothingFlows DEF SInv, Broken
  <2>5. FlagTypes'
    BY <2>3 DEF SInv, FlagTypes, async, reading, network
  <2>6. Rules'
    BY <2>1, <2>3, <2>5, WriterRules DEF buffers
  <2>7. QED
    BY <1>1, <2>4, <2>6 DEF SInv, Rules
<1>3. CASE WriteBuffer(t)
  <2>1. Buffers' /\ Flows'
    BY <1>3, WriteBufferFlows
  <2>2. Go(t, "queue") \/ Go(t, "idle")
    BY <1>3 DEF WriteBuffer, Unlock
  <2>3. UNCHANGED <<encrypted, session, reading, membership>> /\ writeBuffer # <<>>
    BY <1>3 DEF WriteBuffer
  <2>4. /\ isWritingAsync' \in {isWritingAsync, TRUE} /\ writeOp' \in {writeOp, writeOp \/ ~isWritingAsync}
        /\ full' \in {full, TRUE, FALSE} /\ clientGone' = clientGone
    BY <1>3 DEF WriteBuffer, AsyncProcessQueue, Taken, async, network
  <2>5. FlagTypes'
    BY <2>3, <2>4 DEF SInv, FlagTypes, reading
  <2>6. Rules'
    BY <2>2, <2>3, <2>5, WriterRules
  <2>7. QED
    BY <1>1, <2>1, <2>6 DEF SInv, Rules
<1>4. CASE HandleQueue(t)
  <2>1. Buffers' /\ Flows'
    BY <1>4, HandleQueueFlows
  <2>2. Go(t, "open") \/ Go(t, "idle")
    BY <1>4 DEF HandleQueue, Unlock, Again
  <2>3. UNCHANGED <<encrypted, session, reading, membership, writeBuffer>>
        /\ (UNCHANGED <<wire, writeQueue>> \/ writeQueue # <<>>)
    BY <1>4 DEF HandleQueue, network
  <2>4. /\ isWritingAsync' \in {isWritingAsync, TRUE} /\ writeOp' \in {writeOp, writeOp \/ ~isWritingAsync}
        /\ full' \in {full, TRUE, FALSE} /\ clientGone' = clientGone
    BY <1>4 DEF HandleQueue, AsyncProcessQueue, Taken, async, network
  <2>5. FlagTypes'
    BY <2>3, <2>4 DEF SInv, FlagTypes, reading
  <2>6. Rules'
    BY <2>2, <2>3, <2>5, WriterRules
  <2>7. QED
    BY <1>1, <2>1, <2>6 DEF SInv, Rules
<1>5. QED
  BY <1>2, <1>3, <1>4 DEF Writes

\* Steps that leave the bytes alone and bring nobody to HandleQueue.
LEMMA SilentKeep ==
    ASSUME SInv, IInv', UNCHANGED <<wire, buffers>>, Broken => Broken', Rules',
           \/ UNCHANGED pc
           \/ \E t \in Threads, place \in {"add", "idle", "try", "lock", "open", "handle", "send", "push", "next"} :
                 Go(t, place)
    PROVE  SInv'
<1>1. \A u \in {"network", "writer"} : pc'[u] = "queue" => pc[u] = "queue"
  BY DEF SInv, IInv, LockIsHeld, Threads, Go
<1>2. QED
  BY <1>1, NothingFlows DEF SInv, Rules

LEMMA FlagsStay ==
    ASSUME closed' \in {closed, TRUE}, clientGone' \in {clientGone, TRUE}
    PROVE  Broken => Broken'
<1>1. closed' = closed \/ closed' = TRUE
  OBVIOUS
<1>2. clientGone' = clientGone \/ clientGone' = TRUE
  OBVIOUS
<1>3. closed => closed'
  BY ONLY <1>1
<1>4. clientGone => clientGone'
  BY ONLY <1>2
<1>5. QED
  BY <1>3, <1>4 DEF Broken

LEMMA NetworkKeeps ==
    ASSUME SInv, IInv', Network
    PROVE  SInv'
<1> USE DEF Threads
<1>1. CASE AddNewSockets \/ RemoveSocket
  <2>1. UNCHANGED <<flags, buffers, async, reading, network, pc, session>>
        /\ membership' \in {"listed", "removed"}
    BY <1>1 DEF AddNewSockets, RemoveSocket
  <2>2. Rules'
    BY <2>1 DEF SInv, Rules, FlagTypes, NothingBeforeStart, Counted, Sending, buffers, async, reading, network
  <2>3. QED
    BY <2>1, <2>2, SilentKeep DEF flags, network, Broken
<1>2. CASE Update \/ TryLock
  <2>1. UNCHANGED <<flags, buffers, async, reading, network, membership, session>>
        /\ \E place \in {"idle", "try", "open"} : Go("network", place)
    BY <1>2 DEF Update, TryLock
  <2>2. FlagTypes'
    BY <2>1 DEF SInv, FlagTypes, async, reading, network
  <2>3. Rules'
    BY <2>1, <2>2, WriterRules DEF buffers, network
  <2>4. QED
    BY <2>1, <2>3, SilentKeep DEF flags, network, Broken
<1>3. CASE Writes("network")
  BY <1>3, WritesKeep
<1>4. QED
  BY <1>1, <1>2, <1>3 DEF Network

LEMMA WriterKeeps ==
    ASSUME SInv, IInv', Writer
    PROVE  SInv'
<1> USE DEF Threads
<1>1. CASE WriteReady \/ WriteHandlerWrapper
  <2>1. UNCHANGED <<flags, buffers, reading, network, membership, session>>
        /\ isWritingAsync' \in {isWritingAsync, FALSE} /\ writeOp' \in {writeOp, FALSE}
        /\ \E place \in {"lock", "open"} : Go("writer", place)
    BY <1>1 DEF WriteReady, WriteHandlerWrapper
  <2>2. FlagTypes'
    BY <2>1 DEF SInv, FlagTypes, reading, network
  <2>3. Rules'
    BY <2>1, <2>2, WriterRules DEF buffers, network
  <2>4. QED
    BY <2>1, <2>3, SilentKeep DEF flags, network, Broken
<1>2. CASE Writes("writer")
  BY <1>2, WritesKeep
<1>3. QED
  BY <1>1, <1>2 DEF Writer

\* SendPacket: the packet goes where the bytes before it went.
LEMMA SendPacketKeeps ==
    ASSUME SInv, IInv', NEW t \in {"reader", "world"}, NEW done \in {"idle", "next"}, SendPacket(t, done)
    PROVE  SInv'
<1> DEFINE b == Bytes(encrypted + 1)
           F == FlattenSeq(writeQueue)
<1>1. encrypted \in Nat /\ encrypted' = encrypted + 1 /\ b \in Seq(Byte) /\ Len(b) = PacketSize
  BY BytesType DEF SInv, Counted, SendPacket
<1>2. /\ Go(t, done) /\ pc[t] = "push" /\ writeLock = "none"
      /\ UNCHANGED <<wire, closed, clientGone>> /\ UNCHANGED <<async, reading, network, membership, session>>
  BY DEF SendPacket, flags, network
<1>3. wire \in Seq(Byte) /\ writeBuffer \in Seq(Byte) /\ writeQueue \in Seq(Seq(Byte)) /\ F \in Seq(Byte)
  BY FlattenType DEF SInv, Buffers
<1>4. \A u \in {"network", "writer"} : pc'[u] # "queue"
  BY <1>2 DEF SInv, IInv, LockIsHeld, Writing, Threads, Go
<1>5. Rules'
  <2>1. pc["acceptor"] # "start" /\ pc'["acceptor"] # "start"
    BY <1>2 DEF SInv, NothingBeforeStart, Go, IInv, LockIsHeld, Threads
  <2>2. Counted'
    BY <1>1, <1>2 DEF SInv, IInv, LockIsHeld, Threads, Counted, Sending, Go
  <2>3. FlagTypes'
    BY <1>2 DEF SInv, FlagTypes, async, reading, network
  <2>4. QED
    BY <2>1, <2>2, <2>3 DEF Rules, NothingBeforeStart
<1>6. Buffers' /\ Pending' = Pending \o b
  <2> HIDE DEF b
  <2>1. CASE Fits
    <3>1. writeBuffer' = writeBuffer \o b /\ UNCHANGED writeQueue /\ writeQueue = <<>>
          /\ BufferSize - Len(writeBuffer) >= PacketSize
      BY <2>1 DEF SendPacket, Fits, b
    <3>2. writeBuffer' \in Seq(Byte) /\ Len(writeBuffer') = Len(writeBuffer) + PacketSize /\ Len(writeBuffer) \in Nat
      BY <1>1, <1>3, <3>1, ConcatProperties, LenProperties
    <3>3. Len(writeBuffer') <= BufferSize
      BY <3>1, <3>2, SocketAssumption
    <3>4. Pending' = writeBuffer' /\ Pending = writeBuffer
      BY <1>3, <3>1, <3>2, FlattenEmpty, ConcatEmptySeq DEF Pending
    <3>5. QED
      BY <1>2, <1>3, <1>4, <3>1, <3>2, <3>3, <3>4 DEF Buffers
  <2>2. CASE ~Fits
    <3>1. writeQueue' = Append(writeQueue, b) /\ UNCHANGED writeBuffer
      BY <2>2 DEF SendPacket, b
    <3>2. writeQueue' \in Seq(Seq(Byte))
      BY <1>1, <1>3, <3>1, AppendProperties
    <3>3. FlattenSeq(writeQueue') = F \o b
      BY <1>1, <1>3, <3>1, FlattenAppend
    <3>4. Pending' = writeBuffer \o (F \o b) /\ Pending = writeBuffer \o F
      BY <3>1, <3>3 DEF Pending
    <3>5. (writeBuffer \o F) \o b = writeBuffer \o (F \o b)
      <4>1. writeBuffer \in Seq(Byte) /\ F \in Seq(Byte) /\ b \in Seq(Byte)
        BY <1>1, <1>3
      <4> HIDE DEF F
      <4>2. QED
        BY ONLY <4>1, ConcatAll
    <3>6. Buffers'
      BY <1>2, <1>3, <1>4, <3>1, <3>2 DEF SInv, Buffers
    <3>7. QED
      BY <3>4, <3>5, <3>6
  <2>3. QED
    BY <2>1, <2>2
<1>7. Flows'
  BY <1>1, <1>2, <1>6, PacketFlows DEF SInv
<1>8. QED
  BY <1>5, <1>6, <1>7 DEF SInv, Rules

\* Start queues the first packet, and nobody else has anything to do yet.
LEMMA StartKeeps ==
    ASSUME SInv, IInv', Start
    PROVE  SInv'
<1> DEFINE b == Bytes(encrypted + 1)
<1>1. /\ encrypted = 0 /\ encrypted' = 1 /\ writeBuffer = <<>> /\ writeQueue = <<>> /\ b \in Seq(Byte)
      /\ pc["reader"] = "idle" /\ pc["world"] = "idle" /\ b = Bytes(1)
  <2>1. encrypted = 0 /\ Bytes(0 + 1) \in Seq(Byte)
    BY BytesType DEF SInv, NothingBeforeStart, Start
  <2>2. QED
    BY <2>1 DEF SInv, NothingBeforeStart, Start
<1> HIDE DEF b
<1>2. /\ Go("acceptor", "add") /\ writeQueue' = Append(writeQueue, b)
      /\ UNCHANGED <<wire, closed, clientGone, writeBuffer>>
      /\ UNCHANGED <<async, reading, network, membership, session>>
  BY <1>1 DEF Start, flags, network
<1>3. Rules'
  <2>1. pc'["acceptor"] # "start" /\ pc'["reader"] = "idle" /\ pc'["world"] = "idle"
    BY <1>1, <1>2 DEF SInv, IInv, LockIsHeld, Threads, Go
  <2>2. Counted'
    BY <1>1, <2>1, SocketAssumption DEF Counted, Sending
  <2>3. FlagTypes'
    BY <1>2 DEF SInv, FlagTypes, async, reading, network
  <2>4. QED
    BY <2>1, <2>2, <2>3 DEF Rules, NothingBeforeStart
<1>4. writeQueue' \in Seq(Seq(Byte)) /\ FlattenSeq(writeQueue') = FlattenSeq(writeQueue) \o b
  BY <1>1, <1>2, AppendProperties, FlattenAppend DEF SInv, Buffers
<1>5. Buffers'
  BY <1>1, <1>2, <1>4 DEF SInv, Buffers
<1>6. Pending' = Pending \o b
  <2>1. FlattenSeq(writeQueue') = b /\ FlattenSeq(writeQueue) = <<>>
    BY <1>1, <1>4, FlattenEmpty, ConcatEmptySeq
  <2>2. Pending' = b /\ Pending = <<>>
    BY <1>1, <1>2, <2>1, ConcatEmptySeq, EmptySeq DEF Pending
  <2>3. QED
    BY <1>1, <2>2, ConcatEmptySeq
<1>7. Flows'
  <2>1. encrypted \in Nat /\ encrypted' = encrypted + 1
    BY <1>1
  <2>2. QED
    BY <1>2, <1>6, <2>1, PacketFlows DEF SInv, b
<1>8. QED
  BY <1>3, <1>5, <1>7 DEF SInv, Rules

\* The other steps of the reader and of the world thread: who goes to "send"
\* has counted itself.
LEMMA ReaderRules ==
    ASSUME SInv, NEW t \in {"reader", "world"}, NEW place, Go(t, place), FlagTypes',
           UNCHANGED <<encrypted, wire, writeBuffer, writeQueue>>,
           pc[t] # "idle" \/ session # "none" \/ (place = "idle" /\ UNCHANGED session),
           \/ place \notin {"send", "push"} \/ pc[t] = "send" \/ CanSend
    PROVE  Rules'
<1>1. /\ \A u \in Threads \ {t} : pc'[u] = pc[u]
      /\ pc'[t] = place
  BY DEF SInv, IInv, LockIsHeld, Threads, Go
<1>2. NothingBeforeStart'
  BY <1>1 DEF SInv, NothingBeforeStart, Threads
<1>3. Counted'
  <2>1. /\ \A u \in {"reader", "world"} \ {t} : Sending(u)' = Sending(u)
        /\ \A u \in {"reader", "world"} : Sending(u) \in {0, 1} /\ Sending(u)' \in {0, 1}
        /\ place \notin {"send", "push"} => Sending(t)' = 0
        /\ pc[t] = "send" => Sending(t) = 1
    BY <1>1 DEF Sending, Threads
  <2>2. encrypted' = encrypted /\ encrypted \in Nat
        /\ encrypted + Sending("reader") + Sending("world") <= MaxPackets
    BY DEF SInv, Counted
  <2>3. encrypted' + Sending("reader")' + Sending("world")' <= MaxPackets
    <3>1. CASE place \notin {"send", "push"} \/ pc[t] = "send"
      BY <2>1, <2>2, <3>1, SocketAssumption
    <3>2. CASE CanSend
      BY <2>1, <2>2, <3>2, SocketAssumption DEF CanSend
    <3>3. QED
      BY <3>1, <3>2
  <2>4. QED
    BY <2>2, <2>3 DEF Counted
<1>4. QED
  BY <1>2, <1>3 DEF Rules

LEMMA ReaderKeeps ==
    ASSUME SInv, IInv', Reader
    PROVE  SInv'
<1>1. CASE SendPacket("reader", "next")
  BY <1>1, SendPacketKeeps
<1>2. CASE DelayedCloseSocket
  <2>1. UNCHANGED <<closed, buffers, async, readOp, initialized, network, pc, membership, session>>
        /\ denied' = FALSE
    BY <1>2 DEF DelayedCloseSocket
  <2>2. Rules'
    BY <2>1 DEF SInv, Rules, FlagTypes, NothingBeforeStart, Counted, Sending, buffers, async, network
  <2>3. QED
    BY <2>1, <2>2, SilentKeep DEF network, Broken
<1>3. CASE \/ Malformed \/ HandleSendAuthSession \/ HandleAuthSession \/ HandlePing \/ RefusePing
           \/ QueueToSession \/ SendIfOpen("reader", "next") \/ NextMessage
  <2>1. /\ closed' \in {closed, TRUE} /\ UNCHANGED <<buffers, async, network, membership>>
        /\ initialized' \in {initialized, TRUE} /\ denied' \in {denied, TRUE}
        /\ readOp' \in {readOp, IsOpen} /\ session' \in {session, "live"} /\ pc["reader"] # "idle"
    BY <1>3 DEF Malformed, HandleSendAuthSession, HandleAuthSession, HandlePing, RefusePing, QueueToSession,
                SendIfOpen, NextMessage, CloseSocket, flags, reading
  <2>2. \E place \in {"idle", "next", "send", "push", "handle"} :
            Go("reader", place) /\ (place \notin {"send", "push"} \/ pc["reader"] = "send" \/ CanSend)
    BY <1>3 DEF Malformed, HandleSendAuthSession, HandleAuthSession, HandlePing, RefusePing, QueueToSession,
                SendIfOpen, NextMessage
  <2>3. FlagTypes'
    BY <2>1 DEF SInv, FlagTypes, async, network, IsOpen
  <2>4. Rules'
    BY <2>1, <2>2, <2>3, ReaderRules DEF buffers, network
  <2>5. QED
    BY <2>1, <2>2, <2>4, FlagsStay, SilentKeep DEF network, Threads
<1>4. QED
  BY <1>1, <1>2, <1>3 DEF Reader

LEMMA WorldKeeps ==
    ASSUME SInv, IInv', World \/ SessionSends \/ KickPlayer \/ EndSession
    PROVE  SInv'
<1>1. CASE SendPacket("world", "idle")
  BY <1>1, SendPacketKeeps
<1>2. CASE SendIfOpen("world", "idle") \/ SessionSends
  <2>1. UNCHANGED <<flags, buffers, async, reading, network, membership, session>>
        /\ (pc["world"] # "idle" \/ session # "none")
    BY <1>2 DEF SendIfOpen, SessionSends
  <2>2. \E place \in {"idle", "send", "push"} :
            Go("world", place) /\ (place \notin {"send", "push"} \/ pc["world"] = "send" \/ CanSend)
    BY <1>2 DEF SendIfOpen, SessionSends
  <2>3. FlagTypes'
    BY <2>1 DEF SInv, FlagTypes, async, reading, network
  <2>4. Rules'
    BY <2>1, <2>2, <2>3, ReaderRules DEF buffers, network
  <2>5. QED
    BY <2>1, <2>2, <2>4, SilentKeep DEF flags, network, Broken, Threads
<1>3. CASE KickPlayer \/ EndSession
  <2>1. UNCHANGED <<buffers, async, reading, network, membership, pc>> /\ closed' \in {closed, TRUE}
        /\ session' \in {session, "deleted"} /\ session # "none"
    BY <1>3 DEF KickPlayer, EndSession, CloseSocket, flags
  <2>2. Rules'
    BY <2>1 DEF SInv, Rules, FlagTypes, NothingBeforeStart, Counted, Sending, buffers, async, reading, network
  <2>3. QED
    BY <2>1, <2>2, FlagsStay, SilentKeep DEF network
<1>4. QED
  BY <1>1, <1>2, <1>3 DEF World

LEMMA OthersKeep ==
    ASSUME SInv, IInv', AddSocket \/ ClientReads \/ ClientLeaves \/ ReadCompletes
    PROVE  SInv'
<1>1. CASE AddSocket
  <2>1. UNCHANGED <<flags, buffers, async, reading, network, session>> /\ Go("acceptor", "idle")
        /\ membership' = "new"
    BY <1>1 DEF AddSocket
  <2>2. pc'["acceptor"] = "idle" /\ pc'["reader"] = pc["reader"] /\ pc'["world"] = pc["world"]
    BY <2>1 DEF SInv, IInv, LockIsHeld, Threads, Go
  <2>3. Rules'
    BY <2>1, <2>2 DEF SInv, Rules, FlagTypes, NothingBeforeStart, Counted, Sending, buffers, async, reading, network
  <2>4. QED
    BY <2>1, <2>3, SilentKeep DEF flags, network, Broken, Threads
<1>2. CASE ClientReads \/ ClientLeaves
  <2>1. UNCHANGED <<flags, buffers, async, reading, wire, pc, membership, session>>
        /\ full' \in {full, FALSE} /\ clientGone' \in {clientGone, TRUE}
    BY <1>2 DEF ClientReads, ClientLeaves
  <2>2. Rules'
    BY <2>1 DEF SInv, Rules, FlagTypes, NothingBeforeStart, Counted, Sending, buffers, async, reading
  <2>3. QED
    BY <2>1, <2>2, FlagsStay, SilentKeep DEF flags
<1>3. CASE ReadCompletes
  <2>1. UNCHANGED <<buffers, async, initialized, denied, network, membership, session>>
        /\ readOp' = FALSE /\ closed' \in {closed, TRUE}
    BY <1>3 DEF ReadCompletes, CloseSocket, flags
  <2>2. FlagTypes'
    BY <2>1 DEF SInv, FlagTypes, async, network
  <2>3. CASE UNCHANGED pc
    <3>1. Rules'
      BY <2>1, <2>2, <2>3 DEF SInv, Rules, NothingBeforeStart, Counted, Sending, buffers, network
    <3>2. QED
      BY <2>1, <2>3, <3>1, FlagsStay, SilentKeep DEF network
  <2>4. CASE \E place \in {"handle", "idle"} : Go("reader", place) /\ Len(wire) >= PacketSize
    <3>1. PICK place \in {"handle", "idle"} : Go("reader", place) /\ Len(wire) >= PacketSize
      BY <2>4
    <3>2. pc["acceptor"] # "start"
      <4>1. wire # <<>>
        BY <3>1, SocketAssumption, EmptySeq
      <4>2. QED
        BY <4>1 DEF SInv, NothingBeforeStart
    <3>3. pc'["acceptor"] = pc["acceptor"] /\ pc'["reader"] = place /\ pc'["world"] = pc["world"]
      BY <3>1 DEF SInv, IInv, LockIsHeld, Threads, Go
    <3>4. Counted'
      <4>1. /\ Sending("reader")' = 0 /\ Sending("world")' = Sending("world")
            /\ Sending("reader") \in {0, 1} /\ Sending("world") \in {0, 1}
        BY <3>3 DEF Sending
      <4>2. encrypted' = encrypted
        BY <2>1 DEF buffers
      <4>3. QED
        BY <4>1, <4>2, SocketAssumption DEF SInv, Counted
    <3>5. Rules'
      BY <2>2, <3>2, <3>3, <3>4 DEF Rules, NothingBeforeStart
    <3>6. QED
      BY <2>1, <3>1, <3>5, FlagsStay, SilentKeep DEF network, Threads
  <2>5. QED
    BY <1>3, <2>3, <2>4 DEF ReadCompletes
<1>4. QED
  BY <1>1, <1>2, <1>3

LEMMA SInvInit == Init => SInv
<1> SUFFICES ASSUME Init PROVE SInv
  OBVIOUS
<1>1. IInv
  BY DEF Init, IInv, FlagsOK, LockIsHeld, SessionOutlivesSocket, IsOpen, Writing, Threads
<1>2. FlagTypes /\ NothingBeforeStart
  BY DEF Init, FlagTypes, NothingBeforeStart, Threads
<1>3. Counted
  BY SocketAssumption DEF Init, Counted, Sending, Threads
<1>4. Buffers
  BY SocketAssumption, EmptySeq DEF Init, Buffers, Threads
<1>5. Pending = <<>>
  BY FlattenEmpty, ConcatEmptySeq, EmptySeq DEF Init, Pending
<1>6. Stream = <<>>
  <2>1. Len(Packets(0)) = 0 /\ Packets(0) = <<>>
    BY DEF Packets
  <2>2. QED
    BY <2>1, FlattenEmpty DEF Init, Stream, Packets
<1>7. Flows
  BY <1>5, <1>6, ConcatEmptySeq, EmptySeq DEF Init, Flows
<1>8. QED
  BY <1>1, <1>2, <1>3, <1>4, <1>7 DEF SInv

LEMMA SInvNext == SInv /\ [Next]_vars => SInv'
<1> SUFFICES ASSUME SInv, [Next]_vars PROVE SInv'
  OBVIOUS
<1>1. IInv'
  BY InductiveStep DEF SInv
<1>2. CASE UNCHANGED vars
  <2>1. Rules'
    BY <1>2 DEF SInv, Rules, FlagTypes, NothingBeforeStart, Counted, Sending, vars, buffers, async, reading, network
  <2>2. QED
    BY <1>1, <1>2, <2>1, SilentKeep DEF vars, flags, network, Broken
<1>3. CASE Next
  BY <1>1, <1>3, StartKeeps, NetworkKeeps, WriterKeeps, ReaderKeeps, WorldKeeps, OthersKeep DEF Next
<1>4. QED
  BY <1>2, <1>3

LEMMA PrefixOfConcat ==
    ASSUME NEW s \in Seq(Byte), NEW r \in Seq(Byte)
    PROVE  IsPrefix(s, s \o r)
<1>1. Len(s) \in Nat /\ Len(r) \in Nat /\ Len(s \o r) = Len(s) + Len(r)
  BY LenProperties, ConcatProperties
<1>2. SubSeq(s \o r, 1, Len(s)) = SubSeq(s, 1, Len(s))
  <2>1. CASE Len(s) = 0
    BY <2>1, SubSeqEmpty
  <2>2. CASE Len(s) # 0
    BY <1>1, <2>2, SubSeqOfConcat1
  <2>3. QED
    BY <2>1, <2>2
<1>3. QED
  BY <1>1, <1>2 DEF IsPrefix

\* The bytes on the wire are those that EncryptSend produced, in that order,
\* none twice and none missing, however the kernel splits them, whichever
\* thread writes and whether a packet went to _writeBuffer or to _writeQueue.
THEOREM BytesStayInOrder == Spec => []StreamInOrder
<1>1. SInv => StreamInOrder
  <2> SUFFICES ASSUME SInv PROVE StreamInOrder
    OBVIOUS
  <2>1. TypeOK
    <3>1. encrypted \in 0..MaxPackets
      BY SocketAssumption DEF SInv, Counted, Sending
    <3>2. QED
      BY <3>1 DEF SInv, IInv, FlagsOK, LockIsHeld, FlagTypes, Buffers, TypeOK
  <2>2. IsPrefix(wire, Stream)
    BY PrefixOfConcat DEF SInv, Flows, Buffers
  <2>3. QED
    BY <2>1, <2>2 DEF StreamInOrder, SInv, Flows, Broken
<1>2. QED
  BY <1>1, SInvInit, SInvNext, PTL DEF Spec

================================================================================
