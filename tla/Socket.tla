-------------------------------- MODULE Socket -------------------------------
(***************************************************************************)
(* shared/Networking: one Socket in the NetworkThread that updates it,     *)
(* with WorldSocket's packets and its session (build without IOCP).  Four  *)
(* threads work on it: the network thread calls Update over and over, one  *)
(* io_service thread runs ReadHandler, another may run WriteHandlerWrapper *)
(* at the same time, and the world thread sends and ends the session.      *)
(* _writeLock is held through the steps of a thread whose pc says so; what *)
(* the flags _closed and _closing are may change under it.                 *)
(***************************************************************************)
EXTENDS Integers, SequencesExt

CONSTANTS PacketSize,  \* bytes of a packet
          BufferSize,  \* bytes of _writeBuffer
          MaxPackets   \* bound: packets sent to the client

ASSUME SocketAssumption ==
    PacketSize \in Nat \ {0} /\ BufferSize \in Nat /\ MaxPackets \in Nat \ {0}

VARIABLES
    closed, closing,         \* _closed, _closing
    writeBuffer, writeQueue, \* bytes, and the messages that did not fit
    isWritingAsync,
    writeLock,               \* the thread that holds it, or "none"
    pc,                      \* where each thread is
    readOp, writeOp,         \* an asynchronous operation is pending, and keeps
                             \* a shared_ptr to the socket
    membership,              \* in which set of the NetworkThread the socket is
    initialized,             \* _initialized
    session,                 \* what _worldSession points to; a deleted session
                             \* stays there
    denied,                  \* HandleAuthSession is about to close the socket
    encrypted,               \* packets that passed EncryptSend
    wire,                    \* bytes the kernel has taken
    full, clientGone         \* the kernel takes no more for now; the client is gone
                             \* and both directions fail

flags == <<closed, closing>>
buffers == <<writeBuffer, writeQueue, encrypted>>
async == <<isWritingAsync, writeOp>>
reading == <<readOp, initialized, denied>>
network == <<wire, full, clientGone>>
vars == <<flags, buffers, async, reading, network, writeLock, pc, membership, session>>

Threads == {"network", "reader", "writer", "world", "acceptor"}
IsOpen == ~closed /\ ~closing

Bytes(n) == [k \in 1..PacketSize |-> <<n, k>>]
Go(t, place) == pc' = [pc EXCEPT ![t] = place]

\* WorldSocket::Start has begun: AsyncRead was called.
Init ==
    /\ closed = FALSE /\ closing = FALSE
    /\ writeBuffer = <<>> /\ writeQueue = <<>> /\ encrypted = 0
    /\ isWritingAsync = FALSE /\ writeOp = FALSE /\ readOp = TRUE
    /\ writeLock = "none" /\ membership = "none"
    /\ pc = [t \in Threads |-> IF t = "acceptor" THEN "start" ELSE "idle"]
    /\ initialized = FALSE /\ session = "none" /\ denied = FALSE
    /\ wire = <<>> /\ full = FALSE /\ clientGone = FALSE

------------------------------------------------------------------------------
(* Opening and closing.                                                     *)

\* The rest of Start queues the initializer, without the lock; then
\* OnSocketOpen hands the socket to a network thread.
Start ==
    /\ pc["acceptor"] = "start" /\ Go("acceptor", "add")
    /\ writeQueue' = Append(writeQueue, Bytes(1)) /\ encrypted' = 1
    /\ UNCHANGED <<flags, writeBuffer, async, reading, network, writeLock, membership, session>>

AddSocket ==
    /\ pc["acceptor"] = "add" /\ Go("acceptor", "idle")
    /\ membership' = "new"
    /\ UNCHANGED <<flags, buffers, async, reading, network, writeLock, session>>

\* Later calls change nothing.
CloseSocket == closed' = TRUE /\ UNCHANGED closing

\* The client reads what the kernel holds, or goes away, as it does once it
\* was told that the server sends no more.
ClientReads ==
    /\ full /\ full' = FALSE
    /\ UNCHANGED <<flags, buffers, async, reading, wire, clientGone, writeLock, pc, membership, session>>

ClientLeaves ==
    /\ ~clientGone /\ clientGone' = TRUE
    /\ UNCHANGED <<flags, buffers, async, reading, wire, full, writeLock, pc, membership, session>>

------------------------------------------------------------------------------
(* Writing, by the thread t that holds _writeLock.                          *)

Unlock(t) == writeLock' = "none" /\ Go(t, "idle")

\* Faulty variant: the flag is set and nothing will ever clear it.
ProcessQueueSilently == isWritingAsync' = TRUE /\ UNCHANGED writeOp

AsyncProcessQueue ==
    /\ isWritingAsync' = TRUE
    /\ writeOp' = (writeOp \/ ~isWritingAsync)

\* The loop of Update calls WriteHandler again, WriteHandlerWrapper does not.
Again(t) ==
    IF t = "network" THEN Go(t, "open") /\ UNCHANGED writeLock ELSE Unlock(t)

\* WriteHandler's first test.
WriteHandler(t) ==
    /\ pc[t] = "open"
    /\ \/ IsOpen /\ Go(t, "write") /\ UNCHANGED writeLock
       \/ ~IsOpen /\ Unlock(t)
    /\ UNCHANGED <<flags, buffers, async, reading, network, membership, session>>

\* write_some: the kernel takes n of the bytes, or says that it is full, or
\* that the connection is gone.  HandleQueue drops the message in that case.
Broken == closed \/ clientGone
Taken(bytes, n) ==
    /\ ~full /\ ~Broken /\ n \in 1..Len(bytes)
    /\ wire' = wire \o SubSeq(bytes, 1, n)
    /\ full' \in (IF n < Len(bytes) THEN {TRUE} ELSE BOOLEAN)
    /\ UNCHANGED clientGone
WouldBlock == full /\ ~Broken
Rest(bytes, n) == SubSeq(bytes, n + 1, Len(bytes))

WriteBuffer(t) ==
    /\ pc[t] = "write" /\ writeBuffer # <<>>
    /\ \/ \E n \in 1..Len(writeBuffer) :
             /\ Taken(writeBuffer, n)
             /\ writeBuffer' = Rest(writeBuffer, n)
             /\ \/ n < Len(writeBuffer) /\ AsyncProcessQueue /\ Unlock(t)
                \/ n = Len(writeBuffer) /\ Go(t, "queue") /\ UNCHANGED <<async, writeLock>>
       \/ /\ WouldBlock /\ AsyncProcessQueue /\ Unlock(t)
          /\ UNCHANGED <<writeBuffer, network>>
       \/ /\ Broken /\ Unlock(t)
          /\ UNCHANGED <<writeBuffer, async, network>>
    /\ UNCHANGED <<flags, writeQueue, encrypted, reading, membership, session>>

HandleQueue(t) ==
    /\ pc[t] = "queue" \/ (pc[t] = "write" /\ writeBuffer = <<>>)
    /\ \/ /\ writeQueue = <<>> /\ Unlock(t)
          /\ UNCHANGED <<writeQueue, async, network>>
       \/ /\ writeQueue # <<>>
          /\ LET message == Head(writeQueue) IN
             \/ \E n \in 1..Len(message) :
                   /\ Taken(message, n)
                   /\ \/ /\ n < Len(message) /\ AsyncProcessQueue /\ Unlock(t)
                         /\ writeQueue' = [writeQueue EXCEPT ![1] = Rest(message, n)]
                      \/ /\ n = Len(message)
                         /\ writeQueue' = Tail(writeQueue)
                         /\ IF Tail(writeQueue) = <<>> THEN Unlock(t) ELSE Again(t)
                         /\ UNCHANGED async
             \/ /\ WouldBlock /\ AsyncProcessQueue /\ Unlock(t)
                /\ UNCHANGED <<writeQueue, network>>
             \/ /\ Broken /\ Unlock(t)
                /\ writeQueue' = Tail(writeQueue)
                /\ UNCHANGED <<async, network>>
    /\ UNCHANGED <<flags, writeBuffer, encrypted, reading, membership, session>>

Writes(t) == WriteHandler(t) \/ WriteBuffer(t) \/ HandleQueue(t)

\* The operation of AsyncProcessQueue completes when the socket can be
\* written to, or never will be.
WriteReady ==
    /\ writeOp /\ pc["writer"] = "idle" /\ (~full \/ closed \/ clientGone)
    /\ writeOp' = FALSE /\ Go("writer", "lock")
    /\ UNCHANGED <<flags, buffers, isWritingAsync, reading, network, writeLock, membership, session>>

WriteHandlerWrapper ==
    /\ pc["writer"] = "lock" /\ writeLock = "none"
    /\ writeLock' = "writer" /\ Go("writer", "open")
    /\ isWritingAsync' = FALSE
    /\ UNCHANGED <<flags, buffers, writeOp, reading, network, membership, session>>

------------------------------------------------------------------------------
(* NetworkThread::Run.                                                      *)

AddNewSockets ==
    /\ membership = "new"
    /\ membership' = IF IsOpen THEN "listed" ELSE "removed"
    /\ UNCHANGED <<flags, buffers, async, reading, network, writeLock, pc, session>>

\* Faulty variant: a delayed close does not count as closed here.
RemoveClosed ==
    /\ membership = "listed" /\ pc["network"] = "idle" /\ closed
    /\ membership' = "removed"
    /\ UNCHANGED <<flags, buffers, async, reading, network, writeLock, pc, session>>

\* Update's first test.  That it fails removes the socket; the thread would
\* close a socket it still found open, but an open one is never found there.
RemoveSocket ==
    /\ membership = "listed" /\ pc["network"] = "idle" /\ ~IsOpen
    /\ membership' = "removed"
    /\ UNCHANGED <<flags, buffers, async, reading, network, writeLock, pc, session>>

Update ==
    /\ membership = "listed" /\ pc["network"] = "idle" /\ IsOpen
    /\ Go("network", "try")
    /\ UNCHANGED <<flags, buffers, async, reading, network, writeLock, membership, session>>

\* The lock is only tried; there may be nothing to do.
TryLock ==
    /\ pc["network"] = "try"
    /\ \/ /\ writeLock # "none" \/ isWritingAsync \/ (writeBuffer = <<>> /\ writeQueue = <<>>)
          /\ Go("network", "idle") /\ UNCHANGED writeLock
       \/ /\ writeLock = "none" /\ ~isWritingAsync /\ (writeBuffer # <<>> \/ writeQueue # <<>>)
          /\ Go("network", "open") /\ writeLock' = "network"
    /\ UNCHANGED <<flags, buffers, async, reading, network, membership, session>>

------------------------------------------------------------------------------
(* WorldSocket: packets from the server.                                    *)

Sending(t) == IF pc[t] \in {"send", "push"} THEN 1 ELSE 0
CanSend == encrypted + Sending("reader") + Sending("world") < MaxPackets

\* SendPacket's first test.
SendIfOpen(t, done) ==
    /\ pc[t] = "send"
    /\ Go(t, IF IsOpen THEN "push" ELSE done)
    /\ UNCHANGED <<flags, buffers, async, reading, network, writeLock, membership, session>>

\* Faulty variant: a packet that fits overtakes the messages in the queue.
FitsAnywhere == BufferSize - Len(writeBuffer) >= PacketSize

Fits == writeQueue = <<>> /\ BufferSize - Len(writeBuffer) >= PacketSize

SendPacket(t, done) ==
    /\ pc[t] = "push" /\ writeLock = "none" /\ Go(t, done)
    /\ encrypted' = encrypted + 1
    /\ IF Fits THEN writeBuffer' = writeBuffer \o Bytes(encrypted + 1) /\ UNCHANGED writeQueue
       ELSE writeQueue' = Append(writeQueue, Bytes(encrypted + 1)) /\ UNCHANGED writeBuffer
    /\ UNCHANGED <<flags, async, reading, network, writeLock, membership, session>>

------------------------------------------------------------------------------
(* WorldSocket: packets from the client.                                    *)

\* ReadHandlerInternal: an error closes the socket, a closed socket is not
\* read again.  A client sends nothing before it has the initializer.
ReadCompletes ==
    /\ readOp /\ pc["reader"] = "idle"
    /\ clientGone \/ Len(wire) >= PacketSize
    /\ readOp' = FALSE
    /\ \/ /\ ~clientGone
          /\ Go("reader", IF IsOpen THEN "handle" ELSE "idle")
          /\ UNCHANGED flags
       \/ clientGone /\ CloseSocket /\ UNCHANGED pc
    /\ UNCHANGED <<buffers, async, initialized, denied, network, writeLock, membership, session>>

\* One message.  A malformed one, and one that needs a session where there is
\* none, closes the socket.
Malformed ==
    /\ pc["reader"] = "handle" /\ Go("reader", "idle")
    /\ CloseSocket
    /\ UNCHANGED <<buffers, async, reading, network, writeLock, membership, session>>

HandleSendAuthSession ==
    /\ pc["reader"] = "handle" /\ ~initialized /\ CanSend
    /\ initialized' = TRUE /\ Go("reader", "send")
    /\ UNCHANGED <<flags, buffers, async, readOp, denied, network, writeLock, membership, session>>

HandleAuthSession ==
    /\ pc["reader"] = "handle" /\ initialized /\ session = "none"
    /\ \/ /\ session' = "live" /\ Go("reader", "next") /\ UNCHANGED denied
       \/ /\ CanSend /\ denied' = TRUE /\ Go("reader", "send") /\ UNCHANGED session
    /\ UNCHANGED <<flags, buffers, async, readOp, initialized, network, writeLock, membership>>

HandlePing ==
    /\ pc["reader"] = "handle" /\ initialized /\ session # "none" /\ CanSend
    /\ Go("reader", "send")
    /\ UNCHANGED <<flags, buffers, async, reading, network, writeLock, membership, session>>

\* A ping without a session, or one too many: the socket is closed, and the
\* messages that were read with this one are still handled.
RefusePing ==
    /\ pc["reader"] = "handle" /\ initialized /\ Go("reader", "next")
    /\ CloseSocket
    /\ UNCHANGED <<buffers, async, reading, network, writeLock, membership, session>>

\* A packet for the session, or one that is ignored.
QueueToSession ==
    /\ pc["reader"] = "handle" /\ initialized /\ session # "none"
    /\ Go("reader", "next")
    /\ UNCHANGED <<flags, buffers, async, reading, network, writeLock, membership, session>>

DelayedCloseSocket ==
    /\ pc["reader"] = "next" /\ denied
    /\ closing' = TRUE /\ denied' = FALSE
    /\ UNCHANGED <<closed, buffers, async, readOp, initialized, network, writeLock, pc, membership, session>>

\* There may be another message in the read buffer; otherwise AsyncRead.
NextMessage ==
    /\ pc["reader"] = "next" /\ ~denied
    /\ \/ Go("reader", "handle") /\ UNCHANGED readOp
       \/ Go("reader", "idle") /\ readOp' = IsOpen
    /\ UNCHANGED <<flags, buffers, async, initialized, denied, network, writeLock, membership, session>>

Reader ==
    \/ Malformed \/ HandleSendAuthSession \/ HandleAuthSession \/ HandlePing \/ RefusePing
    \/ QueueToSession
    \/ SendIfOpen("reader", "next") \/ SendPacket("reader", "next")
    \/ DelayedCloseSocket \/ NextMessage

------------------------------------------------------------------------------
(* The world thread.                                                        *)

SessionSends ==
    /\ session = "live" /\ pc["world"] = "idle" /\ CanSend
    /\ Go("world", "send")
    /\ UNCHANGED <<flags, buffers, async, reading, network, writeLock, membership, session>>

KickPlayer ==
    /\ session = "live" /\ pc["world"] = "idle" /\ ~closed
    /\ CloseSocket
    /\ UNCHANGED <<buffers, async, reading, network, writeLock, pc, membership, session>>

\* Faulty variant: the session goes while its socket is open.
EndAnySession ==
    /\ session = "live" /\ pc["world"] = "idle"
    /\ session' = "deleted"
    /\ UNCHANGED <<flags, buffers, async, reading, network, writeLock, pc, membership>>

\* WorldSession::Update lets the socket go, and the session is deleted.
EndSession ==
    /\ session = "live" /\ pc["world"] = "idle" /\ ~IsOpen
    /\ session' = "deleted"
    /\ UNCHANGED <<flags, buffers, async, reading, network, writeLock, pc, membership>>

World == SendIfOpen("world", "idle") \/ SendPacket("world", "idle")
Network == AddNewSockets \/ RemoveSocket \/ Update \/ TryLock \/ Writes("network")
Writer == WriteReady \/ WriteHandlerWrapper \/ Writes("writer")

Next ==
    \/ Start \/ AddSocket \/ ClientReads \/ ClientLeaves
    \/ Network \/ Writer \/ ReadCompletes \/ Reader
    \/ SessionSends \/ KickPlayer \/ EndSession \/ World

Spec == Init /\ [][Next]_vars

\* Every thread that can run does, a client reads what it is sent or goes
\* away, and goes away when the server has finished; the world thread ends a
\* session that lost its socket.  The client's messages come to an end.
FairSpec ==
    /\ Spec
    /\ WF_vars(Start \/ AddSocket) /\ WF_vars(Network) /\ WF_vars(Writer)
    /\ WF_vars(ReadCompletes /\ (clientGone \/ ~IsOpen)) /\ WF_vars(Reader)
    /\ SF_vars(SendPacket("reader", "next")) /\ SF_vars(NextMessage /\ pc'["reader"] = "idle")
    /\ SF_vars(SendPacket("world", "idle")) /\ WF_vars(World)
    /\ SF_vars(WriteHandlerWrapper)
    /\ SF_vars(EndSession) /\ WF_vars(ClientReads)
    /\ WF_vars(ClientLeaves /\ closed)

------------------------------------------------------------------------------
(* Properties.                                                              *)

Pending == writeBuffer \o FlattenSeq(writeQueue)
Stream == FlattenSeq([n \in 1..encrypted |-> Bytes(n)])

TypeOK ==
    /\ {closed, closing, isWritingAsync, readOp, writeOp, initialized, denied, full, clientGone}
           \subseteq BOOLEAN
    /\ encrypted \in 0..MaxPackets /\ Len(writeBuffer) <= BufferSize
    /\ writeLock \in {"none", "network", "writer"}
    /\ membership \in {"none", "new", "listed", "removed"}
    /\ session \in {"none", "live", "deleted"}
    /\ \A t \in Threads : pc[t] \in
           {"start", "add", "idle", "try", "lock", "open", "write", "queue", "handle", "send", "push", "next"}

\* The client gets the bytes in the order of encryption, which its cipher
\* depends on, none twice and none missing; and until the connection ends all
\* that was not yet sent is waiting, whichever threads write, whatever part of
\* a message the kernel took, and through _writeBuffer or _writeQueue.
StreamInOrder ==
    /\ TypeOK
    /\ IsPrefix(wire, Stream)
    /\ (~closed /\ ~clientGone) => wire \o Pending = Stream

\* A session is deleted only after its socket was closed, so that no handler
\* that begins later finds it: "Still there is race condition in WorldSession*
\* being used in the Sockets" (World.cpp:225) is limited to the one handler
\* that was reading then.
SessionOutlivesSocket == session = "deleted" => ~IsOpen

\* What was queued is sent, or the connection ends: no flag keeps Update from
\* writing for ever, and no wake-up of a write is lost.
OpenSocketDelivers == (Pending # <<>>) ~> (Pending = <<>> \/ ~IsOpen)

Referenced ==
    \/ membership \in {"new", "listed"} \/ pc["acceptor"] # "idle"
    \/ readOp \/ writeOp \/ session = "live"
    \/ pc["reader"] # "idle" \/ pc["writer"] # "idle"

\* A socket that was closed at once or with a delay is let go by the network
\* thread, by the operations pending on it and by its session, and destroyed.
ClosedSocketIsReleased == (closed \/ closing) ~> ~Referenced

\* "Marks the socket for closing after write buffer becomes empty"
\* (Socket.h:142): a client that was denied learns why.
DelayedCloseSends ==
    (closing /\ ~closed /\ ~clientGone /\ ~Referenced) => Pending = <<>>
==============================================================================
