---------------------------- MODULE EventServer ----------------------------
(***************************************************************************)
(* The event server of the spider (libmtd/RawServer.cpp, Poller.cpp and the  *)
(* socket objects of Socket.cpp): one thread polls the listening socket and  *)
(* the connections, accepts into socket objects it keeps in stock, sees each  *)
(* of them readable once, then writable once, and gives the object back.     *)
(*                                                                         *)
(* Nothing is read and nothing is written: TcpSocket inherits the empty      *)
(* handleRead and handleWrite of TSocket (libmtd/Socket.h:157).              *)
(***************************************************************************)
EXTENDS Integers, Sequences, FiniteSets, SequencesExt

CONSTANTS
    Handles,                                \* bound: descriptors of connections
    MIN_SPARE_SOCKETS, MAX_SPARE_SOCKETS,
    Counts,                                 \* what TPoller::m_nevents may hold
    MaxClients                              \* bound: connections made

VARIABLES
    pc,             \* the thread: "start", "poll", "handleEvent", "end"
    m_running,
    m_nevents,      \* never assigned: TPoller::start sets a local of this name
    m_sparesockets,
    sock,           \* socket object -> its descriptor and its masks
    epoll,          \* descriptor -> the object and the events registered for it
    pevents,        \* the events of the batch that are still to be handled
    peer,           \* descriptor of an open connection -> what its client did
    backlog, clients

Listening == 0                              \* m_listensocket, and its descriptor
INVALID_SOCKET == -1
Sockets == 1 .. (MIN_SPARE_SOCKETS + Cardinality(Handles))

Socket(handle, in, out) == [handle |-> handle, canRead |-> in, canWrite |-> out]
TSocket == Socket(INVALID_SOCKET, FALSE, FALSE)

attach(s, fd) == Socket(fd, s.canRead, s.canWrite)
setMaskRead(s, mask) == Socket(s.handle, mask, s.canWrite)
setMaskWrite(s, mask) == Socket(s.handle, s.canRead, mask)

With(f, x, v) == [y \in DOMAIN f \cup {x} |-> IF y = x THEN v ELSE f[y]]
Without(f, x) == [y \in DOMAIN f \ {x} |-> f[y]]

\* TPoller: the masks are read when the object is registered.
Registration(k, s) == [ptr |-> k, in |-> s.canRead, out |-> s.canWrite]
addSocket(k, s) == With(epoll, s.handle, Registration(k, s))

\* As a mutant: the masks change in the object only.
modSocketUntold(k, s) == epoll

modSocket(k, s) == With(epoll, s.handle, Registration(k, s))
delSocket(s) == Without(epoll, s.handle)

-----------------------------------------------------------------------------
(* The thread starts: the stock is filled and the first free port from 9080 on is
   taken; without one the listening socket is deleted and the server ends.  (start()
   starts the crawler first, Exit() stops it.) *)
NewPoller ==
    /\ m_nevents \in Counts
    /\ epoll = [h \in {} |-> 0]
    /\ pevents = {}

InitServer ==
    /\ pc = "start" /\ m_running = FALSE
    /\ m_sparesockets = <<>> /\ sock = [k \in {} |-> TSocket]
    /\ NewPoller
    /\ peer = [h \in {} |-> "quiet"] /\ backlog = 0 /\ clients = 0

Ports == 9080 .. 9089

Started(port) ==
    /\ pc = "start"
    /\ m_running' = TRUE
    /\ m_sparesockets' = [k \in 1 .. MIN_SPARE_SOCKETS |-> k]
    /\ sock' = [k \in 1 .. MIN_SPARE_SOCKETS |-> TSocket]
    /\ IF port = 9089
         THEN pc' = "end" /\ epoll' = epoll
         ELSE /\ pc' = "poll"
              /\ epoll' = With(epoll, Listening, [ptr |-> Listening, in |-> TRUE, out |-> FALSE])
    /\ UNCHANGED <<m_nevents, pevents, peer, backlog, clients>>

\* stop() clears a flag Run never looks at: Run has a `running` of its own.
stopServer ==
    /\ m_running /\ m_running' = FALSE
    /\ UNCHANGED <<pc, m_nevents, m_sparesockets, sock, epoll, pevents, peer, backlog, clients>>

-----------------------------------------------------------------------------
(* poll(): epoll_wait returns at most m_nevents of the descriptors that are ready, and
   fails when m_nevents is not positive; the loop ends then.  A connection its client
   has reset is in error whatever its masks say. *)
Event(h) ==
    IF h = Listening THEN IF backlog > 0 THEN {"in"} ELSE {}
    ELSE IF peer[h] = "reset" THEN {"err"}
    ELSE {e \in {"in", "out"} : \/ e = "in" /\ epoll[h].in /\ peer[h] = "sent"
                                \/ e = "out" /\ epoll[h].out}

Ready == {h \in DOMAIN epoll : Event(h) # {}}

poll(batch) ==
    /\ pc = "poll" /\ m_nevents > 0
    /\ batch # {} /\ batch \subseteq Ready
    /\ batch = Ready \/ Cardinality(batch) = m_nevents
    /\ Cardinality(batch) <= m_nevents
    /\ pevents' = {[handle |-> h, ptr |-> epoll[h].ptr, events |-> Event(h)] : h \in batch}
    /\ pc' = "handleEvent"
    /\ UNCHANGED <<m_running, m_nevents, m_sparesockets, sock, epoll, peer, backlog, clients>>

PollFails ==
    /\ pc = "poll" /\ m_nevents <= 0
    /\ pc' = "end"
    /\ UNCHANGED <<m_running, m_nevents, m_sparesockets, sock, epoll, pevents, peer, backlog, clients>>

-----------------------------------------------------------------------------
(* handleEvent: an event of the batch.  An object's own flags are SF_NONE unless it
   listens, so that an error is replaced by no event at all. *)
Taken(e) ==
    /\ pc = "handleEvent" /\ e \in pevents
    /\ pevents' = pevents \ {e}
    /\ pc' = IF pevents' = {} THEN "poll" ELSE "handleEvent"
    /\ UNCHANGED <<m_running, m_nevents, clients>>

\* handleRead is empty: the request stays in the connection.
WaitEventRead(e) ==
    /\ Taken(e) /\ e.ptr # Listening /\ e.events = {"in"}
    /\ LET s == setMaskWrite(setMaskRead(sock[e.ptr], FALSE), TRUE)
       IN  /\ sock' = With(sock, e.ptr, s)
           /\ epoll' = modSocket(e.ptr, s)
    /\ UNCHANGED <<m_sparesockets, peer, backlog>>

\* As a mutant: an object goes back to the stock as it is.
ReleasedWithMasks(s) == attach(s, INVALID_SOCKET)

Released(s) == setMaskWrite(setMaskRead(attach(s, INVALID_SOCKET), FALSE), FALSE)

\* handleWrite is empty; closeSocket closes the descriptor, which ends the connection.
WaitEventWrite(e) ==
    /\ Taken(e) /\ e.events = {"out"}
    /\ epoll' = delSocket(sock[e.ptr])
    /\ peer' = Without(peer, e.handle)
    /\ IF Len(m_sparesockets) >= MAX_SPARE_SOCKETS
         THEN sock' = Without(sock, e.ptr) /\ UNCHANGED m_sparesockets
         ELSE /\ sock' = With(sock, e.ptr, Released(sock[e.ptr]))
              /\ m_sparesockets' = Append(m_sparesockets, e.ptr)
    /\ UNCHANGED backlog

\* The object for a new connection, and what is left in stock.
New == CHOOSE k \in Sockets : k \notin DOMAIN sock
Spare == IF m_sparesockets = <<>> THEN New ELSE Head(m_sparesockets)

\* accept() fails when the client has left or no descriptor is free.
WaitEventAccept(e) ==
    /\ Taken(e) /\ e.ptr = Listening
    /\ \/ /\ backlog > 0
          /\ \E fd \in Handles \ DOMAIN peer :
                LET old == IF m_sparesockets = <<>> THEN TSocket ELSE sock[Spare]
                    s == setMaskRead(attach(old, fd), TRUE)
                IN  /\ sock' = With(sock, Spare, s)
                    /\ epoll' = addSocket(Spare, s)
                    /\ peer' = With(peer, fd, "quiet")
          /\ m_sparesockets' = IF m_sparesockets = <<>> THEN <<>> ELSE Tail(m_sparesockets)
          /\ backlog' = backlog - 1
       \/ /\ backlog = 0 \/ Handles \subseteq DOMAIN peer
          /\ UNCHANGED <<m_sparesockets, sock, epoll, peer, backlog>>

WaitEventError(e) ==
    /\ Taken(e) /\ e.events = {"err"}
    /\ UNCHANGED <<m_sparesockets, sock, epoll, peer, backlog>>

handleEvent ==
    \E e \in pevents : \/ WaitEventRead(e) \/ WaitEventWrite(e)
                       \/ WaitEventAccept(e) \/ WaitEventError(e)

-----------------------------------------------------------------------------
(* The clients: they connect, send, reset and leave the backlog. *)
Connect ==
    /\ Listening \in DOMAIN epoll /\ clients < MaxClients
    /\ backlog' = backlog + 1 /\ clients' = clients + 1 /\ UNCHANGED peer

Leave == backlog > 0 /\ backlog' = backlog - 1 /\ UNCHANGED <<peer, clients>>

Send(h) == peer[h] = "quiet" /\ peer' = [peer EXCEPT ![h] = "sent"] /\ UNCHANGED <<backlog, clients>>
Reset(h) == peer[h] # "reset" /\ peer' = [peer EXCEPT ![h] = "reset"] /\ UNCHANGED <<backlog, clients>>

Client ==
    /\ Connect \/ Leave \/ \E h \in DOMAIN peer : Send(h) \/ Reset(h)
    /\ UNCHANGED <<pc, m_running, m_nevents, m_sparesockets, sock, epoll, pevents>>

Run == (\E port \in Ports : Started(port)) \/ (\E batch \in SUBSET Ready : poll(batch))
       \/ PollFails \/ handleEvent

NextServer == Run \/ stopServer \/ Client

-----------------------------------------------------------------------------
(* Every object is in one place.  The stock holds no object twice, never more than
   MAX_SPARE_SOCKETS, and none with a descriptor or a mask left from its last use; a
   registered descriptor belongs to the object it is registered with, whose masks are
   those epoll has; and the events of a batch name objects that are still alive, though
   handleEvent deletes and reuses objects while it goes through the batch. *)
SocketsAreInOnePlace ==
    /\ \A i, j \in DOMAIN m_sparesockets : i # j => m_sparesockets[i] # m_sparesockets[j]
    /\ Len(m_sparesockets) <= MAX_SPARE_SOCKETS
    /\ \A i \in DOMAIN m_sparesockets : sock[m_sparesockets[i]] = TSocket
    /\ DOMAIN peer = DOMAIN epoll \ {Listening}
    /\ \A h \in DOMAIN peer : LET k == epoll[h].ptr IN
          /\ k \in DOMAIN sock /\ sock[k].handle = h
          /\ epoll[h] = Registration(k, sock[k])
          /\ epoll[h].in # epoll[h].out
    /\ \A e \in pevents : e.handle \in DOMAIN epoll /\ epoll[e.handle].ptr = e.ptr
    /\ \A k \in DOMAIN sock : sock[k].handle \in DOMAIN peer \/ k \in ToSet(m_sparesockets)

(* A connection on which the client has sent something is closed and its descriptor
   given back: both changes of its masks reach epoll, whatever else becomes ready, unless
   the client resets it (the server then spins on the error and keeps the object) or the
   server ends.  It is closed without an answer. *)
ConnectionsAreReleased ==
    \A h \in Handles :
        (h \in DOMAIN peer /\ peer[h] = "sent")
            ~> (h \notin DOMAIN peer \/ peer[h] = "reset" \/ pc = "end")
=============================================================================
