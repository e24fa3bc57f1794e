----------------------------- MODULE MCNetwork -----------------------------
(* The loops around the sockets, the handshakes with proxies and the event server, each on its
   own: the variables of the others keep their first values. *)
EXTENDS SocketIO, FiniteSets

CONSTANTS
    Clients, Names,
    Handles, MIN_SPARE_SOCKETS, MAX_SPARE_SOCKETS, Counts, MaxClients

VARIABLES
    part,
    Client, type, auth, luser, lpass, byName, step, toProxy, toClient, open, proxy, rep, result,
    thread, m_running, m_nevents, m_sparesockets, sock, epoll, pevents, peer, backlog, clients

(* Names come in one byte (TSockProxy); the stock holds at least its first objects (libmtd/RawServer.h). *)
ASSUME ProxyAssumption == Names \subseteq 0 .. 255
ASSUME ServerAssumption ==
    /\ IsFiniteSet(Handles) /\ Handles \subseteq Nat \ {0}
    /\ MIN_SPARE_SOCKETS \in Nat /\ MAX_SPARE_SOCKETS \in Nat
    /\ MIN_SPARE_SOCKETS <= MAX_SPARE_SOCKETS

onlyProxy == <<Client, type, auth, luser, lpass, byName, step, toProxy, toClient, open, proxy,
               rep, result>>
onlyServer == <<thread, m_running, m_nevents, m_sparesockets, sock, epoll, pevents, peer, backlog,
                clients>>
netvars == <<part, vars, onlyProxy, onlyServer>>

Handshake == INSTANCE SockProxy WITH pc <- step
Server == INSTANCE EventServer WITH pc <- thread

NoSocket == Init /\ nonBlock
NoProxy ==
    /\ Client = 0 /\ type = 0 /\ auth = 0 /\ luser = 0 /\ lpass = 0 /\ byName = 0 /\ step = 0
    /\ toProxy = 0 /\ toClient = 0 /\ open = 0 /\ proxy = 0 /\ rep = 0 /\ result = 0
NoServer ==
    /\ thread = 0 /\ m_running = 0 /\ m_nevents = 0 /\ m_sparesockets = 0 /\ sock = 0
    /\ epoll = 0 /\ pevents = 0 /\ peer = 0 /\ backlog = 0 /\ clients = 0

NetInit ==
    \/ part = "sockets" /\ Init /\ NoProxy /\ NoServer
    \/ part = "proxies" /\ Handshake!Init /\ NoSocket /\ NoServer
    \/ part = "server" /\ Server!InitServer /\ NoSocket /\ NoProxy

NetNext ==
    /\ UNCHANGED part
    /\ \/ part = "sockets" /\ Next /\ UNCHANGED <<onlyProxy, onlyServer>>
       \/ part = "proxies" /\ Handshake!Next /\ UNCHANGED <<vars, onlyServer>>
       \/ part = "server" /\ Server!NextServer /\ UNCHANGED <<vars, onlyProxy>>

(* The fairness of SocketIO and of EventServer, each for its own part. *)
Fairness ==
    /\ WF_vars(part = "sockets" /\ Select) /\ SF_vars(part = "sockets" /\ Transfer)
    /\ WF_onlyServer(part = "server" /\ Server!Run)
    /\ \A h \in Handles :
          SF_onlyServer(part = "server" /\ \E batch \in SUBSET Server!Ready :
                                               h \in batch /\ Server!poll(batch))

NetSpec == NetInit /\ [][NetNext]_netvars /\ Fairness

(* The FTP client believes a handshake with a SOCKS5 proxy only when it has succeeded.  Its
   handshakes over SOCKS4, and all of the HTTP client's, are believed in any case. *)
FtpSocks5Inv == part = "proxies" => Handshake!FtpSocks5Inv

(* Every socket object of the event server is in one place. *)
SocketsAreInOnePlace == part = "server" => Server!SocketsAreInOnePlace

(* A connection on which the client has sent something is closed, without an answer, and its
   descriptor given back, unless the client resets it (the server then spins on the error and
   keeps the object) or the server ends. *)
ConnectionsAreReleased ==
    \A h \in Handles :
        (part = "server" /\ h \in DOMAIN peer /\ peer[h] = "sent")
            ~> (part = "server" => h \notin DOMAIN peer \/ peer[h] = "reset" \/ thread = "end")
=============================================================================
