------------------------------ MODULE SockProxy ------------------------------
(***************************************************************************)
(* connectProxyHost of TFtpCli and of THttpCli (libmtd/FtpCli.cpp,           *)
(* HttpCli.cpp) over TSockProxy (libmtd/SockProxy.cpp): the connection to a  *)
(* proxy and the SOCKS4 and SOCKS5 handshakes, byte by byte, with a proxy    *)
(* that follows RFC 1928 and RFC 1929.                                       *)
(*                                                                         *)
(* The two functions differ in the type of ret: an int in TFtpCli, where a   *)
(* negative code ends the handshake; a bool in THttpCli, where every code    *)
(* but 0 is true and nothing ends it.                                        *)
(***************************************************************************)
EXTENDS Integers, Sequences, FiniteSets, SequencesExt

CONSTANTS
    Clients,        \* subset of {"ftp", "http"}
    Names           \* lengths of the user name and of the password

VARIABLES
    Client, type, auth, luser, lpass, byName, \* fixed: the caller and its Proxy_t; the
                            \* host's name does not resolve and is sent as it is
    pc,
    toProxy, toClient,      \* bytes on their way
    open,                   \* the connection to the proxy: "no", "yes", "closed" (by the proxy)
    proxy,                  \* what the proxy waits for, and what for it has been told
    rep,                    \* m_stRepPacket: its type, the byte that is judged, its address
    result

fixed == <<Client, type, auth, luser, lpass, byName>>
wires == <<toProxy, toClient, open, proxy>>
vars == <<fixed, pc, wires, rep, result>>

-----------------------------------------------------------------------------
(* Bytes. *)

SOCKS_AUTH_NONE == 0
SOCKS_AUTH_PASSWD == 2
SOCKS_AUTH_UNKNOWN == 255
SOCKS_REP5_SUCCESS == 0
SOCKS_REP5_FAIL == 1
SOCKS_ADDR_IPV4ADDR == 1
SOCKS_ADDR_HOSTNAME == 3
SOCKS_REP4_SUCCESS == 90
SOCKS_REP4_FAIL == 91

FtpPort == <<0, 21>>
ProxyPort == <<4, 56>>
Address == <<10, 1, 2, 3>>
HostName == <<119, 119>>
Unset == 256                    \* the byte that is judged was never written
Greeting == 220                 \* what the destination says first, one byte here

Rep(n, b) == [i \in 1 .. n |-> b]
UserBytes == Rep(luser, 117)
PassBytes == Rep(lpass, 112)

(* What is read from a string of length n when m bytes are taken. *)
Read(s, m) == [i \in 1 .. m |-> IF i <= Len(s) THEN s[i] ELSE 0]

(* The destination port: THttpCli passes the proxy's own. *)
DestPort == IF Client = "ftp" THEN FtpPort ELSE ProxyPort

(* PackGet.  The password is given as many bytes as the user name has. *)
Pack4Req == <<4, 1>> \o DestPort \o Address \o UserBytes \o <<0>>
Pack5AuthReq == IF auth THEN <<5, 2, SOCKS_AUTH_NONE, SOCKS_AUTH_PASSWD>>
                        ELSE <<5, 1, SOCKS_AUTH_NONE>>
Pack5PassReq == <<1, luser>> \o UserBytes \o <<lpass>> \o Read(PassBytes, luser)
Pack5Req ==
    <<5, 1, 0>> \o (IF byName THEN <<SOCKS_ADDR_HOSTNAME, Len(HostName)>> \o HostName
                              ELSE <<SOCKS_ADDR_IPV4ADDR>> \o Address)
    \o DestPort

(* PackSize, by which the buffer of the request was allocated. *)
Room5PassReq == 8 + luser + lpass

-----------------------------------------------------------------------------
(* The proxy: it reads a request when all its bytes are there. *)

Proxy(waits, method, tunnel) == [waits |-> waits, method |-> method, tunnel |-> tunnel]

Say(s) == toClient' = toClient \o s

ProxyReads(n, next) ==
    /\ Len(toProxy) >= n
    /\ toProxy' = SubSeq(toProxy, n + 1, Len(toProxy))
    /\ proxy' = next

Hangup ==
    /\ open' = "closed" /\ UNCHANGED <<toProxy, toClient, proxy>>

ProxyGreeted ==
    /\ proxy.waits = "greeting" /\ Len(toProxy) >= 2
    /\ LET n == 2 + toProxy[2]
           offered == {toProxy[i] : i \in 3 .. n}
       IN  \E m \in offered \cup {SOCKS_AUTH_UNKNOWN} :
             /\ ProxyReads(n, Proxy(CASE m = SOCKS_AUTH_PASSWD -> "password"
                                       [] m = SOCKS_AUTH_NONE -> "request"
                                       [] OTHER -> "nothing", m, proxy.tunnel))
             /\ Say(<<5, m>>)
    /\ UNCHANGED open

ProxyAuthenticates ==
    /\ proxy.waits = "password" /\ Len(toProxy) >= 3 + luser
    /\ \/ /\ Len(toProxy) >= 3 + luser + lpass
          /\ SubSeq(toProxy, 4 + luser, 3 + luser + lpass) = PassBytes
          /\ ProxyReads(3 + luser + lpass, Proxy("request", proxy.method, proxy.tunnel))
          /\ Say(<<1, 0>>)
       \/ /\ ProxyReads(3 + luser + lpass, Proxy("nothing", proxy.method, proxy.tunnel))
          /\ Say(<<1, 1>>)
    /\ UNCHANGED open

(* A request of the right form is granted or refused; the answer gives an address
   of either kind. *)
RequestLength == IF Len(toProxy) >= 4 /\ toProxy[4] = SOCKS_ADDR_HOSTNAME THEN 7 + Len(HostName) ELSE 10

ProxyConnects ==
    /\ proxy.waits = "request" /\ toProxy # <<>>
    /\ IF toProxy[1] # 5 THEN Hangup
       ELSE /\ Len(toProxy) >= RequestLength
            /\ \/ \E bound \in {<<SOCKS_ADDR_IPV4ADDR, 10, 9, 9, 9, 0, 80>>,
                                <<SOCKS_ADDR_HOSTNAME, 2, 119, 120, 0, 80>>} :
                    /\ ProxyReads(RequestLength, Proxy("nothing", proxy.method,
                            SubSeq(toProxy, RequestLength - 1, RequestLength)))
                    /\ Say(<<5, SOCKS_REP5_SUCCESS, 0>> \o bound \o <<Greeting>>)
               \/ /\ ProxyReads(RequestLength, Proxy("nothing", proxy.method, proxy.tunnel))
                  /\ Say(<<5, SOCKS_REP5_FAIL, 0, SOCKS_ADDR_IPV4ADDR, 0, 0, 0, 0, 0, 0>>)
            /\ UNCHANGED open

Proxy4Connects ==
    /\ proxy.waits = "request4" /\ Len(toProxy) >= 9 + luser
    /\ \/ /\ ProxyReads(9 + luser, Proxy("nothing", proxy.method, SubSeq(toProxy, 3, 4)))
          /\ Say(<<0, SOCKS_REP4_SUCCESS>> \o FtpPort \o Address \o <<Greeting>>)
       \/ /\ ProxyReads(9 + luser, Proxy("nothing", proxy.method, proxy.tunnel))
          /\ Say(<<0, SOCKS_REP4_FAIL>> \o FtpPort \o Address)
    /\ UNCHANGED open

ProxyStep ==
    /\ open = "yes"
    /\ ProxyGreeted \/ ProxyAuthenticates \/ ProxyConnects \/ Proxy4Connects
       \/ Hangup
    /\ UNCHANGED <<fixed, pc, rep, result>>

-----------------------------------------------------------------------------
(* The client.  TSockProxy is gone when the function returns. *)

Return(r) == pc' = "destroy" /\ result' = r

(* ret <= 0, with ret an int. *)
EndsAt(bad) == bad /\ Client = "ftp"

Then(bad, next) == IF EndsAt(bad) THEN Return(FALSE) ELSE pc' = next /\ UNCHANGED result

(* connectProxyHost up to the handshake.  A type that has no case is taken for a
   connection; for SOCKS4, TFtpCli tests ret, which is still -EINVAL, and not the
   result of Connect, and returns it: not 0, it is true. *)
HasCase == type \in (IF Client = "ftp" THEN {"ftp", "sock4", "sock5"} ELSE {"http", "sock4", "sock5"})
Ftp4 == type = "sock4" /\ Client = "ftp"

connectProxyHost ==
    /\ pc = "connect"
    /\ IF ~HasCase THEN Return(TRUE) /\ UNCHANGED <<open, proxy>>
       ELSE \/ /\ open' = "yes"
               /\ proxy' = Proxy(CASE type = "sock4" -> "request4" [] type = "sock5" -> "greeting"
                                     [] OTHER -> "nothing", proxy.method, proxy.tunnel)
               /\ IF type \notin {"sock4", "sock5"} \/ Ftp4 THEN Return(TRUE)
                  ELSE pc' = (IF type = "sock4" THEN "request4" ELSE "greeting") /\ UNCHANGED result
            \/ Return(Ftp4) /\ UNCHANGED <<open, proxy>>
    /\ UNCHANGED <<fixed, toProxy, toClient, rep>>

(* SendPacket: all bytes in one call of send; anything else counts as failed. *)
SendPacket(bytes, next) ==
    /\ \/ /\ toProxy' = IF open = "yes" THEN toProxy \o bytes ELSE toProxy
          /\ pc' = next /\ UNCHANGED result
       \/ /\ \E k \in {0, Len(bytes)} :
                toProxy' = IF open = "yes" THEN toProxy \o SubSeq(bytes, 1, k) ELSE toProxy
          /\ Then(TRUE, next)
    /\ UNCHANGED <<fixed, toClient, open, proxy, rep>>

(* What PackGet cannot fit into its buffer is an error. *)
Send4Req == pc = "request4" /\ SendPacket(Pack4Req, "reply4")
Send5AuthReq == pc = "greeting" /\ SendPacket(Pack5AuthReq, "greetingReply")
Send5PassReq ==
    /\ pc = "password"
    /\ IF Len(Pack5PassReq) < Room5PassReq THEN SendPacket(Pack5PassReq, "passwordReply")
       ELSE Then(TRUE, "passwordReply") /\ UNCHANGED <<fixed, wires, rep>>
Send5Req == pc = "request" /\ SendPacket(Pack5Req, "reply")

Packet(t, value, addr, count) == [type |-> t, value |-> value, addr |-> addr, count |-> count]

(* RecvPacket reads field by field.  The packet of the reply before is cleared:
   its first bytes, but not the pointer to an address. *)
Cleared(t) == Packet(t, IF rep.type \in {"none", t} THEN rep.value ELSE 0, rep.addr, rep.count)

(* One Recv of n bytes: fewer may have arrived, none after 100 seconds or at the
   end of the connection.  Anything but n is an error. *)
Recv(n, t, seen, next) ==
    /\ \/ /\ Len(toClient) >= n
          /\ rep' = seen
          /\ toClient' = SubSeq(toClient, n + 1, Len(toClient))
          /\ pc' = next /\ UNCHANGED result
       \/ /\ \E k \in 0 .. n - 1 :
                /\ k <= Len(toClient)
                /\ toClient' = SubSeq(toClient, k + 1, Len(toClient))
          /\ rep' = Cleared(t)
          /\ Then(TRUE, "judge")
    /\ UNCHANGED <<fixed, toProxy, open, proxy>>

Status(t, addr) == Packet(t, toClient[2], addr, rep.count)
WithAddress(addr, count) == Packet(rep.type, rep.value, addr, count)

Recv5AuthRep == pc = "greetingReply" /\ Recv(2, "greeting", Status("greeting", rep.addr), "judge")
Recv5PassRep == pc = "passwordReply" /\ Recv(2, "password", Status("password", rep.addr), "judge")

Recv4Rep == \/ pc = "reply4" /\ Recv(2, "reply4", Status("reply4", rep.addr), "port4")
            \/ pc = "port4"  /\ Recv(2, "reply4", rep, "addr4")
            \/ pc = "addr4"  /\ Recv(4, "reply4", rep, "judge")

\* As a mutant: the port of the answer is left in the connection.
AddressThenJudge(n) == Recv(n, "reply", WithAddress("set", rep.count), "judge")

RecvAddress(n) == Recv(n, "reply", WithAddress("set", rep.count), "port")

Recv5Rep ==
    \/ /\ pc = "reply"
       /\ IF Len(toClient) >= 4 /\ toClient[2] # SOCKS_REP5_SUCCESS
          THEN Recv(4, "reply", Status("reply", "null"), "judge")
          ELSE IF Len(toClient) < 4 THEN Recv(4, "reply", rep, "judge")
          ELSE CASE toClient[4] = SOCKS_ADDR_IPV4ADDR -> Recv(4, "reply", Status("reply", rep.addr), "addr")
                 [] toClient[4] = SOCKS_ADDR_HOSTNAME -> Recv(4, "reply", Status("reply", rep.addr), "length")
                 [] OTHER -> Recv(4, "reply", Status("reply", "null"), "port")
    \/ pc = "addr" /\ RecvAddress(4)
    \/ /\ pc = "length"
       /\ Recv(1, "reply", WithAddress(rep.addr, IF toClient = <<>> THEN 0 ELSE toClient[1]), "name")
    \/ pc = "name" /\ RecvAddress(rep.count)
    \/ pc = "port" /\ Recv(2, "reply", rep, "judge")

(* RecvOK, and what follows.  In a packet that was never written any method may be
   found; all but "no acceptable method" are accepted, but only one is acted upon. *)
Values == IF rep.value = Unset THEN {0, 1, 2, 3, 90, SOCKS_AUTH_UNKNOWN} ELSE {rep.value}

RecvOK ==
    /\ pc = "judge"
    /\ \E v \in Values :
          CASE rep.type = "greeting" ->
                 Then(v \notin {0, 1, 2, 3}, IF v = SOCKS_AUTH_PASSWD THEN "password" ELSE "request")
            [] rep.type = "password" -> Then(v # 0, "request")
            [] rep.type = "reply"    -> Return(~EndsAt(v # SOCKS_REP5_SUCCESS))
            [] rep.type = "reply4"   -> Return(TRUE)
    /\ UNCHANGED <<fixed, wires, rep>>

(* The destructor frees the address of the last reply: when that was never read,
   the pointer holds anything. *)
RecvDestroy ==
    /\ pc = "destroy"
    /\ pc' \in {"done"} \cup (IF rep.type = "reply" /\ rep.addr = "unset" THEN {"crashed"} ELSE {})
    /\ UNCHANGED <<fixed, wires, rep, result>>

-----------------------------------------------------------------------------
Init ==
    /\ Client \in Clients /\ type \in {"direct", "http", "ftp", "sock4", "sock5"}
    /\ auth \in BOOLEAN /\ luser \in Names /\ lpass \in Names /\ byName \in BOOLEAN
    /\ pc = "connect" /\ toProxy = <<>> /\ toClient = <<>> /\ open = "no"
    /\ proxy = Proxy("nothing", SOCKS_AUTH_NONE, <<>>)
    /\ rep = Packet("none", Unset, "unset", 0)
    /\ result = FALSE

ClientStep ==
    \/ connectProxyHost \/ Send4Req \/ Send5AuthReq \/ Send5PassReq \/ Send5Req
    \/ Recv4Rep \/ Recv5AuthRep \/ Recv5PassRep \/ Recv5Rep \/ RecvOK \/ RecvDestroy

Next == ClientStep \/ ProxyStep

(* Recv and Send have timeouts: the client always goes on. *)
Spec == Init /\ [][Next]_vars /\ WF_vars(ClientStep)

-----------------------------------------------------------------------------
TypeOK ==
    /\ pc \in {"connect", "request4", "greeting", "password", "request", "greetingReply",
               "passwordReply", "reply", "addr", "length", "name", "port", "reply4", "port4",
               "addr4", "judge", "destroy", "done", "crashed"}
    /\ \A i \in DOMAIN toProxy : toProxy[i] \in 0 .. 255
    /\ \A i \in DOMAIN toClient : toClient[i] \in 0 .. 255
    /\ open \in {"no", "yes", "closed"} /\ result \in BOOLEAN
    /\ rep.type \in {"none", "greeting", "password", "reply", "reply4"}
    /\ rep.addr \in {"unset", "null", "set"} /\ rep.value \in 0 .. Unset /\ rep.count \in 0 .. 255

(* The FTP client believes in a SOCKS5 connection only when the proxy has made it,
   to the port that was asked for: refusals, short reads, timeouts and the proxy's
   hanging up in any step end the handshake. *)
Ftp5 == Client = "ftp" /\ type = "sock5"
ConnectedMeansTunnel == Ftp5 /\ pc \in {"destroy", "done"} /\ result => proxy.tunnel = FtpPort

(* Then nothing of the handshake is left in the connection: the first byte the FTP
   dialogue reads is the first byte of the server. *)
HandshakeIsConsumed == Ftp5 /\ pc = "done" /\ result => toClient = <<Greeting>>

(* When the proxy does not know the password the client has sent it, no answer of
   the proxy is ever taken for the consent to connect. *)
PasswordComesFirst ==
    Ftp5 /\ pc \in {"request", "reply"} /\ proxy.method = SOCKS_AUTH_PASSWD =>
        rep.type = "password" /\ rep.value = 0

(* The FTP client never believes a SOCKS5 handshake of connectProxyHost that has not succeeded.
   This holds of no other: over SOCKS4 the FTP client believes in a connection without any
   handshake, and the HTTP client believes in every one it has begun (EndsAt, Ftp4). *)
FtpSocks5Inv == TypeOK /\ ConnectedMeansTunnel /\ HandshakeIsConsumed /\ PasswordComesFirst
=============================================================================
