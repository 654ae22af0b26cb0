----------------------------- MODULE SocketDemo -----------------------------
(***************************************************************************)
(* The socket demonstrations: a board with tcpclient (or udpclient) and    *)
(* one with tcpserver (or udpserver).  Each joins a hotspot, runs its test *)
(* and leaves the hotspot; the client sends a request, the server sends    *)
(* back what it received.  Sockets are lwip's: a connection waits in the   *)
(* queue of a listening socket before it is accepted, a stream delivers    *)
(* any part of what was sent, a datagram may be lost.                      *)
(***************************************************************************)
EXTENDS Naturals

CONSTANTS
  Request  \* bytes of the request with its terminating zero (sizeof request)

VARIABLES
  proto,   \* "tcp" or "udp": which pair of programs
  client, server,  \* pc of NetDemoTask, whether it has a netId, Wi-Fi enabled and a link,
                   \* bytes received and sent
  sockfd,  \* sockets open: [client, server, conn -> BOOLEAN]
  port,    \* what the server's socket does: "none", "bound" or "listen"
  conn,    \* the connection: "none", "queued", "open", "shut" by the peer, "reset"
  up, down \* bytes, or the datagram, under way to the server and to the client

vars == <<proto, client, server, sockfd, port, conn, up, down>>

Task == [pc |-> "delay", netId |-> FALSE, wifi |-> FALSE, link |-> FALSE, got |-> 0, sent |-> 0]

Init ==
  /\ proto \in {"tcp", "udp"}
  /\ client = Task /\ server = Task
  /\ sockfd = [client |-> FALSE, server |-> FALSE, conn |-> FALSE]
  /\ port = "none" /\ conn = "none" /\ up = 0 /\ down = 0

(***************************************************************************)
(* ConnectToHotspot looks at none of its results: it waits for g_connected *)
(* without a time-out, whatever has failed before, and gives back the      *)
(* netId of AddDeviceConfig, -1 when there is none.                        *)
(***************************************************************************)

Asked(task, next) ==
  \E wifi, netId \in BOOLEAN : next = [task EXCEPT !.pc = "join", !.wifi = wifi, !.netId = netId]

\* The link of an enabled station, and g_connected with it, come and go while it waits.
Linked(task, next) ==
  task.pc = "join" /\ task.wifi /\ next = [task EXCEPT !.link = ~task.link]

Hotspot ==
  /\ \/ Linked(client, client') /\ UNCHANGED server
     \/ Linked(server, server') /\ UNCHANGED client
  /\ UNCHANGED <<proto, sockfd, port, conn, up, down>>

(***************************************************************************)
(* NetDemoTask of the client.                                              *)
(***************************************************************************)

ClientGoes(from, to) == client.pc = from /\ client' = [client EXCEPT !.pc = to]

ClientAsks ==
  /\ client.pc = "delay" /\ Asked(client, client')
  /\ UNCHANGED <<proto, server, sockfd, port, conn, up, down>>

\* Without a netId the task returns, with the link up and Wi-Fi enabled; with one the test
\* begins with its socket.
ClientJoins ==
  /\ client.link
  /\ \/ ~client.netId /\ ClientGoes("join", "ended") /\ UNCHANGED sockfd
     \/ /\ client.netId /\ ClientGoes("join", IF proto = "tcp" THEN "connect" ELSE "send")
        /\ sockfd' = [sockfd EXCEPT !.client = TRUE]
  /\ UNCHANGED <<proto, server, port, conn, up, down>>

\* connect() needs a listening socket with room in its queue; it may fail with one too.
ClientConnects ==
  /\ \/ ClientGoes("connect", "cleanup") /\ UNCHANGED conn
     \/ ClientGoes("connect", "send") /\ port = "listen" /\ conn = "none" /\ conn' = "queued"
  /\ UNCHANGED <<proto, server, sockfd, port, up, down>>

\* The request with its terminating zero; a connection that was reset takes nothing.
ClientSends ==
  /\ proto = "tcp" /\ client.pc = "send"
  /\ \/ client' = [client EXCEPT !.pc = "cleanup"] /\ UNCHANGED up
     \/ /\ conn # "reset" /\ up' = Request
        /\ client' = [client EXCEPT !.pc = "recv", !.sent = Request]
  /\ UNCHANGED <<proto, server, sockfd, port, conn, down>>

\* recv() waits for bytes; the end of the connection ends the test as well.
ClientReceives ==
  /\ proto = "tcp" /\ client.pc = "recv"
  /\ \/ \E n \in 1 .. down :
          client' = [client EXCEPT !.pc = "cleanup", !.got = n] /\ down' = down - n
     \/ /\ \/ conn = "reset"
           \/ conn = "shut" /\ down = 0
        /\ client' = [client EXCEPT !.pc = "cleanup"] /\ UNCHANGED down
  /\ UNCHANGED <<proto, server, sockfd, port, conn, up>>

\* sendto(): a datagram may be lost, and is when no socket is bound to the port.
UdpClientSends ==
  /\ proto = "udp" /\ client.pc = "send"
  /\ \/ client' = [client EXCEPT !.pc = "cleanup"] /\ UNCHANGED up
     \/ /\ client' = [client EXCEPT !.pc = "recv", !.sent = Request]
        /\ up' \in IF port = "bound" THEN {0, Request} ELSE {0}
  /\ UNCHANGED <<proto, server, sockfd, port, conn, down>>

\* recvfrom() waits for a datagram without a time-out.
UdpClientReceives ==
  /\ proto = "udp" /\ client.pc = "recv" /\ down > 0 /\ down' = 0
  /\ client' = [client EXCEPT !.pc = "cleanup", !.got = down]
  /\ UNCHANGED <<proto, server, sockfd, port, conn, up>>

\* do_cleanup: a connection that still waits to be accepted stays in the queue, closed.
ClientCleanup ==
  /\ ClientGoes("cleanup", "leave")
  /\ sockfd' = [sockfd EXCEPT !.client = FALSE]
  /\ conn' = IF conn = "open" THEN "shut" ELSE conn
  /\ UNCHANGED <<proto, server, port, up, down>>

ClientLeaves ==
  /\ client.pc = "leave" /\ client' = [client EXCEPT !.pc = "ended", !.wifi = FALSE, !.link = FALSE]
  /\ UNCHANGED <<proto, server, sockfd, port, conn, up, down>>

TcpClientTest == ClientConnects \/ ClientSends \/ ClientReceives
UdpClientTest == UdpClientSends \/ UdpClientReceives
Client == ClientAsks \/ ClientJoins \/ TcpClientTest \/ UdpClientTest \/ ClientCleanup \/ ClientLeaves

(***************************************************************************)
(* NetDemoTask of the server.                                              *)
(***************************************************************************)

ServerGoes(from, to) == server.pc = from /\ server' = [server EXCEPT !.pc = to]

ServerAsks ==
  /\ server.pc = "delay" /\ Asked(server, server')
  /\ UNCHANGED <<proto, client, sockfd, port, conn, up, down>>

ServerJoins ==
  /\ server.link
  /\ \/ ~server.netId /\ ServerGoes("join", "ended") /\ UNCHANGED sockfd
     \/ server.netId /\ ServerGoes("join", "bind") /\ sockfd' = [sockfd EXCEPT !.server = TRUE]
  /\ UNCHANGED <<proto, client, port, conn, up, down>>

ServerBinds ==
  /\ proto = "tcp"
  /\ \/ ServerGoes("bind", "cleanup") /\ UNCHANGED port
     \/ ServerGoes("bind", "listen") /\ port' = "bound"
     \/ ServerGoes("listen", "cleanup") /\ UNCHANGED port
     \/ ServerGoes("listen", "accept") /\ port' = "listen"
  /\ UNCHANGED <<proto, client, sockfd, conn, up, down>>

UdpServerBinds ==
  /\ proto = "udp"
  /\ \/ ServerGoes("bind", "cleanup") /\ UNCHANGED port
     \/ ServerGoes("bind", "recv") /\ port' = "bound"
  /\ UNCHANGED <<proto, client, sockfd, conn, up, down>>

\* accept() waits for a connection in the queue; with a failure the socket is closed.
ServerAccepts ==
  /\ \/ ServerGoes("accept", "cleanup") /\ UNCHANGED <<sockfd, conn>>
     \/ /\ ServerGoes("accept", "recv") /\ conn = "queued"
        /\ conn' = IF sockfd.client THEN "open" ELSE "shut"
        /\ sockfd' = [sockfd EXCEPT !.conn = TRUE]
  /\ UNCHANGED <<proto, client, port, up, down>>

\* Part of the request, or the end of the connection.
ServerReceives ==
  /\ proto = "tcp" /\ server.pc = "recv"
  /\ \/ \E n \in 1 .. up :
          server' = [server EXCEPT !.pc = "send", !.got = n] /\ up' = up - n
     \/ /\ up = 0 /\ conn = "shut" /\ UNCHANGED up
        /\ server' = [server EXCEPT !.pc = "disconnect"]
  /\ UNCHANGED <<proto, client, sockfd, port, conn, down>>

\* A whole datagram, or a failure.
UdpServerReceives ==
  /\ proto = "udp"
  /\ \/ /\ server.pc = "recv" /\ up > 0 /\ up' = 0
        /\ server' = [server EXCEPT !.pc = "send", !.got = up]
     \/ ServerGoes("recv", "cleanup") /\ UNCHANGED up
  /\ UNCHANGED <<proto, client, sockfd, port, conn, down>>

\* strlen(request): without the terminating zero when it has arrived.
Echo(n) == IF n = Request THEN Request - 1 ELSE n

ServerSends ==
  /\ proto = "tcp" /\ server.pc = "send"
  /\ \/ server' = [server EXCEPT !.pc = "disconnect"] /\ UNCHANGED down
     \/ /\ server' = [server EXCEPT !.pc = "disconnect", !.sent = Echo(server.got)]
        /\ down' = IF conn = "open" THEN Echo(server.got) ELSE 0
  /\ UNCHANGED <<proto, client, sockfd, port, conn, up>>

\* To the address the datagram came from; the answer may be lost.
UdpServerSends ==
  /\ proto = "udp" /\ server.pc = "send"
  /\ \/ server' = [server EXCEPT !.pc = "cleanup"] /\ UNCHANGED down
     \/ /\ server' = [server EXCEPT !.pc = "cleanup", !.sent = Echo(server.got)]
        /\ down' \in {0, Echo(server.got)}
  /\ UNCHANGED <<proto, client, sockfd, port, conn, up>>

\* do_disconnect, a second before and after.  Closing with bytes unread resets.
ServerDisconnects ==
  /\ ServerGoes("disconnect", "cleanup")
  /\ sockfd' = [sockfd EXCEPT !.conn = FALSE]
  /\ conn' = IF up > 0 THEN "reset" ELSE "shut"
  /\ down' = IF up > 0 THEN 0 ELSE down
  /\ up' = 0
  /\ UNCHANGED <<proto, client, port>>

\* do_cleanup: a connection in the queue of the listening socket is reset.
ServerCleanup ==
  /\ ServerGoes("cleanup", "leave")
  /\ sockfd' = [sockfd EXCEPT !.server = FALSE] /\ port' = "none"
  /\ conn' = IF conn = "queued" THEN "reset" ELSE conn
  /\ up' = IF proto = "udp" \/ conn = "queued" THEN 0 ELSE up
  /\ UNCHANGED <<proto, client, down>>

ServerLeaves ==
  /\ server.pc = "leave" /\ server' = [server EXCEPT !.pc = "ended", !.wifi = FALSE, !.link = FALSE]
  /\ UNCHANGED <<proto, client, sockfd, port, conn, up, down>>

TcpServerTest ==
  ServerBinds \/ ServerAccepts \/ ServerReceives \/ ServerSends \/ ServerDisconnects
UdpServerTest == UdpServerBinds \/ UdpServerReceives \/ UdpServerSends
Server == ServerAsks \/ ServerJoins \/ TcpServerTest \/ UdpServerTest \/ ServerCleanup \/ ServerLeaves

Next == Client \/ Server \/ Hotspot

\* Both boards run; a call that may fail or wait is not owed its success, and a board not
\* its link.
Fairness == WF_vars(Client) /\ WF_vars(Server)
Spec == Init /\ [][Next]_vars /\ Fairness

(***************************************************************************)
(* Properties.                                                             *)
(***************************************************************************)

Pcs == {"delay", "join", "connect", "send", "recv", "cleanup", "leave", "bind", "listen", "accept",
        "disconnect", "ended"}
\* Types: the two tasks, their sockets, the connection and the bytes under way.
TypeOK ==
  LET T == [pc : Pcs, netId : BOOLEAN, wifi : BOOLEAN, link : BOOLEAN,
            got : 0 .. Request, sent : 0 .. Request]
  IN  /\ proto \in {"tcp", "udp"} /\ client \in T /\ server \in T
      /\ sockfd \in [{"client", "server", "conn"} -> BOOLEAN]
      /\ port \in {"none", "bound", "listen"}
      /\ conn \in {"none", "queued", "open", "shut", "reset"}
      /\ up \in 0 .. Request /\ down \in 0 .. Request

\* What the client receives is part of what the server received of it, and never the
\* terminating zero: the answer is no longer than the text of the request.
EchoOfRequest ==
  /\ client.got <= server.sent /\ server.sent <= server.got
  /\ server.sent < Request

\* A program that has ended has closed its sockets and, if it had a netId, left the hotspot and
\* disabled Wi-Fi, on every path of its test.  One without a netId leaves both as they are.
Released ==
  /\ client.pc = "ended" => ~sockfd.client /\ (client.netId => ~client.link /\ ~client.wifi)
  /\ server.pc = "ended" =>
       ~sockfd.server /\ ~sockfd.conn /\ (server.netId => ~server.link /\ ~server.wifi)

\* The TCP client that has joined the hotspot ends whatever fails on either board, and
\* whether or not the other has joined; so does the server that has accepted it.
TcpEnds ==
  proto = "tcp" =>
    /\ client.pc \notin {"delay", "join"} ~> client.pc = "ended"
    /\ sockfd.conn ~> server.pc = "ended"

\* The TCP client ends.  It does not when its hotspot never takes it: ConnectToHotspot has no
\* time-out.
TcpBegins == proto = "tcp" => <>(client.pc = "ended")

\* The UDP client ends.  It does not when a datagram is lost, or is sent before the server
\* has bound its socket: recvfrom has no time-out.
UdpEnds == proto = "udp" => <>(client.pc = "ended")
=============================================================================
