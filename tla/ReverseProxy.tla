---------------------------- MODULE ReverseProxy ----------------------------
(***************************************************************************)
(* The reverse proxy of mini-gateway-proxy (reverse_proxy.c): one thread    *)
(* that accepts a client, reads one request, connects to a backend and      *)
(* pipes data both ways until both sides have closed or nothing happens.    *)
(* The client and the backend send chunks and close whenever they like.     *)
(***************************************************************************)
EXTENDS ApiGateway

CONSTANTS Messages,     \* requests, as sequences of header lines
          ProxyPaths, Rules,   \* paths of requests and of the proxy's rules
          HasBackend,   \* is there a default backend
          MaxChunks, MaxAccepted

ASSUME MessagesAssumption == Messages \subseteq Seq(STRING)

VARIABLES pc,           \* where proxy_handle_request is
          client_fd, backend_fd,        \* is the descriptor open
          client, backend,              \* the peers: chunks not read, closed
          request, to_backend, to_client,
          sent_c, sent_b,               \* chunks the peers have sent in all
          accepted

proxyVars == <<pc, client_fd, backend_fd, client, backend, request, to_backend,
          to_client, sent_c, sent_b, accepted>>

Peer == [unread |-> <<>>, eof |-> FALSE]

ProxyInit ==
  /\ pc = "select" /\ accepted = 0
  /\ client_fd = FALSE /\ backend_fd = FALSE
  /\ client = Peer /\ backend = Peer
  /\ request = <<>> /\ to_backend = <<>> /\ to_client = <<>>
  /\ sent_c = <<>> /\ sent_b = <<>>

(* The part of the first read that proxy_rewrite_headers looks at: the lines *)
(* that end in a carriage return.  What stands behind the last of them, the  *)
(* beginning of a body read with the headers, is dropped.                    *)
Header(lines) ==
  LET cut == {i \in DOMAIN lines : lines[i] = "body"}
  IN  IF cut = {} THEN lines
      ELSE SubSeq(lines, 1, (CHOOSE i \in cut : \A j \in cut : i <= j) - 1)

Rewritten(line) ==
  CASE line = "Host" -> "Host: backend" [] line = "XFF" -> "XFF: client" [] OTHER -> line

Missing(line, lines) == IF \E i \in DOMAIN lines : lines[i] = line THEN <<>> ELSE <<Rewritten(line)>>

(* Host and X-Forwarded-For are replaced where they stand, or added at the   *)
(* very end, behind the blank line.                                          *)
proxy_rewrite_headers(lines) ==
  [i \in DOMAIN Header(lines) |-> Rewritten(Header(lines)[i])]
    \o Missing("Host", Header(lines)) \o Missing("XFF", Header(lines))

(* The longest rule the path starts with; <<>> stands for NULL.              *)
proxy_match_rule(path) ==
  LET hits == {r \in Rules : IsPrefix(r, path)} \cup {<<>>}
  IN  CHOOSE r \in hits : \A q \in hits : Len(q) <= Len(r)

-----------------------------------------------------------------------------
CloseBoth ==
  /\ client_fd' = FALSE /\ backend_fd' = FALSE
  /\ pc' = "select"

proxy_accept_connection ==
  /\ pc = "select" /\ accepted < MaxAccepted
  /\ accepted' = accepted + 1
  /\ pc' = "read" /\ client_fd' = TRUE
  /\ client' = Peer /\ backend' = Peer
  /\ to_backend' = <<>> /\ to_client' = <<>> /\ sent_c' = <<>> /\ sent_b' = <<>>
  /\ UNCHANGED <<backend_fd, request>>

(* The blocking first read; a client that sends nothing is closed.           *)
ReadRequest ==
  /\ pc = "read"
  /\ \/ /\ client.unread # <<>>
        /\ request' = Head(client.unread)
        /\ client' = [client EXCEPT !.unread = Tail(@)]
        /\ pc' = "route" /\ UNCHANGED client_fd
     \/ /\ client.unread = <<>> /\ client.eof
        /\ pc' = "select" /\ client_fd' = FALSE
        /\ UNCHANGED <<client, request>>
  /\ UNCHANGED <<backend_fd, backend, to_backend, to_client, sent_c, sent_b, accepted>>

(* Mutant: the refused client is answered and left open.                     *)
AnswersWithoutClose ==
  /\ to_client' = Append(to_client, "502")
  /\ pc' = "select" /\ UNCHANGED <<client_fd, backend_fd>>

BadGateway == to_client' = Append(to_client, "502") /\ CloseBoth

(* Rule, default backend or 502; connecting fails, or seems to succeed (a    *)
(* refusal that select reports as writable is seen as a closed backend).     *)
proxy_connect_backend ==
  /\ pc = "route"
  /\ \/ /\ proxy_match_rule(request.path) = <<>> /\ ~HasBackend
        /\ BadGateway
        /\ UNCHANGED <<backend, to_backend>>
     \/ /\ proxy_match_rule(request.path) # <<>> \/ HasBackend
        /\ \/ BadGateway /\ UNCHANGED <<backend, to_backend>>
           \/ /\ backend_fd' = TRUE
              /\ \E refused \in BOOLEAN : backend' = [Peer EXCEPT !.eof = refused]
              /\ to_backend' = <<proxy_rewrite_headers(request.lines)>>
              /\ pc' = "write_b"
              /\ UNCHANGED <<client_fd, to_client>>
  /\ UNCHANGED <<client, request, sent_c, sent_b, accepted>>

(* write to either side has no timeout: it returns at some time, or never.   *)
(* A write to a peer that is gone is lost, or kills the process by SIGPIPE.  *)
WriteReturns ==
  /\ \/ /\ pc = "write_b"
        /\ pc' \in IF backend.eof THEN {"pipe", "killed"} ELSE {"pipe"}
     \/ /\ pc = "write_c"
        /\ pc' \in IF client.eof THEN {"pipe", "killed"} ELSE {"pipe"}
  /\ UNCHANGED <<client_fd, backend_fd, client, backend, request, to_backend, to_client,
                 sent_c, sent_b, accepted>>

(* One readable side of proxy_pipe_data's loop.                              *)
PipeClient ==
  /\ pc = "pipe" /\ client_fd
  /\ \/ /\ client.unread # <<>>
        /\ client' = [client EXCEPT !.unread = Tail(@)]
        /\ to_backend' = IF backend_fd THEN Append(to_backend, Head(client.unread))
                                       ELSE to_backend
        /\ pc' = IF backend_fd THEN "write_b" ELSE "pipe"
        /\ UNCHANGED client_fd
     \/ /\ client.unread = <<>> /\ client.eof
        /\ client_fd' = FALSE
        /\ UNCHANGED <<pc, client, to_backend>>
  /\ UNCHANGED <<backend_fd, backend, request, to_client, sent_c, sent_b, accepted>>

PipeBackend ==
  /\ pc = "pipe" /\ backend_fd
  /\ \/ /\ backend.unread # <<>>
        /\ backend' = [backend EXCEPT !.unread = Tail(@)]
        /\ to_client' = IF client_fd THEN Append(to_client, Head(backend.unread))
                                     ELSE to_client
        /\ pc' = IF client_fd THEN "write_c" ELSE "pipe"
        /\ UNCHANGED backend_fd
     \/ /\ backend.unread = <<>> /\ backend.eof
        /\ backend_fd' = FALSE
        /\ UNCHANGED <<pc, backend, to_client>>
  /\ UNCHANGED <<client_fd, client, request, to_backend, sent_c, sent_b, accepted>>

(* Both sides closed, or 30 s without anything to read on the open ones.     *)
proxy_close_connection ==
  /\ pc = "pipe"
  /\ client_fd => client.unread = <<>>
  /\ backend_fd => backend.unread = <<>>
  /\ CloseBoth
  /\ UNCHANGED <<client, backend, request, to_backend, to_client, sent_c, sent_b, accepted>>

(* The peers.  The first thing a client sends is its request.                *)
ClientSends ==
  /\ client_fd /\ ~client.eof /\ Len(sent_c) < MaxChunks
  /\ \E chunk \in IF sent_c = <<>> THEN [path: ProxyPaths, lines: Messages] ELSE {Len(sent_c)} :
       /\ client' = [client EXCEPT !.unread = Append(@, chunk)]
       /\ sent_c' = Append(sent_c, chunk)
  /\ UNCHANGED <<pc, client_fd, backend_fd, backend, request, to_backend, to_client,
                 sent_b, accepted>>

ClientCloses ==
  /\ client_fd /\ ~client.eof
  /\ client' = [client EXCEPT !.eof = TRUE]
  /\ UNCHANGED <<pc, client_fd, backend_fd, backend, request, to_backend, to_client,
                 sent_c, sent_b, accepted>>

BackendActs ==
  /\ backend_fd /\ ~backend.eof
  /\ \/ /\ Len(sent_b) < MaxChunks
        /\ backend' = [backend EXCEPT !.unread = Append(@, Len(sent_b))]
        /\ sent_b' = Append(sent_b, Len(sent_b))
     \/ backend' = [backend EXCEPT !.eof = TRUE] /\ UNCHANGED sent_b
  /\ UNCHANGED <<pc, client_fd, backend_fd, client, request, to_backend, to_client,
                 sent_c, accepted>>

ProxyNext ==
  \/ proxy_accept_connection \/ ReadRequest \/ proxy_connect_backend
  \/ WriteReturns \/ PipeClient \/ PipeBackend \/ proxy_close_connection
  \/ ClientSends \/ ClientCloses \/ BackendActs

(* No fairness: a client that connects and stays silent, one that does not   *)
(* read, or peers that keep sending hold the only thread for as long as they *)
(* like, since read and write have no timeout and select's 30 s start again  *)
(* with every datum.                                                         *)
ProxySpec == ProxyInit /\ [][ProxyNext]_proxyVars

-----------------------------------------------------------------------------
(* Of the first read the backend gets every header line at its place, with   *)
(* the proxy's Host and X-Forwarded-For and never the client's, and nothing  *)
(* more; a body read together with the headers is lost.                      *)
HeaderPasses(text, lines) ==
  /\ Len(text) <= Len(Header(lines)) + 2
  /\ \A i \in DOMAIN Header(lines) :
       Header(lines)[i] \notin {"Host", "XFF"} => text[i] = Header(lines)[i]
  /\ \A l \in {"Host: backend", "XFF: client"} : \E i \in DOMAIN text : text[i] = l
  /\ \A i \in DOMAIN text :
       /\ text[i] \notin {"Host", "XFF"}
       /\ i > Len(Header(lines)) => text[i] \in {"Host: backend", "XFF: client"}

(* The backend gets the rewritten header of what the client sent first and   *)
(* then, in order and without gaps, whatever was sent behind that first      *)
(* read; the client gets what the backend sent, or a refusal; and when the   *)
(* proxy waits for the next client nothing of the last one is left open.     *)
ProxyRelays ==
  /\ to_backend # <<>> =>
       /\ sent_c # <<>> /\ HeaderPasses(to_backend[1], sent_c[1].lines)
       /\ IsPrefix(Tail(to_backend), Tail(sent_c))
  /\ IsPrefix(to_client, sent_b) \/ to_client = <<"502">>
  /\ pc = "select" => ~client_fd /\ ~backend_fd

(* Middleware, API gateway and reverse proxy: a request passes the whole     *)
(* chain or stops at the first refusal, a route is found exactly when there  *)
(* is one, and behind the first read, of which the header passes, data is    *)
(* relayed in order with nothing left open.                                  *)
RequestsRelayed == ChainPasses /\ RouteSound /\ ProxyRelays
=============================================================================
