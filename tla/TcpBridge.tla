----------------------------- MODULE TcpBridge -----------------------------
(***************************************************************************)
(* The TCP bridge for one client (tcp_server.c): the GNSS reader on core 1 *)
(* posts raw UART chunks into a queue that drops its oldest entry, the     *)
(* server task on core 0 accepts, serves and drops the client, and the web *)
(* server asks for a disconnect.  They share client_socket, the flag       *)
(* disconnect_requested and the queue, without a lock.                     *)
(*                                                                         *)
(* Chunks carry their number in the UART stream, and a client's connection *)
(* the number of its session; a send writes a chunk in Parts pieces.       *)
(* Diagnostic counters, the endpoint text and the rejection of a second    *)
(* client change nothing of this and are left out.                         *)
(***************************************************************************)
EXTENDS Integers, Sequences

CONSTANTS Depth,        \* TCP_QUEUE_DEPTH (64)
          Parts,        \* pieces a chunk is sent in
          MaxChunks,    \* bound: chunks the UART delivers
          MaxSessions   \* bound: clients that connect

ASSUME SizesAssumption == /\ Depth \in Nat \ {0}
                          /\ Parts \in Nat \ {0}
                          /\ MaxChunks \in Nat
                          /\ MaxSessions \in Nat

INVALID_SOCK == 0

VARIABLES
    chunk,                 \* the last chunk read from the UART
    rpc,                   \* where the reader is in post_raw_gnss_data_tcp
    q_tcp_server,          \* the queue
    alive,                 \* its handle is not NULL
    spc,                   \* where the server task is in its loop
    client_socket,         \* the session being served, or INVALID_SOCK
    disconnect_requested,  \* set by the web server
    pending_tx_frame, pending_tx_valid, pending_tx_offset,
    wpc, wsock,            \* the web request: its step, and its local sock
    sessions,              \* external: clients accepted so far
    conn,                  \* external: the connection open on the descriptor
    peer,                  \* external: its state
    sent,                  \* external: the last piece it was given
    left,                  \* history: the chunk last read when a client went
    came                   \* history: the chunk last read when the next one came

uart    == <<chunk, rpc>>
pending == <<pending_tx_frame, pending_tx_valid, pending_tx_offset>>
web     == <<wpc, wsock>>
net     == <<sessions, conn, peer, sent, left, came>>
vars    == <<uart, q_tcp_server, alive, spc, client_socket,
             disconnect_requested, pending, web, net>>

Nothing == [chunk |-> 0, part |-> Parts]   \* nothing sent in this session
NotYet  == -1                              \* no client came since the last went

\* The types of all variables; the offset never passes the end of the frame.
TypeOK ==
    /\ chunk \in 0..MaxChunks
    /\ rpc \in {"idle", "check", "send", "drop"}
    /\ q_tcp_server \in Seq(1..MaxChunks)
    /\ Len(q_tcp_server) <= Depth
    /\ alive \in BOOLEAN
    /\ spc \in {"top", "again", "accept", "setup", "recv", "serve", "send",
                "drain", "flush_request", "flush_command", "error", "stopped"}
    /\ client_socket \in 0..MaxSessions
    /\ disconnect_requested \in BOOLEAN
    /\ pending_tx_frame \in 0..MaxChunks
    /\ pending_tx_valid \in BOOLEAN
    /\ pending_tx_offset \in 0..(Parts - 1)
    /\ wpc \in {"idle", "flag", "shutdown"}
    /\ wsock \in 0..MaxSessions
    /\ sessions \in 0..MaxSessions
    /\ conn \in 0..MaxSessions
    /\ peer \in {"open", "fin", "shut"}
    /\ sent \in [chunk : 0..MaxChunks, part : 1..Parts]
    /\ left \in 0..MaxChunks
    /\ came \in 0..MaxChunks \cup {NotYet}

\* The listening socket and the queue exist; the server enters its loop.
Init == /\ chunk = 0
        /\ rpc = "idle"
        /\ q_tcp_server = <<>>
        /\ alive = TRUE
        /\ spc = "top"
        /\ client_socket = INVALID_SOCK
        /\ disconnect_requested = FALSE
        /\ pending_tx_frame = 0
        /\ pending_tx_valid = FALSE
        /\ pending_tx_offset = 0
        /\ wpc = "idle"
        /\ wsock = INVALID_SOCK
        /\ sessions = 0
        /\ conn = 0
        /\ peer = "open"
        /\ sent = Nothing
        /\ left = 0
        /\ came = NotYet

-----------------------------------------------------------------------------
(* The reader: post_raw_gnss_data_tcp.                                     *)

ReadUart ==
    /\ rpc = "idle"
    /\ chunk < MaxChunks
    /\ chunk' = chunk + 1
    /\ rpc' = "check"
    /\ UNCHANGED <<q_tcp_server, alive, spc, client_socket,
                   disconnect_requested, pending, web, net>>

\* Without a queue or a client the chunk is discarded.
CheckClient ==
    /\ rpc = "check"
    /\ rpc' = IF alive /\ client_socket # INVALID_SOCK THEN "send" ELSE "idle"
    /\ UNCHANGED <<chunk, q_tcp_server, alive, spc, client_socket,
                   disconnect_requested, pending, web, net>>

\* xQueueSend without waiting.
PostChunk ==
    /\ rpc = "send"
    /\ alive
    /\ IF Len(q_tcp_server) < Depth
       THEN /\ q_tcp_server' = Append(q_tcp_server, chunk)
            /\ rpc' = "idle"
       ELSE /\ rpc' = "drop"
            /\ UNCHANGED q_tcp_server
    /\ UNCHANGED <<chunk, alive, spc, client_socket, disconnect_requested,
                   pending, web, net>>

\* The oldest chunk makes room.
DropOldest ==
    /\ rpc = "drop"
    /\ alive
    /\ q_tcp_server # <<>>
    /\ q_tcp_server' = Tail(q_tcp_server)
    /\ rpc' = "send"
    /\ UNCHANGED <<chunk, alive, spc, client_socket, disconnect_requested,
                   pending, web, net>>

\* "unable to drop stale data": the server has emptied the queue meanwhile.
GiveUp ==
    /\ rpc = "drop"
    /\ alive
    /\ q_tcp_server = <<>>
    /\ rpc' = "idle"
    /\ UNCHANGED <<chunk, q_tcp_server, alive, spc, client_socket,
                   disconnect_requested, pending, web, net>>

\* The server has deleted the queue since the check.  The chunk is lost; what
\* else a freed or NULL handle does to the firmware is not followed here.
PostToDeletedQueue ==
    /\ rpc \in {"send", "drop"}
    /\ ~alive
    /\ rpc' = "idle"
    /\ UNCHANGED <<chunk, q_tcp_server, alive, spc, client_socket,
                   disconnect_requested, pending, web, net>>

Reader == ReadUart \/ CheckClient \/ PostChunk \/ DropOldest \/ GiveUp
          \/ PostToDeletedQueue

-----------------------------------------------------------------------------
(* The server task: one pass of its loop per round through spc.  The       *)
(* volatile flag is read twice in a round: together with the client's      *)
(* socket ("top"), and alone where that test fails ("again").              *)

ResetPending == /\ pending_tx_valid' = FALSE
                /\ pending_tx_offset' = 0
                /\ UNCHANGED pending_tx_frame

CloseClient == /\ client_socket' = INVALID_SOCK
               /\ conn' = 0
               /\ ResetPending
               /\ UNCHANGED <<sessions, peer, sent>>

\* History: a client that was served is given up.
ClientGoes == left' = chunk /\ came' = NotYet

\* A web request is pending for the client: forget the client first.
TakeRequest ==
    /\ spc = "top"
    /\ disconnect_requested
    /\ client_socket # INVALID_SOCK
    /\ client_socket' = INVALID_SOCK
    /\ disconnect_requested' = FALSE
    /\ spc' = "flush_request"
    /\ ClientGoes
    /\ UNCHANGED <<uart, q_tcp_server, alive, pending, web, sessions, conn, peer,
                   sent>>

\* No request, or no client for it: the flag is looked at once more.
PassRequest ==
    /\ spc = "top"
    /\ ~disconnect_requested \/ client_socket = INVALID_SOCK
    /\ spc' = "again"
    /\ UNCHANGED <<uart, q_tcp_server, alive, client_socket,
                   disconnect_requested, pending, web, net>>

Onwards == spc' = IF client_socket = INVALID_SOCK THEN "accept" ELSE "recv"

\* Mutation: the second test of the flag leaves it set.
ForgetRequestKept ==
    /\ spc = "again"
    /\ disconnect_requested
    /\ Onwards
    /\ UNCHANGED <<uart, q_tcp_server, alive, client_socket,
                   disconnect_requested, pending, web, net>>

\* The request has no client any more; or it came after the first test, and is
\* dropped with the client there (the web server's shutdown ends its session).
ForgetRequest ==
    /\ spc = "again"
    /\ disconnect_requested
    /\ disconnect_requested' = FALSE
    /\ Onwards
    /\ UNCHANGED <<uart, q_tcp_server, alive, client_socket, pending, web, net>>

NoRequest ==
    /\ spc = "again"
    /\ ~disconnect_requested
    /\ Onwards
    /\ UNCHANGED <<uart, q_tcp_server, alive, client_socket,
                   disconnect_requested, pending, web, net>>

\* tcp_server_drain_queue
DrainOne ==
    /\ spc \in {"flush_request", "flush_command"}
    /\ q_tcp_server # <<>>
    /\ q_tcp_server' = Tail(q_tcp_server)
    /\ UNCHANGED <<uart, alive, spc, client_socket, disconnect_requested,
                   pending, web, net>>

\* The queue is empty: the client of the request is closed.
FinishRequest ==
    /\ spc = "flush_request"
    /\ q_tcp_server = <<>>
    /\ CloseClient
    /\ spc' = "accept"
    /\ UNCHANGED <<uart, q_tcp_server, alive, disconnect_requested, web,
                   left, came>>

\* The queue is empty: the command goes to the receiver (uart_write_bytes).
FinishCommand ==
    /\ spc = "flush_command"
    /\ q_tcp_server = <<>>
    /\ spc' = "serve"
    /\ UNCHANGED <<uart, q_tcp_server, alive, client_socket,
                   disconnect_requested, pending, web, net>>

AcceptClient ==
    /\ spc = "accept"
    /\ sessions < MaxSessions
    /\ sessions' = sessions + 1
    /\ conn' = sessions'
    /\ peer' = "open"
    /\ sent' = Nothing
    /\ client_socket' = sessions'
    /\ came' = IF came = NotYet THEN chunk ELSE came
    /\ spc' = "setup"
    /\ UNCHANGED <<uart, q_tcp_server, alive, disconnect_requested, pending, web,
                   left>>

\* No pending connection, or no free descriptor.
AcceptNone ==
    /\ spc = "accept"
    /\ spc' = "drain"
    /\ UNCHANGED <<uart, q_tcp_server, alive, client_socket,
                   disconnect_requested, pending, web, net>>

\* Any other error of accept; or the socket cannot be made non-blocking.
AcceptFails ==
    /\ spc \in {"accept", "setup"}
    /\ spc' = "error"
    /\ UNCHANGED <<uart, q_tcp_server, alive, client_socket,
                   disconnect_requested, pending, web, net>>

SetupClient ==
    /\ spc = "setup"
    /\ spc' = "recv"
    /\ UNCHANGED <<uart, q_tcp_server, alive, client_socket,
                   disconnect_requested, pending, web, net>>

\* TCP_NODELAY or F_GETFL fails: continue with the next round.
SetupFails ==
    /\ spc = "setup"
    /\ CloseClient
    /\ spc' = "top"
    /\ UNCHANGED <<uart, q_tcp_server, alive, disconnect_requested, web,
                   left, came>>

\* try_receive: nothing there.
ReceiveNothing ==
    /\ spc = "recv"
    /\ peer = "open"
    /\ spc' = "serve"
    /\ UNCHANGED <<uart, q_tcp_server, alive, client_socket,
                   disconnect_requested, pending, web, net>>

\* "Prioritize command/response latency over stale background GNSS output".
ReceiveCommand ==
    /\ spc = "recv"
    /\ peer # "shut"
    /\ spc' = "flush_command"
    /\ UNCHANGED <<uart, q_tcp_server, alive, client_socket,
                   disconnect_requested, pending, web, net>>

\* Mutation: what is left of a frame survives its client.
ReceiveClosedKeepsPending ==
    /\ spc = "recv"
    /\ peer # "open"
    /\ client_socket' = INVALID_SOCK
    /\ conn' = 0
    /\ ClientGoes
    /\ spc' = "drain"
    /\ UNCHANGED <<uart, q_tcp_server, alive, disconnect_requested, pending, web,
                   sessions, peer, sent>>

\* Closed by the peer, by the web server's shutdown, or an error.
ReceiveClosed ==
    /\ spc = "recv"
    /\ peer # "open"
    /\ CloseClient
    /\ ClientGoes
    /\ spc' = "drain"
    /\ UNCHANGED <<uart, q_tcp_server, alive, disconnect_requested, web>>

\* What is left of the last frame goes first.
Serve ==
    /\ spc = "serve"
    /\ spc' = IF pending_tx_valid THEN "send" ELSE "drain"
    /\ UNCHANGED <<uart, q_tcp_server, alive, client_socket,
                   disconnect_requested, pending, web, net>>

\* Mutation: with no client the loop stops and leaves the queue as it is.
TakeChunkOnlyWithClient ==
    /\ spc = "drain"
    /\ ~pending_tx_valid
    /\ q_tcp_server # <<>>
    /\ IF client_socket = INVALID_SOCK
       THEN spc' = "top" /\ UNCHANGED <<q_tcp_server, pending>>
       ELSE /\ q_tcp_server' = Tail(q_tcp_server)
            /\ pending_tx_frame' = Head(q_tcp_server)
            /\ pending_tx_offset' = 0
            /\ pending_tx_valid' = TRUE
            /\ spc' = "send"
    /\ UNCHANGED <<uart, alive, client_socket, disconnect_requested, web, net>>

\* The next chunk is dropped without a client, and becomes pending with one.
TakeChunk ==
    /\ spc = "drain"
    /\ ~pending_tx_valid
    /\ q_tcp_server # <<>>
    /\ q_tcp_server' = Tail(q_tcp_server)
    /\ IF client_socket = INVALID_SOCK
       THEN UNCHANGED <<spc, pending>>
       ELSE /\ pending_tx_frame' = Head(q_tcp_server)
            /\ pending_tx_offset' = 0
            /\ pending_tx_valid' = TRUE
            /\ spc' = "send"
    /\ UNCHANGED <<uart, alive, client_socket, disconnect_requested, web, net>>

\* A deferred frame, or an empty queue, ends the round.
EndRound ==
    /\ spc = "drain"
    /\ pending_tx_valid \/ q_tcp_server = <<>>
    /\ spc' = "top"
    /\ UNCHANGED <<uart, q_tcp_server, alive, client_socket,
                   disconnect_requested, pending, web, net>>

\* Mutation: the end of the frame is missed.
SendPartPastEnd ==
    /\ spc = "send"
    /\ peer # "shut"
    /\ sent' = [chunk |-> pending_tx_frame, part |-> pending_tx_offset + 1]
    /\ pending_tx_offset' = pending_tx_offset + 1
    /\ UNCHANGED <<pending_tx_frame, pending_tx_valid, spc>>
    /\ UNCHANGED <<uart, q_tcp_server, alive, client_socket,
                   disconnect_requested, web, sessions, conn, peer,
                   left, came>>

\* send() accepts the next piece; the last one completes the frame.
SendPart ==
    /\ spc = "send"
    /\ peer # "shut"
    /\ sent' = [chunk |-> pending_tx_frame, part |-> pending_tx_offset + 1]
    /\ IF pending_tx_offset + 1 = Parts
       THEN ResetPending /\ spc' = "drain"
       ELSE /\ pending_tx_offset' = pending_tx_offset + 1
            /\ UNCHANGED <<pending_tx_frame, pending_tx_valid, spc>>
    /\ UNCHANGED <<uart, q_tcp_server, alive, client_socket,
                   disconnect_requested, web, sessions, conn, peer,
                   left, came>>

\* The socket stays blocked through all retries: "send deferred".
SendDeferred ==
    /\ spc = "send"
    /\ peer # "shut"
    /\ spc' = "drain"
    /\ UNCHANGED <<uart, q_tcp_server, alive, client_socket,
                   disconnect_requested, pending, web, net>>

SendFails ==
    /\ spc = "send"
    /\ peer # "open"
    /\ CloseClient
    /\ ClientGoes
    /\ spc' = "drain"
    /\ UNCHANGED <<uart, q_tcp_server, alive, disconnect_requested, web>>

\* The queue goes first, the client last; the task ends.
DeleteQueue ==
    /\ spc = "error"
    /\ alive
    /\ alive' = FALSE
    /\ q_tcp_server' = <<>>
    /\ UNCHANGED <<uart, spc, client_socket, disconnect_requested, pending,
                   web, net>>

Stop ==
    /\ spc = "error"
    /\ ~alive
    /\ CloseClient
    /\ spc' = "stopped"
    /\ UNCHANGED <<uart, q_tcp_server, alive, disconnect_requested, web,
                   left, came>>

Server == \/ TakeRequest \/ PassRequest \/ ForgetRequest \/ NoRequest
          \/ DrainOne \/ FinishRequest \/ FinishCommand
          \/ AcceptClient \/ AcceptNone \/ AcceptFails \/ SetupClient \/ SetupFails
          \/ ReceiveNothing \/ ReceiveCommand \/ ReceiveClosed
          \/ Serve \/ TakeChunk \/ EndRound
          \/ SendPart \/ SendDeferred \/ SendFails
          \/ DeleteQueue \/ Stop

-----------------------------------------------------------------------------
(* The web server: tcp_server_disconnect_client.                           *)

WebRequest ==
    /\ wpc = "idle"
    /\ client_socket # INVALID_SOCK
    /\ wsock' = client_socket
    /\ wpc' = "flag"
    /\ UNCHANGED <<uart, q_tcp_server, alive, spc, client_socket,
                   disconnect_requested, pending, net>>

WebFlag ==
    /\ wpc = "flag"
    /\ disconnect_requested' = TRUE
    /\ wpc' = "shutdown"
    /\ UNCHANGED <<uart, q_tcp_server, alive, spc, client_socket, pending,
                   wsock, net>>

\* shutdown of a descriptor that may be closed by now, or belong to the next
\* client already.
WebShutdown ==
    /\ wpc = "shutdown"
    /\ wpc' = "idle"
    /\ wsock' = INVALID_SOCK
    /\ \/ conn # 0 /\ peer' = "shut"
       \/ conn # wsock /\ UNCHANGED peer
    /\ UNCHANGED <<uart, q_tcp_server, alive, spc, client_socket,
                   disconnect_requested, pending, sessions, conn, sent,
                   left, came>>

Web == WebRequest \/ WebFlag \/ WebShutdown

\* External: the client closes its side.
PeerCloses ==
    /\ conn # 0
    /\ peer = "open"
    /\ peer' = "fin"
    /\ UNCHANGED <<uart, q_tcp_server, alive, spc, client_socket,
                   disconnect_requested, pending, web, sessions, conn, sent,
                   left, came>>

-----------------------------------------------------------------------------

Next == Reader \/ Server \/ Web \/ PeerCloses

Spec == Init /\ [][Next]_vars

\* The server task never blocks: its sockets do not wait, its sends give up
\* after SOCKET_MAX_RETRIES.  Nothing is assumed of the others.
FairSpec == Spec /\ WF_vars(Server)

-----------------------------------------------------------------------------
(* Properties.                                                             *)

\* Within a session the client gets whole chunks in UART order: a chunk that
\* was begun is continued where it stopped, after deferred sends, commands and
\* dropped chunks, and a new client never begins inside a chunk.
StreamKeepsChunks ==
    [][sent' # sent /\ conn' = conn =>
         \/ /\ sent'.chunk = sent.chunk
            /\ sent'.part = sent.part + 1
         \/ /\ sent.part = Parts
            /\ sent'.chunk > sent.chunk
            /\ sent'.part = 1]_vars

\* A disconnect request does not outlive the next round of the server, so it
\* cannot wait for a client that connects much later.
RequestDoesNotLinger ==
    disconnect_requested ~> (~disconnect_requested \/ spc = "stopped")

\* A client is given what was read since it came, and at most one older chunk:
\* the one in the reader's hands when the client before it went, whose post
\* (tcp_server.c:172) may come after the queue was emptied.  A client whose
\* socket cannot be set up leaves what was posted for it to the next one; the
\* two count as one arrival.
StaleDataDropped ==
    [][sent' # sent /\ conn' = conn =>
         \/ sent'.chunk >= came
         \/ sent'.chunk = left]_vars

\* "If the queue is full, the oldest queued frame is dropped so the most recent
\* UART data is preserved" (tcp_server.c): the newest chunk is never given up.
NewestPreserved == ~(rpc = "drop" /\ alive /\ q_tcp_server = <<>>)
=============================================================================
