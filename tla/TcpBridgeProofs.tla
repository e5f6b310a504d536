-------------------------- MODULE TcpBridgeProofs --------------------------
(***************************************************************************)
(* Proofs about TcpBridge for any depth of the queue, any number of pieces *)
(* per chunk, chunks and sessions.                                         *)
(***************************************************************************)
EXTENDS TcpBridge, TLAPS

LEMMA Sizes ==
  /\ Depth \in Nat /\ Depth > 0 /\ Parts \in Nat /\ Parts > 0
  /\ MaxChunks \in Nat /\ MaxSessions \in Nat
  BY SizesAssumption

SentRec == [chunk : 0..MaxChunks, part : 1..Parts]

-----------------------------------------------------------------------------
(* The invariant.                                                          *)

\* Where the server is in its loop, the client it has and the connection open.
ServerOk ==
    /\ client_socket # INVALID_SOCK => conn = client_socket
    /\ client_socket = INVALID_SOCK /\ spc # "flush_request" => conn = 0
    /\ spc \in {"setup", "recv", "serve", "send", "flush_command"} => client_socket # INVALID_SOCK
    /\ spc \in {"accept", "flush_request"} => client_socket = INVALID_SOCK
    /\ spc = "send" => pending_tx_valid
    /\ pending_tx_valid => conn # 0
    /\ ~pending_tx_valid => pending_tx_offset = 0

\* x is older than all that waits, and than the chunk the reader may post.
Older(x) == /\ x <= chunk
            /\ rpc # "idle" => x < chunk
            /\ \A k \in 1..Len(q_tcp_server) : x < q_tcp_server[k]

\* Chunks wait in UART order.
QueueOk ==
    /\ \A k \in 1..Len(q_tcp_server) :
          q_tcp_server[k] <= chunk /\ (rpc # "idle" => q_tcp_server[k] < chunk)
    /\ \A j, k \in 1..Len(q_tcp_server) : j < k => q_tcp_server[j] < q_tcp_server[k]

\* The last piece sent is the one before the offset of the pending chunk, or
\* the end of an older chunk.
SentOk ==
    /\ Older(sent.chunk)
    /\ pending_tx_valid => Older(pending_tx_frame)
    /\ pending_tx_valid =>
         IF pending_tx_offset = 0
         THEN sent.part = Parts /\ sent.chunk < pending_tx_frame
         ELSE sent.part = pending_tx_offset /\ sent.chunk = pending_tx_frame
    /\ ~pending_tx_valid /\ conn # 0 => sent.part = Parts

\* x was read since the client came, or was in hand when the last one went.
Timely(x) == x = left \/ (came # NotYet /\ x >= came)

\* Where the server has not given up a client, or has emptied the queue since.
Flushed == /\ spc \notin {"flush_request", "error", "stopped"}
           /\ spc = "drain" => client_socket # INVALID_SOCK

\* All that waits for the client is timely, in the queue, in the reader's hands
\* and in the server's.
TimelyOk ==
    /\ client_socket # INVALID_SOCK => came # NotYet
    /\ came # NotYet => came <= chunk
    /\ Flushed => \A k \in 1..Len(q_tcp_server) : Timely(q_tcp_server[k])
    /\ rpc \in {"send", "drop"} => Timely(chunk)
    /\ pending_tx_valid /\ spc # "flush_request" => Timely(pending_tx_frame)

BridgeInv == TypeOK /\ ServerOk /\ QueueOk /\ SentOk /\ TimelyOk

-----------------------------------------------------------------------------
(* What each task leaves alone                                             *)

LEMMA ReaderLeaves ==
  ASSUME Reader
  PROVE  UNCHANGED <<alive, spc, client_socket, disconnect_requested, pending, web, net>>
  BY DEF Reader, ReadUart, CheckClient, PostChunk, DropOldest, GiveUp, PostToDeletedQueue

LEMMA ServerLeaves ==
  ASSUME Server
  PROVE  UNCHANGED <<uart, web>>
  BY DEF Server, TakeRequest, PassRequest, ForgetRequest, NoRequest, DrainOne, FinishRequest,
     FinishCommand, AcceptClient, AcceptNone, AcceptFails, SetupClient, SetupFails, ReceiveNothing,
     ReceiveCommand, ReceiveClosed, Serve, TakeChunk, EndRound, SendPart, SendDeferred,
     SendFails, DeleteQueue, Stop

LEMMA OthersLeave ==
  ASSUME Web \/ PeerCloses
  PROVE  UNCHANGED <<uart, q_tcp_server, alive, spc, client_socket, pending, sessions, conn, sent,
                      left, came>>
  BY DEF Web, WebRequest, WebFlag, WebShutdown, PeerCloses, net

\* The steps of the server, by what they change beside spc
Passes  == \/ PassRequest \/ NoRequest \/ FinishCommand \/ AcceptNone \/ AcceptFails \/ SetupClient
           \/ ReceiveNothing \/ ReceiveCommand \/ Serve \/ EndRound \/ SendDeferred
Asked   == TakeRequest \/ ForgetRequest
Drains  == DrainOne \/ DeleteQueue
Closes  == FinishRequest \/ SetupFails \/ ReceiveClosed \/ SendFails \/ Stop

LEMMA ServerSteps ==
  Server <=> Passes \/ Asked \/ Drains \/ Closes \/ AcceptClient \/ TakeChunk \/ SendPart
  BY DEF Server, Passes, Asked, Drains, Closes

LEMMA PassesLeave ==
  ASSUME Passes
  PROVE  UNCHANGED <<q_tcp_server, alive, client_socket, disconnect_requested, pending, net>>
  BY DEF Passes, PassRequest, NoRequest, FinishCommand, AcceptNone, AcceptFails, SetupClient,
     ReceiveNothing, ReceiveCommand, Serve, EndRound, SendDeferred

LEMMA AskedLeave ==
  ASSUME Asked
  PROVE  UNCHANGED <<q_tcp_server, alive, pending, sessions, conn, peer, sent>>
  BY DEF Asked, TakeRequest, ForgetRequest, Onwards, net

LEMMA DrainsLeave ==
  ASSUME Drains
  PROVE  /\ UNCHANGED <<spc, client_socket, disconnect_requested, pending, net>>
         /\ \/ q_tcp_server # <<>> /\ q_tcp_server' = Tail(q_tcp_server)
            \/ q_tcp_server' = <<>>
  BY DEF Drains, DrainOne, DeleteQueue

LEMMA ClosesLeave ==
  ASSUME Closes
  PROVE  /\ UNCHANGED <<q_tcp_server, alive, disconnect_requested, sessions, peer, sent>>
         /\ client_socket' = INVALID_SOCK /\ conn' = 0
         /\ pending_tx_valid' = FALSE /\ pending_tx_offset' = 0
         /\ pending_tx_frame' = pending_tx_frame
         /\ spc' \in {"accept", "top", "drain", "stopped"}
  BY DEF Closes, FinishRequest, SetupFails, ReceiveClosed, SendFails, Stop, CloseClient,
     ResetPending

-----------------------------------------------------------------------------
(* Types.                                                                  *)

LEMMA FirstAndRest ==
  ASSUME NEW S, NEW q \in Seq(S), q # <<>>
  PROVE  /\ Head(q) = q[1] /\ Head(q) \in S /\ Tail(q) \in Seq(S)
         /\ Len(q) \in Nat \ {0} /\ Len(Tail(q)) = Len(q) - 1
         /\ \A k \in 1..Len(Tail(q)) : Tail(q)[k] = q[k + 1]
<1>1. Len(q) \in Nat \ {0}
  OBVIOUS
<1>2. Head(q) = q[1] /\ q[1] \in S
  BY <1>1
<1>3. Tail(q) \in Seq(S) /\ Len(Tail(q)) = Len(q) - 1
  BY <1>1
<1>4. \A k \in 1..Len(Tail(q)) : Tail(q)[k] = q[k + 1]
  BY <1>1
<1> QED
  BY <1>1, <1>2, <1>3, <1>4

LEMMA Appended ==
  ASSUME NEW S, NEW q \in Seq(S), NEW x \in S
  PROVE  /\ Append(q, x) \in Seq(S)
         /\ Len(q) \in Nat /\ Len(Append(q, x)) = Len(q) + 1
         /\ \A k \in 1..Len(q) : Append(q, x)[k] = q[k]
         /\ Append(q, x)[Len(q) + 1] = x
  OBVIOUS

LEMMA Elements ==
  ASSUME NEW S, NEW q \in Seq(S)
  PROVE  Len(q) \in Nat /\ \A k \in 1..Len(q) : q[k] \in S
  OBVIOUS

\* What can happen to the queue in a step: nothing, the first chunk is taken,
\* all are, or the reader posts its chunk at the end.
QueueStep ==
    \/ q_tcp_server' = q_tcp_server
    \/ q_tcp_server # <<>> /\ q_tcp_server' = Tail(q_tcp_server)
    \/ q_tcp_server' = <<>>
    \/ /\ rpc = "send" /\ rpc' = "idle" /\ Len(q_tcp_server) < Depth
       /\ q_tcp_server' = Append(q_tcp_server, chunk)

LEMMA QueueMoves ==
  ASSUME Next
  PROVE  /\ QueueStep
         /\ \/ chunk' = chunk /\ (rpc = "idle" => rpc' = "idle")
            \/ rpc = "idle" /\ chunk' = chunk + 1 /\ q_tcp_server' = q_tcp_server
<1>1. CASE Reader
  BY <1>1 DEF Reader, ReadUart, CheckClient, PostChunk, DropOldest, GiveUp, PostToDeletedQueue,
              QueueStep
<1>2. CASE Server
  <2>1. chunk' = chunk /\ rpc' = rpc
    BY <1>2, ServerLeaves DEF uart
  <2>2. QueueStep
    BY <1>2, ServerSteps, PassesLeave, AskedLeave, DrainsLeave, ClosesLeave
       DEF QueueStep, AcceptClient, TakeChunk, SendPart
  <2> QED
    BY <2>1, <2>2
<1>3. CASE Web \/ PeerCloses
  BY <1>3, OthersLeave DEF QueueStep, uart
<1> QED
  BY <1>1, <1>2, <1>3 DEF Next

LEMMA QueueTypes ==
  ASSUME TypeOK, QueueStep, rpc = "send" => chunk # 0
  PROVE  q_tcp_server' \in Seq(1..MaxChunks) /\ Len(q_tcp_server') <= Depth
<1>1. /\ q_tcp_server \in Seq(1..MaxChunks) /\ Len(q_tcp_server) <= Depth /\ chunk \in 0..MaxChunks
      /\ Len(q_tcp_server) \in Nat
  BY Elements DEF TypeOK
<1>2. CASE q_tcp_server # <<>> /\ q_tcp_server' = Tail(q_tcp_server)
  <2>1. Tail(q_tcp_server) \in Seq(1..MaxChunks) /\ Len(Tail(q_tcp_server)) = Len(q_tcp_server) - 1
    BY <1>1, <1>2, FirstAndRest
  <2> QED
    BY <1>1, <1>2, <2>1, Sizes
<1>3. CASE q_tcp_server' = <<>>
  <2>1. q_tcp_server' \in Seq(1..MaxChunks) /\ Len(q_tcp_server') = 0
    BY <1>3
  <2> QED
    BY <2>1, Sizes
<1>4. CASE rpc = "send" /\ Len(q_tcp_server) < Depth /\ q_tcp_server' = Append(q_tcp_server, chunk)
  <2>1. chunk \in 1..MaxChunks
    BY <1>1, <1>4
  <2>2. /\ Append(q_tcp_server, chunk) \in Seq(1..MaxChunks)
        /\ Len(Append(q_tcp_server, chunk)) = Len(q_tcp_server) + 1
    BY <1>1, <2>1, Appended
  <2> QED
    BY <1>1, <1>4, <2>2, Sizes
<1> QED
  BY <1>1, <1>2, <1>3, <1>4 DEF QueueStep

UartType   == chunk \in 0..MaxChunks /\ rpc \in {"idle", "check", "send", "drop"}
ServerType == /\ alive \in BOOLEAN
              /\ spc \in {"top", "again", "accept", "setup", "recv", "serve", "send", "drain",
                          "flush_request", "flush_command", "error", "stopped"}
              /\ client_socket \in 0..MaxSessions
              /\ disconnect_requested \in BOOLEAN
PendType   == /\ pending_tx_frame \in 0..MaxChunks
              /\ pending_tx_valid \in BOOLEAN
              /\ pending_tx_offset \in 0..(Parts - 1)
WebType    == wpc \in {"idle", "flag", "shutdown"} /\ wsock \in 0..MaxSessions
NetType    == /\ sessions \in 0..MaxSessions /\ conn \in 0..MaxSessions
              /\ peer \in {"open", "fin", "shut"} /\ sent \in SentRec
HistType   == left \in 0..MaxChunks /\ came \in 0..MaxChunks \cup {NotYet}

LEMMA TypeParts ==
  TypeOK <=> /\ UartType /\ ServerType /\ PendType /\ WebType /\ NetType /\ HistType
             /\ q_tcp_server \in Seq(1..MaxChunks) /\ Len(q_tcp_server) <= Depth
  BY DEF TypeOK, UartType, ServerType, PendType, WebType, NetType, HistType, SentRec

LEMMA InitialInv == Init => BridgeInv
<1> SUFFICES ASSUME Init PROVE BridgeInv
  OBVIOUS
<1>1. q_tcp_server \in Seq(1..MaxChunks) /\ Len(q_tcp_server) = 0
  BY DEF Init
<1>2. sent \in SentRec /\ sent.chunk = 0 /\ sent.part = Parts
  BY Sizes DEF Init, Nothing, SentRec
<1>3. UartType /\ PendType
  <2>1. 0 \in 0..MaxChunks /\ 0 \in 0..(Parts - 1)
    BY Sizes
  <2> QED
    BY <2>1 DEF Init, UartType, PendType
<1>4. ServerType /\ WebType
  <2>1. INVALID_SOCK \in 0..MaxSessions
    BY Sizes DEF INVALID_SOCK
  <2> QED
    BY <2>1 DEF Init, ServerType, WebType
<1>5. NetType
  BY <1>2, Sizes DEF Init, NetType
<1>10. HistType
  BY Sizes DEF Init, HistType
<1>6. TypeOK
  BY <1>1, <1>3, <1>4, <1>5, <1>10, TypeParts, Sizes
<1>7. ServerOk
  BY DEF Init, ServerOk
<1>8. QueueOk
  BY <1>1 DEF QueueOk
<1>9. SentOk
  BY <1>1, <1>2 DEF Init, SentOk, Older
<1>11. TimelyOk
  BY <1>1 DEF Init, TimelyOk
<1> QED
  BY <1>6, <1>7, <1>8, <1>9, <1>11 DEF BridgeInv

\* How the history is written.
LEMMA HistorySteps ==
  ASSUME Next
  PROVE  \/ UNCHANGED <<left, came>> /\ client_socket' \in {client_socket, INVALID_SOCK}
         \/ /\ left' = chunk /\ came' = NotYet /\ UNCHANGED <<uart, q_tcp_server>>
            /\ client_socket' = INVALID_SOCK /\ spc' \in {"flush_request", "drain"}
            /\ (pending_tx_valid' => spc' = "flush_request")
         \/ AcceptClient /\ left' = left /\ came' = IF came = NotYet THEN chunk ELSE came
<1>1. CASE Reader
  BY <1>1, ReaderLeaves DEF net
<1>2. CASE Web \/ PeerCloses
  BY <1>2, OthersLeave
<1>3. CASE Passes \/ Drains
  BY <1>3, PassesLeave, DrainsLeave DEF net
<1>4. CASE Asked
  BY <1>4, ServerLeaves, ServerSteps DEF Asked, TakeRequest, ForgetRequest, Onwards, ClientGoes, net
<1>5. CASE Closes
  BY <1>5, ServerLeaves, ServerSteps, ClosesLeave
     DEF Closes, FinishRequest, SetupFails, ReceiveClosed, SendFails, Stop, ClientGoes
<1>6. CASE AcceptClient \/ TakeChunk \/ SendPart
  BY <1>6 DEF AcceptClient, TakeChunk, SendPart, net
<1> QED
  BY <1>1, <1>2, <1>3, <1>4, <1>5, <1>6, ServerSteps DEF Next

LEMMA KeepsHistory ==
  ASSUME TypeOK, Next
  PROVE  HistType'
<1>1. HistType /\ UartType
  BY TypeParts
<1>2. left' \in {left, chunk} /\ came' \in {came, chunk, NotYet}
  BY HistorySteps
<1> QED
  BY <1>1, <1>2, Sizes DEF HistType, UartType

LEMMA KeepsTypeParts ==
  ASSUME TypeOK, ServerOk, Next
  PROVE  UartType' /\ ServerType' /\ PendType' /\ WebType' /\ NetType'
<1>0. UartType /\ ServerType /\ PendType /\ WebType /\ NetType /\ q_tcp_server \in Seq(1..MaxChunks)
  BY TypeParts
<1>1. CASE Reader
  <2>1. ServerType' /\ PendType' /\ WebType' /\ NetType'
    BY <1>0, <1>1, ReaderLeaves DEF ServerType, PendType, WebType, NetType, pending, web, net
  <2>2. chunk' \in {chunk, chunk + 1} /\ (chunk' = chunk \/ chunk < MaxChunks)
        /\ rpc' \in {"idle", "check", "send", "drop"}
    BY <1>1 DEF Reader, ReadUart, CheckClient, PostChunk, DropOldest, GiveUp, PostToDeletedQueue
  <2>3. UartType'
    BY <1>0, <2>2, Sizes DEF UartType
  <2> QED
    BY <2>1, <2>3
<1>2. CASE Web \/ PeerCloses
  <2>1. UartType' /\ PendType'
    BY <1>0, <1>2, OthersLeave DEF UartType, PendType, uart, pending
  <2>2. ServerType'
    <3>1. disconnect_requested' \in BOOLEAN
      BY <1>0, <1>2 DEF Web, WebRequest, WebFlag, WebShutdown, PeerCloses, ServerType
    <3> QED
      BY <1>0, <1>2, <3>1, OthersLeave DEF ServerType
  <2>3. WebType'
    <3>1. wpc' \in {wpc, "idle", "flag", "shutdown"} /\ wsock' \in {wsock, client_socket, INVALID_SOCK}
      BY <1>2 DEF Web, WebRequest, WebFlag, WebShutdown, PeerCloses, web
    <3> QED
      BY <1>0, <3>1, Sizes DEF WebType, ServerType, INVALID_SOCK
  <2>4. NetType'
    <3>1. peer' \in {peer, "shut", "fin"}
      BY <1>2 DEF Web, WebRequest, WebFlag, WebShutdown, PeerCloses, net
    <3> QED
      BY <1>0, <1>2, <3>1, OthersLeave DEF NetType
  <2> QED
    BY <2>1, <2>2, <2>3, <2>4
<1>3. CASE Server
  <2>1. UartType' /\ WebType'
    BY <1>0, <1>3, ServerLeaves DEF UartType, WebType, uart, web
  <2>2. CASE Passes
    <3>1. spc' \in {"top", "accept", "setup", "recv", "serve", "send", "drain", "flush_request",
                    "flush_command", "error", "stopped", "again"}
      BY <2>2 DEF Passes, PassRequest, NoRequest, Onwards, FinishCommand, AcceptNone, AcceptFails, SetupClient,
                  ReceiveNothing, ReceiveCommand, Serve, EndRound, SendDeferred
    <3>2. ServerType'
      BY <1>0, <2>2, <3>1, PassesLeave DEF ServerType
    <3>3. PendType' /\ NetType'
      BY <1>0, <2>2, PassesLeave DEF PendType, NetType, pending, net
    <3> QED
      BY <2>1, <3>2, <3>3
  <2>3. CASE Asked
    <3>1. client_socket' \in 0..MaxSessions
      <4>1. INVALID_SOCK \in 0..MaxSessions
        BY Sizes DEF INVALID_SOCK
      <4>2. client_socket' \in {client_socket, INVALID_SOCK}
        BY <2>3 DEF Asked, TakeRequest, ForgetRequest, Onwards
      <4> QED
        BY <1>0, <4>1, <4>2 DEF ServerType
    <3>2. /\ spc' \in {"flush_request", "accept", "recv"} /\ disconnect_requested' = FALSE
          /\ alive' = alive
      BY <2>3 DEF Asked, TakeRequest, ForgetRequest, Onwards
    <3>3. ServerType'
      BY <1>0, <3>1, <3>2 DEF ServerType
    <3>4. PendType' /\ NetType'
      BY <1>0, <2>3, AskedLeave DEF PendType, NetType, pending
    <3> QED
      BY <2>1, <3>3, <3>4
  <2>4. CASE Drains
    <3>1. alive' \in BOOLEAN
      BY <1>0, <2>4 DEF Drains, DrainOne, DeleteQueue, ServerType
    <3>2. ServerType' /\ PendType' /\ NetType'
      BY <1>0, <2>4, <3>1, DrainsLeave DEF ServerType, PendType, NetType, pending, net
    <3> QED
      BY <2>1, <3>2
  <2>5. CASE Closes
    <3>1. ServerType' /\ PendType' /\ NetType'
      BY <1>0, <2>5, ClosesLeave, Sizes DEF ServerType, PendType, NetType, INVALID_SOCK
    <3> QED
      BY <2>1, <3>1
  <2>6. CASE AcceptClient
    <3>1. /\ sessions + 1 \in 0..MaxSessions /\ sessions' = sessions + 1 /\ conn' = sessions + 1
          /\ client_socket' = sessions + 1 /\ peer' = "open" /\ sent' = Nothing
      BY <1>0, <2>6, Sizes DEF AcceptClient, NetType
    <3>2. Nothing \in SentRec
      BY Sizes DEF Nothing, SentRec
    <3>3. NetType'
      BY <3>1, <3>2 DEF NetType
    <3>4. ServerType' /\ PendType'
      BY <1>0, <2>6, <3>1 DEF AcceptClient, ServerType, PendType, pending
    <3> QED
      BY <2>1, <3>3, <3>4
  <2>7. CASE TakeChunk
    <3>1. Head(q_tcp_server) \in 1..MaxChunks
      BY <1>0, <2>7, FirstAndRest DEF TakeChunk
    <3>2. /\ pending_tx_frame' \in {pending_tx_frame, Head(q_tcp_server)}
          /\ pending_tx_valid' \in {pending_tx_valid, TRUE}
          /\ pending_tx_offset' \in {pending_tx_offset, 0}
          /\ spc' \in {spc, "send"}
      BY <2>7 DEF TakeChunk, pending
    <3>3. PendType'
      <4>1. pending_tx_frame' \in 0..MaxChunks
        BY <1>0, <3>1, <3>2, Sizes DEF PendType
      <4>2. pending_tx_offset' \in 0..(Parts - 1)
        BY <1>0, <3>2, Sizes DEF PendType
      <4> QED
        BY <1>0, <3>2, <4>1, <4>2 DEF PendType
    <3>4. ServerType' /\ NetType'
      BY <1>0, <2>7, <3>2 DEF TakeChunk, ServerType, NetType, net
    <3> QED
      BY <2>1, <3>3, <3>4
  <2>8. CASE SendPart
    <3>1. sent' = [chunk |-> pending_tx_frame, part |-> pending_tx_offset + 1]
      BY <2>8 DEF SendPart
    <3>2. pending_tx_offset + 1 \in 1..Parts /\ pending_tx_frame \in 0..MaxChunks
      BY <1>0, Sizes DEF PendType
    <3>3. sent' \in SentRec
      BY <3>1, <3>2 DEF SentRec
    <3>4. /\ pending_tx_offset' \in 0..(Parts - 1)
          /\ pending_tx_frame' = pending_tx_frame
          /\ pending_tx_valid' \in {pending_tx_valid, FALSE}
      <4>1. CASE pending_tx_offset + 1 = Parts
        <5>1. 0 \in 0..(Parts - 1)
          BY Sizes
        <5> QED
          BY <2>8, <4>1, <5>1 DEF SendPart, ResetPending
      <4>2. CASE pending_tx_offset + 1 # Parts
        <5>1. pending_tx_offset + 1 \in 0..(Parts - 1)
          BY <3>2, <4>2, Sizes
        <5> QED
          BY <2>8, <4>2, <5>1 DEF SendPart
      <4> QED
        BY <4>1, <4>2
    <3>5. spc' \in {spc, "drain"}
      BY <2>8 DEF SendPart
    <3>6. PendType'
      BY <1>0, <3>4 DEF PendType
    <3>7. ServerType' /\ NetType'
      BY <1>0, <2>8, <3>3, <3>5 DEF SendPart, ServerType, NetType
    <3> QED
      BY <2>1, <3>6, <3>7
  <2> QED
    BY <1>3, <2>2, <2>3, <2>4, <2>5, <2>6, <2>7, <2>8, ServerSteps
<1> QED
  BY <1>1, <1>2, <1>3 DEF Next

-----------------------------------------------------------------------------
(* The server and its client                                               *)

LEMMA KeepsServer == ASSUME TypeOK, ServerOk, Next PROVE ServerOk'
<1>1. CASE Reader
  BY <1>1, ReaderLeaves DEF ServerOk, pending, net
<1>2. CASE Web \/ PeerCloses
  BY <1>2, OthersLeave DEF ServerOk, pending
<1>3. CASE Passes
  <2>1. UNCHANGED <<client_socket, pending_tx_valid, pending_tx_offset, conn>>
    BY <1>3, PassesLeave DEF pending, net
  <2>2. /\ spc # "flush_request" /\ spc' # "flush_request"
        /\ spc' \in {"setup", "recv", "serve", "send", "flush_command"} => client_socket # INVALID_SOCK
        /\ spc' = "accept" => client_socket = INVALID_SOCK
        /\ spc' = "send" => pending_tx_valid
    BY <1>3 DEF ServerOk, Passes, PassRequest, NoRequest, Onwards, FinishCommand, AcceptNone, AcceptFails, SetupClient,
                ReceiveNothing, ReceiveCommand, Serve, EndRound, SendDeferred
  <2> QED
    BY <2>1, <2>2 DEF ServerOk
<1>4. CASE Asked
  <2>1. UNCHANGED <<pending_tx_valid, pending_tx_offset, conn>>
    BY <1>4, AskedLeave DEF pending
  <2>2. \/ spc' = "flush_request" /\ client_socket' = INVALID_SOCK
        \/ spc = "again" /\ spc' = "accept" /\ client_socket' = client_socket
           /\ client_socket = INVALID_SOCK
        \/ spc = "again" /\ spc' = "recv" /\ client_socket' = client_socket
           /\ client_socket # INVALID_SOCK
    BY <1>4 DEF Asked, TakeRequest, ForgetRequest, Onwards
  <2> QED
    BY <2>1, <2>2 DEF ServerOk
<1>5. CASE Drains
  BY <1>5, DrainsLeave DEF ServerOk, pending, net
<1>6. CASE Closes
  BY <1>6, ClosesLeave DEF ServerOk
<1>7. CASE AcceptClient
  <2>1. /\ sessions' = sessions + 1 /\ conn' = sessions' /\ client_socket' = sessions' /\ spc' = "setup"
        /\ UNCHANGED <<pending_tx_valid, pending_tx_offset>> /\ spc = "accept"
    BY <1>7 DEF AcceptClient, pending
  <2>2. sessions + 1 # 0
    BY DEF TypeOK
  <2>3. client_socket' # INVALID_SOCK /\ conn' # 0
    BY <2>1, <2>2 DEF INVALID_SOCK
  <2> QED
    BY <2>1, <2>3 DEF ServerOk
<1>8. CASE TakeChunk
  <2>1. CASE client_socket = INVALID_SOCK
    BY <1>8, <2>1 DEF TakeChunk, ServerOk, pending, net
  <2>2. CASE client_socket # INVALID_SOCK
    <3>1. /\ UNCHANGED <<client_socket, conn>> /\ pending_tx_valid' = TRUE /\ spc' = "send"
      BY <1>8, <2>2 DEF TakeChunk, net
    <3>2. conn # 0
      BY <2>2 DEF ServerOk, INVALID_SOCK
    <3> QED
      BY <2>2, <3>1, <3>2 DEF ServerOk
  <2> QED
    BY <2>1, <2>2
<1>9. CASE SendPart
  <2>1. UNCHANGED <<client_socket, conn>> /\ spc = "send"
    BY <1>9 DEF SendPart
  <2>2. \/ spc' = "drain" /\ pending_tx_valid' = FALSE /\ pending_tx_offset' = 0
        \/ spc' = "send" /\ pending_tx_valid' = pending_tx_valid
    BY <1>9 DEF SendPart, ResetPending
  <2> QED
    BY <2>1, <2>2 DEF ServerOk
<1> QED
  BY <1>1, <1>2, <1>3, <1>4, <1>5, <1>6, <1>7, <1>8, <1>9, ServerSteps DEF Next

-----------------------------------------------------------------------------
(* The order of the chunks                                                 *)

LEMMA Chunks ==
  ASSUME TypeOK
  PROVE  /\ chunk \in Nat /\ q_tcp_server \in Seq(1..MaxChunks) /\ Len(q_tcp_server) \in Nat
         /\ \A k \in 1..Len(q_tcp_server) : q_tcp_server[k] \in Nat
         /\ sent \in SentRec /\ sent.chunk \in Nat /\ sent.part \in Nat
         /\ pending_tx_frame \in Nat /\ pending_tx_offset \in Nat
<1>1. q_tcp_server \in Seq(1..MaxChunks)
  BY DEF TypeOK
<1>2. Len(q_tcp_server) \in Nat /\ \A k \in 1..Len(q_tcp_server) : q_tcp_server[k] \in 1..MaxChunks
  BY <1>1, Elements
<1>3. \A k \in 1..Len(q_tcp_server) : q_tcp_server[k] \in Nat
  BY <1>2, Sizes
<1>4. chunk \in Nat /\ pending_tx_frame \in Nat /\ pending_tx_offset \in Nat
  BY Sizes DEF TypeOK
<1>5. sent \in SentRec /\ sent.chunk \in Nat /\ sent.part \in Nat
  BY Sizes DEF TypeOK, SentRec
<1> QED
  BY <1>1, <1>2, <1>3, <1>4, <1>5

\* What is older stays older.
LEMMA OlderKept ==
  ASSUME TypeOK, Next, NEW x \in Nat, Older(x)
  PROVE  Older(x)'
<1>0. /\ chunk \in Nat /\ q_tcp_server \in Seq(1..MaxChunks) /\ Len(q_tcp_server) \in Nat
      /\ chunk \in 0..MaxChunks
  BY Chunks DEF TypeOK
<1>1. /\ QueueStep
      /\ \/ chunk' = chunk /\ (rpc = "idle" => rpc' = "idle")
         \/ rpc = "idle" /\ chunk' = chunk + 1 /\ q_tcp_server' = q_tcp_server
  BY QueueMoves
<1>2. x <= chunk' /\ (rpc' # "idle" => x < chunk')
  BY <1>0, <1>1 DEF Older
<1>3. \A k \in 1..Len(q_tcp_server') : x < q_tcp_server'[k]
  <2>1. CASE q_tcp_server' = q_tcp_server
    BY <2>1 DEF Older
  <2>2. CASE q_tcp_server # <<>> /\ q_tcp_server' = Tail(q_tcp_server)
    <3>1. /\ Len(q_tcp_server) \in Nat \ {0} /\ Len(q_tcp_server') = Len(q_tcp_server) - 1
          /\ \A k \in 1..Len(q_tcp_server') : q_tcp_server'[k] = q_tcp_server[k + 1]
      BY <1>0, <2>2, FirstAndRest
    <3>2. \A k \in 1..Len(q_tcp_server') : k + 1 \in 1..Len(q_tcp_server)
      BY <3>1
    <3> QED
      BY <3>1, <3>2 DEF Older
  <2>3. CASE q_tcp_server' = <<>>
    BY <2>3
  <2>4. CASE rpc = "send" /\ q_tcp_server' = Append(q_tcp_server, chunk)
    <3>1. x < chunk /\ chunk \in 1..MaxChunks
      BY <1>0, <2>4 DEF Older
    <3>2. /\ Len(q_tcp_server') = Len(q_tcp_server) + 1
          /\ \A k \in 1..Len(q_tcp_server) : q_tcp_server'[k] = q_tcp_server[k]
          /\ q_tcp_server'[Len(q_tcp_server) + 1] = chunk
      BY <1>0, <2>4, <3>1, Appended
    <3>3. \A k \in 1..Len(q_tcp_server') : k \in 1..Len(q_tcp_server) \/ k = Len(q_tcp_server) + 1
      BY <1>0, <3>2
    <3> QED
      BY <3>1, <3>2, <3>3 DEF Older
  <2> QED
    BY <1>1, <2>1, <2>2, <2>3, <2>4 DEF QueueStep
<1> QED
  BY <1>2, <1>3 DEF Older

LEMMA KeepsQueue ==
  ASSUME TypeOK, QueueOk, Next, rpc = "send" => chunk # 0
  PROVE  QueueOk'
<1>0. /\ chunk \in Nat /\ q_tcp_server \in Seq(1..MaxChunks) /\ Len(q_tcp_server) \in Nat
      /\ chunk \in 0..MaxChunks /\ \A k \in 1..Len(q_tcp_server) : q_tcp_server[k] \in Nat
  BY Chunks DEF TypeOK
<1>1. /\ QueueStep
      /\ \/ chunk' = chunk /\ (rpc = "idle" => rpc' = "idle")
         \/ rpc = "idle" /\ chunk' = chunk + 1 /\ q_tcp_server' = q_tcp_server
  BY QueueMoves
<1>2. CASE q_tcp_server' = q_tcp_server
  BY <1>0, <1>1, <1>2 DEF QueueOk
<1>3. CASE q_tcp_server' = <<>>
  BY <1>3 DEF QueueOk
<1>4. CASE q_tcp_server # <<>> /\ q_tcp_server' = Tail(q_tcp_server)
  <2>1. /\ Len(q_tcp_server) \in Nat \ {0} /\ Len(q_tcp_server') = Len(q_tcp_server) - 1
        /\ \A k \in 1..Len(q_tcp_server') : q_tcp_server'[k] = q_tcp_server[k + 1]
    BY <1>0, <1>4, FirstAndRest
  <2>2. \A k \in 1..Len(q_tcp_server') : k + 1 \in 1..Len(q_tcp_server)
    BY <2>1
  <2>3. \A k \in 1..Len(q_tcp_server') :
           q_tcp_server'[k] <= chunk' /\ (rpc' # "idle" => q_tcp_server'[k] < chunk')
    <3>1. \A k \in 1..Len(q_tcp_server) :
             q_tcp_server[k] <= chunk' /\ (rpc' # "idle" => q_tcp_server[k] < chunk')
      BY <1>0, <1>1 DEF QueueOk
    <3> QED
      BY <2>1, <2>2, <3>1
  <2>4. ASSUME NEW j \in 1..Len(q_tcp_server'), NEW k \in 1..Len(q_tcp_server'), j < k
        PROVE  q_tcp_server'[j] < q_tcp_server'[k]
    <3>1. j + 1 \in 1..Len(q_tcp_server) /\ k + 1 \in 1..Len(q_tcp_server) /\ j + 1 < k + 1
      BY <2>1, <2>2, <2>4
    <3> QED
      BY <2>1, <3>1 DEF QueueOk
  <2> QED
    BY <2>3, <2>4 DEF QueueOk
<1>5. CASE rpc = "send" /\ rpc' = "idle" /\ q_tcp_server' = Append(q_tcp_server, chunk)
  <2>1. chunk \in 1..MaxChunks /\ chunk' = chunk
    BY <1>0, <1>1, <1>5
  <2>2. /\ Len(q_tcp_server') = Len(q_tcp_server) + 1
        /\ \A k \in 1..Len(q_tcp_server) : q_tcp_server'[k] = q_tcp_server[k]
        /\ q_tcp_server'[Len(q_tcp_server) + 1] = chunk
    BY <1>0, <1>5, <2>1, Appended
  <2>3. \A k \in 1..Len(q_tcp_server') : k \in 1..Len(q_tcp_server) \/ k = Len(q_tcp_server) + 1
    BY <1>0, <2>2
  <2>4. \A k \in 1..Len(q_tcp_server') :
           q_tcp_server'[k] <= chunk' /\ (rpc' # "idle" => q_tcp_server'[k] < chunk')
    BY <1>0, <1>5, <2>1, <2>2, <2>3 DEF QueueOk
  <2>5. ASSUME NEW j \in 1..Len(q_tcp_server'), NEW k \in 1..Len(q_tcp_server'), j < k
        PROVE  q_tcp_server'[j] < q_tcp_server'[k]
    <3>1. j \in 1..Len(q_tcp_server)
      BY <1>0, <2>2, <2>3, <2>5
    <3>2. CASE k \in 1..Len(q_tcp_server)
      BY <2>2, <2>5, <3>1, <3>2 DEF QueueOk
    <3>3. CASE k = Len(q_tcp_server) + 1
      BY <1>5, <2>2, <3>1, <3>3 DEF QueueOk
    <3> QED
      BY <2>3, <3>2, <3>3
  <2> QED
    BY <2>4, <2>5 DEF QueueOk
<1> QED
  BY <1>1, <1>2, <1>3, <1>4, <1>5 DEF QueueStep

-----------------------------------------------------------------------------
(* What the client was sent                                                *)

\* x is older than what waits in the next state.
OlderThen(x) == /\ x <= chunk'
                /\ rpc' # "idle" => x < chunk'
                /\ \A k \in 1..Len(q_tcp_server') : x < q_tcp_server'[k]

SentThen == /\ OlderThen(sent'.chunk)
            /\ pending_tx_valid' => OlderThen(pending_tx_frame')
            /\ pending_tx_valid' =>
                 IF pending_tx_offset' = 0
                 THEN sent'.part = Parts /\ sent'.chunk < pending_tx_frame'
                 ELSE sent'.part = pending_tx_offset' /\ sent'.chunk = pending_tx_frame'
            /\ ~pending_tx_valid' /\ conn' # 0 => sent'.part = Parts

LEMMA SentLater == SentThen => SentOk'
  BY DEF SentThen, OlderThen, SentOk, Older

\* The steps that touch neither the frame, the connection nor what was sent
LEMMA Unsent ==
  ASSUME Next
  PROVE  \/ UNCHANGED <<pending, conn, sent>>
         \/ Closes \/ AcceptClient \/ SendPart
         \/ TakeChunk /\ client_socket # INVALID_SOCK
<1>1. CASE Reader
  BY <1>1, ReaderLeaves DEF net
<1>2. CASE Web \/ PeerCloses
  BY <1>2, OthersLeave
<1>3. CASE Passes \/ Asked \/ Drains
  BY <1>3, PassesLeave, AskedLeave, DrainsLeave DEF net
<1>4. CASE TakeChunk /\ client_socket = INVALID_SOCK
  BY <1>4 DEF TakeChunk, net
<1> QED
  BY <1>1, <1>2, <1>3, <1>4, ServerSteps DEF Next

LEMMA KeepsSent ==
  ASSUME TypeOK, ServerOk, QueueOk, SentOk, Next
  PROVE  SentOk'
<1>0. /\ sent.chunk \in Nat /\ pending_tx_frame \in Nat /\ pending_tx_offset \in Nat
      /\ chunk \in Nat /\ q_tcp_server \in Seq(1..MaxChunks)
      /\ \A k \in 1..Len(q_tcp_server) : q_tcp_server[k] \in Nat
  BY Chunks
<1>1. \A x \in Nat : Older(x) => OlderThen(x)
  <2>1. ASSUME NEW x \in Nat, Older(x) PROVE Older(x)'
    BY <2>1, OlderKept
  <2> QED
    BY <2>1 DEF Older, OlderThen
<1>2. CASE UNCHANGED <<pending, conn, sent>>
  BY <1>0, <1>1, <1>2, SentLater DEF SentOk, SentThen, pending
<1>3. CASE Closes
  <2>1. sent' = sent /\ pending_tx_valid' = FALSE /\ conn' = 0
    BY <1>3, ClosesLeave
  <2>2. OlderThen(sent'.chunk)
    BY <1>0, <1>1, <2>1 DEF SentOk
  <2> QED
    BY <2>1, <2>2, SentLater DEF SentThen
<1>4. CASE AcceptClient
  <2>1. sent'.chunk = 0 /\ sent'.part = Parts /\ pending_tx_valid' = pending_tx_valid
    BY <1>4 DEF AcceptClient, Nothing, pending
  <2>2. spc = "accept"
    BY <1>4 DEF AcceptClient
  <2>3. ~pending_tx_valid
    BY <2>2 DEF ServerOk
  <2>4. Older(0)
    BY <1>0 DEF SentOk, Older
  <2>5. OlderThen(sent'.chunk)
    BY <1>1, <2>1, <2>4
  <2> QED
    BY <2>1, <2>3, <2>5, SentLater DEF SentThen
<1>5. CASE TakeChunk /\ client_socket # INVALID_SOCK
  <2>1. /\ q_tcp_server # <<>> /\ q_tcp_server' = Tail(q_tcp_server) /\ ~pending_tx_valid
        /\ pending_tx_frame' = Head(q_tcp_server) /\ pending_tx_offset' = 0
        /\ UNCHANGED <<chunk, rpc, conn, sent>>
    BY <1>5 DEF TakeChunk, uart, net
  <2>2. /\ Len(q_tcp_server) \in Nat \ {0} /\ Len(q_tcp_server') = Len(q_tcp_server) - 1
        /\ \A k \in 1..Len(q_tcp_server') : q_tcp_server'[k] = q_tcp_server[k + 1]
        /\ pending_tx_frame' = q_tcp_server[1]
    BY <1>0, <2>1, FirstAndRest
  <2>3. 1 \in 1..Len(q_tcp_server) /\ \A k \in 1..Len(q_tcp_server') : k + 1 \in 1..Len(q_tcp_server)
    BY <2>2
  <2>4. sent.part = Parts
    BY <1>5, <2>1 DEF ServerOk, SentOk, INVALID_SOCK
  <2>5. sent'.chunk < pending_tx_frame' /\ sent'.part = Parts
    BY <2>1, <2>2, <2>3, <2>4 DEF SentOk, Older
  <2>6. OlderThen(pending_tx_frame')
    <3>1. pending_tx_frame' <= chunk' /\ (rpc' # "idle" => pending_tx_frame' < chunk')
      BY <2>1, <2>2, <2>3 DEF QueueOk
    <3>2. ASSUME NEW k \in 1..Len(q_tcp_server')
          PROVE  pending_tx_frame' < q_tcp_server'[k]
      <4>1. k + 1 \in 1..Len(q_tcp_server) /\ 1 < k + 1
        BY <2>3
      <4> QED
        BY <2>2, <2>3, <4>1 DEF QueueOk
    <3> QED
      BY <3>1, <3>2 DEF OlderThen
  <2>7. OlderThen(sent'.chunk)
    BY <1>0, <1>1, <2>1 DEF SentOk
  <2> QED
    BY <2>1, <2>5, <2>6, <2>7, SentLater DEF SentThen
<1>6. CASE SendPart
  <2>1. /\ sent' = [chunk |-> pending_tx_frame, part |-> pending_tx_offset + 1]
        /\ pending_tx_frame' = pending_tx_frame
    BY <1>6 DEF SendPart, ResetPending
  <2>2. pending_tx_valid
    BY <1>6 DEF SendPart, ServerOk
  <2>3. OlderThen(pending_tx_frame)
    BY <1>0, <1>1, <2>2 DEF SentOk
  <2>4. OlderThen(sent'.chunk) /\ OlderThen(pending_tx_frame')
    BY <2>1, <2>3
  <2>5. CASE pending_tx_offset + 1 = Parts
    <3>1. pending_tx_valid' = FALSE /\ sent'.part = Parts
      BY <1>6, <2>1, <2>5 DEF SendPart, ResetPending
    <3> QED
      BY <2>4, <3>1, SentLater DEF SentThen
  <2>6. CASE pending_tx_offset + 1 # Parts
    <3>1. pending_tx_offset' = pending_tx_offset + 1 /\ pending_tx_valid' = pending_tx_valid
      BY <1>6, <2>6 DEF SendPart
    <3>2. pending_tx_offset' # 0
      BY <1>0, <3>1
    <3> QED
      BY <2>1, <2>2, <2>4, <3>1, <3>2, SentLater DEF SentThen
  <2> QED
    BY <2>5, <2>6
<1> QED
  BY <1>2, <1>3, <1>4, <1>5, <1>6, Unsent

-----------------------------------------------------------------------------
(* What waits for the client was read for it                               *)

\* x is timely in the next state.
TimelyThen(x) == x = left' \/ (came' # NotYet /\ x >= came')

\* The queue of the next state holds what was queued, or the chunk in hand.
LEMMA QueuedThen ==
  ASSUME TypeOK, QueueStep, rpc = "send" => chunk # 0, NEW k \in 1..Len(q_tcp_server')
  PROVE  \/ \E j \in 1..Len(q_tcp_server) : q_tcp_server'[k] = q_tcp_server[j]
         \/ rpc = "send" /\ q_tcp_server'[k] = chunk
<1>0. q_tcp_server \in Seq(1..MaxChunks) /\ chunk \in 0..MaxChunks
  BY DEF TypeOK
<1>1. CASE q_tcp_server # <<>> /\ q_tcp_server' = Tail(q_tcp_server)
  <2>1. /\ Len(q_tcp_server) \in Nat \ {0} /\ Len(q_tcp_server') = Len(q_tcp_server) - 1
        /\ q_tcp_server'[k] = q_tcp_server[k + 1]
    BY <1>0, <1>1, FirstAndRest
  <2>2. k + 1 \in 1..Len(q_tcp_server)
    BY <2>1
  <2> QED
    BY <2>1, <2>2
<1>2. CASE rpc = "send" /\ q_tcp_server' = Append(q_tcp_server, chunk)
  <2>1. chunk \in 1..MaxChunks
    BY <1>0, <1>2
  <2>2. /\ Len(q_tcp_server) \in Nat /\ Len(q_tcp_server') = Len(q_tcp_server) + 1
        /\ \A j \in 1..Len(q_tcp_server) : q_tcp_server'[j] = q_tcp_server[j]
        /\ q_tcp_server'[Len(q_tcp_server) + 1] = chunk
    BY <1>0, <1>2, <2>1, Appended
  <2>3. k \in 1..Len(q_tcp_server) \/ k = Len(q_tcp_server) + 1
    BY <2>2
  <2> QED
    BY <1>2, <2>2, <2>3
<1>3. CASE q_tcp_server' = q_tcp_server
  BY <1>3
<1>4. CASE q_tcp_server' = <<>>
  BY <1>4
<1> QED
  BY <1>1, <1>2, <1>3, <1>4 DEF QueueStep

\* What becomes pending comes from the head of the queue.
LEMMA PendingThen ==
  ASSUME TypeOK, Next, pending_tx_valid', spc' # "flush_request"
  PROVE  \/ pending_tx_valid /\ spc # "flush_request" /\ pending_tx_frame' = pending_tx_frame
         \/ /\ q_tcp_server # <<>> /\ pending_tx_frame' = q_tcp_server[1]
            /\ client_socket # INVALID_SOCK /\ spc = "drain"
<1>1. CASE Reader
  BY <1>1, ReaderLeaves DEF pending
<1>2. CASE Web \/ PeerCloses
  BY <1>2, OthersLeave DEF pending
<1>3. CASE Passes
  BY <1>3, PassesLeave DEF pending, Passes, PassRequest, NoRequest, FinishCommand, AcceptNone,
     AcceptFails, SetupClient, ReceiveNothing, ReceiveCommand, Serve, EndRound, SendDeferred
<1>4. CASE Asked
  BY <1>4, AskedLeave DEF pending, Asked, TakeRequest, ForgetRequest
<1>5. CASE Drains
  BY <1>5, DrainsLeave DEF pending
<1>6. CASE Closes
  BY <1>6, ClosesLeave
<1>7. CASE AcceptClient
  BY <1>7 DEF AcceptClient, pending
<1>8. CASE TakeChunk
  <2>1. q_tcp_server \in Seq(1..MaxChunks)
    BY DEF TypeOK
  <2>2. Head(q_tcp_server) = q_tcp_server[1]
    BY <1>8, <2>1, FirstAndRest DEF TakeChunk
  <2> QED
    BY <1>8, <2>2 DEF TakeChunk, pending
<1>9. CASE SendPart
  BY <1>9 DEF SendPart, ResetPending
<1> QED
  BY <1>1, <1>2, <1>3, <1>4, <1>5, <1>6, <1>7, <1>8, <1>9, ServerSteps DEF Next

\* The queue is as it should be, or has just been emptied.
LEMMA FlushedThen ==
  ASSUME TypeOK, ServerOk, Next, Flushed'
  PROVE  Flushed \/ q_tcp_server' = <<>>
<1>1. CASE Reader
  BY <1>1, ReaderLeaves DEF Flushed
<1>2. CASE Web \/ PeerCloses
  BY <1>2, OthersLeave DEF Flushed
<1>3. CASE Passes
  BY <1>3, PassesLeave DEF Flushed, ServerOk, Passes, PassRequest, NoRequest, FinishCommand,
     AcceptNone, AcceptFails, SetupClient, ReceiveNothing, ReceiveCommand, Serve, EndRound,
     SendDeferred
<1>4. CASE Asked
  BY <1>4 DEF Flushed, Asked, TakeRequest, ForgetRequest
<1>5. CASE Drains
  BY <1>5, DrainsLeave DEF Flushed
<1>6. CASE Closes
  BY <1>6 DEF Flushed, Closes, FinishRequest, SetupFails, ReceiveClosed, SendFails, Stop, CloseClient
<1>7. CASE AcceptClient \/ TakeChunk \/ SendPart
  BY <1>7 DEF Flushed, ServerOk, AcceptClient, TakeChunk, SendPart
<1> QED
  BY <1>1, <1>2, <1>3, <1>4, <1>5, <1>6, <1>7, ServerSteps DEF Next

\* The reader posts only for a client it has seen.
LEMMA InHandThen ==
  ASSUME Next, rpc' \in {"send", "drop"}
  PROVE  /\ chunk' = chunk
         /\ rpc \in {"send", "drop"} \/ (client_socket # INVALID_SOCK /\ UNCHANGED <<left, came>>)
<1>1. CASE Reader
  BY <1>1, ReaderLeaves DEF Reader, ReadUart, CheckClient, PostChunk, DropOldest, GiveUp,
     PostToDeletedQueue, net
<1>2. CASE Server
  BY <1>2, ServerLeaves DEF uart
<1>3. CASE Web \/ PeerCloses
  BY <1>3, OthersLeave DEF uart
<1> QED
  BY <1>1, <1>2, <1>3 DEF Next

LEMMA KeepsTimely ==
  ASSUME TypeOK, ServerOk, TimelyOk, Next, rpc = "send" => chunk # 0, TypeOK', ServerOk'
  PROVE  TimelyOk'
<1>0. /\ chunk \in Nat /\ q_tcp_server \in Seq(1..MaxChunks) /\ Len(q_tcp_server) \in Nat
      /\ \A k \in 1..Len(q_tcp_server) : q_tcp_server[k] \in Nat /\ q_tcp_server[k] <= MaxChunks
      /\ pending_tx_frame \in Nat
  <2>1. q_tcp_server \in Seq(1..MaxChunks)
    BY DEF TypeOK
  <2>2. \A k \in 1..Len(q_tcp_server) : q_tcp_server[k] \in 1..MaxChunks
    BY <2>1, Elements
  <2> QED
    BY <2>1, <2>2, Chunks, Sizes
<1>1. /\ chunk' \in {chunk, chunk + 1}
      /\ left \in 0..MaxChunks /\ came \in 0..MaxChunks \cup {NotYet}
  BY QueueMoves DEF TypeOK
<1>2. CASE /\ left' = chunk /\ came' = NotYet /\ UNCHANGED <<uart, q_tcp_server>>
           /\ client_socket' = INVALID_SOCK /\ spc' \in {"flush_request", "drain"}
           /\ (pending_tx_valid' => spc' = "flush_request")
  BY <1>2 DEF TimelyOk, Timely, Flushed, uart
<1>3. CASE \/ UNCHANGED <<left, came>> /\ client_socket' \in {client_socket, INVALID_SOCK}
           \/ AcceptClient /\ left' = left /\ came' = IF came = NotYet THEN chunk ELSE came
  <2>1. \A x : Timely(x) => TimelyThen(x)
    BY <1>3 DEF Timely, TimelyThen
  <2>2. client_socket' # INVALID_SOCK => came' # NotYet
    <3>1. chunk # NotYet
      BY <1>0 DEF NotYet
    <3> QED
      BY <1>3, <3>1 DEF TimelyOk
  <2>3. came' # NotYet => came' <= chunk'
    <3>1. came' # NotYet => came' \in {came, chunk} /\ (came' = came => came <= chunk)
      BY <1>3 DEF TimelyOk
    <3> QED
      BY <1>0, <1>1, <3>1 DEF NotYet
  <2>4. ASSUME Flushed', NEW k \in 1..Len(q_tcp_server')
        PROVE  TimelyThen(q_tcp_server'[k])
    <3>1. q_tcp_server' # <<>>
      BY <2>4
    <3>2. Flushed
      BY <2>4, <3>1, FlushedThen
    <3>3. \/ \E j \in 1..Len(q_tcp_server) : q_tcp_server'[k] = q_tcp_server[j]
          \/ rpc = "send" /\ q_tcp_server'[k] = chunk
      BY <2>4, QueueMoves, QueuedThen
    <3>4. Timely(q_tcp_server'[k])
      BY <3>2, <3>3 DEF TimelyOk
    <3> QED
      BY <2>1, <3>4
  <2>5. rpc' \in {"send", "drop"} => TimelyThen(chunk')
    <3>1. ASSUME rpc' \in {"send", "drop"} PROVE TimelyThen(chunk')
      <4>1. chunk' = chunk
        BY <3>1, InHandThen
      <4>2. CASE rpc \in {"send", "drop"}
        BY <2>1, <4>1, <4>2 DEF TimelyOk
      <4>3. CASE client_socket # INVALID_SOCK /\ UNCHANGED <<left, came>>
        <5>1. came # NotYet /\ came <= chunk
          BY <4>3 DEF TimelyOk
        <5>2. came' # NotYet /\ chunk' >= came'
          BY <1>0, <1>1, <4>1, <4>3, <5>1
        <5> QED
          BY <5>2 DEF TimelyThen
      <4> QED
        BY <3>1, <4>2, <4>3, InHandThen
    <3> QED
      BY <3>1
  <2>6. pending_tx_valid' /\ spc' # "flush_request" => TimelyThen(pending_tx_frame')
    <3>1. ASSUME pending_tx_valid', spc' # "flush_request" PROVE TimelyThen(pending_tx_frame')
      <4>1. CASE pending_tx_valid /\ spc # "flush_request" /\ pending_tx_frame' = pending_tx_frame
        BY <2>1, <4>1 DEF TimelyOk
      <4>2. CASE /\ q_tcp_server # <<>> /\ pending_tx_frame' = q_tcp_server[1]
                 /\ client_socket # INVALID_SOCK /\ spc = "drain"
        <5>1. 1 \in 1..Len(q_tcp_server)
          BY <1>0, <4>2
        <5>2. Flushed
          BY <4>2 DEF Flushed
        <5> QED
          BY <2>1, <4>2, <5>1, <5>2 DEF TimelyOk
      <4> QED
        BY <3>1, <4>1, <4>2, PendingThen
    <3> QED
      BY <3>1
  <2> QED
    BY <2>2, <2>3, <2>4, <2>5, <2>6 DEF TimelyOk, Timely, TimelyThen
<1> QED
  BY <1>2, <1>3, HistorySteps

-----------------------------------------------------------------------------
(* The invariant is kept, and what it gives                                *)

LEMMA KeepsInv == BridgeInv /\ [Next]_vars => BridgeInv'
<1> SUFFICES ASSUME BridgeInv, [Next]_vars PROVE BridgeInv'
  OBVIOUS
<1>0. TypeOK /\ ServerOk /\ QueueOk /\ SentOk /\ TimelyOk
  BY DEF BridgeInv
<1>1. CASE UNCHANGED vars
  <2>1. TypeOK' /\ ServerOk'
    BY <1>0, <1>1 DEF TypeOK, ServerOk, vars, uart, pending, web, net
  <2>2. QueueOk' /\ SentOk'
    BY <1>0, <1>1 DEF QueueOk, SentOk, Older, vars, uart, pending, web, net
  <2>3. TimelyOk'
    BY <1>0, <1>1 DEF TimelyOk, Timely, Flushed, vars, uart, pending, web, net
  <2> QED
    BY <2>1, <2>2, <2>3 DEF BridgeInv
<1>2. CASE Next
  <2>1. rpc = "send" => chunk # 0
    <3>1. chunk \in Nat /\ sent.chunk \in Nat
      BY <1>0, Chunks
    <3> QED
      BY <1>0, <3>1 DEF SentOk, Older
  <2>2. UartType' /\ ServerType' /\ PendType' /\ WebType' /\ NetType'
    BY <1>0, <1>2, KeepsTypeParts
  <2>3. q_tcp_server' \in Seq(1..MaxChunks) /\ Len(q_tcp_server') <= Depth
    BY <1>0, <1>2, <2>1, QueueMoves, QueueTypes
  <2>4. TypeOK'
    <3>1. HistType'
      BY <1>0, <1>2, KeepsHistory
    <3> QED
      BY <2>2, <2>3, <3>1
         DEF TypeOK, UartType, ServerType, PendType, WebType, NetType, HistType, SentRec
  <2>5. ServerOk'
    BY <1>0, <1>2, KeepsServer
  <2>6. QueueOk'
    BY <1>0, <1>2, <2>1, KeepsQueue
  <2>7. SentOk'
    BY <1>0, <1>2, KeepsSent
  <2>8. TimelyOk'
    BY <1>0, <1>2, <2>1, <2>4, <2>5, KeepsTimely
  <2> QED
    BY <2>4, <2>5, <2>6, <2>7, <2>8 DEF BridgeInv
<1> QED
  BY <1>1, <1>2

LEMMA AlwaysInv == Spec => []BridgeInv
  BY InitialInv, KeepsInv, PTL DEF Spec

\* No task drives a variable out of its type, whatever the three of them do at
\* the same time: the queue keeps within Depth, the offset within the frame.
THEOREM BridgeTypeCorrect == Spec => []TypeOK
<1>1. BridgeInv => TypeOK
  BY DEF BridgeInv
<1> QED
  BY <1>1, AlwaysInv, PTL

\* A piece goes out where the last one of the session stopped, or begins a
\* younger chunk: the state of the send survives drops of chunks by either
\* task, commands, deferred sends, and is gone with its client.
LEMMA PieceInOrder ==
  ASSUME BridgeInv, [Next]_vars, sent' # sent, conn' = conn
  PROVE  \/ sent'.chunk = sent.chunk /\ sent'.part = sent.part + 1
         \/ sent.part = Parts /\ sent'.chunk > sent.chunk /\ sent'.part = 1
<1>0. TypeOK /\ ServerOk /\ SentOk
  BY DEF BridgeInv
<1>1. Next
  BY DEF vars, net
<1>2. CASE Closes
  BY <1>2, ClosesLeave
<1>3. CASE AcceptClient
  <2>1. conn' = sessions + 1 /\ spc = "accept"
    BY <1>3 DEF AcceptClient
  <2>2. conn = 0
    BY <1>0, <2>1 DEF ServerOk
  <2>3. sessions + 1 # 0
    BY <1>0 DEF TypeOK
  <2> QED
    BY <2>1, <2>2, <2>3
<1>4. CASE TakeChunk
  BY <1>4 DEF TakeChunk, net
<1>5. CASE SendPart
  <2>1. sent'.chunk = pending_tx_frame /\ sent'.part = pending_tx_offset + 1
    BY <1>5 DEF SendPart
  <2>2. pending_tx_valid
    BY <1>0, <1>5 DEF SendPart, ServerOk
  <2>3. /\ sent.chunk \in Nat /\ pending_tx_frame \in Nat /\ pending_tx_offset \in Nat
    BY <1>0, Chunks
  <2>4. IF pending_tx_offset = 0
        THEN sent.part = Parts /\ sent.chunk < pending_tx_frame
        ELSE sent.part = pending_tx_offset /\ sent.chunk = pending_tx_frame
    BY <1>0, <2>2 DEF SentOk
  <2> QED
    BY <2>1, <2>3, <2>4
<1> QED
  BY <1>1, <1>2, <1>3, <1>4, <1>5, Unsent

\* Within a session the client gets whole chunks in UART order (socket_send
\* of tcp_server.c), for any depth of the queue and any number of
\* pieces per chunk.
THEOREM StreamCorrect == Spec => StreamKeepsChunks
<1>1. BridgeInv /\ [Next]_vars =>
        [sent' # sent /\ conn' = conn =>
           \/ sent'.chunk = sent.chunk /\ sent'.part = sent.part + 1
           \/ sent.part = Parts /\ sent'.chunk > sent.chunk /\ sent'.part = 1]_vars
  BY PieceInOrder
<1> QED
  BY <1>1, AlwaysInv, PTL DEF Spec, StreamKeepsChunks

\* A client is given what was read since it came, and at most one older chunk:
\* the one in the reader's hands (post_raw_gnss_data_tcp) when the client before
\* it went.
THEOREM StaleCorrect == Spec => StaleDataDropped
<1>1. ASSUME BridgeInv, Next, sent' # sent, conn' = conn
      PROVE  sent'.chunk >= came \/ sent'.chunk = left
  <2>1. SendPart
    <3>1. ~Closes
      BY <1>1, ClosesLeave
    <3>2. ~AcceptClient
      <4>1. ASSUME AcceptClient PROVE FALSE
        <5>1. conn' = sessions + 1 /\ spc = "accept"
          BY <4>1 DEF AcceptClient
        <5>2. conn = 0 /\ sessions + 1 # 0
          BY <1>1, <5>1 DEF BridgeInv, ServerOk, TypeOK
        <5> QED
          BY <1>1, <5>1, <5>2
      <4> QED
        BY <4>1
    <3>3. ~TakeChunk
      BY <1>1 DEF TakeChunk, net
    <3> QED
      BY <1>1, <3>1, <3>2, <3>3, Unsent
  <2>2. sent'.chunk = pending_tx_frame /\ spc = "send"
    BY <2>1 DEF SendPart
  <2>3. pending_tx_valid
    BY <1>1, <2>2 DEF BridgeInv, ServerOk
  <2> QED
    BY <1>1, <2>2, <2>3 DEF BridgeInv, TimelyOk, Timely
<1>2. BridgeInv /\ [Next]_vars =>
        [sent' # sent /\ conn' = conn => sent'.chunk >= came \/ sent'.chunk = left]_vars
  BY <1>1
<1> QED
  BY <1>2, AlwaysInv, PTL DEF Spec, StaleDataDropped

-----------------------------------------------------------------------------
(* The rounds of the server.  With a fair server they are why requests do  *)
(* not linger.                                                             *)

\* The places of the loop, in the order of a round.
Order(s) ==
    CASE s = "top"           -> 11
      [] s = "again"         -> 10
      [] s = "flush_request" -> 9
      [] s = "accept"        -> 8
      [] s = "setup"         -> 7
      [] s = "recv"          -> 6
      [] s = "flush_command" -> 5
      [] s = "serve"         -> 4
      [] s = "send"          -> 3
      [] s = "drain"         -> 2
      [] s = "error"         -> 1
      [] OTHER               -> 0

\* The way through the round, the queue's handle once it fails, and the pieces of
\* the frame in hand.
Way        == IF spc = "error" /\ alive THEN 3 ELSE 2 * Order(spc)
PiecesLeft == Parts - pending_tx_offset

\* The first tests of a round, for a request of the web server.
Asking == spc \in {"top", "again"}

Shorter ==
    \/ Len(q_tcp_server') < Len(q_tcp_server)
    \/ Len(q_tcp_server') = Len(q_tcp_server) /\ Way' < Way
    \/ Len(q_tcp_server') = Len(q_tcp_server) /\ Way' = Way /\ PiecesLeft' < PiecesLeft

\* A step of the server shortens what is left of its round or ends it; another
\* task adds no more than a chunk to the queue.  A round begins with the request
\* dealt with, and ends with nothing left for a client that is not there.
RoundsEnd ==
    [][/\ Server => Shorter \/ spc' = "top"
       /\ ~Server => /\ Way' = Way /\ PiecesLeft' = PiecesLeft
                     /\ \/ Len(q_tcp_server') <= Len(q_tcp_server)
                        \/ /\ rpc = "send" /\ rpc' = "idle"
                           /\ Len(q_tcp_server') = Len(q_tcp_server) + 1
       /\ {Len(q_tcp_server), Way, PiecesLeft} \subseteq Nat
       /\ Asking /\ ~Asking' => ~disconnect_requested'
       /\ spc = "drain" /\ spc' = "top" /\ client_socket = INVALID_SOCK
             => q_tcp_server = <<>>]_vars

LEMMA OrderFalls ==
  /\ \A s : Order(s) \in Nat
  /\ Order("flush_request") < Order("top")
  /\ Order("again") < Order("top")
  /\ Order("accept") < Order("again")
  /\ Order("recv") < Order("again")
  /\ Order("accept") < Order("flush_request")
  /\ Order("serve") < Order("flush_command")
  /\ Order("setup") < Order("accept")
  /\ Order("drain") < Order("accept")
  /\ Order("error") < Order("accept")
  /\ Order("error") < Order("setup")
  /\ Order("recv") < Order("setup")
  /\ Order("serve") < Order("recv")
  /\ Order("flush_command") < Order("recv")
  /\ Order("drain") < Order("recv")
  /\ Order("send") < Order("serve")
  /\ Order("drain") < Order("serve")
  /\ Order("drain") < Order("send")
  /\ Order("stopped") < Order("error")
<1>0. \A s : Order(s) \in Nat
  BY DEF Order
<1>1. Order("flush_request") < Order("top")
  BY DEF Order
<1>18. Order("again") < Order("top")
  BY DEF Order
<1>2. Order("accept") < Order("again")
  BY DEF Order
<1>3. Order("recv") < Order("again")
  BY DEF Order
<1>4. Order("accept") < Order("flush_request")
  BY DEF Order
<1>5. Order("serve") < Order("flush_command")
  BY DEF Order
<1>6. Order("setup") < Order("accept")
  BY DEF Order
<1>7. Order("drain") < Order("accept")
  BY DEF Order
<1>8. Order("error") < Order("accept")
  BY DEF Order
<1>9. Order("error") < Order("setup")
  BY DEF Order
<1>10. Order("recv") < Order("setup")
  BY DEF Order
<1>11. Order("serve") < Order("recv")
  BY DEF Order
<1>12. Order("flush_command") < Order("recv")
  BY DEF Order
<1>13. Order("drain") < Order("recv")
  BY DEF Order
<1>14. Order("send") < Order("serve")
  BY DEF Order
<1>15. Order("drain") < Order("serve")
  BY DEF Order
<1>16. Order("drain") < Order("send")
  BY DEF Order
<1>17. Order("stopped") < Order("error")
  BY DEF Order
<1> QED
  BY <1>0, <1>1, <1>2, <1>3, <1>4, <1>5, <1>6, <1>7, <1>8, <1>9, <1>10, <1>11, <1>12, <1>13, <1>14, <1>15, <1>16, <1>17, <1>18

LEMMA RoundNumbers ==
  ASSUME TypeOK
  PROVE  {Len(q_tcp_server), Way, PiecesLeft} \subseteq Nat
<1>1. Len(q_tcp_server) \in Nat
  BY Chunks
<1>2. Way \in Nat
  <2>1. Order(spc) \in Nat
    BY OrderFalls
  <2> QED
    BY <2>1 DEF Way
<1>3. PiecesLeft \in Nat
  BY Sizes DEF TypeOK, PiecesLeft
<1> QED
  BY <1>1, <1>2, <1>3

\* A step to a later place, with the queue as it is.
LEMMA Onward ==
  ASSUME TypeOK, Len(q_tcp_server') = Len(q_tcp_server), Order(spc') < Order(spc)
  PROVE  Shorter
<1>1. Order(spc) \in Nat /\ Order(spc') \in Nat
  BY OrderFalls
<1>2. CASE spc' = "error" /\ alive'
  <2>1. Order("error") = 1
    BY DEF Order
  <2>2. Order(spc) >= 2 /\ Way' = 3
    BY <1>1, <1>2, <2>1 DEF Way
  <2>3. spc # "error"
    BY <1>1, <1>2
  <2>4. Way = 2 * Order(spc)
    BY <2>3 DEF Way
  <2> QED
    BY <1>1, <2>2, <2>4 DEF Shorter
<1>3. CASE ~(spc' = "error" /\ alive')
  <2>1. Way' = 2 * Order(spc')
    BY <1>3 DEF Way
  <2>2. Way >= 2 * Order(spc) /\ Way \in Nat
    <3>1. Order("error") = 1
      BY DEF Order
    <3> QED
      BY <1>1, <3>1 DEF Way
  <2> QED
    BY <1>1, <2>1, <2>2 DEF Shorter
<1> QED
  BY <1>2, <1>3

LEMMA PassesShorten ==
  ASSUME TypeOK, Passes \/ Asked \/ Closes \/ AcceptClient
  PROVE  Shorter \/ spc' = "top"
<1>1. q_tcp_server' = q_tcp_server
  BY PassesLeave, AskedLeave, ClosesLeave DEF AcceptClient
<1>2. spc' = "top" \/ Order(spc') < Order(spc)
  <2>1. CASE Passes
    BY <2>1, OrderFalls DEF Passes, PassRequest, NoRequest, Onwards, FinishCommand, AcceptNone, AcceptFails, SetupClient,
       ReceiveNothing, ReceiveCommand, Serve, EndRound, SendDeferred
  <2>2. CASE Asked
    BY <2>2, OrderFalls DEF Asked, TakeRequest, ForgetRequest, Onwards
  <2>3. CASE Closes
    BY <2>3, OrderFalls DEF Closes, FinishRequest, SetupFails, ReceiveClosed, SendFails, Stop
  <2>4. CASE AcceptClient
    BY <2>4, OrderFalls DEF AcceptClient
  <2> QED
    BY <2>1, <2>2, <2>3, <2>4
<1> QED
  BY <1>1, <1>2, Onward

LEMMA QueueShorter ==
  ASSUME TypeOK, q_tcp_server # <<>>, q_tcp_server' = Tail(q_tcp_server)
  PROVE  Shorter
<1>1. q_tcp_server \in Seq(1..MaxChunks)
  BY DEF TypeOK
<1>2. Len(q_tcp_server) \in Nat \ {0} /\ Len(Tail(q_tcp_server)) = Len(q_tcp_server) - 1
  BY <1>1, FirstAndRest
<1>3. Len(q_tcp_server') = Len(q_tcp_server) - 1
  BY <1>2
<1>4. Len(q_tcp_server') < Len(q_tcp_server)
  BY <1>2, <1>3
<1> QED
  BY <1>4 DEF Shorter

LEMMA ServerShortens ==
  ASSUME BridgeInv, Server
  PROVE  Shorter \/ spc' = "top"
<1>0. TypeOK
  BY DEF BridgeInv
<1>1. CASE DrainOne \/ TakeChunk
  BY <1>0, <1>1, QueueShorter DEF DrainOne, TakeChunk
<1>2. CASE DeleteQueue
  <2>1. /\ spc = "error" /\ spc' = "error" /\ alive /\ ~alive'
        /\ q_tcp_server' = <<>> /\ Len(q_tcp_server') = 0
    BY <1>2 DEF DeleteQueue
  <2>2. Order("error") = 1
    BY DEF Order
  <2>3. Way = 3 /\ Way' = 2
    BY <2>1, <2>2 DEF Way
  <2>4. Len(q_tcp_server) \in Nat
    BY <1>0, Chunks
  <2> QED
    BY <2>1, <2>3, <2>4 DEF Shorter
<1>3. CASE SendPart
  <2>1. q_tcp_server' = q_tcp_server /\ alive' = alive /\ spc = "send"
    BY <1>3 DEF SendPart
  <2>2. CASE pending_tx_offset + 1 = Parts
    <3>1. spc' = "drain"
      BY <1>3, <2>2 DEF SendPart
    <3>2. Order(spc') < Order(spc)
      BY <2>1, <3>1, OrderFalls
    <3> QED
      BY <1>0, <2>1, <3>2, Onward
  <2>3. CASE pending_tx_offset + 1 # Parts
    <3>1. pending_tx_offset' = pending_tx_offset + 1 /\ spc' = spc
      BY <1>3, <2>3 DEF SendPart
    <3>2. PiecesLeft' < PiecesLeft
      BY <1>0, <3>1, Chunks, Sizes DEF PiecesLeft
    <3>3. Way' = Way
      BY <2>1, <3>1 DEF Way
    <3> QED
      BY <2>1, <3>2, <3>3 DEF Shorter
  <2> QED
    BY <2>2, <2>3
<1>4. CASE Passes \/ Asked \/ Closes \/ AcceptClient
  BY <1>0, <1>4, PassesShorten
<1> QED
  BY <1>1, <1>2, <1>3, <1>4, ServerSteps DEF Drains

LEMMA OthersAddOne ==
  ASSUME BridgeInv, Reader \/ Web \/ PeerCloses
  PROVE  /\ Way' = Way /\ PiecesLeft' = PiecesLeft
         /\ \/ Len(q_tcp_server') <= Len(q_tcp_server)
            \/ /\ rpc = "send" /\ rpc' = "idle"
               /\ Len(q_tcp_server') = Len(q_tcp_server) + 1
<1>1. UNCHANGED <<alive, spc, pending>>
  BY ReaderLeaves, OthersLeave
<1>2. Way' = Way /\ PiecesLeft' = PiecesLeft
  BY <1>1 DEF Way, PiecesLeft, pending
<1>3. q_tcp_server \in Seq(1..MaxChunks) /\ Len(q_tcp_server) \in Nat
  BY Chunks DEF BridgeInv
<1>4. CASE Web \/ PeerCloses
  <2>1. q_tcp_server' = q_tcp_server
    BY <1>4, OthersLeave
  <2> QED
    BY <1>2, <1>3, <2>1
<1>5. CASE PostChunk /\ q_tcp_server' # q_tcp_server
  <2>1. q_tcp_server' = Append(q_tcp_server, chunk) /\ rpc = "send" /\ rpc' = "idle"
    BY <1>5 DEF PostChunk
  <2>2. Len(Append(q_tcp_server, chunk)) = Len(q_tcp_server) + 1
    BY <1>3
  <2> QED
    BY <1>2, <2>1, <2>2
<1>6. CASE DropOldest
  <2>1. q_tcp_server # <<>> /\ q_tcp_server' = Tail(q_tcp_server)
    BY <1>6 DEF DropOldest
  <2>2. Len(Tail(q_tcp_server)) = Len(q_tcp_server) - 1
    BY <1>3, <2>1, FirstAndRest
  <2>3. Len(q_tcp_server') = Len(q_tcp_server) - 1
    BY <2>1, <2>2
  <2>4. Len(q_tcp_server') <= Len(q_tcp_server)
    BY <1>3, <2>3
  <2> QED
    BY <1>2, <2>4
<1>7. CASE q_tcp_server' = q_tcp_server
  BY <1>2, <1>3, <1>7
<1>8. Reader => PostChunk \/ DropOldest \/ q_tcp_server' = q_tcp_server
  BY DEF Reader, ReadUart, CheckClient, GiveUp, PostToDeletedQueue
<1> QED
  BY <1>4, <1>5, <1>6, <1>7, <1>8

\* Where a round begins and where it ends.
LEMMA RoundBorders ==
  ASSUME BridgeInv, Next
  PROVE  /\ Asking /\ ~Asking' => ~disconnect_requested'
         /\ spc = "drain" /\ spc' = "top" /\ client_socket = INVALID_SOCK => q_tcp_server = <<>>
<1>1. ServerOk
  BY DEF BridgeInv
<1>2. CASE Reader \/ Web \/ PeerCloses
  BY <1>2, ReaderLeaves, OthersLeave DEF Asking
<1>3. CASE Server
  <2>1. ASSUME Asking, ~Asking' PROVE ~disconnect_requested'
    BY <1>3, <2>1 DEF Asking, Server, TakeRequest, PassRequest, Onwards, ForgetRequest, NoRequest, DrainOne, FinishRequest,
       FinishCommand, AcceptClient, AcceptNone, AcceptFails, SetupClient, SetupFails,
       ReceiveNothing, ReceiveCommand, ReceiveClosed, Serve, TakeChunk, EndRound, SendPart,
       SendDeferred, SendFails, DeleteQueue, Stop
  <2>2. ASSUME spc = "drain", spc' = "top", client_socket = INVALID_SOCK
        PROVE  q_tcp_server = <<>>
    <3>1. ~pending_tx_valid
      BY <1>1, <2>2 DEF ServerOk
    <3>2. EndRound
      BY <1>3, <2>2 DEF Server, TakeRequest, PassRequest, Onwards, ForgetRequest, NoRequest, DrainOne, FinishRequest,
         FinishCommand, AcceptClient, AcceptNone, AcceptFails, SetupClient, SetupFails,
         ReceiveNothing, ReceiveCommand, ReceiveClosed, Serve, TakeChunk, SendPart,
         SendDeferred, SendFails, DeleteQueue, Stop
    <3> QED
      BY <3>1, <3>2 DEF EndRound
  <2> QED
    BY <2>1, <2>2
<1> QED
  BY <1>2, <1>3 DEF Next

\* Every pass of the server's loop (tcp_server.c:403-555) comes to its end, for
\* any clients, requests and sizes: it waits for nobody, and only a chunk that
\* is posted meanwhile can make it longer.
THEOREM ServerRoundsEnd == Spec => RoundsEnd
<1>1. BridgeInv /\ [Next]_vars =>
        [/\ Server => Shorter \/ spc' = "top"
         /\ ~Server => /\ Way' = Way /\ PiecesLeft' = PiecesLeft
                       /\ \/ Len(q_tcp_server') <= Len(q_tcp_server)
                          \/ /\ rpc = "send" /\ rpc' = "idle"
                             /\ Len(q_tcp_server') = Len(q_tcp_server) + 1
         /\ {Len(q_tcp_server), Way, PiecesLeft} \subseteq Nat
         /\ Asking /\ ~Asking' => ~disconnect_requested'
         /\ spc = "drain" /\ spc' = "top" /\ client_socket = INVALID_SOCK
               => q_tcp_server = <<>>]_vars
  <2> SUFFICES ASSUME BridgeInv, Next
               PROVE  /\ Server => Shorter \/ spc' = "top"
                      /\ ~Server => /\ Way' = Way /\ PiecesLeft' = PiecesLeft
                                    /\ \/ Len(q_tcp_server') <= Len(q_tcp_server)
                                       \/ /\ rpc = "send" /\ rpc' = "idle"
                                          /\ Len(q_tcp_server') = Len(q_tcp_server) + 1
                      /\ {Len(q_tcp_server), Way, PiecesLeft} \subseteq Nat
                      /\ Asking /\ ~Asking' => ~disconnect_requested'
                      /\ spc = "drain" /\ spc' = "top" /\ client_socket = INVALID_SOCK
                            => q_tcp_server = <<>>
    OBVIOUS
  <2>1. {Len(q_tcp_server), Way, PiecesLeft} \subseteq Nat
    BY RoundNumbers DEF BridgeInv
  <2>2. Server => Shorter \/ spc' = "top"
    BY ServerShortens
  <2>3. ~Server => Reader \/ Web \/ PeerCloses
    BY DEF Next
  <2> QED
    BY <2>1, <2>2, <2>3, OthersAddOne, RoundBorders
<1> QED
  BY <1>1, AlwaysInv, PTL DEF Spec, RoundsEnd
=============================================================================
