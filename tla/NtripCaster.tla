---------------------------- MODULE NtripCaster ----------------------------
(***************************************************************************)
(* The local NTRIP caster (ntrip_caster.c).  One task does everything in   *)
(* rounds: it asks select which sockets have something to read, accepts    *)
(* one rover, reads from the readable rovers slot by slot, and then        *)
(* forwards every waiting frame to the streaming rovers slot by slot.      *)
(* Peers write and leave at any time, so what select said may be old.      *)
(*                                                                         *)
(* Frames are numbered as published and sent in Parts pieces; "blocked"    *)
(* stands for a send that fails with EAGAIN until its retries are used up. *)
(* The mutex around the forwarding, which only a reader of the status      *)
(* contends for, the counters and the text of answers are left out.        *)
(***************************************************************************)
EXTENDS Integers, Sequences

CONSTANTS Rovers,        \* number of slots, MAX_ROVERS (4)
          CasterDepth,   \* FRAME_QUEUE_DEPTH (16)
          Pieces,        \* pieces a frame is sent in
          MaxRtcm,       \* bound: frames published
          MaxClients     \* bound: clients that connect

ASSUME CasterAssumption == /\ Rovers \in Nat \ {0}
                           /\ CasterDepth \in Nat \ {0}
                           /\ Pieces \in Nat \ {0}
                           /\ MaxRtcm \in Nat
                           /\ MaxClients \in Nat

Slots == 1..Rovers

VARIABLES
    rtcm,        \* the last frame handed to ntrip_caster_publish
    waiting,     \* s_q_ntrip_caster
    at, i,       \* where the task is in its round, and at which slot
    readable,    \* read_fds after select: slots, and 0 for listen_fd
    f, offset,   \* the frame being forwarded, what of it slot i was given
    rover,       \* rover[s]: state and tail pending of s_rovers[s]
    clients,     \* external: clients so far
    backlog,     \* external: connections not accepted yet, at most one
    peer,        \* external, peer[s]: the client in slot s
    told,        \* external, told[s]: the last piece the client got
    blocked      \* history: the rovers whose socket was ever blocked

casterVars == <<rtcm, waiting, at, i, readable, f, offset, rover, clients,
                backlog, peer, told, blocked>>
task    == <<at, i, readable, f, offset>>
outside == <<clients, backlog, peer>>

\* The types of all variables.
CasterTypeOK ==
    /\ rtcm \in 0..MaxRtcm
    /\ waiting \in Seq(1..MaxRtcm)
    /\ at \in {"select", "accept", "service", "receive", "send", "give"}
    /\ i \in Slots
    /\ readable \subseteq 0..Rovers
    /\ f \in 0..MaxRtcm
    /\ offset \in 0..(Pieces - 1)
    /\ rover \in [Slots -> [state : {"EMPTY", "HANDSHAKE", "STREAMING"},
                            pending : 0..MaxRtcm, pos : 0..(Pieces - 1)]]
    /\ clients \in 0..MaxClients
    /\ backlog \in 0..1
    /\ peer \in [Slots -> [conn : {"none", "open", "fin", "reset"},
                           data : {"none", "some", "request"}]]
    /\ told \in [Slots -> [f : -1..MaxRtcm, piece : 0..Pieces]]
    /\ blocked \subseteq Slots

Empty   == [state |-> "EMPTY", pending |-> 0, pos |-> 0]
NoPeer  == [conn |-> "none", data |-> "none"]
Nothing == [f |-> -1, piece |-> 0]   \* f = 0 is the answer to the request

\* The listening socket and the queue exist; the task enters its loop.
CasterInit ==
    /\ rtcm = 0
    /\ waiting = <<>>
    /\ at = "select"
    /\ i = 1
    /\ readable = {}
    /\ f = 0
    /\ offset = 0
    /\ rover = [s \in Slots |-> Empty]
    /\ clients = 0
    /\ backlog = 0
    /\ peer = [s \in Slots |-> NoPeer]
    /\ told = [s \in Slots |-> Nothing]
    /\ blocked = {}

-----------------------------------------------------------------------------
(* The reader: ntrip_caster_publish.  A full queue drops the new frame.    *)

PublishRtcm ==
    /\ rtcm < MaxRtcm
    /\ rtcm' = rtcm + 1
    /\ waiting' = IF Len(waiting) < CasterDepth THEN Append(waiting, rtcm')
                                                ELSE waiting
    /\ UNCHANGED <<task, rover, outside, told, blocked>>

-----------------------------------------------------------------------------
(* task_ntrip_server: select and accept                                    *)

Streaming(s) == rover[s].state = "STREAMING"

Select ==
    /\ at = "select"
    /\ readable' = {s \in Slots : rover[s].state # "EMPTY"
                                    /\ peer[s] # [conn |-> "open", data |-> "none"]}
                   \union (IF backlog > 0 THEN {0} ELSE {})
    /\ at' = "accept"
    /\ UNCHANGED <<rtcm, waiting, i, f, offset, rover, outside, told, blocked>>

ToService == at' = "service" /\ readable' = readable \ {0}

Free == {s \in Slots : rover[s].state = "EMPTY"}

\* The first free slot takes the connection.
Accept ==
    /\ at = "accept"
    /\ 0 \in readable
    /\ \E s \in Free :
          /\ \A t \in Free : s <= t
          /\ rover' = [rover EXCEPT ![s] = [Empty EXCEPT !.state = "HANDSHAKE"]]
          /\ peer' = [peer EXCEPT ![s].conn = "open"]
    /\ backlog' = backlog - 1
    /\ ToService
    /\ UNCHANGED <<rtcm, waiting, i, f, offset, clients, told, blocked>>

\* Without a free slot the answer is 503.
Refuse ==
    /\ at = "accept"
    /\ 0 \in readable
    /\ Free = {}
    /\ backlog' = backlog - 1
    /\ ToService
    /\ UNCHANGED <<rtcm, waiting, i, f, offset, rover, clients, peer,
                   told, blocked>>

\* Nobody waits, or accept fails.
AcceptNone ==
    /\ at = "accept"
    /\ ToService
    /\ UNCHANGED <<rtcm, waiting, i, f, offset, rover, outside, told,
                   blocked>>

-----------------------------------------------------------------------------
(* Service: slot i, if select found it readable                            *)

NextSlot == /\ readable' = readable \ {i}
            /\ IF i = Rovers THEN i' = 1 /\ at' = "receive"
                             ELSE i' = i + 1 /\ at' = at

\* close_rover; told and blocked are about the client that is gone.
CloseRover == /\ rover' = [rover EXCEPT ![i] = Empty]
              /\ peer' = [peer EXCEPT ![i] = NoPeer]
              /\ told' = [told EXCEPT ![i] = Nothing]
              /\ blocked' = blocked \ {i}

Serviced == i \in readable /\ rover[i].state # "EMPTY"

ServiceNone ==
    /\ at = "service"
    /\ ~Serviced
    /\ NextSlot
    /\ UNCHANGED <<rtcm, waiting, f, offset, rover, outside, told, blocked>>

\* A piece of a request, or data of a streaming rover: read and forgotten.
ServiceData ==
    /\ at = "service"
    /\ Serviced
    /\ peer[i].data = "some"
    /\ peer' = [peer EXCEPT ![i].data = "none"]
    /\ NextSlot
    /\ UNCHANGED <<rtcm, waiting, f, offset, rover, clients, backlog, told,
                   blocked>>

\* handle_request accepts; whether the answer went out whole is not looked at.
AcceptRequest ==
    /\ at = "service"
    /\ Serviced
    /\ peer[i].data = "request"
    /\ peer' = [peer EXCEPT ![i].data = "none"]
    /\ rover' = [rover EXCEPT ![i].state = "STREAMING"]
    /\ told' = [told EXCEPT ![i] = [f |-> 0, piece |-> Pieces]]
    /\ NextSlot
    /\ UNCHANGED <<rtcm, waiting, f, offset, clients, backlog, blocked>>

\* A method, path or credential that is wrong, the table of sources, or a
\* request longer than the buffer: answered if at all, and closed.
RejectRequest ==
    /\ at = "service"
    /\ Serviced
    /\ rover[i].state = "HANDSHAKE"
    /\ peer[i].data # "none"
    /\ CloseRover
    /\ NextSlot
    /\ UNCHANGED <<rtcm, waiting, f, offset, clients, backlog>>

\* Mutation: only the error is handled, not the end of the connection.
ServiceReset ==
    /\ at = "service"
    /\ Serviced
    /\ peer[i].conn = "reset" \/ (peer[i].conn = "fin" /\ peer[i].data = "none")
    /\ IF peer[i].conn = "reset" THEN CloseRover
       ELSE UNCHANGED <<rover, peer, told, blocked>>
    /\ NextSlot
    /\ UNCHANGED <<rtcm, waiting, f, offset, clients, backlog>>

\* recv says that the connection has ended or is broken.
ServiceEnd ==
    /\ at = "service"
    /\ Serviced
    /\ peer[i].conn = "reset" \/ (peer[i].conn = "fin" /\ peer[i].data = "none")
    /\ CloseRover
    /\ NextSlot
    /\ UNCHANGED <<rtcm, waiting, f, offset, clients, backlog>>

Service == ServiceNone \/ ServiceData \/ AcceptRequest \/ RejectRequest \/ ServiceEnd

-----------------------------------------------------------------------------
(* Forward: each waiting frame to each streaming rover                     *)

TakeFrame ==
    /\ at = "receive"
    /\ waiting # <<>>
    /\ f' = Head(waiting)
    /\ waiting' = Tail(waiting)
    /\ at' = "send"
    /\ UNCHANGED <<rtcm, i, readable, offset, rover, outside, told, blocked>>

EndRound ==
    /\ at = "receive"
    /\ waiting = <<>>
    /\ at' = "select"
    /\ UNCHANGED <<rtcm, waiting, i, readable, f, offset, rover, outside, told,
                   blocked>>

\* flush_rover_pending comes first; without a pending tail the frame is sent.
Flushing == at = "send" /\ Streaming(i) /\ rover[i].pending # 0
Sending  == at = "send" /\ Streaming(i) /\ rover[i].pending = 0

\* The end of send_frame_to_rover
Onward == /\ offset' = 0
          /\ IF i = Rovers THEN i' = 1 /\ at' = "give" ELSE i' = i + 1 /\ at' = "send"
          /\ UNCHANGED <<readable, f>>

SkipRover ==
    /\ at = "send"
    /\ ~Streaming(i)
    /\ Onward
    /\ UNCHANGED <<rtcm, waiting, rover, outside, told, blocked>>

\* The socket takes the next piece of the pending tail.
FlushPiece ==
    /\ Flushing
    /\ peer[i].conn # "reset"
    /\ LET sent == rover[i].pos + 1
       IN /\ told' = [told EXCEPT ![i] = [f |-> rover[i].pending, piece |-> sent]]
          /\ rover' = [rover EXCEPT ![i] = IF sent = Pieces
                                             THEN [Empty EXCEPT !.state = "STREAMING"]
                                             ELSE [@ EXCEPT !.pos = sent]]
    /\ UNCHANGED <<rtcm, waiting, task, outside, blocked>>

\* Mutation: the tail is given up for the new frame.
FlushBlockedForgets ==
    /\ Flushing
    /\ blocked' = blocked \union {i}
    /\ rover' = [rover EXCEPT ![i].pending = 0, ![i].pos = 0]
    /\ UNCHANGED <<rtcm, waiting, task, outside, told>>

\* Mutation: the rovers behind a blocked one are passed over.
FlushBlockedGivesUp ==
    /\ Flushing
    /\ blocked' = blocked \union {i}
    /\ offset' = 0
    /\ i' = 1
    /\ at' = "give"
    /\ UNCHANGED <<rtcm, waiting, readable, f, rover, outside, told>>

\* The tail stays pending and the whole new frame is dropped.
FlushBlocked ==
    /\ Flushing
    /\ blocked' = blocked \union {i}
    /\ Onward
    /\ UNCHANGED <<rtcm, waiting, rover, outside, told>>

\* The socket takes the next piece of the frame.
SendPiece ==
    /\ Sending
    /\ peer[i].conn # "reset"
    /\ told' = [told EXCEPT ![i] = [f |-> f, piece |-> offset + 1]]
    /\ IF offset + 1 = Pieces THEN Onward
       ELSE offset' = offset + 1 /\ UNCHANGED <<at, i, readable, f>>
    /\ UNCHANGED <<rtcm, waiting, rover, outside, blocked>>

\* A frame of which nothing was sent is dropped, what is left of one is kept.
SendBlocked ==
    /\ Sending
    /\ rover' = IF offset = 0 THEN rover
                ELSE [rover EXCEPT ![i].pending = f, ![i].pos = offset]
    /\ blocked' = blocked \union {i}
    /\ Onward
    /\ UNCHANGED <<rtcm, waiting, outside, told>>

\* The connection is broken: the slot is free.
SendError ==
    /\ Flushing \/ Sending
    /\ peer[i].conn \in {"fin", "reset"}
    /\ CloseRover
    /\ Onward
    /\ UNCHANGED <<rtcm, waiting, clients, backlog>>

\* pool_release
GiveFrame ==
    /\ at = "give"
    /\ f' = 0
    /\ at' = "receive"
    /\ UNCHANGED <<rtcm, waiting, i, readable, offset, rover, outside, told, blocked>>

Forward == \/ TakeFrame \/ EndRound \/ SkipRover \/ FlushPiece
           \/ FlushBlocked \/ SendPiece \/ SendBlocked \/ SendError \/ GiveFrame

CasterTask == Select \/ Accept \/ Refuse \/ AcceptNone \/ Service \/ Forward

-----------------------------------------------------------------------------
(* External: the clients.                                                  *)

ClientConnects ==
    /\ clients < MaxClients
    /\ backlog = 0
    /\ clients' = clients + 1
    /\ backlog' = backlog + 1
    /\ UNCHANGED <<rtcm, waiting, task, rover, peer, told, blocked>>

\* A request may come in pieces; only a rover that waits for an answer sends
\* the end of one.
ClientSends(s) ==
    /\ peer[s].conn = "open"
    /\ peer[s].data # "request"
    /\ \E d \in {"some"} \union (IF Streaming(s) THEN {} ELSE {"request"}) :
          peer' = [peer EXCEPT ![s].data = d]
    /\ UNCHANGED <<rtcm, waiting, task, rover, clients, backlog, told, blocked>>

ClientLeaves(s) ==
    /\ peer[s].conn = "open"
    /\ \E c \in {"fin", "reset"} : peer' = [peer EXCEPT ![s].conn = c]
    /\ UNCHANGED <<rtcm, waiting, task, rover, clients, backlog, told, blocked>>

-----------------------------------------------------------------------------

CasterNext == \/ PublishRtcm \/ CasterTask \/ ClientConnects
              \/ \E s \in Slots : ClientSends(s) \/ ClientLeaves(s)

CasterSpec == CasterInit /\ [][CasterNext]_casterVars

\* The task does not block: select has a timeout and sends give up.  Clients
\* may do nothing at all.
CasterFairness == WF_casterVars(CasterTask)

-----------------------------------------------------------------------------
(* Properties.                                                             *)

\* A rover gets an answer, and then frames: newer and newer ones, each whole
\* before the next begins, whatever was blocked, deferred or dropped, and
\* nothing of what the last rover in the slot was to get.
RoverStream ==
    [][\A s \in Slots : told'[s] \notin {told[s], Nothing} =>
         \/ told[s] = Nothing /\ told'[s].f = 0
         \/ told'[s] = [told[s] EXCEPT !.piece = @ + 1] /\ told[s].f > 0
         \/ /\ told'[s].piece = 1
            /\ told'[s].f > told[s].f
            /\ told[s].piece = Pieces]_casterVars

\* A rover whose socket was never blocked misses nothing because of the others:
\* each frame that was forwarded since it was accepted has reached it whole.
FastRoverMissesNothing ==
    at = "give" => \A s \in Slots \ blocked :
                      Streaming(s) => told[s] = [f |-> f, piece |-> Pieces]

\* A rover whose whole request is there gets its answer or is closed, and one
\* that is gone gives its slot back.
Waits(s) == peer[s].data = "request" \/ peer[s].conn \in {"fin", "reset"}

RoverServed == \A s \in Slots : Waits(s) ~> ~Waits(s)
=============================================================================
