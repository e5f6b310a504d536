---------------------------- MODULE NtripUplink ----------------------------
(***************************************************************************)
(* The NTRIP uplink tasks (ntrip_client.c).  Each task connects to its     *)
(* caster, first with an NTRIP 2 POST and then, if it has a password, with *)
(* an NTRIP 1 SOURCE, sends the frames of its queue, and looks at the      *)
(* socket for the end of the connection.  The tasks share connected_mask,  *)
(* which they read, change and write without a lock.                       *)
(*                                                                         *)
(* Frames are numbered as published and sent in Parts pieces; the buffers  *)
(* they are in are RtcmFanout's subject.  How long a task waits before it  *)
(* connects again, the counters and the text of requests are left out.     *)
(***************************************************************************)
EXTENDS Integers, Sequences

CONSTANTS Uplinks,        \* the enabled entries of s_uplinks
          WithPassword,   \* those with a password
          QueueDepth,     \* FRAME_QUEUE_DEPTH (16)
          Parts,          \* pieces a frame is sent in
          RetryLimit,     \* NTRIP_SEND_RETRY_LIMIT (20)
          MaxFrames,      \* bound: frames published
          MaxConns        \* bound: connections of all uplinks

ASSUME UplinkAssumption == /\ WithPassword \subseteq Uplinks
                           /\ QueueDepth \in Nat \ {0}
                           /\ Parts \in Nat \ {0}
                           /\ RetryLimit \in Nat
                           /\ MaxFrames \in Nat
                           /\ MaxConns \in Nat

VARIABLES
    published,        \* the last frame handed to ntrip_client_publish
    queue,            \* queue[u]: frames waiting for u
    connected_mask,   \* the uplinks whose bit is set
    up,               \* up[u]: the locals of task_ntrip_uplink
    opened,           \* external: connections opened so far
    link,             \* external, link[u]: the connection of u and its peer
    out,              \* external, out[u]: the last piece sent, part 0 on a new
                      \* connection
    raced             \* history: whose last change of the mask overlapped one

uplinkVars == <<published, queue, connected_mask, up, opened, link, out, raced>>

Steps == {"v2", "v2 reply", "v1", "v1 reply", "wait", "set", "set store",
          "receive", "send", "clear", "clear store", "release", "peek"}

\* The types of all variables.
UplinkTypeOK ==
    /\ published \in 0..MaxFrames
    /\ queue \in [Uplinks -> Seq(1..MaxFrames)]
    /\ connected_mask \subseteq Uplinks
    /\ up \in [Uplinks -> [step : Steps, sock : BOOLEAN, f : 0..MaxFrames,
                           sent : 0..Parts, retries : 0..RetryLimit,
                           mask : SUBSET Uplinks]]
    /\ opened \in 0..MaxConns
    /\ link \in [Uplinks -> [unread : BOOLEAN,
                             answer : {"none", "success", "refusal"},
                             peer : {"none", "open", "fin", "reset"}]]
    /\ out \in [Uplinks -> [f : 0..MaxFrames, part : 0..Parts]]
    /\ raced \subseteq Uplinks

NoLink == [unread |-> FALSE, answer |-> "none", peer |-> "none"]

\* ntrip_client_init has started the enabled uplinks.
UplinkInit ==
    /\ published = 0
    /\ queue = [u \in Uplinks |-> <<>>]
    /\ connected_mask = {}
    /\ up = [u \in Uplinks |-> [step |-> "v2", sock |-> FALSE, f |-> 0, sent |-> 0,
                                retries |-> 0, mask |-> {}]]
    /\ opened = 0
    /\ link = [u \in Uplinks |-> NoLink]
    /\ out = [u \in Uplinks |-> [f |-> 0, part |-> 0]]
    /\ raced = {}

-----------------------------------------------------------------------------
(* The reader: ntrip_client_publish.  A full queue drops the new frame.    *)

Publish ==
    /\ published < MaxFrames
    /\ published' = published + 1
    /\ queue' = [u \in Uplinks |-> IF Len(queue[u]) < QueueDepth
                                   THEN Append(queue[u], published') ELSE queue[u]]
    /\ UNCHANGED <<connected_mask, up, opened, link, out, raced>>

-----------------------------------------------------------------------------
(* ntrip_connect                                                           *)

At(u, step)   == up[u].step = step
GoTo(u, step) == up' = [up EXCEPT ![u].step = step]
HangUp(u)     == /\ link' = [link EXCEPT ![u] = NoLink]
                 /\ out' = [out EXCEPT ![u].part = 0]

\* The step after an attempt that failed.
Otherwise(u) == IF up[u].step \in {"v2", "v2 reply"} /\ u \in WithPassword
                THEN "v1" ELSE "wait"

\* The connection is open and the request is out.
Open(u) ==
    /\ up[u].step \in {"v2", "v1"}
    /\ opened < MaxConns
    /\ opened' = opened + 1
    /\ link' = [link EXCEPT ![u] = [NoLink EXCEPT !.peer = "open"]]
    /\ GoTo(u, IF At(u, "v2") THEN "v2 reply" ELSE "v1 reply")
    /\ UNCHANGED <<published, queue, connected_mask, out, raced>>

\* DNS, socket, connect or the request fails.
OpenFails(u) ==
    /\ up[u].step \in {"v2", "v1"}
    /\ GoTo(u, Otherwise(u))
    /\ UNCHANGED <<published, queue, connected_mask, opened, link, out, raced>>

\* recv_response waits without a timeout.  What arrives first counts.
Accepted(u) ==
    /\ up[u].step \in {"v2 reply", "v1 reply"}
    /\ link[u].answer = "success"
    /\ up' = [up EXCEPT ![u].step = "set", ![u].sock = TRUE]
    /\ link' = [link EXCEPT ![u].answer = "none"]
    /\ UNCHANGED <<published, queue, connected_mask, opened, out, raced>>

\* A refusal, or a socket that cannot be made non-blocking.
NotAccepted(u) ==
    /\ up[u].step \in {"v2 reply", "v1 reply"}
    /\ link[u].answer # "none"
    /\ HangUp(u)
    /\ GoTo(u, Otherwise(u))
    /\ UNCHANGED <<published, queue, connected_mask, opened, raced>>

\* vTaskDelay(reconnect_delay_ms)
Wait(u) ==
    /\ At(u, "wait")
    /\ GoTo(u, "v2")
    /\ UNCHANGED <<published, queue, connected_mask, opened, link, out, raced>>

-----------------------------------------------------------------------------
(* uplink_set_connected: the mask is loaded, then the changed mask stored. *)

Changing(u) == up[u].step \in {"set store", "clear store"}

LoadMask(u) ==
    /\ up[u].step \in {"set", "clear"}
    /\ up' = [up EXCEPT ![u].mask = connected_mask,
                        ![u].step = IF At(u, "set") THEN "set store" ELSE "clear store"]
    /\ LET others == {v \in Uplinks \ {u} : Changing(v)}
       IN raced' = IF others = {} THEN raced \ {u} ELSE raced \union others \union {u}
    /\ UNCHANGED <<published, queue, connected_mask, opened, link, out>>

\* Mutation: to clear one bit clears the whole mask.
StoreMaskAll(u) ==
    /\ Changing(u)
    /\ connected_mask' = IF At(u, "set store") THEN up[u].mask \union {u} ELSE {}
    /\ up' = [up EXCEPT ![u].mask = {},
                        ![u].step = IF At(u, "set store") THEN "receive"
                                    ELSE IF up[u].f # 0 THEN "release" ELSE "v2"]
    /\ UNCHANGED <<published, queue, opened, link, out, raced>>

StoreMask(u) ==
    /\ Changing(u)
    /\ connected_mask' = IF At(u, "set store") THEN up[u].mask \union {u}
                                               ELSE up[u].mask \ {u}
    /\ up' = [up EXCEPT ![u].mask = {},
                        ![u].step = IF At(u, "set store") THEN "receive"
                                    ELSE IF up[u].f # 0 THEN "release" ELSE "v2"]
    /\ UNCHANGED <<published, queue, opened, link, out, raced>>

-----------------------------------------------------------------------------
(* task_ntrip_uplink while it has a connection                             *)

Take(u) ==
    /\ At(u, "receive")
    /\ queue[u] # <<>>
    /\ queue' = [queue EXCEPT ![u] = Tail(@)]
    /\ up' = [up EXCEPT ![u].f = Head(queue[u]), ![u].sent = 0, ![u].retries = 0,
                        ![u].step = "send"]
    /\ UNCHANGED <<published, connected_mask, opened, link, out, raced>>

\* 100 ms without a frame.
TakeNothing(u) ==
    /\ At(u, "receive")
    /\ queue[u] = <<>>
    /\ GoTo(u, "peek")
    /\ UNCHANGED <<published, queue, connected_mask, opened, link, out, raced>>

\* The socket takes the next piece; the last one ends the loop.
SendPart(u) ==
    /\ At(u, "send")
    /\ link[u].peer # "reset"
    /\ out' = [out EXCEPT ![u] = [f |-> up[u].f, part |-> up[u].sent + 1]]
    /\ up' = [up EXCEPT ![u].sent = @ + 1, ![u].retries = 0,
                        ![u].step = IF up[u].sent + 1 = Parts THEN "release"
                                    ELSE "send"]
    /\ UNCHANGED <<published, queue, connected_mask, opened, link, raced>>

\* Mutation: the attempts are not counted.
SendAgainForEver(u) ==
    /\ At(u, "send")
    /\ link[u].peer # "reset"
    /\ up' = [up EXCEPT ![u].retries = @ + 1]
    /\ UNCHANGED <<published, queue, connected_mask, opened, link, out, raced>>

\* EAGAIN, and the task has patience left.
SendAgain(u) ==
    /\ At(u, "send")
    /\ link[u].peer # "reset"
    /\ up[u].retries < RetryLimit
    /\ up' = [up EXCEPT ![u].retries = @ + 1]
    /\ UNCHANGED <<published, queue, connected_mask, opened, link, out, raced>>

\* uplink_close_socket; the frame is in hand until the mask is cleared.
Close(u) ==
    /\ HangUp(u)
    /\ up' = [up EXCEPT ![u].sock = FALSE, ![u].step = "clear"]
    /\ UNCHANGED <<published, queue, connected_mask, opened, raced>>

\* Mutation: the frame goes back to the front of the queue.
SendFailsKeepsFrame(u) ==
    /\ At(u, "send")
    /\ link[u].peer # "open" \/ up[u].retries = RetryLimit
    /\ HangUp(u)
    /\ queue' = [queue EXCEPT ![u] = <<up[u].f>> \o @]
    /\ up' = [up EXCEPT ![u].sock = FALSE, ![u].step = "clear"]
    /\ UNCHANGED <<published, connected_mask, opened, raced>>

\* The retry limit is passed, or the connection is broken.
SendFails(u) ==
    /\ At(u, "send")
    /\ link[u].peer # "open" \/ up[u].retries = RetryLimit
    /\ Close(u)

\* Mutation: the frame of a connection that broke is not given back.
ReleaseIfSent(u) ==
    /\ At(u, "release")
    /\ up' = [up EXCEPT ![u].f = IF up[u].sock THEN 0 ELSE @,
                        ![u].sent = 0, ![u].retries = 0,
                        ![u].step = IF up[u].sock THEN "peek" ELSE "v2"]
    /\ UNCHANGED <<published, queue, connected_mask, opened, link, out, raced>>

\* pool_release
Release(u) ==
    /\ At(u, "release")
    /\ up' = [up EXCEPT ![u].f = 0, ![u].sent = 0, ![u].retries = 0,
                        ![u].step = IF up[u].sock THEN "peek" ELSE "v2"]
    /\ UNCHANGED <<published, queue, connected_mask, opened, link, out, raced>>

\* Mutation: only an error ends the connection, not its end.
PeekResetOnly(u) ==
    /\ At(u, "peek")
    /\ IF link[u].peer = "reset" THEN Close(u)
       ELSE /\ GoTo(u, "receive")
            /\ UNCHANGED <<published, queue, connected_mask, opened, link, out, raced>>

\* recv with MSG_PEEK: bytes that nobody reads hide the end behind them.
Peek(u) ==
    /\ At(u, "peek")
    /\ IF link[u].peer = "reset" \/ (link[u].peer = "fin" /\ ~link[u].unread)
       THEN Close(u)
       ELSE /\ GoTo(u, "receive")
            /\ UNCHANGED <<published, queue, connected_mask, opened, link, out, raced>>

UplinkTask(u) ==
    \/ Open(u) \/ OpenFails(u) \/ Accepted(u) \/ NotAccepted(u) \/ Wait(u)
    \/ LoadMask(u) \/ StoreMask(u)
    \/ Take(u) \/ TakeNothing(u) \/ SendPart(u) \/ SendAgain(u) \/ SendFails(u)
    \/ Release(u) \/ Peek(u)

-----------------------------------------------------------------------------
(* External: the remote casters.                                           *)

\* To end the connection is a refusal as well.
PeerAnswers(u) ==
    /\ up[u].step \in {"v2 reply", "v1 reply"}
    /\ link[u].answer = "none"
    /\ \E a \in {"success", "refusal"} : link' = [link EXCEPT ![u].answer = a]
    /\ UNCHANGED <<published, queue, connected_mask, up, opened, out, raced>>

\* The rest of an answer, or data after it.
PeerSends(u) ==
    /\ up[u].sock
    /\ link[u].peer = "open"
    /\ ~link[u].unread
    /\ link' = [link EXCEPT ![u].unread = TRUE]
    /\ UNCHANGED <<published, queue, connected_mask, up, opened, out, raced>>

PeerEnds(u) ==
    /\ up[u].sock
    /\ \/ link[u].peer = "open" /\ link' = [link EXCEPT ![u].peer = "fin"]
       \/ link[u].peer \in {"open", "fin"} /\ link' = [link EXCEPT ![u].peer = "reset"]
    /\ UNCHANGED <<published, queue, connected_mask, up, opened, out, raced>>

-----------------------------------------------------------------------------

UplinkNext ==
    \/ Publish
    \/ \E u \in Uplinks : \/ UplinkTask(u)
                          \/ PeerAnswers(u) \/ PeerSends(u) \/ PeerEnds(u)

UplinkSpec == UplinkInit /\ [][UplinkNext]_uplinkVars

\* A task that can go on does: its sends do not block and it gives up after
\* RetryLimit attempts.  Nothing is assumed of the casters, nor that a reader
\* publishes.
UplinkFairness == \A u \in Uplinks : WF_uplinkVars(UplinkTask(u))

-----------------------------------------------------------------------------
(* Properties.                                                             *)

\* What a caster gets is a sequence of whole frames, each newer than the last:
\* a frame that was begun is continued on the same connection or given up for
\* good, and no connection begins inside a frame.
UplinkStream ==
    [][\A u \in Uplinks : out'[u] # out[u] /\ out'[u].part # 0 =>
         \/ out'[u] = [out[u] EXCEPT !.part = @ + 1] /\ out[u].part > 0
         \/ /\ out'[u].part = 1
            /\ out'[u].f > out[u].f
            /\ out[u].part \in {0, Parts}]_uplinkVars

\* The status shown for an uplink is wrong only if its last change of the mask
\* overlapped that of another uplink: damage does not spread to later changes.
MaskExactWithoutRace ==
    \A u \in Uplinks \ raced :
        up[u].step \notin {"set", "set store", "clear", "clear store"}
            => (u \in connected_mask <=> up[u].sock)

\* An uplink notices the end of its connection although no frame has to be
\* sent, as long as its peer left nothing unread.
ClosedPeerNoticed ==
    \A u \in Uplinks :
        (up[u].sock /\ link[u].peer # "open" /\ ~link[u].unread) ~> ~up[u].sock

\* A frame in hand is given back whatever its peer does; the pool of RtcmFanout
\* depends on it.
UplinkLetsGo == \A u \in Uplinks : (up[u].f # 0) ~> (up[u].f = 0)
=============================================================================
