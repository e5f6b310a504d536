--------------------------- MODULE FrameDelivery ---------------------------
(***************************************************************************)
(* What the fan-out of RTCM3 frames promises its destinations, without     *)
(* slots, pointers or reference counts: an accepted frame is offered, by   *)
(* value, to every subscribed destination.  A destination either gets the  *)
(* frame at the end of its bounded FIFO or, only when that FIFO is full,   *)
(* misses it.  What is in a FIFO or in a destination's hand never changes. *)
(* RtcmFanout implements this specification with a shared slot pool.       *)
(***************************************************************************)
EXTENDS Naturals, Sequences

CONSTANTS Dest,      \* the destinations (uplink tasks and the caster task)
          Depth,     \* capacity of one FIFO
          Frames,    \* frame contents
          NoFrame    \* "nothing", not a frame

VARIABLES subs,      \* the subscribed destinations, settled before the first frame
          offer,     \* the frame being offered, or NoFrame
          todo,      \* the subscribed destinations not yet served with it
          fifo,      \* fifo[d]: the frames waiting for destination d
          inhand     \* inhand[d]: the frame d is processing, or NoFrame

vars == <<subs, offer, todo, fifo, inhand>>

Init == /\ subs \subseteq Dest
        /\ offer = NoFrame
        /\ todo = {}
        /\ fifo = [d \in Dest |-> <<>>]
        /\ inhand = [d \in Dest |-> NoFrame]

Accept(frame) ==
    /\ todo = {}
    /\ subs # {}
    /\ offer' = frame
    /\ todo' = subs
    /\ UNCHANGED <<subs, fifo, inhand>>

\* d has been served; the offer ends with the last destination.
Served(d) ==
    /\ todo' = todo \ {d}
    /\ offer' = IF todo' = {} THEN NoFrame ELSE offer

Deliver(d) ==
    /\ d \in todo
    /\ Len(fifo[d]) < Depth
    /\ fifo' = [fifo EXCEPT ![d] = Append(@, offer)]
    /\ Served(d)
    /\ UNCHANGED <<subs, inhand>>

Miss(d) ==
    /\ d \in todo
    /\ Len(fifo[d]) = Depth
    /\ Served(d)
    /\ UNCHANGED <<subs, fifo, inhand>>

Take(d) ==
    /\ inhand[d] = NoFrame
    /\ fifo[d] # <<>>
    /\ inhand' = [inhand EXCEPT ![d] = Head(fifo[d])]
    /\ fifo' = [fifo EXCEPT ![d] = Tail(@)]
    /\ UNCHANGED <<subs, offer, todo>>

Finish(d) ==
    /\ inhand[d] # NoFrame
    /\ inhand' = [inhand EXCEPT ![d] = NoFrame]
    /\ UNCHANGED <<subs, offer, todo, fifo>>

Next == \/ \E frame \in Frames : Accept(frame)
        \/ \E d \in Dest : Deliver(d) \/ Miss(d) \/ Take(d) \/ Finish(d)

Spec == Init /\ [][Next]_vars
=============================================================================
