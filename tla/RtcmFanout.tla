----------------------------- MODULE RtcmFanout -----------------------------
(***************************************************************************)
(* The path of a validated RTCM3 frame from the GNSS reader task to the    *)
(* NTRIP destinations: the reference-counted slot pool (frame_pool.c), the *)
(* publication by the reader on core 1 (publish_rtcm_frame in gnss_uart.c  *)
(* with the publish loops of ntrip_client.c and ntrip_caster.c), and the   *)
(* queue side of the destination tasks on core 0.  Nothing here takes a    *)
(* lock; what keeps a slot from being reused too early is the count.       *)
(*                                                                         *)
(* Destinations are numbered in publication order: the uplinks come first, *)
(* the local caster is the last one.  One action is one access to state    *)
(* that another task reads or writes.                                      *)
(***************************************************************************)
EXTENDS Integers, Sequences, FiniteSets, Functions

CONSTANTS N,          \* number of destinations (3: two uplinks, one caster)
          PoolSize,   \* FRAME_POOL_SIZE (56)
          Depth,      \* FRAME_QUEUE_DEPTH (16)
          Frames,     \* contents of frames
          NoFrame     \* the content of a slot never written

ASSUME SizesAssumption == /\ N \in Nat \ {0}
                          /\ PoolSize \in Nat \ {0}
                          /\ Depth \in Nat \ {0}
ASSUME NoFrameAssumption == NoFrame \notin Frames

Dest   == 1..N
Caster == N
Slots  == 1..PoolSize
NULL   == 0           \* no slot; a pool_frame_t pointer is an index of s_pool

VARIABLES
    ref_count,   \* ref_count[s]: the atomic counter of slot s
    data,        \* data[s]: the contents of slot s (data and len)
    open,        \* open[d]: the queue handle of d is not NULL
    queue,       \* queue[d]: the slot pointers in the FreeRTOS queue of d
    running,     \* running[d]: the task that reads queue d is in its loop
    held,        \* held[d]: the slot d has received and not yet released
    pc,          \* where the GNSS reader is in publish_rtcm_frame
    frame,       \* its argument: the frame being published
    refs,        \* its local refs
    i,           \* loop index of the count, scan or publish loop it is in
    f,           \* its local f, the slot
    boot,        \* the destination app_main initialises next; N+1: all done
    deleted      \* the caster's queue is freed, its handle not yet NULL

reader  == <<pc, frame, refs, i, f>>
service == <<open, running, boot, deleted>>
vars    == <<ref_count, data, queue, held, reader, service>>

ReaderTypeOK ==
    /\ pc \in {"idle", "count", "scan", "copy", "set_refs", "send", "drop"}
    /\ frame \in Frames \cup {NoFrame}
    /\ pc # "idle" => frame \in Frames
    /\ refs \in 0..N
    /\ i \in Nat \ {0}
    /\ pc = "idle" => i = 1 /\ refs = 0
    /\ pc = "count" => i <= N + 1 /\ refs < i
    /\ pc = "scan" => i <= PoolSize
    /\ pc \in {"send", "drop"} => i <= N
    /\ f \in Slots \cup {NULL}
    /\ pc \in {"copy", "set_refs", "send", "drop"} => f \in Slots

\* The types of all variables; in particular, every loop of the reader stays
\* within the array it walks through.
TypeOK == /\ ref_count \in [Slots -> Int]
          /\ data \in [Slots -> Frames \cup {NoFrame}]
          /\ open \in [Dest -> BOOLEAN]
          /\ queue \in [Dest -> Seq(Slots)]
          /\ running \in [Dest -> BOOLEAN]
          /\ held \in [Dest -> Slots \cup {NULL}]
          /\ boot \in 1..(N + 1)
          /\ deleted \in BOOLEAN
          /\ ReaderTypeOK

-----------------------------------------------------------------------------
(* Initial states.                                                         *)

\* pool_init has run; no frame has been published.
PoolInit == /\ ref_count = [s \in Slots |-> 0]
            /\ data = [s \in Slots |-> NoFrame]
            /\ queue = [d \in Dest |-> <<>>]
            /\ held = [d \in Dest |-> NULL]
            /\ pc = "idle"
            /\ frame = NoFrame
            /\ refs = 0
            /\ i = 1
            /\ f = NULL
            /\ deleted = FALSE

\* app_main has finished before the first frame: every service is enabled or
\* not, and the task behind an open queue runs, or gave up in its start-up.
Init == /\ PoolInit
        /\ open \in [Dest -> BOOLEAN]
        /\ running \in [Dest -> BOOLEAN]
        /\ \A d \in Dest : running[d] => open[d]
        /\ boot = N + 1

\* gnss_uart_init has started the reader and app_main goes on with
\* ntrip_client_init and ntrip_caster_init.
BootInit == /\ PoolInit
            /\ open = [d \in Dest |-> FALSE]
            /\ running = [d \in Dest |-> FALSE]
            /\ boot = 1

-----------------------------------------------------------------------------
(* The GNSS reader: publish_rtcm_frame.                                    *)

ReaderDone == /\ pc' = "idle"
              /\ frame' = NoFrame
              /\ refs' = 0
              /\ i' = 1
              /\ f' = NULL

\* The splitter hands over a validated frame.
PublishFrame(fr) ==
    /\ pc = "idle"
    /\ pc' = "count"
    /\ frame' = fr
    /\ UNCHANGED <<ref_count, data, queue, held, refs, i, f, service>>

\* Mutation: every service is counted, configured or not.
CountAll ==
    /\ pc = "count"
    /\ i <= N
    /\ refs' = refs + 1
    /\ i' = i + 1
    /\ UNCHANGED <<ref_count, data, queue, held, pc, frame, f, service>>

\* ntrip_client_active_count and ntrip_caster_active_count look at one
\* queue handle after the other.
CountActive ==
    /\ pc = "count"
    /\ i <= N
    /\ refs' = IF open[i] THEN refs + 1 ELSE refs
    /\ i' = i + 1
    /\ UNCHANGED <<ref_count, data, queue, held, pc, frame, f, service>>

\* No active consumer: the frame is discarded silently.
NoConsumers ==
    /\ pc = "count"
    /\ i = N + 1
    /\ refs = 0
    /\ ReaderDone
    /\ UNCHANGED <<ref_count, data, queue, held, service>>

StartAlloc ==
    /\ pc = "count"
    /\ i = N + 1
    /\ refs # 0
    /\ pc' = "scan"
    /\ i' = 1
    /\ UNCHANGED <<ref_count, data, queue, held, frame, refs, f, service>>

\* Mutation: a slot with a single reference left passes for free.
AllocLastReference ==
    /\ pc = "scan"
    /\ ref_count[i] <= 1
    /\ ref_count' = [ref_count EXCEPT ![i] = 1]
    /\ f' = i
    /\ pc' = "copy"
    /\ UNCHANGED <<data, queue, held, frame, refs, i, service>>

\* pool_alloc finds slot i free.  Only the reader turns a zero into something
\* else, so the load and the store are one step.
AllocSlot ==
    /\ pc = "scan"
    /\ ref_count[i] = 0
    /\ ref_count' = [ref_count EXCEPT ![i] = 1]
    /\ f' = i
    /\ pc' = "copy"
    /\ UNCHANGED <<data, queue, held, frame, refs, i, service>>

\* Mutation: the scan does not stop at the end of the pool.
ScanPastEnd ==
    /\ pc = "scan"
    /\ ref_count[i] # 0
    /\ i' = i + 1
    /\ UNCHANGED <<ref_count, data, queue, held, pc, frame, refs, f, service>>

\* pool_alloc finds slot i in use and looks at the next one.
ScanNext ==
    /\ pc = "scan"
    /\ ref_count[i] # 0
    /\ i < PoolSize
    /\ i' = i + 1
    /\ UNCHANGED <<ref_count, data, queue, held, pc, frame, refs, f, service>>

\* pool_alloc returns NULL: "Pool exhausted!", the frame is lost for all.
PoolExhausted ==
    /\ pc = "scan"
    /\ ref_count[i] # 0
    /\ i = PoolSize
    /\ ReaderDone
    /\ UNCHANGED <<ref_count, data, queue, held, service>>

CopyFrame ==
    /\ pc = "copy"
    /\ data' = [data EXCEPT ![f] = frame]
    /\ pc' = "set_refs"
    /\ UNCHANGED <<ref_count, queue, held, frame, refs, i, f, service>>

\* Mutation: the tentative count is never replaced by refs.
SetRefsForgotten ==
    /\ pc = "set_refs"
    /\ pc' = "send"
    /\ i' = 1
    /\ UNCHANGED <<ref_count, data, queue, held, frame, refs, f, service>>

SetRefs ==
    /\ pc = "set_refs"
    /\ ref_count' = [ref_count EXCEPT ![f] = refs]
    /\ pc' = "send"
    /\ i' = 1
    /\ UNCHANGED <<data, queue, held, frame, refs, f, service>>

\* The publish loops of the clients and of the caster go on to the next handle.
NextDest == IF i = N THEN ReaderDone
            ELSE /\ pc' = "send"
                 /\ i' = i + 1
                 /\ UNCHANGED <<frame, refs, f>>

\* The handle of d still points to a queue that vQueueDelete has freed.
Gone(d) == d = Caster /\ deleted

\* The handle of destination i is NULL.
SkipDest ==
    /\ pc = "send"
    /\ ~open[i]
    /\ NextDest
    /\ UNCHANGED <<ref_count, data, queue, held, service>>

\* xQueueSend with a zero timeout succeeds.
SendFrame ==
    /\ pc = "send"
    /\ open[i]
    /\ ~Gone(i)
    /\ Len(queue[i]) < Depth
    /\ queue' = [queue EXCEPT ![i] = Append(@, f)]
    /\ NextDest
    /\ UNCHANGED <<ref_count, data, held, service>>

\* xQueueSend on a freed queue: the pointer ends up nowhere.  That it may also
\* report a full queue is in QueueFull.
SendLost ==
    /\ pc = "send"
    /\ open[i]
    /\ Gone(i)
    /\ NextDest
    /\ UNCHANGED <<ref_count, data, queue, held, service>>

\* Mutation: xQueueSend waits for room (portMAX_DELAY instead of 0).
QueueFullWaits ==
    /\ pc = "send"
    /\ open[i]
    /\ Len(queue[i]) = Depth
    /\ UNCHANGED vars

\* xQueueSend finds the queue full ...
QueueFull ==
    /\ pc = "send"
    /\ open[i]
    /\ Gone(i) \/ Len(queue[i]) = Depth
    /\ pc' = "drop"
    /\ UNCHANGED <<ref_count, data, queue, held, frame, refs, i, f, service>>

\* Mutation: the reference of a refused queue is not given back.
DropLeaks ==
    /\ pc = "drop"
    /\ NextDest
    /\ UNCHANGED <<ref_count, data, queue, held, service>>

\* Mutation: it is given back twice.
DropTwice ==
    /\ pc = "drop"
    /\ ref_count' = [ref_count EXCEPT ![f] = @ - 2]
    /\ NextDest
    /\ UNCHANGED <<data, queue, held, service>>

\* ... and the reader releases the reference meant for that queue.
DropFrame ==
    /\ pc = "drop"
    /\ ref_count' = [ref_count EXCEPT ![f] = @ - 1]
    /\ NextDest
    /\ UNCHANGED <<data, queue, held, service>>

ReaderStep == \/ CountActive \/ NoConsumers \/ StartAlloc
              \/ AllocSlot \/ ScanNext \/ PoolExhausted
              \/ CopyFrame \/ SetRefs
              \/ SkipDest \/ SendFrame \/ SendLost \/ QueueFull \/ DropFrame

-----------------------------------------------------------------------------
(* A destination task: task_ntrip_uplink while it is connected, or         *)
(* task_ntrip_server.  From the receive to the release it reads the slot   *)
(* (send(sock, f->data ...), send_frame_to_rover).                         *)

Receive(d) ==
    /\ running[d]
    /\ held[d] = NULL
    /\ queue[d] # <<>>
    /\ held' = [held EXCEPT ![d] = Head(queue[d])]
    /\ queue' = [queue EXCEPT ![d] = Tail(@)]
    /\ UNCHANGED <<ref_count, data, reader, service>>

\* Mutation: a slot is released only when the next one has arrived.
ReleaseLate(d) ==
    /\ held[d] # NULL
    /\ queue[d] # <<>>
    /\ ref_count' = [ref_count EXCEPT ![held[d]] = @ - 1]
    /\ held' = [held EXCEPT ![d] = NULL]
    /\ UNCHANGED <<data, queue, reader, service>>

Release(d) ==
    /\ held[d] # NULL
    /\ ref_count' = [ref_count EXCEPT ![held[d]] = @ - 1]
    /\ held' = [held EXCEPT ![d] = NULL]
    /\ UNCHANGED <<data, queue, reader, service>>

-----------------------------------------------------------------------------
(* app_main, core 0: the services appear one after the other.              *)

\* Disabled, configuration not readable, or xQueueCreate failed.
BootSkip ==
    /\ boot <= N
    /\ ~open[boot]
    /\ boot' = boot + 1
    /\ UNCHANGED <<ref_count, data, open, queue, running, held, reader, deleted>>

\* xQueueCreate succeeds and the handle is stored: the reader can see it.
BootOpen ==
    /\ boot <= N
    /\ ~open[boot]
    /\ open' = [open EXCEPT ![boot] = TRUE]
    /\ UNCHANGED <<ref_count, data, queue, running, held, reader, boot, deleted>>

\* The task is created and reaches its loop; or it is created and leaves
\* early (caster: no mutex, socket, bind, listen); or, for an uplink,
\* xTaskCreatePinnedToCore fails and nobody looks.
BootStart(ok) ==
    /\ boot <= N
    /\ open[boot]
    /\ ~deleted
    /\ running' = [running EXCEPT ![boot] = ok]
    /\ boot' = boot + 1
    /\ UNCHANGED <<ref_count, data, open, queue, held, reader, deleted>>

\* The caster's task cannot be created: vQueueDelete frees the queue with
\* whatever the reader has already put into it ...
BootDeleteCaster ==
    /\ boot = Caster
    /\ open[Caster]
    /\ ~deleted
    /\ deleted' = TRUE
    /\ queue' = [queue EXCEPT ![Caster] = <<>>]
    /\ UNCHANGED <<ref_count, data, open, running, held, reader, boot>>

\* ... and only then does the handle become NULL.
BootCloseCaster ==
    /\ deleted
    /\ deleted' = FALSE
    /\ open' = [open EXCEPT ![Caster] = FALSE]
    /\ boot' = N + 1
    /\ UNCHANGED <<ref_count, data, queue, running, held, reader>>

BootStep == \/ BootSkip \/ BootOpen \/ (\E ok \in BOOLEAN : BootStart(ok))
            \/ BootDeleteCaster \/ BootCloseCaster

-----------------------------------------------------------------------------

Next == \/ \E fr \in Frames : PublishFrame(fr)
        \/ ReaderStep
        \/ \E d \in Dest : Receive(d) \/ Release(d)
        \/ BootStep

\* Frames are published only after app_main has started every service.
Spec == Init /\ [][Next]_vars

\* The order of main.c: the reader runs while the services are started.
BootSpec == BootInit /\ [][Next]_vars

\* The reader runs alone at the highest priority of core 1.  The caster's loop
\* polls its queue without blocking.  A destination that has received a slot
\* bounds its sending by retries.  Receive gets no fairness for an uplink: it
\* may stay disconnected for ever.
Fairness == /\ WF_vars(ReaderStep)
            /\ WF_vars(Receive(Caster))
            /\ \A d \in Dest : WF_vars(Release(d))

FairSpec == Spec /\ Fairness

-----------------------------------------------------------------------------
(* Properties.                                                             *)

\* d can still reach slot s: the pointer waits in its queue or is in its hand.
InQueue(q, s) == \E k \in 1..Len(q) : q[k] = s
Refers(d, s) == held[d] = s \/ InQueue(queue[d], s)
Holders(s) == {d \in Dest : Refers(d, s)}

\* The references the reader has counted for slot s and not yet passed on.
Pending(s) == {d \in Dest : pc \in {"send", "drop"} /\ s = f /\ d >= i /\ open[d]}

\* The count of a slot is the number of destinations that still need it; a slot
\* being filled counts one (pool_alloc's tentative mark).  This is what
\* "ref_count is set to exactly the number of queues that will receive the
\* frame" (gnss_uart.c) has to mean at every instant, drops and releases on
\* two cores included.
RefCountExact ==
    \A s \in Slots :
        ref_count[s] = IF pc \in {"copy", "set_refs"} /\ s = f THEN 1
                       ELSE Cardinality(Holders(s) \cup Pending(s))

\* While the reader writes a slot, no destination can read it: the memcpy of
\* publish_rtcm_frame never races with a send of an older frame.
NoOverwriteInUse == pc \in {"copy", "set_refs"} => Holders(f) = {}

\* pool_release's "Should never happen; indicates a double-release bug": a
\* destination gives a reference back only while the count is positive.
NoDoubleRelease == \A d \in Dest : held[d] # NULL => ref_count[held[d]] > 0

\* pool_alloc never fails, however slow the destinations are and whatever they
\* release during the scan (the sizing comment of frame_pool.h).
PoolNeverExhausted == ~(pc = "scan" /\ i = PoolSize /\ ref_count[i] # 0)

\* By value, this is FrameDelivery: at pc = "drop" the destination has already
\* been refused, so it is no longer offered the frame.
Offered == {d \in Dest : /\ open[d]
                        /\ \/ pc = "send" /\ d >= i
                           \/ pc = "drop" /\ d > i}
Delivery == INSTANCE FrameDelivery
    WITH Dest   <- Dest,
         subs   <- {d \in Dest : open[d]},
         offer  <- IF Offered = {} THEN NoFrame ELSE frame,
         todo   <- Offered,
         fifo   <- [d \in Dest |-> [k \in 1..Len(queue[d]) |-> data[queue[d][k]]]],
         inhand <- [d \in Dest |-> IF held[d] = NULL THEN NoFrame ELSE data[held[d]]]

\* Every destination gets, in order and unaltered, all frames but those that
\* found its queue full, although all of them share the slots and the slots
\* are reused.
DeliversByValue == Delivery!Spec

\* The GNSS reader comes back from publish_rtcm_frame whatever the destinations
\* do: a stalled uplink never stalls the reader.
ReaderNeverBlocked == (pc # "idle") ~> (pc = "idle")

\* A running caster lets go of every slot it is given, so its share of the pool
\* comes back even when an uplink stays disconnected for ever.
CasterLetsGo == \A s \in Slots :
    (running[Caster] /\ Refers(Caster, s)) ~> ~Refers(Caster, s)

\* While the services are started under a running reader the counts may be
\* wrong, but not ever more so: between two frames the pointers in circulation
\* exceed the counts by less than the number of services.
BootDamageBounded ==
    pc = "idle" =>
        SumFunction([d \in Dest |-> Len(queue[d]) + IF held[d] = NULL THEN 0 ELSE 1])
          < SumFunction(ref_count) + N
=============================================================================
