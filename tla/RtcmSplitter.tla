---------------------------- MODULE RtcmSplitter ----------------------------
(***************************************************************************)
(* The GNSS reader from the UART driver to the published frames            *)
(* (gnss_uart.c): driver events, reading in chunks, and the splitter that  *)
(* finds RTCM3 frames in the byte stream, replays the bytes of a false     *)
(* start, and starts over after an overflow.                               *)
(*                                                                         *)
(* A byte carries its number in the stream of the receiver, so a frame     *)
(* says which bytes it is made of.  The driver does not look at values: in *)
(* the model a byte gets its value when it is read.  Lengths and checksum  *)
(* are CONSTANTS, because the control does not depend on them.             *)
(* Publication is RtcmFanout, the copy of a chunk for the TCP bridge is    *)
(* TcpBridge, the console another part; line errors, which are only        *)
(* logged, and counters are left out.                                      *)
(***************************************************************************)
EXTENDS Integers, Sequences, Functions

CONSTANTS Bytes,            \* what a byte can be
          Preamble,         \* 0xD3
          HeaderLen,        \* bytes up to the payload (3)
          TrailerLen,       \* bytes of the checksum (3)
          MaxPayload,       \* 1023
          PayloadLen(_),    \* the length field of a header
          CrcOk(_),         \* the checksum at the end of a frame is right
          RingSize,         \* UART_RX_BUF_SIZE
          EventDepth,       \* UART_EVENT_QUEUE_DEPTH (20)
          ReadChunk,        \* UART_READ_CHUNK (128)
          MaxBurst,         \* bound: bytes the driver gets at once
          MaxLine           \* bound: bytes the receiver sends

MaxFrame == HeaderLen + MaxPayload + TrailerLen   \* MAX_RTCM_FRAME

ASSUME SizesAssumption ==
    /\ Preamble \in Bytes
    /\ HeaderLen \in Nat /\ HeaderLen >= 2
    /\ TrailerLen \in Nat \ {0}
    /\ MaxPayload \in Nat \ {0}
    /\ {RingSize, EventDepth, ReadChunk, MaxBurst, MaxLine} \subseteq Nat \ {0}

VARIABLES
    sent,          \* external: how many bytes the receiver has sent
    ring, stash,   \* external: ring buffer of the driver, bytes that did not fit
    events,        \* external: event queue of the driver
    pc,            \* where the reader is in its loop
    remaining,     \* bytes of the current event still to be read
    data,          \* the chunk being split
    src,           \* "data" or "replay": what splitter_process_bytes reads
    replay_buf,    \* bytes of a false start that are looked at again
    i, resume_i,   \* indices into src, into data after a replay
    state, buf,    \* the splitter, buf up to buf_pos
    rtcm_total_len,
    published,     \* history: frames published since the splitter was reset
    fed,           \* history: bytes read since then
    missed         \* history: a loss since the flush for which no event is left

driver   == <<sent, ring, stash, events>>
process  == <<data, src, replay_buf, resume_i>>
splitter == <<state, buf, rtcm_total_len>>
vars     == <<driver, pc, remaining, process, i, splitter,
              published, fed, missed>>

Positions == 1..MaxLine
Byte      == [at : Positions, val : Bytes]
Event     == [type : {"UART_DATA", "UART_FIFO_OVF", "UART_BUFFER_FULL"},
              size : 0..MaxBurst]
Values(s) == [k \in DOMAIN s |-> s[k].val]

TypeOK ==
    /\ sent \in 0..MaxLine
    /\ ring \in Seq(Positions)
    /\ stash \in Seq(Positions)
    /\ events \in Seq(Event)
    /\ pc \in {"flush", "reset", "wait", "read", "push"}
    /\ remaining \in 0..MaxBurst
    /\ data \in Seq(Byte)
    /\ src \in {"data", "replay"}
    /\ replay_buf \in Seq(Byte)
    /\ i \in Nat
    /\ resume_i \in Nat
    /\ state \in {"HUNT", "RTCM_HDR", "RTCM_BODY"}
    /\ buf \in Seq(Byte)
    /\ rtcm_total_len \in 0..MaxFrame
    /\ published \in Seq(Seq(Byte))
    /\ fed \in Seq(Byte)
    /\ missed \in BOOLEAN

\* The driver has just been installed; the reader is about to flush it.
Init ==
    /\ sent = 0 /\ ring = <<>> /\ stash = <<>> /\ events = <<>>
    /\ pc = "flush"
    /\ remaining = 0
    /\ data = <<>> /\ src = "data" /\ replay_buf = <<>>
    /\ i = 0 /\ resume_i = 0
    /\ state = "HUNT" /\ buf = <<>> /\ rtcm_total_len = 0
    /\ published = <<>> /\ fed = <<>> /\ missed = FALSE

-----------------------------------------------------------------------------
(* External: the UART driver.  An event that finds the queue full is lost, *)
(* while its bytes stay in the ring.                                       *)

reader == <<pc, remaining, process, i, splitter, published, fed>>

Post(type, size) ==
    events' = IF Len(events) < EventDepth
              THEN Append(events, [type |-> type, size |-> size]) ELSE events

\* The interrupt handler takes a burst; what does not fit stops reception.
ReceiveBurst(n) ==
    LET new == [k \in 1..n |-> sent + k] IN
    /\ stash = <<>>
    /\ sent + n <= MaxLine
    /\ sent' = sent + n
    /\ IF Len(ring) + n <= RingSize
       THEN ring' = ring \o new /\ stash' = <<>> /\ Post("UART_DATA", n)
       ELSE ring' = ring /\ stash' = new /\ Post("UART_BUFFER_FULL", 0)
    /\ UNCHANGED <<reader, missed>>

\* The hardware FIFO overflows and a byte is gone.  Nobody will see this event
\* when the queue is full, or is about to be reset.
FifoOverflow ==
    /\ sent < MaxLine
    /\ sent' = sent + 1
    /\ Post("UART_FIFO_OVF", 0)
    /\ missed' = (missed \/ Len(events) = EventDepth \/ pc = "reset")
    /\ UNCHANGED <<ring, stash, reader>>

-----------------------------------------------------------------------------
(* The reader's loop (task_gnss_reader).                                   *)

\* The total length, dead until the next header, is 0 meanwhile.
splitter_init == state' = "HUNT" /\ buf' = <<>> /\ rtcm_total_len' = 0

\* uart_flush_input, which also drops the stash and resumes reception ...
FlushInput ==
    /\ pc = "flush"
    /\ pc' = "reset"
    /\ ring' = <<>> /\ stash' = <<>>
    /\ missed' = FALSE
    /\ UNCHANGED <<sent, events, remaining, process, i, splitter,
                   published, fed>>

\* A reset that leaves the events of the flushed bytes in the queue.
ResetQueueKeepsEvents ==
    /\ pc = "reset"
    /\ pc' = "wait"
    /\ splitter_init
    /\ published' = <<>> /\ fed' = <<>>
    /\ UNCHANGED <<driver, remaining, process, i, missed>>

\* ... and then xQueueReset and splitter_init, at start-up and in a reset.
ResetQueue ==
    /\ pc = "reset"
    /\ pc' = "wait"
    /\ events' = <<>>
    /\ splitter_init
    /\ published' = <<>> /\ fed' = <<>>
    /\ UNCHANGED <<sent, ring, stash, remaining, process, i, missed>>

\* A reader that handles a full buffer but only logs an overflow.
TakeEventLogsOverflow ==
    /\ pc = "wait"
    /\ events # <<>>
    /\ events' = Tail(events)
    /\ pc' = CASE Head(events).type = "UART_DATA" -> "read"
               [] Head(events).type = "UART_FIFO_OVF" -> "wait"
               [] OTHER -> "flush"
    /\ remaining' = Head(events).size
    /\ UNCHANGED <<sent, ring, stash, process, i, splitter,
                   published, fed, missed>>

TakeEvent ==
    /\ pc = "wait"
    /\ events # <<>>
    /\ events' = Tail(events)
    /\ pc' = IF Head(events).type = "UART_DATA" THEN "read" ELSE "flush"
    /\ remaining' = Head(events).size
    /\ UNCHANGED <<sent, ring, stash, process, i, splitter,
                   published, fed, missed>>

\* uart_read_bytes; there may be room for the stash now.  It never finds
\* less than was announced (ReadNeverWaits).
ReadChunkOf(n, val) ==
    /\ pc = "read" /\ remaining > 0
    /\ n = (IF remaining < ReadChunk THEN remaining ELSE ReadChunk)
    /\ n <= Len(ring)
    /\ LET rest == SubSeq(ring, n + 1, Len(ring))
           fits == Len(rest) + Len(stash) <= RingSize
       IN /\ ring'  = IF fits THEN rest \o stash ELSE rest
          /\ stash' = IF fits THEN <<>> ELSE stash
    /\ data' = [k \in 1..n |-> [at |-> ring[k], val |-> val[k]]]
    /\ fed' = fed \o data'
    /\ pc' = "push"
    /\ UNCHANGED <<sent, events, remaining, src, replay_buf, i, resume_i,
                   splitter, published, missed>>

EventDone ==
    /\ pc = "read" /\ remaining = 0
    /\ pc' = "wait"
    /\ UNCHANGED <<driver, remaining, process, i, splitter, published, fed,
                   missed>>

-----------------------------------------------------------------------------
(* splitter_process_bytes and splitter_push_byte, one byte per step.  The  *)
(* overflow branch of the body state is dead code: see FitsBuffer.         *)

Src  == IF src = "data" THEN data ELSE replay_buf
With == Append(buf, Src[i + 1])      \* buf after the current byte

Pushing(s) == pc = "push" /\ i < Len(Src) /\ state = s
Untouched  == UNCHANGED <<driver, pc, remaining, fed, missed>>

\* splitter_push_byte has returned -1 and stays inside a frame.
Collect(s) ==
    /\ state' = s
    /\ buf' = With
    /\ i' = i + 1
    /\ UNCHANGED <<process, published>>

\* A replay that starts with the first byte again.
ReplayAll ==
    /\ splitter_init
    /\ replay_buf' = With
    /\ resume_i' = IF src = "data" THEN i + 1 ELSE resume_i
    /\ src' = "replay"
    /\ i' = 0
    /\ UNCHANGED <<data, published>>

\* splitter_push_byte has returned 1: look again at all bytes but the first.
Replay ==
    /\ splitter_init
    /\ replay_buf' = Tail(With)
    /\ resume_i' = IF src = "data" THEN i + 1 ELSE resume_i
    /\ src' = "replay"
    /\ i' = 0
    /\ UNCHANGED <<data, published>>

Hunt ==
    /\ Pushing("HUNT")
    /\ IF Src[i + 1].val = Preamble
       THEN state' = "RTCM_HDR" /\ buf' = <<Src[i + 1]>>
       ELSE UNCHANGED <<state, buf>>
    /\ i' = i + 1
    /\ UNCHANGED <<process, rtcm_total_len, published>>
    /\ Untouched

\* A total length that counts one byte too many.
HeaderOneTooMany ==
    LET len == PayloadLen(Values(With)) IN
    /\ Pushing("RTCM_HDR")
    /\ IF Len(With) < HeaderLen
       THEN Collect("RTCM_HDR") /\ UNCHANGED rtcm_total_len
       ELSE IF len \notin 1..MaxPayload
       THEN Replay
       ELSE Collect("RTCM_BODY")
            /\ rtcm_total_len' = HeaderLen + len + TrailerLen + 1
    /\ Untouched

Header ==
    LET len == PayloadLen(Values(With)) IN
    /\ Pushing("RTCM_HDR")
    /\ IF Len(With) < HeaderLen
       THEN Collect("RTCM_HDR") /\ UNCHANGED rtcm_total_len
       ELSE IF len \notin 1..MaxPayload
       THEN Replay
       ELSE Collect("RTCM_BODY")
            /\ rtcm_total_len' = HeaderLen + len + TrailerLen
    /\ Untouched

BodyByte ==
    /\ Pushing("RTCM_BODY")
    /\ Len(With) # rtcm_total_len
    /\ Collect("RTCM_BODY")
    /\ UNCHANGED rtcm_total_len
    /\ Untouched

\* publish_rtcm_frame, then splitter_init.
GoodFrame ==
    /\ Pushing("RTCM_BODY")
    /\ Len(With) = rtcm_total_len
    /\ CrcOk(Values(With))
    /\ published' = Append(published, With)
    /\ splitter_init
    /\ i' = i + 1
    /\ UNCHANGED process
    /\ Untouched

\* A failed checksum that drops the bytes instead of replaying them.
BadCrcDrops ==
    /\ Pushing("RTCM_BODY")
    /\ Len(With) = rtcm_total_len
    /\ ~CrcOk(Values(With))
    /\ splitter_init
    /\ i' = i + 1
    /\ UNCHANGED <<process, published>>
    /\ Untouched

BadCrc ==
    /\ Pushing("RTCM_BODY")
    /\ Len(With) = rtcm_total_len
    /\ ~CrcOk(Values(With))
    /\ Replay
    /\ Untouched

\* The index of the failed byte is saved, not the one after it.
EndOfReplayOneBack ==
    /\ pc = "push" /\ src = "replay" /\ i = Len(replay_buf)
    /\ src' = "data"
    /\ i' = resume_i - 1
    /\ UNCHANGED <<driver, pc, remaining, data, replay_buf, resume_i,
                   splitter, published, fed, missed>>

EndOfReplay ==
    /\ pc = "push" /\ src = "replay" /\ i = Len(replay_buf)
    /\ src' = "data"
    /\ i' = resume_i
    /\ UNCHANGED <<driver, pc, remaining, data, replay_buf, resume_i,
                   splitter, published, fed, missed>>

\* A whole chunk is subtracted for a shorter read.
ChunkDoneFullChunk ==
    /\ pc = "push" /\ src = "data" /\ i = Len(data)
    /\ pc' = "read"
    /\ remaining' = remaining - ReadChunk
    /\ data' = <<>> /\ replay_buf' = <<>>
    /\ i' = 0 /\ resume_i' = 0
    /\ UNCHANGED <<driver, src, splitter, published, fed, missed>>

\* The locals of splitter_process_bytes end; both buffers are written before
\* they are read again.
ChunkDone ==
    /\ pc = "push" /\ src = "data" /\ i = Len(data)
    /\ pc' = "read"
    /\ remaining' = remaining - Len(data)
    /\ data' = <<>> /\ replay_buf' = <<>>
    /\ i' = 0 /\ resume_i' = 0
    /\ UNCHANGED <<driver, src, splitter, published, fed, missed>>

-----------------------------------------------------------------------------
ReaderStep == \/ FlushInput \/ ResetQueue
              \/ TakeEvent \/ EventDone
              \/ \E n \in 1..ReadChunk : \E val \in [1..n -> Bytes] :
                     ReadChunkOf(n, val)
              \/ Hunt \/ Header \/ BodyByte \/ GoodFrame \/ BadCrc
              \/ EndOfReplay \/ ChunkDone

\* The splitter touches nothing of the driver, so that an interrupt while it
\* works has the same effect as one right after it.
DriverStep == /\ pc # "push"
              /\ (\E n \in 1..MaxBurst : ReceiveBurst(n)) \/ FifoOverflow

Next == ReaderStep \/ DriverStep

Spec == Init /\ [][Next]_vars

\* The reader is a task of high priority and is not blocked while it splits.
FairSpec == Spec /\ WF_vars(ReaderStep)

-----------------------------------------------------------------------------
(* What the stream holds: a search that goes on behind a frame, and at the *)
(* byte after the start of anything that looked like one.                  *)

HeaderAt(w, p) == SubSeq(w, p, p + HeaderLen - 1)
LengthOk(w, p) == PayloadLen(HeaderAt(w, p)) \in 1..MaxPayload
LastOf(w, p)   == IF LengthOk(w, p)
                  THEN p + HeaderLen + PayloadLen(HeaderAt(w, p)) + TrailerLen - 1
                  ELSE p + HeaderLen - 1
Candidate(w, p) == w[p] = Preamble /\ p + HeaderLen - 1 <= Len(w)
                                   /\ LastOf(w, p) <= Len(w)
FrameAt(w, p)  == /\ Candidate(w, p) /\ LengthOk(w, p)
                  /\ CrcOk(SubSeq(w, p, LastOf(w, p)))

\* The search waits at a start that is not complete.
GoesOn(w, p)    == p <= Len(w) /\ (w[p] = Preamble => Candidate(w, p))
NextStart(w, p) == IF FrameAt(w, p) THEN LastOf(w, p) + 1 ELSE p + 1

\* The starts in S that the search visits, in the order in which it does.
Search(w, S) ==
    LET from[p \in 1..(Len(w) + 1)] ==
            IF ~GoesOn(w, p) THEN <<>>
            ELSE (IF p \in S THEN <<p>> ELSE <<>>) \o from[NextStart(w, p)]
    IN from[1]

Visited(w)  == Search(w, 1..Len(w))
FramesIn(w) == Search(w, {p \in 1..Len(w) : FrameAt(w, p)})

\* A false start fails inside the bytes of an earlier one, before their end.
NestedFalseStarts(w) ==
    \E p, q \in Range(Visited(w)) :
        /\ p < q /\ q <= LastOf(w, p) /\ LastOf(w, q) < LastOf(w, p)
        /\ \A s \in {p, q} : Candidate(w, s) /\ ~FrameAt(w, s)

-----------------------------------------------------------------------------
(* Properties.                                                             *)

\* The body state never fills the buffer: its overflow branch is dead, as
\* the comment at gnss_uart.c:320 says.
FitsBuffer == state = "RTCM_BODY" => Len(buf) < MaxFrame

\* Between chunks, the frames published since the last reset are exactly
\* those in the bytes read since then, unless false starts are nested: the
\* inner replay overwrites the outer one, and the rest of it is not seen.
FoundSinceReset ==
    LET w == Values(fed) IN
    published = [k \in DOMAIN FramesIn(w) |->
                     SubSeq(fed, FramesIn(w)[k], LastOf(w, FramesIn(w)[k]))]

FramesFound ==
    pc \in {"wait", "read", "flush"} =>
        FoundSinceReset \/ NestedFalseStarts(Values(fed))

\* No byte is used twice or out of order, within a frame or across frames,
\* whatever is replayed, skipped or reset.
Increasing(s) == \A k, m \in 1..Len(s) : k < m => s[k].at < s[m].at
Before(s, t)  == \A k \in 1..Len(s) : \A m \in 1..Len(t) : s[k].at < t[m].at

BytesUsedOnce ==
    /\ \A f \in 1..Len(published) : Increasing(published[f])
    /\ \A f, g \in 1..Len(published) :
           f < g => Before(published[f], published[g])

\* The splitter never sees the bytes on both sides of a loss without a reset
\* between them, unless the event of the loss was itself lost.
LossResetsSplitter ==
    pc # "reset" /\ ~missed =>
        \A k \in 1..(Len(fed) - 1) : fed[k + 1].at = fed[k].at + 1

\* Data events never promise more bytes than the ring holds: the reader does
\* not spend the 10 ms timeout of uart_read_bytes, nor stop in mid-event.
ReadNeverWaits ==
    pc # "reset" =>
        SumFunction([k \in DOMAIN events |-> events[k].size])
            + (IF pc = "push" THEN remaining - Len(data) ELSE remaining)
        <= Len(ring)

\* The loop over replays ends: every chunk is dealt with.
ReplayTerminates == pc = "push" ~> pc # "push"
=============================================================================
