------------------------- MODULE RtcmSplitterProofs -------------------------
(***************************************************************************)
(* Proofs about RtcmSplitter for every alphabet, length field, checksum,   *)
(* size of the driver's buffers and of the chunks.                         *)
(***************************************************************************)
EXTENDS RtcmSplitter, SumTheorems, SequenceTheorems, TLAPS

\* The steps of splitter_push_byte.
Splitting == Hunt \/ Header \/ BodyByte \/ GoodFrame \/ BadCrc

-----------------------------------------------------------------------------
(* Types.  An index never passes the end of what it indexes, and a chunk is *)
(* no longer than what remains of its event.                                *)

Reading ==
    /\ i <= Len(Src)
    /\ src = "replay" => resume_i <= Len(data)
    /\ pc = "push" => Len(data) <= remaining
    /\ pc # "push" => src = "data" /\ i = 0

\* What the splitter has collected: nothing while it hunts, less than a
\* header, or less than the frame announced by the header.
Collected ==
    /\ state = "HUNT" => buf = <<>>
    /\ state = "RTCM_HDR" => Len(buf) < HeaderLen
    /\ state = "RTCM_BODY" => Len(buf) < rtcm_total_len

IInv == TypeOK /\ Reading /\ Collected

\* The collected bytes and the next one are bytes.
LEMMA WithType ==
  ASSUME TypeOK, i < Len(Src)
  PROVE  /\ Src[i + 1] \in Byte
         /\ With \in Seq(Byte)
         /\ Len(With) = Len(buf) + 1
         /\ Tail(With) \in Seq(Byte)
         /\ Len(Tail(With)) = Len(buf)
<1>1. Src \in Seq(Byte) /\ buf \in Seq(Byte) /\ i \in Nat
  BY DEF TypeOK, Src
<1>2. Src[i + 1] \in Byte
  BY <1>1
<1>3. With \in Seq(Byte) /\ Len(With) = Len(buf) + 1
  BY <1>1, <1>2 DEF With
<1>4. With # <<>>
  BY <1>1, <1>3
<1>5. Tail(With) \in Seq(Byte) /\ Len(Tail(With)) = Len(buf)
  BY <1>1, <1>3, <1>4
<1> QED
  BY <1>2, <1>3, <1>5

LEMMA Sizes ==
  /\ RingSize \in Nat /\ EventDepth \in Nat /\ ReadChunk \in Nat
  /\ MaxBurst \in Nat /\ MaxLine \in Nat
  /\ HeaderLen \in Nat /\ HeaderLen >= 2
  /\ MaxFrame \in Nat /\ MaxFrame > HeaderLen
  BY SizesAssumption DEF MaxFrame

LEMMA EmptySeqs ==
  /\ <<>> \in Seq(Positions) /\ <<>> \in Seq(Byte) /\ <<>> \in Seq(Event)
  /\ <<>> \in Seq(Seq(Byte))
  /\ Len(<<>>) = 0
  OBVIOUS

LEMMA InitType == Init => IInv
<1> SUFFICES ASSUME Init PROVE IInv
  OBVIOUS
<1>1. TypeOK
  <2>1. /\ sent \in 0..MaxLine /\ remaining \in 0..MaxBurst
        /\ rtcm_total_len \in 0..MaxFrame
    BY Sizes DEF Init
  <2>2. /\ ring \in Seq(Positions) /\ stash \in Seq(Positions)
        /\ events \in Seq(Event)
    BY EmptySeqs DEF Init
  <2>3. /\ data \in Seq(Byte) /\ replay_buf \in Seq(Byte)
        /\ buf \in Seq(Byte) /\ fed \in Seq(Byte)
        /\ published \in Seq(Seq(Byte))
    BY EmptySeqs DEF Init
  <2> QED
    BY <2>1, <2>2, <2>3 DEF Init, TypeOK
<1>2. Reading /\ Collected
  BY EmptySeqs DEF Init, Reading, Collected, Src
<1> QED
  BY <1>1, <1>2 DEF IInv

LEMMA DriverType ==
  ASSUME IInv, DriverStep
  PROVE  IInv'
<1> USE Sizes
<1>1. CASE FifoOverflow
  <2>1. events' \in Seq(Event)
    <3>1. [type |-> "UART_FIFO_OVF", size |-> 0] \in Event
      BY DEF Event
    <3> QED
      BY <1>1, <3>1 DEF FifoOverflow, Post, IInv, TypeOK
  <2>2. sent' \in 0..MaxLine /\ missed' \in BOOLEAN
    BY <1>1 DEF FifoOverflow, IInv, TypeOK
  <2> QED
    BY <1>1, <2>1, <2>2 DEF FifoOverflow, reader, process, splitter, IInv,
       TypeOK, Reading, Collected, Src
<1>2. ASSUME NEW n \in 1..MaxBurst, ReceiveBurst(n)
      PROVE  IInv'
  <2> DEFINE new == [k \in 1..n |-> sent + k]
  <2>1. sent \in Nat /\ sent + n <= MaxLine /\ sent + n \in 0..MaxLine
    BY <1>2 DEF ReceiveBurst, IInv, TypeOK
  <2>2. new \in Seq(Positions)
    <3>1. n \in Nat /\ \A k \in 1..n : sent + k \in 1..MaxLine
      BY <2>1
    <3> QED
      BY <3>1 DEF Positions
  <2>3. ring' \in Seq(Positions) /\ stash' \in Seq(Positions)
    <3>1. ring \o new \in Seq(Positions)
      BY <2>2 DEF IInv, TypeOK
    <3> HIDE DEF new
    <3>2. \/ ring' = ring \o new /\ stash' = <<>>
          \/ ring' = ring /\ stash' = new
      BY <1>2 DEF ReceiveBurst, new
    <3> QED
      BY <2>2, <3>1, <3>2, EmptySeqs DEF IInv, TypeOK
  <2>4. events' \in Seq(Event)
    <3>1. /\ [type |-> "UART_DATA", size |-> n] \in Event
          /\ [type |-> "UART_BUFFER_FULL", size |-> 0] \in Event
      BY DEF Event
    <3>2. \/ events' = events
          \/ events' = Append(events, [type |-> "UART_DATA", size |-> n])
          \/ events' = Append(events, [type |-> "UART_BUFFER_FULL", size |-> 0])
      BY <1>2 DEF ReceiveBurst, Post
    <3>3. events \in Seq(Event)
      BY DEF IInv, TypeOK
    <3>4. ASSUME NEW x \in Event PROVE Append(events, x) \in Seq(Event)
      BY <3>3, AppendProperties
    <3> QED
      BY <3>1, <3>2, <3>3, <3>4
  <2> HIDE DEF new
  <2> QED
    BY <1>2, <2>1, <2>3, <2>4
       DEF ReceiveBurst, reader, process, splitter, IInv, TypeOK, Reading,
           Collected, Src
<1> QED
  BY <1>1, <1>2 DEF DriverStep

LEMMA LoopType ==
  ASSUME IInv,
         FlushInput \/ ResetQueue \/ TakeEvent \/ EventDone
           \/ EndOfReplay \/ ChunkDone
  PROVE  IInv'
<1> USE Sizes
<1>1. CASE FlushInput
  BY <1>1, EmptySeqs DEF FlushInput, process, splitter, IInv, TypeOK, Reading,
     Collected, Src
<1>2. CASE ResetQueue
  BY <1>2, EmptySeqs DEF ResetQueue, splitter_init, process, IInv, TypeOK,
     Reading, Collected, Src
<1>3. CASE TakeEvent
  <2>1. Head(events) \in Event /\ Tail(events) \in Seq(Event)
    BY <1>3 DEF TakeEvent, IInv, TypeOK
  <2> QED
    BY <1>3, <2>1 DEF TakeEvent, process, splitter, IInv, TypeOK, Reading,
       Collected, Src, Event
<1>4. CASE EventDone
  BY <1>4 DEF EventDone, driver, process, splitter, IInv, TypeOK, Reading,
     Collected, Src
<1>5. CASE EndOfReplay
  BY <1>5 DEF EndOfReplay, driver, splitter, IInv, TypeOK, Reading,
     Collected, Src
<1>6. CASE ChunkDone
  <2>1. remaining' \in 0..MaxBurst
    BY <1>6 DEF ChunkDone, IInv, TypeOK, Reading
  <2> QED
    BY <1>6, <2>1 DEF ChunkDone, driver, splitter, IInv, TypeOK, Reading,
       Collected, Src
<1> QED
  BY <1>1, <1>2, <1>3, <1>4, <1>5, <1>6

LEMMA ReadType ==
  ASSUME IInv,
         NEW n \in 1..ReadChunk, NEW val \in [1..n -> Bytes],
         ReadChunkOf(n, val)
  PROVE  IInv'
<1> USE Sizes
<1>1. /\ n <= Len(ring) /\ n <= remaining
      /\ ring \in Seq(Positions) /\ stash \in Seq(Positions)
  BY DEF ReadChunkOf, IInv, TypeOK
<1>2. data' \in Seq(Byte) /\ Len(data') = n
  <2>1. \A k \in 1..n : ring[k] \in Positions
    BY <1>1
  <2>2. \A k \in 1..n : [at |-> ring[k], val |-> val[k]] \in Byte
    BY <2>1 DEF Byte
  <2>3. data' = [k \in 1..n |-> [at |-> ring[k], val |-> val[k]]]
    BY DEF ReadChunkOf
  <2>4. data' \in [1..n -> Byte] /\ n \in Nat
    BY <2>2, <2>3
  <2> QED
    BY <2>4
<1>3. fed' \in Seq(Byte)
  BY <1>2 DEF ReadChunkOf, IInv, TypeOK
<1>4. SubSeq(ring, n + 1, Len(ring)) \in Seq(Positions)
  BY <1>1
<1>5. ring' \in Seq(Positions) /\ stash' \in Seq(Positions)
  <2> DEFINE rest == SubSeq(ring, n + 1, Len(ring))
  <2>1. rest \o stash \in Seq(Positions)
    BY <1>1, <1>4
  <2>2. \/ ring' = rest \o stash /\ stash' = <<>>
        \/ ring' = rest /\ stash' = stash
    BY DEF ReadChunkOf
  <2> HIDE DEF rest
  <2> QED
    BY <1>1, <1>4, <2>1, <2>2, EmptySeqs DEF rest
<1>6. i' <= Len(Src') /\ (src' = "replay" => resume_i' <= Len(data'))
  BY <1>2 DEF ReadChunkOf, IInv, Reading, TypeOK, Src
<1> QED
  BY <1>1, <1>2, <1>3, <1>5, <1>6
     DEF ReadChunkOf, splitter, IInv, TypeOK, Reading, Collected

\* One byte pushed: it is skipped, collected, completes a frame or replays.
LEMMA PushType ==
  ASSUME IInv, Splitting
  PROVE  IInv'
<1> USE Sizes
<1>1. i < Len(Src) /\ pc = "push"
  BY DEF Splitting, Hunt, Header, BodyByte, GoodFrame, BadCrc, Pushing
<1>2. /\ Src[i + 1] \in Byte
      /\ With \in Seq(Byte) /\ Len(With) = Len(buf) + 1
      /\ Tail(With) \in Seq(Byte) /\ Len(Tail(With)) = Len(buf)
  BY <1>1, WithType DEF IInv
<1>3. Len(data) \in Nat /\ Len(Src) \in Nat /\ i \in Nat /\ Len(buf) \in Nat
  BY DEF IInv, TypeOK, Src
<1>4. ASSUME Replay, Untouched
      PROVE  IInv'
  <2>1. TypeOK'
    <3>1. resume_i' \in Nat /\ i' \in Nat /\ rtcm_total_len' \in 0..MaxFrame
      BY <1>3, <1>4 DEF Replay, splitter_init, IInv, TypeOK
    <3>2. /\ replay_buf' \in Seq(Byte) /\ buf' \in Seq(Byte)
          /\ UNCHANGED <<driver, pc, remaining, data, published, fed, missed>>
          /\ state' = "HUNT" /\ src' = "replay"
      BY <1>2, <1>4, EmptySeqs DEF Replay, Untouched, splitter_init
    <3>3. /\ sent' \in 0..MaxLine /\ ring' \in Seq(Positions)
          /\ stash' \in Seq(Positions) /\ events' \in Seq(Event)
          /\ pc' \in {"flush", "reset", "wait", "read", "push"}
          /\ remaining' \in 0..MaxBurst /\ data' \in Seq(Byte)
          /\ published' \in Seq(Seq(Byte)) /\ fed' \in Seq(Byte)
          /\ missed' \in BOOLEAN
      BY <3>2 DEF driver, IInv, TypeOK
    <3> QED
      BY <3>1, <3>2, <3>3 DEF TypeOK
  <2>2. resume_i' <= Len(data')
    BY <1>1, <1>3, <1>4 DEF Replay, IInv, TypeOK, Reading, Src
  <2>3. i' <= Len(Src')
    <3>1. Src' = Tail(With) /\ i' = 0
      BY <1>4 DEF Replay, Src
    <3> QED
      BY <1>2, <1>3, <3>1
  <2>4. Reading'
    BY <1>1, <1>4, <2>2, <2>3 DEF Replay, Untouched, IInv, Reading
  <2>5. Collected'
    BY <1>4 DEF Replay, splitter_init, Collected
  <2> QED
    BY <2>1, <2>4, <2>5 DEF IInv
<1>5. ASSUME NEW s \in {"RTCM_HDR", "RTCM_BODY"}, Collect(s), Untouched,
             rtcm_total_len' \in 0..MaxFrame,
             s = "RTCM_HDR" => Len(With) < HeaderLen,
             s = "RTCM_BODY" => Len(With) < rtcm_total_len'
      PROVE  IInv'
  <2>1. TypeOK'
    BY <1>2, <1>3, <1>5
       DEF Collect, Untouched, driver, process, IInv, TypeOK
  <2> QED
    BY <1>1, <1>3, <1>5, <2>1
       DEF Collect, Untouched, process, IInv, Reading, Collected, Src
<1>6. CASE Hunt
  <2>1. <<Src[i + 1]>> \in Seq(Byte) /\ Len(<<Src[i + 1]>>) = 1
    BY <1>2
  <2>2. \/ state' = "RTCM_HDR" /\ buf' \in Seq(Byte) /\ Len(buf') = 1
        \/ state' = "HUNT" /\ buf' = <<>>
    BY <1>6, <2>1 DEF Hunt, Pushing, IInv, Collected
  <2>3. Collected'
    BY <2>1, <2>2 DEF Collected
  <2>4. TypeOK'
    <3>0. i' \in Nat
      BY <1>3, <1>6 DEF Hunt
    <3>1. buf' \in Seq(Byte) /\ state' \in {"HUNT", "RTCM_HDR"}
      BY <2>2, EmptySeqs
    <3>2. UNCHANGED <<driver, pc, remaining, process, rtcm_total_len,
                      published, fed, missed>>
      BY <1>6 DEF Hunt, Untouched
    <3>3. /\ sent' \in 0..MaxLine /\ ring' \in Seq(Positions)
          /\ stash' \in Seq(Positions) /\ events' \in Seq(Event)
          /\ pc' \in {"flush", "reset", "wait", "read", "push"}
          /\ remaining' \in 0..MaxBurst /\ data' \in Seq(Byte)
          /\ published' \in Seq(Seq(Byte)) /\ fed' \in Seq(Byte)
          /\ missed' \in BOOLEAN
      BY <3>2 DEF driver, process, IInv, TypeOK
    <3>4. /\ src' \in {"data", "replay"} /\ replay_buf' \in Seq(Byte)
          /\ resume_i' \in Nat /\ rtcm_total_len' \in 0..MaxFrame
      BY <3>2 DEF process, IInv, TypeOK
    <3> QED
      BY <3>0, <3>1, <3>3, <3>4 DEF TypeOK
  <2> QED
    BY <1>1, <1>3, <1>6, <2>3, <2>4
       DEF Hunt, Untouched, process, IInv, Reading, Src
<1>7. CASE Header
  <2> DEFINE len == PayloadLen(Values(With))
  <2>1. CASE Len(With) < HeaderLen
    BY <1>5, <1>7, <2>1 DEF Header, IInv, TypeOK
  <2>2. CASE ~(Len(With) < HeaderLen) /\ len \notin 1..MaxPayload
    BY <1>4, <1>7, <2>2 DEF Header
  <2>3. CASE ~(Len(With) < HeaderLen) /\ len \in 1..MaxPayload
    <3>1. /\ Collect("RTCM_BODY") /\ Untouched
          /\ rtcm_total_len' = HeaderLen + len + TrailerLen
      BY <1>7, <2>3 DEF Header
    <3>2. rtcm_total_len' \in 0..MaxFrame
      BY <2>3, <3>1, SizesAssumption DEF MaxFrame
    <3>3. Len(With) < rtcm_total_len'
      BY <1>2, <1>3, <1>7, <2>3, <3>1, SizesAssumption
         DEF Header, Pushing, IInv, Collected
    <3> QED
      BY <1>5, <3>1, <3>2, <3>3
  <2> QED
    BY <2>1, <2>2, <2>3
<1>8. CASE BodyByte
  <2>1. Len(With) < rtcm_total_len
    BY <1>2, <1>3, <1>8 DEF BodyByte, Pushing, IInv, TypeOK, Collected
  <2> QED
    BY <1>5, <1>8, <2>1 DEF BodyByte, IInv, TypeOK
<1>9. CASE GoodFrame
  <2>1. TypeOK'
    BY <1>2, <1>3, <1>9, EmptySeqs
       DEF GoodFrame, Untouched, driver, process, splitter_init, IInv, TypeOK
  <2> QED
    BY <1>1, <1>3, <1>9, <2>1
       DEF GoodFrame, Untouched, process, splitter_init, IInv, Reading,
           Collected, Src
<1>10. CASE BadCrc
  BY <1>4, <1>10 DEF BadCrc
<1> QED
  BY <1>6, <1>7, <1>8, <1>9, <1>10 DEF Splitting

LEMMA StutterType == ASSUME IInv, UNCHANGED vars PROVE IInv'
  BY DEF vars, driver, process, splitter, IInv, TypeOK, Reading, Collected, Src

LEMMA TypeStep == IInv /\ [Next]_vars => IInv'
  BY DriverType, LoopType, ReadType, PushType, StutterType
     DEF Next, ReaderStep, Splitting

LEMMA IndInv == Spec => []IInv
  BY InitType, TypeStep, PTL DEF Spec

\* Every variable keeps its type, whatever the receiver sends (gnss_uart.c).
THEOREM TypeCorrect == Spec => []TypeOK
<1>1. IInv => TypeOK
  BY DEF IInv
<1> QED
  BY IndInv, <1>1, PTL

\* The overflow branch of the body state is dead code (gnss_uart.c:320-326).
THEOREM BufferIsLargeEnough == Spec => []FitsBuffer
<1>1. IInv => FitsBuffer
  BY Sizes DEF IInv, TypeOK, Collected, FitsBuffer
<1> QED
  BY IndInv, <1>1, PTL

-----------------------------------------------------------------------------
(* The order of bytes.  Wherever a byte is, it comes before everything that *)
(* has not been looked at yet: the rest of a replay, the rest of the chunk  *)
(* behind it, the ring and the stash.                                       *)

\* In the driver's buffers everything comes after x.
Beyond(x) == /\ x <= sent
             /\ \A k \in 1..Len(ring) : x < ring[k]
             /\ \A k \in 1..Len(stash) : x < stash[k]

\* So it does in what the splitter goes on with after skip more bytes.
Ahead(x, skip) ==
    /\ src = "replay" =>
           \A k \in 1..Len(replay_buf) : k > i + skip => x < replay_buf[k].at
    /\ \A k \in 1..Len(data) :
           k > (IF src = "data" THEN i + skip ELSE resume_i) => x < data[k].at
    /\ Beyond(x)

DriverOrder ==
    /\ \A k \in 1..Len(ring) : ring[k] <= sent
    /\ \A k \in 1..Len(stash) : stash[k] <= sent
    /\ \A k, m \in 1..Len(ring) : k < m => ring[k] < ring[m]
    /\ \A k, m \in 1..Len(stash) : k < m => stash[k] < stash[m]
    /\ \A k \in 1..Len(ring), m \in 1..Len(stash) : ring[k] < stash[m]

ChunkOrder ==
    /\ Increasing(data)
    /\ \A k \in 1..Len(data) : Beyond(data[k].at)
    /\ src = "replay" =>
           /\ Increasing(replay_buf)
           /\ \A k \in 1..Len(replay_buf) :
                 /\ Beyond(replay_buf[k].at)
                 /\ \A m \in 1..Len(data) :
                       m > resume_i => replay_buf[k].at < data[m].at

FrameOrder ==
    /\ Increasing(buf)
    /\ \A k \in 1..Len(buf) : Ahead(buf[k].at, 0)
    /\ \A f \in 1..Len(published) :
           /\ Before(published[f], buf)
           /\ \A k \in 1..Len(published[f]) : Ahead(published[f][k].at, 0)

Ordered == DriverOrder /\ ChunkOrder /\ FrameOrder /\ BytesUsedOnce

\* The numbers of bytes are numbers.
LEMMA Numbers ==
  ASSUME TypeOK
  PROVE  /\ sent \in Nat /\ i \in Nat /\ resume_i \in Nat
         /\ \A k \in 1..Len(ring) : ring[k] \in Nat
         /\ \A k \in 1..Len(stash) : stash[k] \in Nat
         /\ \A k \in 1..Len(data) : data[k].at \in Nat
         /\ \A k \in 1..Len(replay_buf) : replay_buf[k].at \in Nat
         /\ \A k \in 1..Len(buf) : buf[k].at \in Nat
         /\ \A f \in 1..Len(published) : \A k \in 1..Len(published[f]) :
                published[f][k].at \in Nat
         /\ \A f \in 1..Len(published) : published[f] \in Seq(Byte)
<1>1. ASSUME NEW s \in Seq(Byte), NEW k \in 1..Len(s)
      PROVE  s[k].at \in Nat
  <2>1. s[k] \in Byte
    BY <1>1
  <2>2. s[k].at \in Positions
    BY <2>1 DEF Byte
  <2> QED
    BY <2>2, Sizes DEF Positions
<1>0. ASSUME NEW s \in Seq(Positions), NEW k \in 1..Len(s)
      PROVE  s[k] \in Nat
  BY Sizes DEF Positions
<1>2. \A k \in 1..Len(ring) : ring[k] \in Nat
  BY <1>0 DEF TypeOK
<1>3. \A k \in 1..Len(stash) : stash[k] \in Nat
  BY <1>0 DEF TypeOK
<1>4. \A f \in 1..Len(published) : published[f] \in Seq(Byte)
  BY DEF TypeOK
<1> QED
  BY <1>1, <1>2, <1>3, <1>4, Sizes DEF TypeOK

LEMMA InitOrder == Init => Ordered
  BY DEF Init, Ordered, DriverOrder, ChunkOrder, FrameOrder, BytesUsedOnce,
     Increasing

\* A driver that keeps the order and only adds later bytes, or drops some,
\* leaves what is beyond where it is.
LEMMA DriverMoves ==
  ASSUME IInv, Ordered, DriverOrder',
         \A x \in Nat : Beyond(x) => Beyond(x)',
         UNCHANGED <<process, i, state, buf, published>>
  PROVE  Ordered'
<1>1. ASSUME NEW x \in Nat, Ahead(x, 0)
      PROVE  Ahead(x, 0)'
  BY <1>1 DEF Ahead, process
<1>2. ChunkOrder'
  <2>1. \A k \in 1..Len(data) : data[k].at \in Nat
    BY Numbers DEF IInv
  <2>2. \A k \in 1..Len(replay_buf) : replay_buf[k].at \in Nat
    BY Numbers DEF IInv
  <2> QED
    BY <2>1, <2>2 DEF Ordered, ChunkOrder, process, Increasing
<1>3. FrameOrder'
  <2>1. \A k \in 1..Len(buf) : buf[k].at \in Nat
    BY Numbers DEF IInv
  <2>2. \A f \in 1..Len(published) : \A k \in 1..Len(published[f]) :
            published[f][k].at \in Nat
    BY Numbers DEF IInv
  <2> QED
    BY <1>1, <2>1, <2>2 DEF Ordered, FrameOrder, Increasing, Before
<1>4. BytesUsedOnce'
  BY DEF Ordered, BytesUsedOnce, Increasing, Before
<1> QED
  BY <1>2, <1>3, <1>4 DEF Ordered

LEMMA DriverOrderKept ==
  ASSUME IInv, Ordered, DriverStep
  PROVE  Ordered'
<1>0. /\ sent \in Nat /\ ring \in Seq(Positions)
      /\ \A k \in 1..Len(ring) : ring[k] \in Nat /\ ring[k] <= sent
      /\ \A k \in 1..Len(stash) : stash[k] \in Nat /\ stash[k] <= sent
      /\ Len(ring) \in Nat
  BY Numbers DEF IInv, TypeOK, Ordered, DriverOrder
<1>1. CASE FifoOverflow
  <2>1. sent \in Nat /\ sent' = sent + 1 /\ ring' = ring /\ stash' = stash
    BY <1>1, Numbers DEF FifoOverflow, IInv
  <2>2. DriverOrder'
    BY <1>0, <2>1 DEF Ordered, DriverOrder
  <2>3. \A x \in Nat : Beyond(x) => Beyond(x)'
    BY <2>1 DEF Beyond
  <2>4. UNCHANGED <<process, i, state, buf, published>>
    BY <1>1 DEF FifoOverflow, reader, splitter
  <2> QED
    BY <2>2, <2>3, <2>4, DriverMoves
<1>2. ASSUME NEW n \in 1..MaxBurst, ReceiveBurst(n)
      PROVE  Ordered'
  <2> DEFINE new == [k \in 1..n |-> sent + k]
  <2>1. /\ n \in Nat /\ sent \in Nat /\ sent' = sent + n
        /\ stash = <<>> /\ Len(stash) = 0
    BY <1>2, Numbers, Sizes DEF ReceiveBurst, IInv
  <2>2. /\ Len(new) = n
        /\ \A k \in 1..n : new[k] = sent + k
    BY <2>1
  <2>3. ring \in Seq(Positions) /\ new \in Seq(Nat)
    BY <2>1 DEF IInv, TypeOK
  <2>4. \/ ring' = ring \o new /\ stash' = <<>>
        \/ ring' = ring /\ stash' = new
    BY <1>2 DEF ReceiveBurst
  <2> HIDE DEF new
  <2>5. CASE ring' = ring \o new /\ stash' = <<>>
    <3>1. /\ Len(ring') = Len(ring) + n /\ Len(stash') = 0
          /\ \A k \in 1..Len(ring') :
                ring'[k] = IF k <= Len(ring) THEN ring[k]
                           ELSE sent + (k - Len(ring))
      <4>1. /\ Len(ring \o new) = Len(ring) + Len(new)
            /\ \A k \in 1..Len(ring \o new) :
                  (ring \o new)[k] = IF k <= Len(ring) THEN ring[k]
                                     ELSE new[k - Len(ring)]
        BY <2>3
      <4>2. \A k \in 1..(Len(ring) + n) :
                ~(k <= Len(ring)) => k - Len(ring) \in 1..n
        BY <1>0, <2>1
      <4>3. Len(stash') = 0
        BY <2>5, EmptySeqs
      <4> QED
        BY <1>0, <2>1, <2>2, <2>5, <4>1, <4>2, <4>3
    <3>2. DriverOrder'
      <4>1. \A k \in 1..Len(ring') : ring'[k] <= sent'
        BY <1>0, <2>1, <3>1
      <4>2. \A k, m \in 1..Len(ring') : k < m => ring'[k] < ring'[m]
        BY <1>0, <2>1, <3>1 DEF Ordered, DriverOrder
      <4> QED
        BY <3>1, <4>1, <4>2 DEF DriverOrder
    <3>3. \A x \in Nat : Beyond(x) => Beyond(x)'
      BY <1>0, <2>1, <3>1 DEF Beyond
    <3> QED
      BY <1>2, <3>2, <3>3, DriverMoves DEF ReceiveBurst, reader, splitter
  <2>6. CASE ring' = ring /\ stash' = new
    <3>1. DriverOrder'
      BY <1>0, <2>1, <2>2, <2>6 DEF Ordered, DriverOrder
    <3>2. \A x \in Nat : Beyond(x) => Beyond(x)'
      BY <2>1, <2>2, <2>6 DEF Beyond
    <3> QED
      BY <1>2, <3>1, <3>2, DriverMoves DEF ReceiveBurst, reader, splitter
  <2> QED
    BY <2>4, <2>5, <2>6
<1> QED
  BY <1>1, <1>2 DEF DriverStep

\* If nothing that was ahead falls back, the frames keep their order.
LEMMA FramesMove ==
  ASSUME IInv, Ordered, DriverOrder', ChunkOrder',
         UNCHANGED <<buf, published>>,
         \A x \in Nat : Ahead(x, 0) => Ahead(x, 0)'
  PROVE  Ordered'
<1>1. \A k \in 1..Len(buf) : buf[k].at \in Nat
  BY Numbers DEF IInv
<1>2. \A f \in 1..Len(published) : \A k \in 1..Len(published[f]) :
          published[f][k].at \in Nat
  BY Numbers DEF IInv
<1>3. FrameOrder'
  BY <1>1, <1>2 DEF Ordered, FrameOrder, Increasing, Before
<1>4. BytesUsedOnce'
  BY DEF Ordered, BytesUsedOnce, Increasing, Before
<1> QED
  BY <1>3, <1>4 DEF Ordered

LEMMA LoopOrder ==
  ASSUME IInv, Ordered,
         FlushInput \/ ResetQueue \/ TakeEvent \/ EventDone
           \/ EndOfReplay \/ ChunkDone
  PROVE  Ordered'
<1>1. CASE FlushInput
  <2>1. /\ sent' = sent /\ ring' = <<>> /\ stash' = <<>>
        /\ UNCHANGED <<process, i, state, buf, published>>
    BY <1>1 DEF FlushInput, splitter
  <2>2. DriverOrder' /\ \A x \in Nat : Beyond(x) => Beyond(x)'
    BY <2>1 DEF DriverOrder, Beyond
  <2> QED
    BY <2>1, <2>2, DriverMoves
<1>2. CASE TakeEvent \/ EventDone
  <2>1. /\ UNCHANGED <<sent, ring, stash>>
        /\ UNCHANGED <<process, i, state, buf, published>>
    BY <1>2 DEF TakeEvent, EventDone, driver, splitter
  <2>2. DriverOrder' /\ \A x \in Nat : Beyond(x) => Beyond(x)'
    BY <2>1 DEF Ordered, DriverOrder, Beyond
  <2> QED
    BY <2>1, <2>2, DriverMoves
<1>3. CASE ResetQueue
  <2>1. /\ UNCHANGED <<sent, ring, stash, process>>
        /\ buf' = <<>> /\ published' = <<>>
    BY <1>3 DEF ResetQueue, splitter_init
  <2>2. DriverOrder' /\ ChunkOrder'
    BY <2>1 DEF Ordered, DriverOrder, ChunkOrder, Beyond, Increasing, process
  <2>3. FrameOrder' /\ BytesUsedOnce'
    BY <2>1 DEF FrameOrder, BytesUsedOnce, Increasing
  <2> QED
    BY <2>2, <2>3 DEF Ordered
<1>4. CASE EndOfReplay
  <2>1. /\ UNCHANGED <<sent, ring, stash, data, replay_buf, resume_i>>
        /\ UNCHANGED <<buf, published>>
        /\ src = "replay" /\ src' = "data" /\ i' = resume_i
        /\ resume_i \in Nat
    BY <1>4, Numbers DEF EndOfReplay, driver, splitter, IInv
  <2>2. DriverOrder' /\ ChunkOrder'
    BY <2>1 DEF Ordered, DriverOrder, ChunkOrder, Beyond, Increasing
  <2>3. \A x \in Nat : Ahead(x, 0) => Ahead(x, 0)'
    BY <2>1 DEF Ahead, Beyond
  <2> QED
    BY <2>1, <2>2, <2>3, FramesMove
<1>5. CASE ChunkDone
  <2>1. /\ UNCHANGED <<sent, ring, stash, buf, published>>
        /\ src' = "data" /\ data' = <<>>
    BY <1>5 DEF ChunkDone, driver, splitter
  <2>2. DriverOrder' /\ ChunkOrder'
    BY <2>1 DEF Ordered, DriverOrder, ChunkOrder, Increasing
  <2>3. \A x \in Nat : Ahead(x, 0) => Ahead(x, 0)'
    BY <2>1 DEF Ahead, Beyond
  <2> QED
    BY <2>1, <2>2, <2>3, FramesMove
<1> QED
  BY <1>1, <1>2, <1>3, <1>4, <1>5

\* A chunk is the front of the ring; the stash follows it.
LEMMA ReadOrder ==
  ASSUME IInv, Ordered,
         NEW n \in 1..ReadChunk, NEW val \in [1..n -> Bytes],
         ReadChunkOf(n, val)
  PROVE  Ordered'
<1> DEFINE rest == SubSeq(ring, n + 1, Len(ring))
<1>1. /\ n \in Nat /\ n <= Len(ring) /\ Len(ring) \in Nat /\ sent' = sent
      /\ ring \in Seq(Positions) /\ stash \in Seq(Positions)
      /\ src = "data" /\ src' = "data" /\ i = 0 /\ i' = 0
      /\ UNCHANGED <<buf, published>>
  BY Sizes DEF ReadChunkOf, splitter, IInv, TypeOK, Reading
<1>2. /\ \A k \in 1..Len(ring) : ring[k] \in Nat /\ ring[k] <= sent
      /\ \A k \in 1..Len(stash) : stash[k] \in Nat /\ stash[k] <= sent
  BY Numbers DEF IInv, Ordered, DriverOrder
<1>3. /\ rest \in Seq(Positions) /\ Len(rest) = Len(ring) - n
      /\ \A k \in 1..Len(rest) : n + k \in 1..Len(ring) /\ rest[k] = ring[n + k]
  BY <1>1
<1>4. /\ Len(data') = n
      /\ \A k \in 1..n : data'[k].at = ring[k]
  BY <1>1 DEF ReadChunkOf
<1>5. \/ ring' = rest \o stash /\ stash' = <<>>
      \/ ring' = rest /\ stash' = stash
  BY DEF ReadChunkOf
<1> HIDE DEF rest
<1>6. /\ Len(rest \o stash) = Len(rest) + Len(stash)
      /\ \A k \in 1..Len(rest \o stash) :
            (rest \o stash)[k] = IF k <= Len(rest) THEN rest[k]
                                 ELSE stash[k - Len(rest)]
      /\ \A k \in 1..Len(rest \o stash) :
            ~(k <= Len(rest)) => k - Len(rest) \in 1..Len(stash)
  <2>1. /\ Len(rest \o stash) = Len(rest) + Len(stash)
        /\ \A k \in 1..Len(rest \o stash) :
              (rest \o stash)[k] = IF k <= Len(rest) THEN rest[k]
                                   ELSE stash[k - Len(rest)]
    <3>1. rest \in Seq(Positions) /\ stash \in Seq(Positions)
      BY <1>1, <1>3
    <3> QED
      BY <3>1
  <2>2. Len(rest) \in Nat /\ Len(stash) \in Nat
    BY <1>1, <1>3
  <2> QED
    BY <2>1, <2>2
\* Where the bytes left in the driver come from.
<1>7. /\ \A k \in 1..Len(ring') :
            \/ n + k \in 1..Len(ring) /\ k <= Len(rest) /\ ring'[k] = ring[n + k]
            \/ /\ k - Len(rest) \in 1..Len(stash) /\ k > Len(rest)
               /\ ring'[k] = stash[k - Len(rest)]
               /\ stash' = <<>>
      /\ stash' = <<>> \/ stash' = stash
  <2>1. CASE ring' = rest \o stash /\ stash' = <<>>
    <3>1. SUFFICES ASSUME NEW k \in 1..Len(rest \o stash)
                   PROVE  \/ n + k \in 1..Len(ring) /\ k <= Len(rest)
                             /\ (rest \o stash)[k] = ring[n + k]
                          \/ /\ k - Len(rest) \in 1..Len(stash) /\ k > Len(rest)
                             /\ (rest \o stash)[k] = stash[k - Len(rest)]
      BY <2>1
    <3>2. CASE k <= Len(rest)
      BY <1>3, <1>6, <3>2
    <3>3. CASE ~(k <= Len(rest))
      BY <1>1, <1>3, <1>6, <3>3
    <3> QED
      BY <3>2, <3>3
  <2>2. CASE ring' = rest /\ stash' = stash
    BY <1>1, <1>3, <2>2
  <2> QED
    BY <1>5, <2>1, <2>2
<1>8. Len(rest) \in Nat /\ Len(stash) \in Nat /\ Len(stash') \in Nat
  BY <1>1, <1>3, <1>7, EmptySeqs
\* They are between what has been read and the end of the line.
<1>9. ASSUME NEW k \in 1..Len(ring')
      PROVE  /\ ring'[k] \in Nat /\ ring'[k] <= sent'
             /\ \A m \in 1..n : ring[m] < ring'[k]
  <2>1. CASE n + k \in 1..Len(ring) /\ ring'[k] = ring[n + k]
    <3>1. \A m \in 1..n : m \in 1..Len(ring) /\ m < n + k
      BY <1>1
    <3> QED
      BY <1>1, <1>2, <2>1, <3>1 DEF Ordered, DriverOrder
  <2>2. CASE k - Len(rest) \in 1..Len(stash) /\ ring'[k] = stash[k - Len(rest)]
    <3>1. \A m \in 1..n : m \in 1..Len(ring)
      BY <1>1
    <3> QED
      BY <1>1, <1>2, <2>2, <3>1 DEF Ordered, DriverOrder
  <2> QED
    BY <1>7, <2>1, <2>2
<1>10. ASSUME NEW k \in 1..Len(stash')
       PROVE  /\ k \in 1..Len(stash) /\ stash' = stash
              /\ stash'[k] \in Nat /\ stash'[k] <= sent'
              /\ \A m \in 1..n : ring[m] < stash'[k]
  <2>1. stash' = stash
    BY <1>7, EmptySeqs
  <2>2. \A m \in 1..n : m \in 1..Len(ring)
    BY <1>1
  <2> QED
    BY <1>1, <1>2, <2>1, <2>2 DEF Ordered, DriverOrder
<1>11. DriverOrder'
  <2>1. ASSUME NEW k \in 1..Len(ring'), NEW m \in 1..Len(ring'), k < m
        PROVE  ring'[k] < ring'[m]
    <3>1. CASE n + m \in 1..Len(ring) /\ m <= Len(rest) /\ ring'[m] = ring[n + m]
      <4>1. n + k \in 1..Len(ring) /\ ring'[k] = ring[n + k] /\ n + k < n + m
        <5>1. k <= Len(rest) /\ k \in Int /\ m \in Int
          BY <1>8, <2>1, <3>1
        <5>2. n + k \in 1..Len(ring) /\ ring'[k] = ring[n + k]
          BY <1>7, <1>8, <5>1
        <5> QED
          BY <1>1, <2>1, <5>1, <5>2
      <4> QED
        BY <3>1, <4>1 DEF Ordered, DriverOrder
    <3>2. CASE /\ m - Len(rest) \in 1..Len(stash) /\ m > Len(rest)
               /\ ring'[m] = stash[m - Len(rest)]
      <4>1. CASE n + k \in 1..Len(ring) /\ ring'[k] = ring[n + k]
        BY <3>2, <4>1 DEF Ordered, DriverOrder
      <4>2. CASE k - Len(rest) \in 1..Len(stash) /\ ring'[k] = stash[k - Len(rest)]
        <5>1. k - Len(rest) < m - Len(rest)
          BY <1>8, <2>1
        <5> QED
          BY <3>2, <4>2, <5>1 DEF Ordered, DriverOrder
      <4> QED
        BY <1>7, <4>1, <4>2
    <3> QED
      BY <1>7, <3>1, <3>2
  <2>2. \A k, m \in 1..Len(stash') : k < m => stash'[k] < stash'[m]
    BY <1>10 DEF Ordered, DriverOrder
  <2>3. ASSUME NEW k \in 1..Len(ring'), NEW m \in 1..Len(stash')
        PROVE  ring'[k] < stash'[m]
    <3>1. stash' = stash /\ m \in 1..Len(stash) /\ stash' # <<>>
      BY <1>10, EmptySeqs
    <3>2. n + k \in 1..Len(ring) /\ ring'[k] = ring[n + k]
      BY <1>7, <3>1
    <3> QED
      BY <3>1, <3>2 DEF Ordered, DriverOrder
  <2> QED
    BY <1>9, <1>10, <2>1, <2>2, <2>3 DEF DriverOrder
<1>12. ASSUME NEW x \in Nat, Beyond(x)
       PROVE  Beyond(x)'
  <2>1. ASSUME NEW k \in 1..Len(ring')
        PROVE  x < ring'[k]
    BY <1>7, <1>12 DEF Beyond
  <2>2. \A k \in 1..Len(stash') : x < stash'[k]
    BY <1>10, <1>12 DEF Beyond
  <2> QED
    BY <1>1, <1>12, <2>1, <2>2 DEF Beyond
<1>13. ChunkOrder'
  <2>1. Increasing(data)'
    BY <1>1, <1>4 DEF Increasing, Ordered, DriverOrder
  <2>2. ASSUME NEW k \in 1..Len(data')
        PROVE  Beyond(data[k].at)'
    <3>1. k \in 1..n /\ data'[k].at = ring[k] /\ ring[k] <= sent'
      BY <1>1, <1>2, <1>4
    <3> QED
      BY <1>9, <1>10, <3>1 DEF Beyond
  <2> QED
    BY <1>1, <2>1, <2>2 DEF ChunkOrder
<1>14. ASSUME NEW x \in Nat, Ahead(x, 0)
       PROVE  Ahead(x, 0)'
  <2>1. \A k \in 1..Len(data') : x < data'[k].at
    BY <1>1, <1>4, <1>14 DEF Ahead, Beyond
  <2> QED
    BY <1>1, <1>12, <1>14, <2>1 DEF Ahead
<1> QED
  BY <1>1, <1>11, <1>13, <1>14, FramesMove

\* The byte that is looked at comes after everything that has been, and
\* before everything that will be.
LEMMA NextByte ==
  ASSUME IInv, Ordered, i < Len(Src)
  PROVE  /\ Src[i + 1].at \in Nat
         /\ Ahead(Src[i + 1].at, 1)
         /\ \A x \in Nat : Ahead(x, 0) => Ahead(x, 1) /\ x < Src[i + 1].at
<1>1. /\ i \in Nat /\ resume_i \in Nat /\ src \in {"data", "replay"}
      /\ Len(data) \in Nat /\ Len(replay_buf) \in Nat
  BY DEF IInv, TypeOK
<1>2. /\ \A k \in 1..Len(data) : data[k].at \in Nat
      /\ \A k \in 1..Len(replay_buf) : replay_buf[k].at \in Nat
  BY Numbers DEF IInv
<1>3. CASE src = "data"
  <2>1. i + 1 \in 1..Len(data) /\ Src[i + 1] = data[i + 1]
    BY <1>1, <1>3 DEF Src
  <2>2. Ahead(data[i + 1].at, 1)
    BY <1>1, <1>3, <2>1 DEF Ahead, Ordered, ChunkOrder, Increasing
  <2>3. \A x \in Nat : Ahead(x, 0) => Ahead(x, 1) /\ x < data[i + 1].at
    BY <1>1, <1>3, <2>1 DEF Ahead
  <2> QED
    BY <1>2, <2>1, <2>2, <2>3
<1>4. CASE src = "replay"
  <2>1. i + 1 \in 1..Len(replay_buf) /\ Src[i + 1] = replay_buf[i + 1]
    BY <1>1, <1>4 DEF Src
  <2>2. Ahead(replay_buf[i + 1].at, 1)
    BY <1>1, <1>4, <2>1 DEF Ahead, Ordered, ChunkOrder, Increasing
  <2>3. \A x \in Nat : Ahead(x, 0) => Ahead(x, 1) /\ x < replay_buf[i + 1].at
    BY <1>1, <1>4, <2>1 DEF Ahead
  <2> QED
    BY <1>2, <2>1, <2>2, <2>3
<1> QED
  BY <1>1, <1>3, <1>4

LEMMA WithOrder ==
  ASSUME IInv, Ordered, i < Len(Src)
  PROVE  /\ Increasing(With)
         /\ \A k \in 1..Len(With) : With[k].at \in Nat /\ Ahead(With[k].at, 1)
         /\ \A f \in 1..Len(published) : Before(published[f], With)
<1> DEFINE b == Src[i + 1]
<1>1. /\ b.at \in Nat /\ Ahead(b.at, 1)
      /\ \A x \in Nat : Ahead(x, 0) => Ahead(x, 1) /\ x < b.at
  BY NextByte
<1>2. buf \in Seq(Byte) /\ b \in Byte /\ Len(buf) \in Nat /\ With = Append(buf, b)
  BY WithType DEF IInv, TypeOK, With
<1> HIDE DEF b
<1>3. /\ Len(With) = Len(buf) + 1 /\ With[Len(buf) + 1] = b
      /\ \A k \in 1..Len(buf) : With[k] = buf[k]
  BY <1>2
<1>4. \A k \in 1..Len(With) : k \in 1..Len(buf) \/ k = Len(buf) + 1
  BY <1>2, <1>3
<1>5. \A k \in 1..Len(buf) : buf[k].at \in Nat /\ buf[k].at < b.at
                             /\ Ahead(buf[k].at, 1)
  BY <1>1, Numbers DEF IInv, Ordered, FrameOrder
<1>6. ASSUME NEW k \in 1..Len(With), NEW m \in 1..Len(With), k < m
      PROVE  With[k].at < With[m].at
  <2>1. k \in 1..Len(buf) /\ (m \in 1..Len(buf) \/ m = Len(buf) + 1)
    BY <1>2, <1>3, <1>4, <1>6
  <2>2. CASE m \in 1..Len(buf)
    BY <1>3, <1>6, <2>1, <2>2 DEF Ordered, FrameOrder, Increasing
  <2>3. CASE m = Len(buf) + 1
    BY <1>3, <1>5, <2>1, <2>3
  <2> QED
    BY <2>1, <2>2, <2>3
<1>7. ASSUME NEW f \in 1..Len(published)
      PROVE  Before(published[f], With)
  <2>1. ASSUME NEW k \in 1..Len(published[f]), NEW m \in 1..Len(With)
        PROVE  published[f][k].at < With[m].at
    <3>1. /\ published[f][k].at \in Nat /\ published[f][k].at < b.at
      BY <1>1, Numbers DEF IInv, Ordered, FrameOrder
    <3>2. \A j \in 1..Len(buf) : published[f][k].at < buf[j].at
      BY DEF Ordered, FrameOrder, Before
    <3> QED
      BY <1>3, <1>4, <3>1, <3>2
  <2> QED
    BY <2>1 DEF Before
<1> QED
  BY <1>1, <1>3, <1>4, <1>5, <1>6, <1>7 DEF Increasing

\* What stays ahead when a byte is consumed and no replay starts.
LEMMA Consumed ==
  ASSUME IInv, Ordered, i < Len(Src),
         UNCHANGED <<sent, ring, stash, process>>, i' = i + 1
  PROVE  /\ DriverOrder' /\ ChunkOrder'
         /\ \A x \in Nat : Ahead(x, 1) => Ahead(x, 0)'
<1>1. DriverOrder' /\ ChunkOrder'
  BY DEF Ordered, DriverOrder, ChunkOrder, Beyond, Increasing, process
<1>2. i \in Nat
  BY DEF IInv, TypeOK
<1>3. \A x \in Nat : Ahead(x, 1) => Ahead(x, 0)'
  BY <1>2 DEF Ahead, Beyond, process
<1> QED
  BY <1>1, <1>3

\* The frames published so far, after a byte or a replay.
LEMMA PublishedStay ==
  ASSUME IInv, Ordered, i < Len(Src),
         published' = published,
         \A f \in 1..Len(published) : Before(published[f], buf'),
         \A x \in Nat : Ahead(x, 1) => Ahead(x, 0)'
  PROVE  /\ BytesUsedOnce'
         /\ \A f \in 1..Len(published') :
               /\ Before(published[f], buf)'
               /\ \A k \in 1..Len(published'[f]) : Ahead(published[f][k].at, 0)'
<1>1. BytesUsedOnce'
  BY DEF Ordered, BytesUsedOnce, Increasing, Before
<1>2. ASSUME NEW f \in 1..Len(published), NEW k \in 1..Len(published[f])
      PROVE  Ahead(published[f][k].at, 0)'
  <2>1. published[f][k].at \in Nat /\ Ahead(published[f][k].at, 0)
    BY Numbers DEF IInv, Ordered, FrameOrder
  <2>2. Ahead(published[f][k].at, 1)
    BY <2>1, NextByte
  <2> QED
    BY <2>1, <2>2
<1> QED
  BY <1>1, <1>2 DEF Before

LEMMA CollectOrder ==
  ASSUME IInv, Ordered, i < Len(Src),
         UNCHANGED <<sent, ring, stash, process, published>>,
         i' = i + 1, buf' = With
  PROVE  Ordered'
<1>1. /\ DriverOrder' /\ ChunkOrder'
      /\ \A x \in Nat : Ahead(x, 1) => Ahead(x, 0)'
  BY Consumed
<1>2. Increasing(buf)' /\ \A k \in 1..Len(buf') : Ahead(buf[k].at, 0)'
  BY <1>1, WithOrder DEF Increasing
<1>3. \A f \in 1..Len(published) : Before(published[f], buf')
  BY WithOrder
<1> QED
  BY <1>1, <1>2, <1>3, PublishedStay DEF Ordered, FrameOrder

LEMMA GoodFrameOrder ==
  ASSUME IInv, Ordered, GoodFrame
  PROVE  Ordered'
<1>1. /\ i < Len(Src) /\ i' = i + 1 /\ buf' = <<>>
      /\ published' = Append(published, With)
      /\ UNCHANGED <<sent, ring, stash, process>>
  BY DEF GoodFrame, Pushing, Untouched, driver, splitter_init
<1>2. /\ DriverOrder' /\ ChunkOrder'
      /\ \A x \in Nat : Ahead(x, 1) => Ahead(x, 0)'
  BY <1>1, Consumed
<1>3. /\ With \in Seq(Byte) /\ published \in Seq(Seq(Byte))
      /\ Len(published) \in Nat
  BY <1>1, WithType DEF IInv, TypeOK
<1>4. /\ Len(published') = Len(published) + 1
      /\ published'[Len(published) + 1] = With
      /\ \A f \in 1..Len(published) : published'[f] = published[f]
      /\ \A f \in 1..Len(published') :
             f \in 1..Len(published) \/ f = Len(published) + 1
  BY <1>1, <1>3
<1>5. ASSUME NEW f \in 1..Len(published'), NEW k \in 1..Len(published'[f])
      PROVE  Ahead(published[f][k].at, 0)'
  <2>1. CASE f \in 1..Len(published)
    <3>1. published[f][k].at \in Nat /\ Ahead(published[f][k].at, 0)
      BY <1>4, <2>1, Numbers DEF IInv, Ordered, FrameOrder
    <3>2. Ahead(published[f][k].at, 1)
      BY <1>1, <3>1, NextByte
    <3> QED
      BY <1>2, <1>4, <2>1, <3>1, <3>2
  <2>2. CASE f = Len(published) + 1
    BY <1>1, <1>2, <1>4, <2>2, WithOrder
  <2> QED
    BY <1>4, <2>1, <2>2
<1>6. FrameOrder'
  BY <1>1, <1>5 DEF FrameOrder, Increasing, Before
<1>7. BytesUsedOnce'
  <2>1. ASSUME NEW f \in 1..Len(published')
        PROVE  Increasing(published'[f])
    BY <1>1, <1>4, WithOrder DEF Ordered, BytesUsedOnce
  <2>2. ASSUME NEW f \in 1..Len(published'), NEW g \in 1..Len(published'), f < g
        PROVE  Before(published'[f], published'[g])
    <3>1. f \in 1..Len(published)
      BY <1>3, <1>4, <2>2
    <3> QED
      BY <1>1, <1>4, <2>2, <3>1, WithOrder DEF Ordered, BytesUsedOnce
  <2> QED
    BY <2>1, <2>2 DEF BytesUsedOnce, Increasing, Before
<1> QED
  BY <1>2, <1>6, <1>7 DEF Ordered

LEMMA ReplayOrder ==
  ASSUME IInv, Ordered, i < Len(Src), Replay, Untouched
  PROVE  Ordered'
<1>1. /\ UNCHANGED <<sent, ring, stash, data, published>>
      /\ src' = "replay" /\ i' = 0 /\ buf' = <<>>
      /\ replay_buf' = Tail(With)
      /\ resume_i' = IF src = "data" THEN i + 1 ELSE resume_i
  BY DEF Replay, Untouched, driver, splitter_init
<1>2. /\ With \in Seq(Byte) /\ Len(With) = Len(buf) + 1 /\ Len(buf) \in Nat
      /\ i \in Nat /\ resume_i \in Nat /\ Len(data) \in Nat
  BY WithType DEF IInv, TypeOK
<1>3. /\ Len(replay_buf') = Len(buf)
      /\ \A k \in 1..Len(replay_buf') :
            k + 1 \in 1..Len(With) /\ replay_buf'[k] = With[k + 1]
  BY <1>1, <1>2
<1>4. /\ Increasing(With)
      /\ \A k \in 1..Len(With) : With[k].at \in Nat /\ Ahead(With[k].at, 1)
      /\ \A f \in 1..Len(published) : Before(published[f], With)
  BY WithOrder
<1>5. DriverOrder'
  BY <1>1 DEF Ordered, DriverOrder
\* What is ahead of the byte is ahead of the rest of the chunk and the ring.
<1>6. ASSUME NEW x \in Nat, Ahead(x, 1)
      PROVE  /\ Beyond(x)'
             /\ \A k \in 1..Len(data') : k > resume_i' => x < data'[k].at
  BY <1>1, <1>6 DEF Ahead, Beyond
<1>7. ChunkOrder'
  <2>1. Increasing(data)' /\ \A k \in 1..Len(data') : Beyond(data[k].at)'
    BY <1>1 DEF Ordered, ChunkOrder, Increasing, Beyond
  <2>2. ASSUME NEW k \in 1..Len(replay_buf'), NEW m \in 1..Len(replay_buf'), k < m
        PROVE  replay_buf'[k].at < replay_buf'[m].at
    <3>1. k + 1 < m + 1
      BY <2>2
    <3> QED
      BY <1>3, <1>4, <3>1 DEF Increasing
  <2>3. ASSUME NEW k \in 1..Len(replay_buf')
        PROVE  /\ Beyond(replay_buf[k].at)'
               /\ \A m \in 1..Len(data') :
                     m > resume_i' => replay_buf'[k].at < data'[m].at
    BY <1>3, <1>4, <1>6
  <2> QED
    BY <2>1, <2>2, <2>3 DEF ChunkOrder, Increasing
<1>8. ASSUME NEW f \in 1..Len(published), NEW k \in 1..Len(published[f])
      PROVE  Ahead(published[f][k].at, 0)'
  <2>1. published[f][k].at \in Nat /\ Ahead(published[f][k].at, 0)
    BY Numbers DEF IInv, Ordered, FrameOrder
  <2>2. Ahead(published[f][k].at, 1)
    BY <2>1, NextByte
  <2>3. \A m \in 1..Len(replay_buf') : published[f][k].at < replay_buf'[m].at
    BY <1>3, <1>4 DEF Before
  <2> QED
    BY <1>1, <1>6, <2>1, <2>2, <2>3 DEF Ahead
<1>9. FrameOrder' /\ BytesUsedOnce'
  BY <1>1, <1>8 DEF Ordered, FrameOrder, BytesUsedOnce, Increasing, Before
<1> QED
  BY <1>5, <1>7, <1>9 DEF Ordered

LEMMA PushOrder ==
  ASSUME IInv, Ordered, Splitting
  PROVE  Ordered'
<1>1. i < Len(Src) /\ Untouched /\ UNCHANGED <<sent, ring, stash>>
  BY DEF Splitting, Hunt, Header, BodyByte, GoodFrame, BadCrc, Pushing,
     Untouched, driver
<1>2. ASSUME NEW s, Collect(s)
      PROVE  Ordered'
  BY <1>1, <1>2, CollectOrder DEF Collect
<1>3. CASE Replay
  BY <1>1, <1>3, ReplayOrder
<1>4. CASE GoodFrame
  BY <1>4, GoodFrameOrder
<1>5. CASE Hunt
  <2>1. /\ UNCHANGED <<process, published>> /\ i' = i + 1
        /\ buf' = <<Src[i + 1]>> \/ buf' = buf
    BY <1>5 DEF Hunt
  <2>2. /\ DriverOrder' /\ ChunkOrder'
        /\ \A x \in Nat : Ahead(x, 1) => Ahead(x, 0)'
    BY <1>1, <2>1, Consumed
  <2>3. CASE buf' = buf
    <3>1. \A x \in Nat : Ahead(x, 0) => Ahead(x, 0)'
      BY <1>1, <2>2, NextByte
    <3> QED
      BY <2>1, <2>2, <2>3, <3>1, FramesMove
  <2>4. CASE buf' = <<Src[i + 1]>>
    <3>1. Len(buf') = 1 /\ \A k \in 1..Len(buf') : buf'[k] = Src[i + 1]
      BY <2>4
    <3>2. Increasing(buf)' /\ \A k \in 1..Len(buf') : Ahead(buf[k].at, 0)'
      BY <1>1, <2>2, <3>1, NextByte DEF Increasing
    <3>3. ASSUME NEW f \in 1..Len(published), NEW k \in 1..Len(published[f])
          PROVE  published[f][k].at < Src[i + 1].at
      BY <1>1, NextByte, Numbers DEF IInv, Ordered, FrameOrder
    <3>4. \A f \in 1..Len(published) : Before(published[f], buf')
      BY <3>1, <3>3 DEF Before
    <3> QED
      BY <1>1, <2>1, <2>2, <3>2, <3>4, PublishedStay DEF Ordered, FrameOrder
  <2> QED
    BY <2>1, <2>3, <2>4
<1> QED
  BY <1>2, <1>3, <1>4, <1>5 DEF Splitting, Header, BodyByte, BadCrc

LEMMA StutterOrder == ASSUME IInv, Ordered, UNCHANGED vars PROVE Ordered'
<1>1. UNCHANGED <<sent, ring, stash, process, i, state, buf, published>>
  BY DEF vars, driver, splitter
<1>2. DriverOrder' /\ \A x \in Nat : Beyond(x) => Beyond(x)'
  BY <1>1 DEF Ordered, DriverOrder, Beyond
<1> QED
  BY <1>1, <1>2, DriverMoves

\* No byte of the UART stream is used for two frames or out of order,
\* whatever the splitter replays (gnss_uart.c:350-393).
THEOREM NoByteIsUsedTwice == Spec => []BytesUsedOnce
<1>1. IInv /\ Ordered /\ [Next]_vars => Ordered'
  BY DriverOrderKept, LoopOrder, ReadOrder, PushOrder, StutterOrder
     DEF Next, ReaderStep, Splitting
<1>2. Ordered => BytesUsedOnce
  BY DEF Ordered
<1> QED
  BY InitType, InitOrder, TypeStep, <1>1, <1>2, PTL DEF Spec

-----------------------------------------------------------------------------
(* What the events of the driver announce.                                 *)

SizesOf(e)      == [k \in DOMAIN e |-> e[k].size]
Announced(e, n) == SumFunctionOnSet(SizesOf(e), 1..n)   \* by the first n events
Owed            == IF pc = "push" THEN remaining - Len(data) ELSE remaining

\* What ReadNeverWaits adds up is what all events announce.
LEMMA AllAnnounced ==
  ASSUME NEW e \in Seq(Event)
  PROVE  SumFunction([k \in DOMAIN e |-> e[k].size]) = Announced(e, Len(e))
<1>1. DOMAIN SizesOf(e) = 1..Len(e)
  BY DEF SizesOf
<1> QED
  BY <1>1 DEF SumFunction, Announced, SizesOf

\* Sizes are numbers, and no event announces nothing.
LEMMA AnnouncedTypes ==
  ASSUME NEW e \in Seq(Event)
  PROVE  /\ Len(e) \in Nat
         /\ \A k \in 1..Len(e) : SizesOf(e)[k] = e[k].size /\ SizesOf(e)[k] \in Nat
         /\ Announced(e, 0) = 0
         /\ \A n \in 0..Len(e) : Announced(e, n) \in Nat
<1>1. Len(e) \in Nat
  OBVIOUS
<1>2. \A k \in 1..Len(e) : e[k] \in Event
  BY <1>1
<1>3. \A k \in 1..Len(e) : SizesOf(e)[k] = e[k].size /\ SizesOf(e)[k] \in Nat
  BY <1>1, <1>2, Sizes DEF SizesOf, Event
<1>4. Announced(e, 0) = 0
  <2>1. 1..0 = {}
    OBVIOUS
  <2> QED
    BY <2>1, SumEmpty DEF Announced
<1>5. ASSUME NEW n \in 0..Len(e) PROVE Announced(e, n) \in Nat
  <2>1. IsFiniteSet(1..Len(e)) /\ 1..n \in SUBSET (1..Len(e))
    BY <1>1, FS_Interval
  <2>2. 0 \in Nat /\ \A a, b \in Nat : a + b \in Nat
    OBVIOUS
  <2> QED
    BY <1>3, <2>1, <2>2, SumType DEF Announced
<1> QED
  BY <1>1, <1>3, <1>4, <1>5

\* An event behind the others adds what it announces.
LEMMA AnnouncedBehind ==
  ASSUME NEW e \in Seq(Event), NEW x \in Event
  PROVE  /\ \A n \in 0..Len(e) : Announced(Append(e, x), n) = Announced(e, n)
         /\ Announced(Append(e, x), Len(e) + 1) = Announced(e, Len(e)) + x.size
<1> DEFINE a == Append(e, x)
           L == Len(e)
<1>1. /\ L \in Nat /\ a \in Seq(Event) /\ Len(a) = L + 1
      /\ \A k \in 1..L : a[k] = e[k]
      /\ a[L + 1] = x
  OBVIOUS
<1>2. /\ \A k \in 1..L : SizesOf(e)[k] = e[k].size
      /\ \A k \in 1..(L + 1) : SizesOf(a)[k] = a[k].size /\ SizesOf(a)[k] \in Int
  <2>1. \A k \in 1..Len(a) : SizesOf(a)[k] = a[k].size /\ SizesOf(a)[k] \in Nat
    BY <1>1, AnnouncedTypes
  <2> QED
    BY <1>1, <2>1, AnnouncedTypes
<1> HIDE DEF a
<1>3. ASSUME NEW n \in 0..L PROVE Announced(a, n) = Announced(e, n)
  <2>1. \A k \in 1..n : SizesOf(a)[k] = SizesOf(e)[k]
    BY <1>1, <1>2
  <2>2. IsFiniteSet(1..n)
    BY FS_Interval
  <2> QED
    BY <2>1, <2>2, SumSame DEF Announced
<1>4. Announced(a, L + 1) = Announced(a, L) + x.size
  <2>1. Announced(a, L + 1) = Announced(a, L) + SizesOf(a)[L + 1]
    BY <1>1, <1>2, SumNext DEF Announced
  <2> QED
    BY <1>1, <1>2, <2>1
<1> QED
  BY <1>1, <1>3, <1>4 DEF a

\* Without the first event what it announced is missing.
LEMMA AnnouncedAfter ==
  ASSUME NEW e \in Seq(Event), e # <<>>
  PROVE  \A n \in 1..Len(e) : Announced(e, n) = Head(e).size + Announced(Tail(e), n - 1)
<1> DEFINE t == Tail(e)
<1>1. /\ Len(e) \in Nat /\ t \in Seq(Event) /\ Len(t) = Len(e) - 1
      /\ \A k \in 1..(Len(e) - 1) : t[k] = e[k + 1]
      /\ Head(e) = e[1]
  OBVIOUS
<1>2. /\ \A k \in 1..Len(e) : SizesOf(e)[k] = e[k].size /\ SizesOf(e)[k] \in Int
      /\ \A k \in 1..(Len(e) - 1) : SizesOf(t)[k] = SizesOf(e)[k + 1]
  <2>1. \A k \in 1..Len(e) : SizesOf(e)[k] = e[k].size /\ SizesOf(e)[k] \in Nat
    BY AnnouncedTypes
  <2>2. \A k \in 1..Len(t) : SizesOf(t)[k] = t[k].size
    BY <1>1, AnnouncedTypes
  <2> HIDE DEF t
  <2> QED
    BY <1>1, <2>1, <2>2
<1> HIDE DEF t
<1>3. ASSUME NEW n \in 1..Len(e) PROVE Announced(e, n) = Head(e).size + Announced(t, n - 1)
  <2>1. PICK m \in Nat : n = m + 1
    <3>1. n - 1 \in Nat /\ n = (n - 1) + 1
      BY <1>1
    <3> QED
      BY <3>1
  <2>2. /\ \A k \in 1..(m + 1) : SizesOf(e)[k] \in Int
        /\ \A k \in 1..m : SizesOf(t)[k] = SizesOf(e)[k + 1]
    BY <1>1, <1>2, <2>1
  <2>3. SumFunctionOnSet(SizesOf(e), 1..(m + 1)) = SizesOf(e)[1] + SumFunctionOnSet(SizesOf(t), 1..m)
    BY <2>2, SumShifted
  <2>4. SizesOf(e)[1] = Head(e).size /\ n - 1 = m
    BY <1>1, <1>2, <2>1
  <2> QED
    BY <2>1, <2>3, <2>4 DEF Announced
<1> QED
  BY <1>3 DEF t

-----------------------------------------------------------------------------
(* ReadNeverWaits is inductive with what holds between two events.         *)

\* Between two events nothing is owed, and an event of a loss announces nothing.
NothingOwed ==
    /\ pc \in {"flush", "reset", "wait"} => remaining = 0
    /\ \A k \in 1..Len(events) : events[k].type # "UART_DATA" => events[k].size = 0

\* The queue is no longer than it was made.
QueueFits == Len(events) <= EventDepth

RoomInv == IInv /\ NothingOwed /\ QueueFits /\ ReadNeverWaits

\* Nothing is announced at first.
LEMMA RoomInit == Init => RoomInv
<1> SUFFICES ASSUME Init PROVE RoomInv
  OBVIOUS
<1>1. IInv /\ TypeOK
  BY InitType DEF IInv
<1>2. NothingOwed /\ QueueFits
  BY Sizes DEF Init, NothingOwed, QueueFits
<1>3. Announced(events, Len(events)) = 0 /\ Owed = 0 /\ Len(ring) = 0
  BY <1>1, AnnouncedTypes DEF Init, Owed, TypeOK
<1>4. SumFunction([k \in DOMAIN events |-> events[k].size]) = Announced(events, Len(events))
  BY <1>1, AllAnnounced DEF TypeOK
<1>5. ReadNeverWaits
  BY <1>3, <1>4 DEF ReadNeverWaits, Owed
<1> QED
  BY <1>1, <1>2, <1>5 DEF RoomInv

\* What the driver may post: it announces no more than has come into the ring.
LEMMA PostKeepsRoom ==
  ASSUME RoomInv, IInv', NEW x \in Event,
         Post(x.type, x.size), x.type # "UART_DATA" => x.size = 0,
         Len(ring') >= Len(ring) + x.size, UNCHANGED reader
  PROVE  RoomInv'
<1>1. /\ TypeOK /\ TypeOK' /\ events \in Seq(Event) /\ Len(events) \in Nat
      /\ events' \in Seq(Event) /\ Len(events') \in Nat
      /\ Len(ring) \in Nat /\ Len(ring') \in Nat /\ x.size \in Nat
      /\ remaining \in Nat /\ Len(data) \in Nat
  <2>1. TypeOK /\ TypeOK'
    BY DEF RoomInv, IInv
  <2>2. x.size \in Nat
    BY Sizes DEF Event
  <2>3. remaining \in Nat
    BY <2>1, Sizes DEF TypeOK
  <2>4. events \in Seq(Event) /\ events' \in Seq(Event)
    BY <2>1 DEF TypeOK
  <2>5. ring \in Seq(Positions) /\ ring' \in Seq(Positions) /\ data \in Seq(Byte)
    BY <2>1 DEF TypeOK
  <2> QED
    BY <2>1, <2>2, <2>3, <2>4, <2>5
<1>2. Owed' = Owed /\ pc' = pc /\ remaining' = remaining
  BY DEF reader, process, Owed
<1>3. \/ events' = events
      \/ events' = Append(events, x)
  <2>1. x = [type |-> x.type, size |-> x.size]
    BY DEF Event
  <2> QED
    BY <2>1 DEF Post
<1>4. NothingOwed'
  <2>1. \A k \in 1..Len(events') : events'[k].type # "UART_DATA" => events'[k].size = 0
    <3>1. CASE events' = events
      BY <3>1 DEF RoomInv, NothingOwed
    <3>2. CASE events' = Append(events, x)
      <4>1. /\ Len(events') = Len(events) + 1
            /\ \A k \in 1..Len(events) : events'[k] = events[k]
            /\ events'[Len(events) + 1] = x
        BY <1>1, <3>2
      <4>2. Len(events) \in Nat /\ (x.type # "UART_DATA" => x.size = 0)
        BY <1>1
      <4>3. \A k \in 1..Len(events) : events[k].type # "UART_DATA" => events[k].size = 0
        BY DEF RoomInv, NothingOwed
      <4> QED
        BY <4>1, <4>2, <4>3
    <3> QED
      BY <1>3, <3>1, <3>2
  <2> QED
    BY <1>2, <2>1 DEF RoomInv, NothingOwed
<1>5. QueueFits'
  <2>1. CASE Len(events) < EventDepth
    <3>1. events' = Append(events, [type |-> x.type, size |-> x.size])
      BY <2>1 DEF Post
    <3>2. Len(events') = Len(events) + 1
      BY <1>1, <3>1
    <3> QED
      BY <1>1, <2>1, <3>2, Sizes DEF QueueFits
  <2>2. CASE ~(Len(events) < EventDepth)
    BY <2>2 DEF Post, RoomInv, QueueFits
  <2> QED
    BY <2>1, <2>2
<1>6. ReadNeverWaits'
  <2>1. Announced(events', Len(events')) <= Announced(events, Len(events)) + x.size
    <3>1. CASE events' = events
      BY <1>1, <3>1, AnnouncedTypes
    <3>2. CASE events' = Append(events, x)
      <4>1. Len(events') = Len(events) + 1
        BY <1>1, <3>2
      <4>2. Announced(events', Len(events')) = Announced(events, Len(events)) + x.size
        BY <1>1, <3>2, <4>1, AnnouncedBehind
      <4>3. Announced(events, Len(events)) \in Nat
        BY <1>1, AnnouncedTypes
      <4> QED
        BY <1>1, <4>2, <4>3
    <3> QED
      BY <1>3, <3>1, <3>2
  <2>2. /\ Announced(events, Len(events)) \in Nat
        /\ Announced(events', Len(events')) \in Nat
        /\ Owed \in Int
    BY <1>1, AnnouncedTypes DEF Owed
  <2>3. pc # "reset" => Announced(events, Len(events)) + Owed <= Len(ring)
    BY <1>1, AllAnnounced DEF RoomInv, ReadNeverWaits, Owed
  <2>4. pc' # "reset" => Announced(events', Len(events')) + Owed' <= Len(ring')
    BY <1>1, <1>2, <2>1, <2>2, <2>3
  <2> QED
    BY <1>1, <2>4, AllAnnounced DEF ReadNeverWaits, Owed
<1> QED
  BY <1>4, <1>5, <1>6 DEF RoomInv

\* The other steps of the driver and the reader leave the announced bytes and
\* the ring alone, or take from both.
LEMMA QuietKeepsRoom ==
  ASSUME RoomInv, IInv', UNCHANGED <<events, ring>>, Owed' = Owed,
         pc' = "reset" <=> pc = "reset",
         pc' \in {"flush", "reset", "wait"} => remaining' = 0
  PROVE  RoomInv'
BY DEF RoomInv, NothingOwed, QueueFits, ReadNeverWaits, Owed

\* What an event announced is then owed.
LEMMA TakeKeepsRoom ==
  ASSUME RoomInv, IInv', TakeEvent
  PROVE  RoomInv'
<1>1. /\ events \in Seq(Event) /\ events # <<>> /\ events' = Tail(events)
      /\ remaining = 0 /\ remaining' = Head(events).size
      /\ pc = "wait" /\ pc' \in {"read", "flush"} /\ ring' = ring
      /\ (pc' = "flush" => Head(events).type # "UART_DATA")
  BY DEF TakeEvent, RoomInv, IInv, TypeOK, NothingOwed
<1>2. /\ Len(events) \in Nat /\ Len(events) >= 1
      /\ events' \in Seq(Event) /\ Len(events') = Len(events) - 1
      /\ \A k \in 1..Len(events') : events'[k] = events[k + 1]
      /\ Head(events) = events[1]
  BY <1>1
<1>3. Head(events).size \in Nat /\ Len(ring) \in Nat
  <2>1. Head(events) \in Event
    BY <1>1
  <2>2. Head(events).size \in Nat
    BY <2>1, Sizes DEF Event
  <2>3. ring \in Seq(Positions)
    BY DEF RoomInv, IInv, TypeOK
  <2> QED
    BY <2>2, <2>3
<1>4. NothingOwed'
  <2>1. pc' = "flush" => remaining' = 0
    BY <1>1, <1>2 DEF RoomInv, NothingOwed
  <2>2. \A k \in 1..Len(events') : events'[k].type # "UART_DATA" => events'[k].size = 0
    BY <1>2 DEF RoomInv, NothingOwed
  <2> QED
    BY <1>1, <2>1, <2>2 DEF NothingOwed
<1>5. ReadNeverWaits'
  <2>1. Announced(events, Len(events)) = Head(events).size + Announced(events', Len(events'))
    BY <1>1, <1>2, AnnouncedAfter
  <2>2. /\ Announced(events, Len(events)) \in Nat
        /\ Announced(events', Len(events')) \in Nat
    <3>1. Len(events) \in 0..Len(events) /\ Len(events') \in 0..Len(events')
      BY <1>2
    <3> QED
      BY <1>1, <1>2, <3>1, AnnouncedTypes
  <2>3. /\ SumFunction([k \in DOMAIN events |-> events[k].size]) = Announced(events, Len(events))
        /\ SumFunction([k \in DOMAIN events' |-> events'[k].size]) = Announced(events', Len(events'))
    BY <1>1, <1>2, AllAnnounced
  <2>4. Announced(events, Len(events)) + 0 <= Len(ring)
    BY <1>1, <2>3 DEF RoomInv, ReadNeverWaits
  <2>5. Announced(events', Len(events')) + remaining' <= Len(ring')
    BY <1>1, <1>3, <2>1, <2>2, <2>4
  <2> QED
    BY <1>1, <2>3, <2>5 DEF ReadNeverWaits
<1>6. QueueFits'
  BY <1>2, Sizes DEF RoomInv, QueueFits
<1> QED
  BY <1>4, <1>5, <1>6 DEF RoomInv

\* What is read is no longer owed and no longer in the ring.
LEMMA ReadKeepsRoom ==
  ASSUME RoomInv, IInv',
         NEW n \in 1..ReadChunk, NEW val \in [1..n -> Bytes], ReadChunkOf(n, val)
  PROVE  RoomInv'
<1>1. /\ events \in Seq(Event) /\ events' = events /\ pc = "read" /\ pc' = "push"
      /\ remaining' = remaining /\ remaining \in Nat
      /\ n \in Nat /\ n <= Len(ring) /\ ring \in Seq(Positions) /\ stash \in Seq(Positions)
  BY Sizes DEF ReadChunkOf, RoomInv, IInv, TypeOK
<1>2. Len(data') = n
  BY <1>1 DEF ReadChunkOf
<1>3. Len(ring') \in Nat /\ Len(ring') >= Len(ring) - n
  <2> DEFINE rest == SubSeq(ring, n + 1, Len(ring))
  <2>1. rest \in Seq(Positions) /\ Len(rest) = Len(ring) - n
    BY <1>1
  <2>2. ring' = rest \o stash \/ ring' = rest
    BY DEF ReadChunkOf
  <2> HIDE DEF rest
  <2> QED
    BY <1>1, <2>1, <2>2
<1>4. Announced(events, Len(events)) + remaining <= Len(ring)
  BY <1>1, AllAnnounced DEF RoomInv, ReadNeverWaits
<1>5. Announced(events, Len(events)) \in Nat
  BY <1>1, AnnouncedTypes
<1>6. Announced(events', Len(events')) + (remaining' - Len(data')) <= Len(ring')
  BY <1>1, <1>2, <1>3, <1>4, <1>5
<1>7. ReadNeverWaits'
  BY <1>1, <1>6, AllAnnounced DEF ReadNeverWaits
<1> QED
  BY <1>1, <1>7 DEF RoomInv, NothingOwed, QueueFits

\* Every step keeps the room; a flush and a reset start over with nothing owed.
LEMMA RoomStep == RoomInv /\ [Next]_vars => RoomInv'
<1> SUFFICES ASSUME RoomInv, [Next]_vars PROVE RoomInv'
  OBVIOUS
<1>1. IInv'
  BY TypeStep DEF RoomInv
<1>2. CASE FlushInput
  BY <1>1, <1>2 DEF FlushInput, RoomInv, NothingOwed, QueueFits, ReadNeverWaits
<1>3. CASE ResetQueue
  <2>1. events' = <<>> /\ events' \in Seq(Event) /\ Len(events') = 0 /\ remaining' = 0 /\ pc' = "wait"
    BY <1>3, EmptySeqs DEF ResetQueue, RoomInv, NothingOwed
  <2>2. Announced(events', Len(events')) = 0
    BY <2>1, AnnouncedTypes
  <2>3. Len(ring') \in Nat
    BY <1>1 DEF IInv, TypeOK
  <2>4. SumFunction([k \in DOMAIN events' |-> events'[k].size]) = 0
    BY <2>1, <2>2, AllAnnounced
  <2>5. ReadNeverWaits'
    BY <2>1, <2>3, <2>4 DEF ReadNeverWaits
  <2> QED
    BY <1>1, <2>1, <2>5, Sizes DEF RoomInv, NothingOwed, QueueFits
<1>4. CASE TakeEvent
  BY <1>1, <1>4, TakeKeepsRoom
<1>5. CASE EventDone
  BY <1>1, <1>5, QuietKeepsRoom DEF EventDone, driver, process, Owed
<1>6. ASSUME NEW n \in 1..ReadChunk, NEW val \in [1..n -> Bytes], ReadChunkOf(n, val)
      PROVE  RoomInv'
  BY <1>1, <1>6, ReadKeepsRoom
<1>7. CASE Splitting
  <2>1. pc' = pc /\ pc = "push" /\ UNCHANGED <<events, ring, remaining, data>>
    BY <1>7 DEF Splitting, Hunt, Header, BodyByte, GoodFrame, BadCrc, Pushing, Untouched,
       Collect, Replay, driver, process
  <2> QED
    BY <1>1, <2>1, QuietKeepsRoom DEF Owed
<1>8. CASE EndOfReplay
  BY <1>1, <1>8, QuietKeepsRoom DEF EndOfReplay, driver, Owed
<1>9. CASE ChunkDone
  BY <1>1, <1>9, QuietKeepsRoom DEF ChunkDone, driver, Owed
<1>10. ASSUME NEW n \in 1..MaxBurst, ReceiveBurst(n) PROVE RoomInv'
  <2>1. n \in Nat /\ n \in 0..MaxBurst /\ 0 \in 0..MaxBurst
    BY Sizes
  <2>2. ring \in Seq(Positions) /\ Len([k \in 1..n |-> sent + k]) = n
        /\ Len(ring \o [k \in 1..n |-> sent + k]) = Len(ring) + n
    <3>1. ring \in Seq(Positions) /\ sent \in Nat /\ sent + n <= MaxLine
      BY <1>10 DEF ReceiveBurst, RoomInv, IInv, TypeOK
    <3>2. \A k \in 1..n : sent + k \in Positions
      BY <2>1, <3>1, Sizes DEF Positions
    <3>3. [k \in 1..n |-> sent + k] \in Seq(Positions) /\ Len([k \in 1..n |-> sent + k]) = n
      BY <2>1, <3>2
    <3> QED
      BY <3>1, <3>3
  <2>3. CASE Len(ring) + n <= RingSize
    <3> DEFINE x == [type |-> "UART_DATA", size |-> n]
    <3>1. x \in Event /\ x.type = "UART_DATA" /\ x.size = n
      BY <2>1 DEF Event
    <3>2. Post("UART_DATA", n) /\ ring' = ring \o [k \in 1..n |-> sent + k] /\ UNCHANGED reader
      BY <1>10, <2>3 DEF ReceiveBurst
    <3> HIDE DEF x
    <3>3. Len(ring') >= Len(ring) + x.size
      BY <2>1, <2>2, <3>1, <3>2
    <3> QED
      BY <1>1, <3>1, <3>2, <3>3, PostKeepsRoom
  <2>4. CASE ~(Len(ring) + n <= RingSize)
    <3> DEFINE x == [type |-> "UART_BUFFER_FULL", size |-> 0]
    <3>1. x \in Event /\ x.type = "UART_BUFFER_FULL" /\ x.size = 0
      BY <2>1 DEF Event
    <3>2. Post("UART_BUFFER_FULL", 0) /\ ring' = ring /\ UNCHANGED reader
      BY <1>10, <2>4 DEF ReceiveBurst
    <3> HIDE DEF x
    <3>3. Len(ring') >= Len(ring) + x.size
      BY <2>2, <3>1, <3>2
    <3> QED
      BY <1>1, <3>1, <3>2, <3>3, PostKeepsRoom
  <2> QED
    BY <2>3, <2>4
<1>11. CASE FifoOverflow
  <2> DEFINE x == [type |-> "UART_FIFO_OVF", size |-> 0]
  <2>1. x \in Event /\ x.type = "UART_FIFO_OVF" /\ x.size = 0
    BY Sizes DEF Event
  <2>2. Post("UART_FIFO_OVF", 0) /\ ring' = ring /\ UNCHANGED reader
    BY <1>11 DEF FifoOverflow
  <2> HIDE DEF x
  <2>3. Len(ring') >= Len(ring) + x.size
    BY <2>1, <2>2 DEF RoomInv, IInv, TypeOK
  <2> QED
    BY <1>1, <2>1, <2>2, <2>3, PostKeepsRoom
<1>12. CASE UNCHANGED vars
  BY <1>1, <1>12, QuietKeepsRoom DEF vars, driver, process, Owed, RoomInv, NothingOwed
<1> QED
  BY <1>2, <1>3, <1>4, <1>5, <1>6, <1>7, <1>8, <1>9, <1>10, <1>11, <1>12
     DEF Next, ReaderStep, DriverStep, Splitting

\* For every size of the ring, depth of the event queue and chunk: whatever
\* events are lost to a full queue and however overflows and flushes interleave,
\* uart_read_bytes finds all that was announced (gnss_uart.c:512-527).
THEOREM ReadsAreReady == Spec => []ReadNeverWaits
<1>1. RoomInv => ReadNeverWaits
  BY DEF RoomInv
<1> QED
  BY <1>1, RoomInit, RoomStep, PTL DEF Spec

-----------------------------------------------------------------------------
(* LossResetsSplitter.  Unless an event of a loss was itself lost, there is *)
(* a number b of the last byte read from which everything is in order:      *)
(* either nothing was lost since the last flush, and the bytes read, in the *)
(* ring and in the stash are the last ones of the stream; or the queue has  *)
(* an event of the loss, and the events in front of it announce no more     *)
(* bytes than precede the gap, so the reader flushes before it gets there.  *)

\* The bytes read end with number b, and the ring begins behind it.
FedUpTo(b)     == \A k \in 1..Len(fed) : fed[k].at = (b - Len(fed)) + k
RingFrom(b, c) == \A k \in 1..c : ring[k] = b + k

\* Ring and stash go on where the reader is, to the end of the stream.
NothingLost(b) ==
    /\ RingFrom(b, Len(ring))
    /\ \A k \in 1..Len(stash) : stash[k] = (b + Len(ring)) + k
    /\ sent = (b + Len(ring)) + Len(stash)

\* The n-th event tells of a loss, and c bytes in front of the gap are enough for
\* the events before it.
Announcing(b, c, n) ==
    /\ RingFrom(b, c)
    /\ events[n].type # "UART_DATA"
    /\ Announced(events, n - 1) + Owed <= c

LossAhead(b) == \E c \in 0..Len(ring), n \in 1..Len(events) : Announcing(b, c, n)

\* What holds in every phase of the reader's loop.
InOrder(b) ==
    /\ pc = "reset" => NothingLost(b)
    /\ pc # "reset" => FedUpTo(b)
    /\ pc \notin {"reset", "flush"} => NothingLost(b) \/ LossAhead(b)

LossInv == RoomInv /\ (~missed => \E b \in Int : InOrder(b))

\* Nothing was read or sent at first.
LEMMA LossInit == Init => LossInv
<1> SUFFICES ASSUME Init PROVE InOrder(0)
  BY RoomInit DEF LossInv
<1> QED
  BY DEF Init, InOrder, FedUpTo

\* Sequences of bytes and numbers.
LEMMA Streams ==
  ASSUME TypeOK
  PROVE  /\ Len(ring) \in Nat /\ Len(stash) \in Nat /\ Len(fed) \in Nat
         /\ Len(events) \in Nat /\ events \in Seq(Event)
         /\ remaining \in Nat /\ Len(data) \in Nat /\ sent \in Nat /\ Owed \in Int
<1>1. ring \in Seq(Positions) /\ stash \in Seq(Positions)
  BY DEF TypeOK
<1>2. fed \in Seq(Byte) /\ data \in Seq(Byte)
  BY DEF TypeOK
<1>3. events \in Seq(Event)
  BY DEF TypeOK
<1>4. remaining \in Nat /\ sent \in Nat
  BY Sizes DEF TypeOK
<1> QED
  BY <1>1, <1>2, <1>3, <1>4 DEF Owed

\* A sequence behind another one.
LEMMA Joined ==
  ASSUME NEW S, NEW s \in Seq(S), NEW t \in Seq(S)
  PROVE  /\ Len(s) \in Nat /\ Len(t) \in Nat
         /\ Len(s \o t) = Len(s) + Len(t)
         /\ \A k \in 1..Len(s) : (s \o t)[k] = s[k]
         /\ \A k \in 1..Len(t) : (s \o t)[Len(s) + k] = t[k]
OBVIOUS

\* What is posted leaves the events in front of it alone.
LEMMA PostedBehind ==
  ASSUME TypeOK, TypeOK', NEW x \in Event, Post(x.type, x.size), NEW m \in 1..Len(events)
  PROVE  /\ m \in 1..Len(events') /\ events'[m] = events[m]
         /\ Announced(events', m - 1) = Announced(events, m - 1)
<1>1. events \in Seq(Event) /\ Len(events) \in Nat
  BY Streams
<1>2. x = [type |-> x.type, size |-> x.size]
  BY DEF Event
<1>3. events' = events \/ events' = Append(events, x)
  BY <1>2 DEF Post
<1>4. CASE events' = Append(events, x)
  <2>1. Len(events') = Len(events) + 1 /\ \A k \in 1..Len(events) : events'[k] = events[k]
    BY <1>1, <1>4
  <2>2. m - 1 \in 0..Len(events) /\ m \in 1..Len(events')
    BY <1>1, <2>1
  <2> QED
    BY <1>1, <1>4, <2>1, <2>2, AnnouncedBehind
<1> QED
  BY <1>3, <1>4

\* Steps that move no byte and no event, and do not leave the flush.
LEMMA QuietKeepsOrder ==
  ASSUME LossInv, RoomInv', UNCHANGED <<sent, ring, stash, events, fed, missed>>,
         Owed' = Owed, pc # "reset", pc' # "reset",
         pc' # "flush" => pc # "flush"
  PROVE  LossInv'
<1> SUFFICES ASSUME ~missed PROVE \E b \in Int : InOrder(b)'
  BY DEF LossInv
<1>1. PICK b \in Int : InOrder(b)
  BY DEF LossInv
<1>2. InOrder(b)'
  BY <1>1 DEF InOrder, FedUpTo, NothingLost, RingFrom, LossAhead, Announcing
<1> QED
  BY <1>2

\* The event of the loss comes closer by the one taken, or is the one taken.
LEMMA TakeKeepsOrder ==
  ASSUME LossInv, RoomInv', TakeEvent
  PROVE  LossInv'
<1> SUFFICES ASSUME ~missed PROVE \E b \in Int : InOrder(b)'
  BY DEF LossInv, TakeEvent
<1>1. PICK b \in Int : InOrder(b)
  BY DEF LossInv
<1>2. /\ pc = "wait" /\ pc' \in {"read", "flush"} /\ events # <<>> /\ events' = Tail(events)
      /\ (pc' = "read" => Head(events).type = "UART_DATA")
      /\ remaining' = Head(events).size
      /\ UNCHANGED <<sent, ring, stash, fed>>
  BY DEF TakeEvent
<1>3. FedUpTo(b)'
  BY <1>1, <1>2 DEF InOrder, FedUpTo
<1>4. CASE pc' = "flush"
  BY <1>3, <1>4 DEF InOrder
<1>5. CASE pc' = "read" /\ NothingLost(b)
  <2>1. NothingLost(b)'
    BY <1>2, <1>5 DEF NothingLost, RingFrom
  <2> QED
    BY <1>3, <1>5, <2>1 DEF InOrder
<1>6. CASE pc' = "read" /\ LossAhead(b)
  <2>1. TypeOK
    BY DEF LossInv, RoomInv, IInv
  <2>2. PICK c \in 0..Len(ring), n \in 1..Len(events) : Announcing(b, c, n)
    BY <1>6 DEF LossAhead
  <2>3. /\ events \in Seq(Event) /\ Len(events) \in Nat
        /\ Len(events') = Len(events) - 1 /\ Head(events) = events[1]
        /\ \A k \in 1..Len(events') : events'[k] = events[k + 1]
    BY <1>2, <2>1, Streams
  <2>4. n # 1
    BY <1>2, <1>6, <2>2, <2>3 DEF Announcing
  <2>5. PICK m \in 1..Len(events') : n = m + 1
    <3>1. n - 1 \in 1..Len(events') /\ n = (n - 1) + 1
      BY <2>3, <2>4
    <3> QED
      BY <3>1
  <2>6. Announced(events, m) = Head(events).size + Announced(events', m - 1)
    BY <1>2, <2>3, <2>5, AnnouncedAfter
  <2>7. Owed = 0 /\ Owed' = Head(events).size
    BY <1>2, <1>6 DEF LossInv, RoomInv, NothingOwed, Owed
  <2>8. Announced(events, m) + 0 <= c
    BY <2>2, <2>5, <2>7 DEF Announcing
  <2>9. /\ Head(events).size \in Nat
        /\ Announced(events', m - 1) \in Nat
    <3>1. Head(events) \in Event /\ events' \in Seq(Event) /\ m - 1 \in 0..Len(events')
      BY <1>2, <2>3, <2>5
    <3>2. Head(events).size \in Nat
      BY <3>1, Sizes DEF Event
    <3>3. Announced(events', m - 1) \in Nat
      BY <3>1, AnnouncedTypes
    <3> QED
      BY <3>2, <3>3
  <2>10. Announced(events', m - 1) + Owed' <= c
    BY <2>6, <2>7, <2>8, <2>9
  <2>11. events'[m].type # "UART_DATA"
    BY <2>2, <2>3, <2>5 DEF Announcing
  <2>12. RingFrom(b, c)'
    BY <1>2, <2>2 DEF Announcing, RingFrom
  <2>13. LossAhead(b)'
    BY <1>2, <2>10, <2>11, <2>12 DEF LossAhead, Announcing
  <2> QED
    BY <1>3, <1>6, <2>13 DEF InOrder
<1> QED
  BY <1>1, <1>2, <1>4, <1>5, <1>6 DEF InOrder

\* What is read was in front of the gap; the stash goes behind the ring.
LEMMA ReadKeepsOrder ==
  ASSUME LossInv, RoomInv',
         NEW n \in 1..ReadChunk, NEW val \in [1..n -> Bytes], ReadChunkOf(n, val)
  PROVE  LossInv'
<1> SUFFICES ASSUME ~missed PROVE \E b \in Int : InOrder(b)'
  BY DEF LossInv, ReadChunkOf
<1>1. PICK b \in Int : InOrder(b)
  BY DEF LossInv
<1>2. TypeOK /\ TypeOK'
  BY DEF LossInv, RoomInv, IInv
<1>3. /\ pc = "read" /\ pc' = "push" /\ UNCHANGED <<sent, events, remaining>>
      /\ n \in Nat /\ n >= 1 /\ n <= remaining /\ n <= Len(ring)
      /\ data' = [k \in 1..n |-> [at |-> ring[k], val |-> val[k]]]
      /\ fed' = fed \o data'
  BY <1>2, Streams, Sizes DEF ReadChunkOf
<1>4. /\ Len(data') = n /\ Len(fed') = Len(fed) + n
      /\ \A k \in 1..Len(fed) : fed'[k] = fed[k]
      /\ \A k \in 1..n : fed'[Len(fed) + k].at = ring[k]
  <2>1. data' \in Seq(Byte) /\ Len(data') = n /\ fed \in Seq(Byte)
    <3>1. data' \in Seq(Byte) /\ fed \in Seq(Byte)
      BY <1>2 DEF TypeOK
    <3>2. Len([k \in 1..n |-> [at |-> ring[k], val |-> val[k]]]) = n
      BY <1>3
    <3> QED
      BY <1>3, <3>1, <3>2
  <2>2. \A k \in 1..n : data'[k].at = ring[k]
    BY <1>3
  <2>3. /\ Len(fed \o data') = Len(fed) + n
        /\ \A k \in 1..Len(fed) : (fed \o data')[k] = fed[k]
        /\ \A k \in 1..n : (fed \o data')[Len(fed) + k] = data'[k]
    BY <2>1, Joined
  <2> QED
    BY <1>3, <2>1, <2>2, <2>3
<1> DEFINE rest == SubSeq(ring, n + 1, Len(ring))
<1>5. /\ Len(rest) = Len(ring) - n
      /\ \A k \in 1..Len(rest) : rest[k] = ring[n + k]
      /\ rest \in Seq(Positions) /\ stash \in Seq(Positions)
  <2>1. ring \in Seq(Positions) /\ stash \in Seq(Positions)
    BY <1>2 DEF TypeOK
  <2> QED
    BY <1>3, <2>1
<1>6. \/ ring' = rest \o stash /\ stash' = <<>>
      \/ ring' = rest /\ stash' = stash
  BY DEF ReadChunkOf
<1> HIDE DEF rest
<1>7. /\ Len(ring) \in Nat /\ Len(stash) \in Nat /\ Len(fed) \in Nat
      /\ Len(events) \in Nat /\ events \in Seq(Event) /\ remaining \in Nat
      /\ sent \in Nat /\ Len(ring') \in Nat /\ Len(stash') \in Nat
  <2>1. ring' \in Seq(Positions) /\ stash' \in Seq(Positions)
    BY <1>2 DEF TypeOK
  <2> QED
    BY <1>2, <2>1, Streams
<1>8. /\ Len(ring') + Len(stash') = (Len(ring) - n) + Len(stash)
      /\ Len(ring') >= Len(ring) - n
      /\ \A k \in 1..(Len(ring) - n) : ring'[k] = ring[n + k]
      /\ \/ stash' = stash /\ Len(ring') = Len(ring) - n
         \/ /\ stash' = <<>>
            /\ \A k \in 1..Len(stash) : ring'[(Len(ring) - n) + k] = stash[k]
  <2>1. CASE ring' = rest \o stash /\ stash' = <<>>
    <3>1. /\ Len(rest \o stash) = Len(rest) + Len(stash)
          /\ \A k \in 1..Len(rest) : (rest \o stash)[k] = rest[k]
          /\ \A k \in 1..Len(stash) : (rest \o stash)[Len(rest) + k] = stash[k]
      <4>1. rest \in Seq(Positions) /\ stash \in Seq(Positions)
        BY <1>5
      <4> QED
        BY <4>1, Joined
    <3>2. /\ Len(ring') = (Len(ring) - n) + Len(stash) /\ Len(stash') = 0
          /\ \A k \in 1..(Len(ring) - n) : ring'[k] = ring[n + k]
          /\ \A k \in 1..Len(stash) : ring'[(Len(ring) - n) + k] = stash[k]
      BY <1>5, <2>1, <3>1
    <3> QED
      BY <1>3, <1>7, <2>1, <3>2
  <2>2. CASE ring' = rest /\ stash' = stash
    <3>1. Len(ring') = Len(ring) - n /\ \A k \in 1..(Len(ring) - n) : ring'[k] = ring[n + k]
      BY <1>5, <2>2
    <3> QED
      BY <1>3, <1>7, <2>2, <3>1
  <2> QED
    BY <1>6, <2>1, <2>2
<1>9. ASSUME NEW c \in 0..Len(ring), RingFrom(b, c), n <= c
      PROVE  FedUpTo(b + n)' /\ \A k \in 1..(c - n) : ring'[k] = (b + n) + k
  <2>1. FedUpTo(b)
    BY <1>1, <1>3 DEF InOrder
  <2>2. ASSUME NEW k \in 1..Len(fed') PROVE fed'[k].at = ((b + n) - Len(fed')) + k
    <3>1. CASE k <= Len(fed)
      <4>1. k \in 1..Len(fed)
        BY <3>1
      <4>2. fed'[k].at = (b - Len(fed)) + k
        BY <1>4, <2>1, <4>1 DEF FedUpTo
      <4> QED
        BY <1>3, <1>4, <1>7, <4>2
    <3>2. CASE ~(k <= Len(fed))
      <4>1. PICK m \in 1..n : k = Len(fed) + m
        <5>1. k - Len(fed) \in 1..n /\ k = Len(fed) + (k - Len(fed))
          BY <1>3, <1>4, <1>7, <3>2
        <5> QED
          BY <5>1
      <4>2. fed'[k].at = ring[m]
        BY <1>4, <4>1
      <4>3. ring[m] = b + m
        BY <1>3, <1>9, <4>1 DEF RingFrom
      <4> QED
        BY <1>3, <1>4, <1>7, <4>1, <4>2, <4>3
    <3> QED
      BY <3>1, <3>2
  <2>3. ASSUME NEW k \in 1..(c - n) PROVE ring'[k] = (b + n) + k
    <3>1. k \in 1..(Len(ring) - n) /\ n + k \in 1..c
      BY <1>3, <1>7, <1>9
    <3>2. ring'[k] = ring[n + k] /\ ring[n + k] = b + (n + k)
      BY <1>8, <1>9, <3>1 DEF RingFrom
    <3> QED
      BY <1>3, <3>2
  <2> QED
    BY <2>2, <2>3 DEF FedUpTo
<1>10. CASE NothingLost(b)
  <2>1. /\ FedUpTo(b + n)'
        /\ \A k \in 1..(Len(ring) - n) : ring'[k] = (b + n) + k
    <3>1. RingFrom(b, Len(ring)) /\ Len(ring) \in 0..Len(ring)
      BY <1>7, <1>10 DEF NothingLost
    <3> QED
      BY <1>3, <1>9, <3>1
  <2>2. /\ \A k \in 1..Len(stash) : stash[k] = (b + Len(ring)) + k
        /\ sent = (b + Len(ring)) + Len(stash)
    BY <1>10 DEF NothingLost
  <2>3. sent' = ((b + n) + Len(ring')) + Len(stash')
    <3>1. Len(ring') + Len(stash') = (Len(ring) - n) + Len(stash)
      BY <1>8
    <3>2. sent' = (b + Len(ring)) + Len(stash)
      BY <1>3, <2>2
    <3>3. /\ b \in Int /\ n \in Int /\ Len(ring) \in Int /\ Len(stash) \in Int
          /\ Len(ring') \in Int /\ Len(stash') \in Int
      BY <1>3, <1>7
    <3>4. \A x, y, r, t, u, v \in Int : x + y = (r - u) + t => ((v + u) + x) + y = (v + r) + t
      OBVIOUS
    <3>5. ((b + n) + Len(ring')) + Len(stash') = (b + Len(ring)) + Len(stash)
      BY <3>1, <3>3, <3>4
    <3> QED
      BY <3>2, <3>5
  <2>4. /\ \A k \in 1..Len(ring') : ring'[k] = (b + n) + k
        /\ \A k \in 1..Len(stash') : stash'[k] = ((b + n) + Len(ring')) + k
    <3>1. CASE stash' = stash /\ Len(ring') = Len(ring) - n
      <4>1. (b + n) + Len(ring') = b + Len(ring)
        BY <1>3, <1>7, <3>1
      <4> QED
        BY <2>1, <2>2, <3>1, <4>1
    <3>2. CASE /\ stash' = <<>>
               /\ \A k \in 1..Len(stash) : ring'[(Len(ring) - n) + k] = stash[k]
      <4>1. Len(ring') = (Len(ring) - n) + Len(stash)
        BY <1>3, <1>7, <1>8, <3>2
      <4>2. ASSUME NEW k \in 1..Len(ring') PROVE ring'[k] = (b + n) + k
        <5>1. CASE k <= Len(ring) - n
          BY <1>3, <1>7, <2>1, <5>1
        <5>2. CASE ~(k <= Len(ring) - n)
          <6>1. PICK m \in 1..Len(stash) : k = (Len(ring) - n) + m
            <7>1. /\ k - (Len(ring) - n) \in 1..Len(stash)
                  /\ k = (Len(ring) - n) + (k - (Len(ring) - n))
              BY <1>3, <1>7, <4>1, <5>2
            <7> QED
              BY <7>1
          <6>2. ring'[k] = (b + Len(ring)) + m
            BY <2>2, <3>2, <6>1
          <6> QED
            BY <1>3, <1>7, <6>1, <6>2
        <5> QED
          BY <5>1, <5>2
      <4> QED
        BY <3>2, <4>2
    <3> QED
      BY <1>8, <3>1, <3>2
  <2>5. NothingLost(b + n)'
    BY <2>3, <2>4 DEF NothingLost, RingFrom
  <2>6. InOrder(b + n)'
    BY <1>3, <2>1, <2>5 DEF InOrder
  <2> QED
    BY <1>3, <2>6
<1>11. CASE LossAhead(b)
  <2>1. PICK c \in 0..Len(ring), m \in 1..Len(events) : Announcing(b, c, m)
    BY <1>11 DEF LossAhead
  <2>2. Announced(events, m - 1) \in Nat
    <3>1. m - 1 \in 0..Len(events)
      BY <1>7
    <3> QED
      BY <1>7, <3>1, AnnouncedTypes
  <2>3. Owed = remaining /\ Owed' = remaining - n
    BY <1>3, <1>4 DEF Owed
  <2>4. n <= c /\ Announced(events, m - 1) + (remaining - n) <= c - n
    <3>1. Announced(events, m - 1) + remaining <= c
      BY <2>1, <2>3 DEF Announcing
    <3>2. n \in Nat /\ n <= remaining /\ remaining \in Nat /\ c \in Nat
      BY <1>3, <1>7, <2>1
    <3> QED
      BY <2>2, <3>1, <3>2
  <2>5. FedUpTo(b + n)' /\ \A k \in 1..(c - n) : ring'[k] = (b + n) + k
    BY <1>9, <2>1, <2>4 DEF Announcing
  <2>6. c - n \in 0..Len(ring')
    BY <1>3, <1>7, <1>8, <2>4
  <2>7. Announcing(b + n, c - n, m)'
    BY <1>3, <2>1, <2>3, <2>4, <2>5 DEF Announcing, RingFrom
  <2>8. LossAhead(b + n)'
    BY <1>3, <2>6, <2>7 DEF LossAhead
  <2>9. InOrder(b + n)'
    BY <1>3, <2>5, <2>8 DEF InOrder
  <2> QED
    BY <1>3, <2>9
<1> QED
  BY <1>1, <1>3, <1>10, <1>11 DEF InOrder

\* New bytes come behind all others, in the ring or in the stash.
LEMMA BurstKeepsOrder ==
  ASSUME LossInv, RoomInv', NEW n \in 1..MaxBurst, ReceiveBurst(n), pc # "push"
  PROVE  LossInv'
<1> SUFFICES ASSUME ~missed PROVE \E b \in Int : InOrder(b)'
  BY DEF LossInv, ReceiveBurst
<1>1. PICK b \in Int : InOrder(b)
  BY DEF LossInv
<1>2. TypeOK /\ TypeOK'
  BY DEF LossInv, RoomInv, IInv
<1> DEFINE new == [k \in 1..n |-> sent + k]
<1>3. /\ stash = <<>> /\ sent' = sent + n /\ n \in Nat
      /\ UNCHANGED <<pc, remaining, data, fed>>
      /\ \/ ring' = ring \o new /\ stash' = <<>> /\ Post("UART_DATA", n)
         \/ ring' = ring /\ stash' = new /\ Post("UART_BUFFER_FULL", 0)
  BY DEF ReceiveBurst, reader, process
<1>4. /\ new \in Seq(Positions) /\ Len(new) = n /\ \A k \in 1..n : new[k] = sent + k
      /\ ring \in Seq(Positions)
  <2>1. sent \in Nat /\ sent + n <= MaxLine
    BY <1>2, Streams DEF ReceiveBurst
  <2>2. \A k \in 1..n : sent + k \in Positions
    BY <1>3, <2>1, Sizes DEF Positions
  <2> QED
    BY <1>2, <1>3, <2>2 DEF TypeOK
<1> HIDE DEF new
<1>5. /\ Len(ring) \in Nat /\ Len(stash) = 0 /\ Len(events) \in Nat
      /\ events \in Seq(Event) /\ sent \in Nat
  BY <1>2, <1>3, Streams
<1>6. /\ \A k \in 1..Len(ring) : ring'[k] = ring[k]
      /\ \/ /\ Len(ring') = Len(ring) + n /\ Len(stash') = 0
            /\ \A k \in 1..n : ring'[Len(ring) + k] = sent + k
         \/ /\ Len(ring') = Len(ring) /\ Len(stash') = n
            /\ \A k \in 1..n : stash'[k] = sent + k
  <2>1. /\ Len(ring \o new) = Len(ring) + n
        /\ \A k \in 1..Len(ring) : (ring \o new)[k] = ring[k]
        /\ \A k \in 1..n : (ring \o new)[Len(ring) + k] = new[k]
    <3>1. new \in Seq(Positions) /\ ring \in Seq(Positions)
      BY <1>4
    <3>2. /\ Len(ring \o new) = Len(ring) + Len(new)
          /\ \A k \in 1..Len(ring) : (ring \o new)[k] = ring[k]
          /\ \A k \in 1..Len(new) : (ring \o new)[Len(ring) + k] = new[k]
      BY <3>1, Joined
    <3> QED
      BY <1>4, <3>2
  <2>2. CASE ring' = ring \o new /\ stash' = <<>>
    BY <1>4, <2>1, <2>2
  <2>3. CASE ring' = ring /\ stash' = new
    BY <1>4, <2>3
  <2> QED
    BY <1>3, <2>2, <2>3
<1>7. FedUpTo(b) => FedUpTo(b)'
  BY <1>3 DEF FedUpTo
<1>8. NothingLost(b) => NothingLost(b)'
  <2> SUFFICES ASSUME NothingLost(b) PROVE NothingLost(b)'
    OBVIOUS
  <2>1. (\A k \in 1..Len(ring) : ring[k] = b + k) /\ sent = b + Len(ring)
    BY <1>5 DEF NothingLost, RingFrom
  <2>2. CASE /\ Len(ring') = Len(ring) + n /\ Len(stash') = 0
             /\ \A k \in 1..n : ring'[Len(ring) + k] = sent + k
    <3>1. ASSUME NEW k \in 1..Len(ring') PROVE ring'[k] = b + k
      <4>1. CASE k <= Len(ring)
        BY <1>5, <1>6, <2>1, <4>1
      <4>2. CASE ~(k <= Len(ring))
        <5>1. PICK m \in 1..n : k = Len(ring) + m
          <6>1. k - Len(ring) \in 1..n /\ k = Len(ring) + (k - Len(ring))
            BY <1>3, <1>5, <2>2, <4>2
          <6> QED
            BY <6>1
        <5>2. ring'[Len(ring) + m] = sent + m
          BY <2>2, <5>1
        <5>3. sent + m = b + (Len(ring) + m)
          <6>1. m \in Int /\ sent = b + Len(ring)
            BY <1>3, <2>1, <5>1
          <6> QED
            BY <1>5, <6>1
        <5> QED
          BY <5>1, <5>2, <5>3
      <4> QED
        BY <4>1, <4>2
    <3>2. sent' = (b + Len(ring')) + Len(stash')
      BY <1>3, <1>5, <2>1, <2>2
    <3>3. \A k \in 1..Len(stash') : stash'[k] = (b + Len(ring')) + k
      BY <2>2
    <3> QED
      BY <3>1, <3>2, <3>3 DEF NothingLost, RingFrom
  <2>3. CASE /\ Len(ring') = Len(ring) /\ Len(stash') = n
             /\ \A k \in 1..n : stash'[k] = sent + k
    <3>1. \A k \in 1..Len(ring') : ring'[k] = b + k
      BY <1>6, <2>1, <2>3
    <3>2. sent' = (b + Len(ring')) + Len(stash')
      BY <1>3, <1>5, <2>1, <2>3
    <3>3. \A k \in 1..Len(stash') : stash'[k] = (b + Len(ring')) + k
      BY <2>1, <2>3
    <3> QED
      BY <3>1, <3>2, <3>3 DEF NothingLost, RingFrom
  <2> QED
    BY <1>6, <2>2, <2>3
<1>9. LossAhead(b) => LossAhead(b)'
  <2> SUFFICES ASSUME LossAhead(b) PROVE LossAhead(b)'
    OBVIOUS
  <2>1. PICK c \in 0..Len(ring), m \in 1..Len(events) : Announcing(b, c, m)
    BY DEF LossAhead
  <2>2. PICK x \in Event : Post(x.type, x.size)
    <3>1. /\ [type |-> "UART_DATA", size |-> n] \in Event
          /\ [type |-> "UART_BUFFER_FULL", size |-> 0] \in Event
      BY Sizes DEF Event
    <3>2. CASE Post("UART_DATA", n)
      <4> DEFINE x == [type |-> "UART_DATA", size |-> n]
      <4>1. x \in Event /\ x.type = "UART_DATA" /\ x.size = n
        BY <3>1
      <4> HIDE DEF x
      <4> QED
        BY <3>2, <4>1
    <3>3. CASE Post("UART_BUFFER_FULL", 0)
      <4> DEFINE x == [type |-> "UART_BUFFER_FULL", size |-> 0]
      <4>1. x \in Event /\ x.type = "UART_BUFFER_FULL" /\ x.size = 0
        BY <3>1
      <4> HIDE DEF x
      <4> QED
        BY <3>3, <4>1
    <3> QED
      BY <1>3, <3>2, <3>3
  <2>3. /\ m \in 1..Len(events') /\ events'[m] = events[m]
        /\ Announced(events', m - 1) = Announced(events, m - 1)
    BY <1>2, <2>1, <2>2, PostedBehind
  <2>4. c \in 0..Len(ring') /\ RingFrom(b, c)'
    BY <1>3, <1>5, <1>6, <2>1 DEF Announcing, RingFrom
  <2>5. Owed' = Owed
    BY <1>3 DEF Owed
  <2> QED
    BY <2>1, <2>3, <2>4, <2>5 DEF LossAhead, Announcing
<1>10. InOrder(b)'
  BY <1>1, <1>3, <1>7, <1>8, <1>9 DEF InOrder
<1> QED
  BY <1>10

\* A byte is gone: its event is behind all that the ring holds (ReadNeverWaits).
LEMMA OverflowKeepsOrder ==
  ASSUME LossInv, RoomInv', FifoOverflow, pc # "push"
  PROVE  LossInv'
<1> SUFFICES ASSUME ~missed' PROVE \E b \in Int : InOrder(b)'
  BY DEF LossInv
<1> DEFINE x == [type |-> "UART_FIFO_OVF", size |-> 0]
<1>1. /\ ~missed /\ Len(events) # EventDepth /\ pc # "reset"
      /\ Post(x.type, x.size)
      /\ UNCHANGED <<ring, stash, pc, remaining, data, fed>>
  BY DEF FifoOverflow, reader, process
<1>2. PICK b \in Int : InOrder(b)
  BY <1>1 DEF LossInv
<1>3. TypeOK /\ TypeOK'
  BY DEF LossInv, RoomInv, IInv
<1>4. x \in Event /\ x.type # "UART_DATA"
  BY Sizes DEF Event
<1> HIDE DEF x
<1>5. Len(events) \in Nat /\ events \in Seq(Event) /\ Len(ring) \in Nat
  BY <1>3, Streams
<1>6. FedUpTo(b)' /\ Owed' = Owed
  BY <1>1, <1>2 DEF InOrder, FedUpTo, Owed
<1>7. CASE pc = "flush"
  BY <1>1, <1>6, <1>7 DEF InOrder
<1>8. CASE pc # "flush" /\ LossAhead(b)
  <2>1. PICK c \in 0..Len(ring), m \in 1..Len(events) : Announcing(b, c, m)
    BY <1>8 DEF LossAhead
  <2>2. /\ m \in 1..Len(events') /\ events'[m] = events[m]
        /\ Announced(events', m - 1) = Announced(events, m - 1)
    BY <1>1, <1>3, <1>4, <2>1, PostedBehind
  <2>3. c \in 0..Len(ring') /\ RingFrom(b, c)'
    BY <1>1, <2>1 DEF Announcing, RingFrom
  <2>4. LossAhead(b)'
    BY <1>6, <2>1, <2>2, <2>3 DEF LossAhead, Announcing
  <2> QED
    BY <1>1, <1>6, <2>4 DEF InOrder
<1>9. CASE pc # "flush" /\ NothingLost(b) /\ events' = Append(events, x)
  <2>1. /\ Len(events') = Len(events) + 1 /\ events'[Len(events) + 1] = x
        /\ Announced(events', Len(events)) = Announced(events, Len(events))
    <3>1. Len(events) \in 0..Len(events)
      BY <1>5
    <3> QED
      BY <1>4, <1>5, <1>9, <3>1, AnnouncedBehind
  <2>2. Announced(events, Len(events)) + Owed <= Len(ring)
    <3>1. SumFunction([k \in DOMAIN events |-> events[k].size]) = Announced(events, Len(events))
      BY <1>5, AllAnnounced
    <3> QED
      BY <1>1, <3>1 DEF LossInv, RoomInv, ReadNeverWaits, Owed
  <2>3. PICK m \in 1..Len(events') : m = Len(events) + 1
    BY <1>5, <2>1
  <2>4. m - 1 = Len(events) /\ Len(ring) \in 0..Len(ring')
    BY <1>1, <1>5, <2>3
  <2>5. Announcing(b, Len(ring), m)'
    BY <1>1, <1>4, <1>6, <1>9, <2>1, <2>2, <2>3, <2>4 DEF Announcing, NothingLost, RingFrom
  <2>6. LossAhead(b)'
    BY <1>1, <2>4, <2>5 DEF LossAhead
  <2> QED
    BY <1>1, <1>6, <2>6 DEF InOrder
<1>10. events' = Append(events, x)
  <2>1. Len(events) < EventDepth
    BY <1>1, <1>5, Sizes DEF LossInv, RoomInv, QueueFits
  <2>2. x = [type |-> x.type, size |-> x.size]
    BY DEF x
  <2> QED
    BY <1>1, <2>1, <2>2 DEF Post
<1> QED
  BY <1>1, <1>2, <1>7, <1>8, <1>9, <1>10 DEF InOrder

\* After the flush nothing of the past is left.
LEMMA FlushKeepsOrder ==
  ASSUME LossInv, RoomInv', FlushInput
  PROVE  LossInv'
<1>1. pc' = "reset" /\ ring' = <<>> /\ stash' = <<>> /\ sent' = sent
  BY DEF FlushInput
<1>2. sent \in Int
  BY Streams DEF LossInv, RoomInv, IInv
<1>3. PICK b \in Int : b = sent
  BY <1>2
<1>4. NothingLost(b)'
  BY <1>1, <1>3 DEF NothingLost, RingFrom
<1>5. InOrder(b)'
  BY <1>1, <1>4 DEF InOrder
<1> QED
  BY <1>5 DEF LossInv

\* The splitter starts over behind the last byte that was flushed.
LEMMA ResetKeepsOrder ==
  ASSUME LossInv, RoomInv', ResetQueue
  PROVE  LossInv'
<1> SUFFICES ASSUME ~missed PROVE \E b \in Int : InOrder(b)'
  BY DEF LossInv, ResetQueue
<1>1. PICK b \in Int : InOrder(b)
  BY DEF LossInv
<1>2. /\ pc = "reset" /\ pc' = "wait" /\ UNCHANGED <<sent, ring, stash>>
      /\ fed' = <<>> /\ Len(fed') = 0
  BY DEF ResetQueue
<1>3. NothingLost(b)'
  BY <1>1, <1>2 DEF InOrder, NothingLost, RingFrom
<1>4. FedUpTo(b)'
  BY <1>2 DEF FedUpTo
<1>5. InOrder(b)'
  BY <1>2, <1>3, <1>4 DEF InOrder
<1> QED
  BY <1>5

\* Every step keeps the order.
LEMMA LossStep == LossInv /\ [Next]_vars => LossInv'
<1> SUFFICES ASSUME LossInv, [Next]_vars PROVE LossInv'
  OBVIOUS
<1>1. RoomInv'
  BY RoomStep DEF LossInv
<1>2. CASE FlushInput
  BY <1>1, <1>2, FlushKeepsOrder
<1>3. CASE ResetQueue
  BY <1>1, <1>3, ResetKeepsOrder
<1>4. CASE TakeEvent
  BY <1>1, <1>4, TakeKeepsOrder
<1>5. CASE EventDone
  BY <1>1, <1>5, QuietKeepsOrder DEF EventDone, driver, process, Owed
<1>6. ASSUME NEW n \in 1..ReadChunk, NEW val \in [1..n -> Bytes], ReadChunkOf(n, val)
      PROVE  LossInv'
  BY <1>1, <1>6, ReadKeepsOrder
<1>7. CASE Splitting
  <2>1. pc' = pc /\ pc = "push" /\ UNCHANGED <<driver, remaining, data, fed, missed>>
    BY <1>7 DEF Splitting, Hunt, Header, BodyByte, GoodFrame, BadCrc, Pushing, Untouched,
       Collect, Replay, process
  <2> QED
    BY <1>1, <2>1, QuietKeepsOrder DEF Owed, driver
<1>8. CASE EndOfReplay
  BY <1>1, <1>8, QuietKeepsOrder DEF EndOfReplay, driver, Owed
<1>9. CASE ChunkDone
  BY <1>1, <1>9, QuietKeepsOrder DEF ChunkDone, driver, Owed
<1>10. CASE DriverStep
  <2>1. ASSUME NEW n \in 1..MaxBurst, ReceiveBurst(n), pc # "push" PROVE LossInv'
    BY <1>1, <2>1, BurstKeepsOrder
  <2>2. ASSUME FifoOverflow, pc # "push" PROVE LossInv'
    BY <1>1, <2>2, OverflowKeepsOrder
  <2> QED
    BY <1>10, <2>1, <2>2 DEF DriverStep
<1>11. CASE UNCHANGED vars
  <2> SUFFICES ASSUME ~missed' PROVE \E b \in Int : InOrder(b)'
    BY <1>1 DEF LossInv
  <2>1. PICK b \in Int : InOrder(b)
    BY <1>11 DEF LossInv, vars
  <2>2. InOrder(b)'
    BY <1>11, <2>1 DEF vars, driver, process, InOrder, FedUpTo, NothingLost, RingFrom,
       LossAhead, Announcing, Owed
  <2> QED
    BY <2>2
<1> QED
  BY <1>2, <1>3, <1>4, <1>5, <1>6, <1>7, <1>8, <1>9, <1>10, <1>11
     DEF Next, ReaderStep, Splitting

\* Numbers that end in the same place are one apart.
LEMMA OrderHolds == LossInv => LossResetsSplitter
<1> SUFFICES ASSUME LossInv, pc # "reset", ~missed, NEW k \in 1..(Len(fed) - 1)
             PROVE  fed[k + 1].at = fed[k].at + 1
  BY DEF LossResetsSplitter
<1>1. PICK b \in Int : FedUpTo(b)
  BY DEF LossInv, InOrder
<1>2. Len(fed) \in Nat
  BY Streams DEF LossInv, RoomInv, IInv
<1>3. k \in 1..Len(fed) /\ k + 1 \in 1..Len(fed)
  BY <1>2
<1>4. fed[k].at = (b - Len(fed)) + k /\ fed[k + 1].at = (b - Len(fed)) + (k + 1)
  BY <1>1, <1>3 DEF FedUpTo
<1> QED
  BY <1>2, <1>4

\* For every size and depth: the splitter is never fed the bytes on both sides of
\* a loss in one run, unless the event that tells of it was dropped by a full
\* queue (gnss_uart.c:532-545).
THEOREM LossesReset == Spec => []LossResetsSplitter
BY LossInit, LossStep, OrderHolds, PTL DEF Spec

-----------------------------------------------------------------------------
(* The search for frames (Search).  What it does at a start depends on the *)
(* bytes up to the end of the candidate there only, so it goes the same    *)
(* way when more bytes come.                                               *)

Longer(x, w) == Len(w) <= Len(x) /\ \A k \in 1..Len(w) : x[k] = w[k]

\* Lengths come from the header: the constants of the code are numbers.
LEMMA FrameSizes ==
  HeaderLen \in Nat /\ HeaderLen >= 2 /\ TrailerLen \in Nat /\ TrailerLen > 0
  BY SizesAssumption

LEMMA Slice ==
  ASSUME NEW S, NEW s \in Seq(S), NEW a \in Nat, NEW b \in Nat, 1 <= a, b <= Len(s)
  PROVE  /\ SubSeq(s, a, b) \in Seq(S)
         /\ Len(SubSeq(s, a, b)) = IF a <= b THEN b - a + 1 ELSE 0
         /\ \A k \in 1..(b - a + 1) : SubSeq(s, a, b)[k] = s[a + k - 1]
<1>1. \A k \in a..b : s[k] \in S
  <2>1. \A k \in a..b : k \in 1..Len(s)
    OBVIOUS
  <2> QED
    BY <2>1
<1> QED
  BY <1>1, SubSeqProperties

LEMMA SliceLonger ==
  ASSUME NEW S, NEW w \in Seq(S), NEW x \in Seq(S), Longer(x, w),
         NEW a \in Nat, NEW b \in Nat, 1 <= a, b <= Len(w)
  PROVE  SubSeq(x, a, b) = SubSeq(w, a, b)
<1> DEFINE t == SubSeq(w, a, b)
           u == SubSeq(x, a, b)
           n == b - a + 1
<1>0. Len(w) \in Nat /\ Len(x) \in Nat /\ Len(w) <= Len(x) /\ n \in Int
  BY DEF Longer
<1>1. /\ t \in Seq(S) /\ Len(t) = IF a <= b THEN n ELSE 0
      /\ \A k \in 1..n : t[k] = w[a + k - 1]
  BY Slice
<1>2. /\ u \in Seq(S) /\ Len(u) = IF a <= b THEN n ELSE 0
      /\ \A k \in 1..n : u[k] = x[a + k - 1]
  <2>1. b <= Len(x)
    BY <1>0
  <2> QED
    BY <2>1, Slice
<1>3. \A k \in 1..n : a + k - 1 \in 1..Len(w)
  BY <1>0
<1>4. \A k \in 1..n : x[a + k - 1] = w[a + k - 1]
  BY <1>3 DEF Longer
<1> HIDE DEF t, u, n
<1>5. Len(u) = Len(t) /\ \A k \in 1..Len(u) : k \in 1..n
  BY <1>0, <1>1, <1>2 DEF n
<1>6. \A k \in 1..Len(u) : u[k] = t[k]
  BY <1>1, <1>2, <1>4, <1>5
<1>7. u = t
  BY <1>1, <1>2, <1>5, <1>6, SeqEqual
<1> QED
  BY <1>7 DEF t, u

\* A candidate ends in the text, not before its start.
LEMMA CandidateEnds ==
  ASSUME NEW w, Len(w) \in Nat, NEW p \in Nat \ {0}, Candidate(w, p)
  PROVE  /\ LastOf(w, p) \in Nat /\ p <= LastOf(w, p) /\ LastOf(w, p) <= Len(w)
         /\ p + HeaderLen - 1 <= LastOf(w, p)
<1>1. LengthOk(w, p) => PayloadLen(HeaderAt(w, p)) \in Nat
  <2>1. MaxPayload \in Nat
    BY SizesAssumption
  <2> QED
    BY <2>1 DEF LengthOk
<1> DEFINE l == PayloadLen(HeaderAt(w, p))
<1>2. LastOf(w, p) <= Len(w)
  BY DEF Candidate
<1>3. LastOf(w, p) = IF LengthOk(w, p) THEN p + HeaderLen + l + TrailerLen - 1
                     ELSE p + HeaderLen - 1
  BY DEF LastOf
<1> HIDE DEF l
<1>4. CASE LengthOk(w, p)
  <2>1. l \in Nat
    BY <1>1, <1>4 DEF l
  <2> QED
    BY <1>2, <1>3, <1>4, <2>1, FrameSizes
<1>5. CASE ~LengthOk(w, p)
  BY <1>2, <1>3, <1>5, FrameSizes
<1> QED
  BY <1>4, <1>5

LEMMA NextIn ==
  ASSUME NEW w, Len(w) \in Nat, NEW p \in Nat \ {0}, GoesOn(w, p)
  PROVE  NextStart(w, p) \in (p + 1)..(Len(w) + 1) /\ p \in 1..Len(w)
<1>1. p \in 1..Len(w)
  BY DEF GoesOn
<1>2. CASE FrameAt(w, p)
  <2>1. LastOf(w, p) \in Nat /\ p <= LastOf(w, p) /\ LastOf(w, p) <= Len(w)
    BY <1>2, CandidateEnds DEF FrameAt
  <2>2. NextStart(w, p) = LastOf(w, p) + 1
    BY <1>2 DEF NextStart
  <2> QED
    BY <1>1, <2>1, <2>2
<1>3. CASE ~FrameAt(w, p)
  <2>1. NextStart(w, p) = p + 1
    BY <1>3 DEF NextStart
  <2> QED
    BY <1>1, <2>1
<1> QED
  BY <1>2, <1>3

LEMMA HeaderLonger ==
  ASSUME NEW w \in Seq(Bytes), NEW x \in Seq(Bytes), Longer(x, w),
         NEW p \in Nat \ {0}, p + HeaderLen - 1 <= Len(w)
  PROVE  HeaderAt(x, p) = HeaderAt(w, p)
<1> DEFINE e == p + HeaderLen - 1
<1>1. e \in Nat /\ e <= Len(w) /\ p \in Nat /\ 1 <= p
  BY FrameSizes
<1> HIDE DEF e
<1>2. SubSeq(x, p, e) = SubSeq(w, p, e)
  BY <1>1, SliceLonger
<1> QED
  BY <1>2 DEF HeaderAt, e

\* A candidate stays what it is.
LEMMA CandidateStays ==
  ASSUME NEW w \in Seq(Bytes), NEW x \in Seq(Bytes), Longer(x, w),
         NEW p \in Nat \ {0}, Candidate(w, p)
  PROVE  /\ Candidate(x, p) /\ LastOf(x, p) = LastOf(w, p)
         /\ FrameAt(x, p) <=> FrameAt(w, p)
<1>0. Len(w) \in Nat /\ Len(x) \in Nat /\ Len(w) <= Len(x) /\ p \in Nat /\ 1 <= p
  BY DEF Longer
<1>1. /\ LastOf(w, p) \in Nat /\ p <= LastOf(w, p) /\ LastOf(w, p) <= Len(w)
      /\ p + HeaderLen - 1 <= LastOf(w, p)
  BY <1>0, CandidateEnds
<1>2. x[p] = w[p]
  <2>1. p \in 1..Len(w)
    BY <1>0, <1>1
  <2> QED
    BY <2>1 DEF Longer
<1>3. HeaderAt(x, p) = HeaderAt(w, p)
  <2>1. p + HeaderLen - 1 <= Len(w)
    <3>1. p + HeaderLen - 1 \in Nat
      BY FrameSizes
    <3> QED
      BY <1>0, <1>1, <3>1
  <2> QED
    BY <2>1, HeaderLonger
<1>4. (LengthOk(x, p) <=> LengthOk(w, p)) /\ LastOf(x, p) = LastOf(w, p)
  BY <1>3 DEF LengthOk, LastOf
<1>5. SubSeq(x, p, LastOf(x, p)) = SubSeq(w, p, LastOf(w, p))
  <2>1. SubSeq(x, p, LastOf(w, p)) = SubSeq(w, p, LastOf(w, p))
    <3> DEFINE e == LastOf(w, p)
    <3>1. e \in Nat /\ e <= Len(w)
      BY <1>1
    <3> HIDE DEF e
    <3>2. SubSeq(x, p, e) = SubSeq(w, p, e)
      BY <1>0, <3>1, SliceLonger
    <3> QED
      BY <3>2 DEF e
  <2> QED
    BY <1>4, <2>1
<1>6. Candidate(x, p)
  <2>1. p + HeaderLen - 1 <= Len(x) /\ LastOf(x, p) <= Len(x)
    <3>1. p + HeaderLen - 1 \in Nat
      BY FrameSizes
    <3> QED
      BY <1>0, <1>1, <1>4, <3>1
  <2>2. x[p] = Preamble
    BY <1>2 DEF Candidate
  <2> QED
    BY <2>1, <2>2 DEF Candidate
<1> QED
  BY <1>4, <1>5, <1>6 DEF FrameAt

\* So the search goes on there as it did.
LEMMA StepStays ==
  ASSUME NEW w \in Seq(Bytes), NEW x \in Seq(Bytes), Longer(x, w),
         NEW p \in Nat \ {0}, GoesOn(w, p)
  PROVE  /\ GoesOn(x, p) /\ NextStart(x, p) = NextStart(w, p)
         /\ FrameAt(x, p) <=> FrameAt(w, p)
<1>0. Len(w) \in Nat /\ Len(x) \in Nat /\ Len(w) <= Len(x)
  BY DEF Longer
<1>1. p \in 1..Len(w) /\ x[p] = w[p] /\ p <= Len(x)
  <2>1. p \in 1..Len(w)
    BY <1>0 DEF GoesOn
  <2> QED
    BY <1>0, <2>1 DEF Longer
<1>2. CASE w[p] = Preamble
  <2>1. Candidate(w, p)
    BY <1>2 DEF GoesOn
  <2>2. Candidate(x, p) /\ LastOf(x, p) = LastOf(w, p) /\ (FrameAt(x, p) <=> FrameAt(w, p))
    BY <2>1, CandidateStays
  <2> QED
    BY <1>1, <2>2 DEF GoesOn, NextStart
<1>3. CASE w[p] # Preamble
  <2>1. ~FrameAt(w, p) /\ ~FrameAt(x, p)
    BY <1>1, <1>3 DEF FrameAt, Candidate
  <2> QED
    BY <1>1, <1>3, <2>1 DEF GoesOn, NextStart
<1> QED
  BY <1>2, <1>3

-----------------------------------------------------------------------------
(* What Search computes: a table of what is found from each start on.  That *)
(* there is one is shown from the end of the text backwards.                *)

\* The entry of a table g at the start p.
Entry(w, S, g, p) == IF ~GoesOn(w, p) THEN <<>>
                     ELSE (IF p \in S THEN <<p>> ELSE <<>>) \o g[NextStart(w, p)]

Table(w, S) == CHOOSE g : g = [p \in 1..(Len(w) + 1) |-> Entry(w, S, g, p)]

LEMMA SearchUnfolds == \A w, S : Search(w, S) = Table(w, S)[1]
  BY DEF Search, Table, Entry

LEMMA TableExists ==
  ASSUME NEW w, Len(w) \in Nat, NEW S
  PROVE  Table(w, S) = [p \in 1..(Len(w) + 1) |-> Entry(w, S, Table(w, S), p)]
<1> DEFINE N == Len(w) + 1
           From(m) == {p \in 1..N : p > N - m}
           T == {m \in Nat : \E g : g = [p \in From(m) |-> Entry(w, S, g, p)]}
<1>0. N \in Nat /\ N > 0
  OBVIOUS
<1>1. 0 \in T
  <2>1. From(0) = {}
    BY <1>0
  <2> DEFINE g == [p \in {} |-> 0]
  <2>2. g = [p \in From(0) |-> Entry(w, S, g, p)]
    BY <2>1
  <2> QED
    BY <2>2
<1>2. ASSUME NEW m \in T PROVE m + 1 \in T
  <2>1. PICK g : g = [p \in From(m) |-> Entry(w, S, g, p)]
    BY <1>2
  <2>2. m \in Nat
    BY <1>2
  <2> DEFINE h == [p \in From(m + 1) |-> IF p \in From(m) THEN g[p] ELSE Entry(w, S, g, p)]
  <2>3. ASSUME NEW p \in From(m + 1) PROVE h[p] = Entry(w, S, h, p)
    <3>1. h[p] = Entry(w, S, g, p)
      <4>1. CASE p \in From(m)
        <5>1. g[p] = Entry(w, S, g, p)
          BY <2>1, <4>1
        <5> QED
          BY <4>1, <5>1
      <4>2. CASE p \notin From(m)
        BY <4>2
      <4> QED
        BY <4>1, <4>2
    <3>2. CASE ~GoesOn(w, p)
      BY <3>1, <3>2 DEF Entry
    <3>3. CASE GoesOn(w, p)
      <4>1. p \in Nat \ {0} /\ p \in 1..N /\ p > N - (m + 1)
        BY <1>0, <2>2
      <4>2. NextStart(w, p) \in (p + 1)..N
        BY <3>3, <4>1, NextIn
      <4>3. NextStart(w, p) \in From(m)
        BY <1>0, <2>2, <4>1, <4>2
      <4>4. NextStart(w, p) \in From(m + 1)
        BY <1>0, <2>2, <4>3
      <4>5. h[NextStart(w, p)] = g[NextStart(w, p)]
        BY <4>3, <4>4
      <4> QED
        BY <3>1, <4>5 DEF Entry
    <3> QED
      BY <3>2, <3>3
  <2>4. h = [p \in From(m + 1) |-> h[p]]
    OBVIOUS
  <2> HIDE DEF h
  <2>5. h = [p \in From(m + 1) |-> Entry(w, S, h, p)]
    BY <2>3, <2>4
  <2>6. m + 1 \in Nat
    BY <2>2
  <2> QED
    BY <2>5, <2>6
<1>3. N \in T
  <2>1. T \subseteq Nat
    OBVIOUS
  <2> HIDE DEF T
  <2> QED
    BY <1>0, <1>1, <1>2, <2>1, Induct
<1>4. From(N) = 1..N
  BY <1>0
<1>5. \E g : g = [p \in 1..N |-> Entry(w, S, g, p)]
  BY <1>3, <1>4
<1> HIDE DEF From, T
<1> QED
  BY <1>5 DEF Table

LEMMA TableAt ==
  ASSUME NEW w, Len(w) \in Nat, NEW S, NEW p \in 1..(Len(w) + 1)
  PROVE  Table(w, S)[p] = Entry(w, S, Table(w, S), p)
<1> DEFINE g == Table(w, S)
<1>1. g = [q \in 1..(Len(w) + 1) |-> Entry(w, S, g, q)]
  BY TableExists
<1> HIDE DEF g
<1>2. g[p] = Entry(w, S, g, p)
  BY <1>1
<1> QED
  BY <1>2 DEF g

LEMMA TableTypes ==
  ASSUME NEW w, Len(w) \in Nat, NEW S
  PROVE  \A p \in 1..(Len(w) + 1) : Table(w, S)[p] \in Seq(Nat)
<1> DEFINE N == Len(w) + 1
           g == Table(w, S)
           T == {m \in Nat : \A p \in 1..N : p > N - m => g[p] \in Seq(Nat)}
<1>0. N \in Nat /\ N > 0
  OBVIOUS
<1>1. \A p \in 1..N : g[p] = Entry(w, S, g, p)
  BY TableAt
<1> HIDE DEF g
<1>2. 0 \in T
  BY <1>0
<1>3. ASSUME NEW m \in T PROVE m + 1 \in T
  <2>1. m \in Nat /\ \A p \in 1..N : p > N - m => g[p] \in Seq(Nat)
    BY <1>3
  <2>2. ASSUME NEW p \in 1..N, p > N - (m + 1) PROVE g[p] \in Seq(Nat)
    <3>1. p \in Nat \ {0} /\ <<p>> \in Seq(Nat) /\ <<>> \in Seq(Nat)
      OBVIOUS
    <3>2. CASE ~GoesOn(w, p)
      BY <1>1, <2>2, <3>1, <3>2 DEF Entry
    <3>3. CASE GoesOn(w, p)
      <4> DEFINE q == NextStart(w, p)
      <4>1. q \in (p + 1)..N
        BY <3>1, <3>3, NextIn
      <4>2. q \in 1..N /\ q > N - m
        BY <1>0, <2>1, <2>2, <4>1
      <4>3. g[q] \in Seq(Nat)
        BY <2>1, <4>2
      <4> DEFINE t == IF p \in S THEN <<p>> ELSE <<>>
      <4>4. t \in Seq(Nat)
        BY <3>1
      <4>5. g[p] = t \o g[q]
        BY <1>1, <2>2, <3>3 DEF Entry
      <4> HIDE DEF t, q
      <4> QED
        BY <4>3, <4>4, <4>5, ConcatProperties
    <3> QED
      BY <3>2, <3>3
  <2>3. m + 1 \in Nat
    BY <2>1
  <2> QED
    BY <2>2, <2>3
<1>4. N \in T
  <2>1. T \subseteq Nat
    OBVIOUS
  <2> HIDE DEF T
  <2> QED
    BY <1>0, <1>2, <1>3, <2>1, Induct
<1>5. \A p \in 1..N : p > N - N
  BY <1>0
<1> QED
  BY <1>4, <1>5 DEF g

-----------------------------------------------------------------------------
(* Reaching a start.  A start p is reached, with the frames f found on the *)
(* way, if the pair is in every set that has the beginning and, with a     *)
(* pair, the next one.                                                     *)

Places == (Nat \ {0}) \X Seq(Nat)

Closed(w, S) ==
    /\ <<1, <<>>>> \in S
    /\ \A p \in Nat \ {0}, f \in Seq(Nat) :
          <<p, f>> \in S /\ GoesOn(w, p) =>
              <<NextStart(w, p), IF FrameAt(w, p) THEN Append(f, p) ELSE f>> \in S

Reaches(w, p, f) == \A S \in SUBSET Places : Closed(w, S) => <<p, f>> \in S

CanReach(w, p) == \E f \in Seq(Nat) : Reaches(w, p, f)

\* Concatenation is associative.
LEMMA Regroup ==
  \A a, b, c \in Seq(Nat) : a \o (b \o c) = (a \o b) \o c
<1>1. ASSUME NEW a \in Seq(Nat), NEW b \in Seq(Nat), NEW c \in Seq(Nat)
      PROVE  a \o (b \o c) = (a \o b) \o c
  <2> DEFINE d == a \o b
             e == b \o c
             s == a \o e
             t == d \o c
  <2>1. /\ d \in Seq(Nat) /\ Len(d) = Len(a) + Len(b)
        /\ \A k \in 1..(Len(a) + Len(b)) :
              d[k] = IF k <= Len(a) THEN a[k] ELSE b[k - Len(a)]
    BY ConcatProperties
  <2>2. /\ e \in Seq(Nat) /\ Len(e) = Len(b) + Len(c)
        /\ \A k \in 1..(Len(b) + Len(c)) :
              e[k] = IF k <= Len(b) THEN b[k] ELSE c[k - Len(b)]
    BY ConcatProperties
  <2> HIDE DEF d, e
  <2>3. d \in Seq(Nat) /\ e \in Seq(Nat)
    BY <2>1, <2>2
  <2>4. /\ s \in Seq(Nat) /\ Len(s) = Len(a) + Len(e)
        /\ \A k \in 1..(Len(a) + Len(e)) :
              s[k] = IF k <= Len(a) THEN a[k] ELSE e[k - Len(a)]
    BY <2>3, ConcatProperties
  <2>5. /\ t \in Seq(Nat) /\ Len(t) = Len(d) + Len(c)
        /\ \A k \in 1..(Len(d) + Len(c)) :
              t[k] = IF k <= Len(d) THEN d[k] ELSE c[k - Len(d)]
    BY <2>3, ConcatProperties
  <2> HIDE DEF s, t
  <2>6. Len(a) \in Nat /\ Len(b) \in Nat /\ Len(c) \in Nat
    OBVIOUS
  <2>7. ASSUME NEW k \in 1..Len(s) PROVE s[k] = t[k]
    <3>1. /\ k \in 1..(Len(a) + Len(e)) /\ k \in 1..(Len(d) + Len(c)) /\ k \in Nat
          /\ Len(d) = Len(a) + Len(b) /\ Len(e) = Len(b) + Len(c)
      BY <2>1, <2>2, <2>4, <2>6
    <3>2. /\ s[k] = IF k <= Len(a) THEN a[k] ELSE e[k - Len(a)]
          /\ t[k] = IF k <= Len(d) THEN d[k] ELSE c[k - Len(d)]
      BY <2>4, <2>5, <3>1
    <3>3. CASE k <= Len(a)
      <4>1. k \in 1..(Len(a) + Len(b)) /\ k <= Len(d)
        BY <2>6, <3>1, <3>3
      <4>2. d[k] = a[k]
        BY <2>1, <3>3, <4>1
      <4> QED
        BY <3>2, <3>3, <4>1, <4>2
    <3>4. CASE Len(a) < k /\ k <= Len(a) + Len(b)
      <4>1. /\ k \in 1..(Len(a) + Len(b)) /\ k <= Len(d) /\ ~(k <= Len(a))
            /\ k - Len(a) \in 1..(Len(b) + Len(c)) /\ k - Len(a) <= Len(b)
        BY <2>6, <3>1, <3>4
      <4>2. d[k] = b[k - Len(a)] /\ e[k - Len(a)] = b[k - Len(a)]
        BY <2>1, <2>2, <4>1
      <4> QED
        BY <3>2, <4>1, <4>2
    <3>5. CASE Len(a) + Len(b) < k
      <4>1. /\ ~(k <= Len(d)) /\ ~(k <= Len(a))
            /\ k - Len(a) \in 1..(Len(b) + Len(c)) /\ ~(k - Len(a) <= Len(b))
            /\ (k - Len(a)) - Len(b) = k - Len(d)
        BY <2>6, <3>1, <3>5
      <4>2. e[k - Len(a)] = c[(k - Len(a)) - Len(b)]
        BY <2>2, <4>1
      <4> QED
        BY <3>2, <4>1, <4>2
    <3> QED
      BY <2>6, <3>1, <3>3, <3>4, <3>5
  <2>8. s = t
    <3>1. s \in Seq(Nat) /\ t \in Seq(Nat)
      BY <2>4, <2>5
    <3>2. Len(s) = Len(t)
      BY <2>1, <2>2, <2>4, <2>5, <2>6
    <3> QED
      BY <2>7, <3>1, <3>2, SeqEqual
  <2> QED
    BY <2>8 DEF s, t, d, e
<1> QED
  BY <1>1

LEMMA ReachFirst == \A w : Reaches(w, 1, <<>>)
  BY DEF Reaches, Closed

LEMMA ReachNext ==
  ASSUME NEW w, NEW p \in Nat \ {0}, NEW f \in Seq(Nat), Reaches(w, p, f), GoesOn(w, p)
  PROVE  Reaches(w, NextStart(w, p), IF FrameAt(w, p) THEN Append(f, p) ELSE f)
  BY DEF Reaches, Closed

\* More bytes do not change what is reached.
LEMMA ReachLonger ==
  ASSUME NEW w \in Seq(Bytes), NEW x \in Seq(Bytes), Longer(x, w),
         NEW p, NEW f, Reaches(w, p, f)
  PROVE  Reaches(x, p, f)
<1> SUFFICES ASSUME NEW S \in SUBSET Places, Closed(x, S) PROVE <<p, f>> \in S
  BY DEF Reaches
<1>1. Closed(w, S)
  <2>1. ASSUME NEW q \in Nat \ {0}, NEW g \in Seq(Nat), <<q, g>> \in S, GoesOn(w, q)
        PROVE  <<NextStart(w, q), IF FrameAt(w, q) THEN Append(g, q) ELSE g>> \in S
    <3>1. GoesOn(x, q) /\ NextStart(x, q) = NextStart(w, q)
          /\ (FrameAt(x, q) <=> FrameAt(w, q))
      BY <2>1, StepStays
    <3>2. <<NextStart(x, q), IF FrameAt(x, q) THEN Append(g, q) ELSE g>> \in S
      BY <2>1, <3>1 DEF Closed
    <3> QED
      BY <3>1, <3>2
  <2>2. <<1, <<>>>> \in S
    BY DEF Closed
  <2> QED
    BY <2>1, <2>2 DEF Closed
<1> QED
  BY <1>1 DEF Reaches

\* What is found from the beginning is what was found on the way to p, and what
\* is found from there.
LEMMA ReachSearch ==
  ASSUME NEW w, Len(w) \in Nat, NEW p, NEW f, Reaches(w, p, f)
  PROVE  /\ p \in 1..(Len(w) + 1) /\ f \in Seq(Nat)
         /\ LET S == {q \in 1..Len(w) : FrameAt(w, q)}
            IN Search(w, S) = f \o Table(w, S)[p]
<1> DEFINE S == {q \in 1..Len(w) : FrameAt(w, q)}
           t == Table(w, S)
           R == {z \in (1..(Len(w) + 1)) \X Seq(Nat) : t[1] = z[2] \o t[z[1]]}
<1>1. \A q \in 1..(Len(w) + 1) : t[q] = Entry(w, S, t, q) /\ t[q] \in Seq(Nat)
  BY TableAt, TableTypes
<1>2. 1 \in 1..(Len(w) + 1)
  OBVIOUS
<1> HIDE DEF t, S
<1>3. Closed(w, R)
  <2>1. <<1, <<>>>> \in R
    <3>1. t[1] = <<>> \o t[1] /\ <<>> \in Seq(Nat)
      BY <1>1, <1>2, ConcatEmptySeq
    <3> QED
      BY <1>2, <3>1
  <2>2. ASSUME NEW q \in Nat \ {0}, NEW g \in Seq(Nat), <<q, g>> \in R, GoesOn(w, q)
        PROVE  <<NextStart(w, q), IF FrameAt(w, q) THEN Append(g, q) ELSE g>> \in R
    <3> DEFINE r == NextStart(w, q)
               h == IF q \in S THEN <<q>> ELSE <<>>
    <3>1. q \in 1..(Len(w) + 1) /\ t[1] = g \o t[q]
      BY <2>2
    <3>2. r \in (q + 1)..(Len(w) + 1) /\ q \in 1..Len(w)
      BY <2>2, NextIn
    <3>3. r \in 1..(Len(w) + 1)
      BY <3>1, <3>2
    <3>4. t[q] = h \o t[r]
      BY <1>1, <2>2, <3>1 DEF Entry
    <3>5. h \in Seq(Nat) /\ t[r] \in Seq(Nat) /\ <<q>> \in Seq(Nat) /\ <<>> \in Seq(Nat)
      BY <1>1, <3>3
    <3>6. (IF FrameAt(w, q) THEN Append(g, q) ELSE g) = g \o h
      <4>1. q \in S <=> FrameAt(w, q)
        BY <3>2 DEF S
      <4>2. Append(g, q) = g \o <<q>> /\ g \o <<>> = g
        BY AppendProperties, ConcatEmptySeq
      <4> QED
        BY <4>1, <4>2
    <3> HIDE DEF r, h
    <3>7. t[1] = (g \o h) \o t[r]
      <4>1. t[1] = g \o (h \o t[r])
        BY <3>1, <3>4
      <4>2. g \o (h \o t[r]) = (g \o h) \o t[r]
        BY <3>5, Regroup
      <4> QED
        BY <4>1, <4>2
    <3>8. g \o h \in Seq(Nat)
      BY <3>5, ConcatProperties
    <3>9. <<r, g \o h>> \in R
      BY <3>3, <3>7, <3>8
    <3> QED
      BY <3>6, <3>9 DEF r
  <2> QED
    BY <2>1, <2>2 DEF Closed
<1>4. R \in SUBSET Places
  <2>1. 1..(Len(w) + 1) \subseteq Nat \ {0}
    OBVIOUS
  <2> QED
    BY <2>1 DEF Places
<1>5. <<p, f>> \in R
  BY <1>3, <1>4 DEF Reaches
<1> QED
  BY <1>5, SearchUnfolds DEF t, S

LEMMA ReachVisited ==
  ASSUME NEW w, Len(w) \in Nat, NEW p, NEW f, Reaches(w, p, f), GoesOn(w, p)
  PROVE  p \in Range(Visited(w))
<1> DEFINE S == 1..Len(w)
           t == Table(w, S)
           R == {z \in (1..(Len(w) + 1)) \X Seq(Nat) :
                   \E b \in Seq(Nat) : t[1] = b \o t[z[1]]}
<1>1. \A q \in 1..(Len(w) + 1) : t[q] = Entry(w, S, t, q) /\ t[q] \in Seq(Nat)
  BY TableAt, TableTypes
<1>2. 1 \in 1..(Len(w) + 1)
  OBVIOUS
<1> HIDE DEF t
<1>3. Closed(w, R)
  <2>1. <<1, <<>>>> \in R
    <3>1. t[1] = <<>> \o t[1] /\ <<>> \in Seq(Nat)
      BY <1>1, <1>2, ConcatEmptySeq
    <3> QED
      BY <1>2, <3>1
  <2>2. ASSUME NEW q \in Nat \ {0}, NEW g \in Seq(Nat), <<q, g>> \in R, GoesOn(w, q)
        PROVE  <<NextStart(w, q), IF FrameAt(w, q) THEN Append(g, q) ELSE g>> \in R
    <3> DEFINE r == NextStart(w, q)
               a == IF FrameAt(w, q) THEN Append(g, q) ELSE g
    <3>1. q \in 1..(Len(w) + 1) /\ \E b \in Seq(Nat) : t[1] = b \o t[q]
      BY <2>2
    <3>2. PICK b \in Seq(Nat) : t[1] = b \o t[q]
      BY <3>1
    <3>3. r \in (q + 1)..(Len(w) + 1) /\ q \in S
      BY <2>2, NextIn
    <3>4. r \in 1..(Len(w) + 1)
      BY <3>1, <3>3
    <3>5. t[q] = <<q>> \o t[r]
      BY <1>1, <2>2, <3>1, <3>3 DEF Entry
    <3>6. <<q>> \in Seq(Nat) /\ t[r] \in Seq(Nat)
      BY <1>1, <3>4
    <3>7. a \in Seq(Nat)
      BY AppendProperties
    <3> HIDE DEF r, a
    <3>8. t[1] = (b \o <<q>>) \o t[r]
      <4>1. t[1] = b \o (<<q>> \o t[r])
        BY <3>2, <3>5
      <4>2. b \o (<<q>> \o t[r]) = (b \o <<q>>) \o t[r]
        BY <3>6, Regroup
      <4> QED
        BY <4>1, <4>2
    <3>9. b \o <<q>> \in Seq(Nat)
      BY <3>6, ConcatProperties
    <3>10. <<r, a>> \in R
      BY <3>4, <3>7, <3>8, <3>9
    <3> QED
      BY <3>10 DEF r, a
  <2> QED
    BY <2>1, <2>2 DEF Closed
<1>4. R \in SUBSET Places
  <2>1. 1..(Len(w) + 1) \subseteq Nat \ {0}
    OBVIOUS
  <2> QED
    BY <2>1 DEF Places
<1>5. <<p, f>> \in R
  BY <1>3, <1>4 DEF Reaches
<1>6. p \in 1..(Len(w) + 1) /\ \E b \in Seq(Nat) : t[1] = b \o t[p]
  BY <1>5
<1>7. PICK b \in Seq(Nat) : t[1] = b \o t[p]
  BY <1>6
<1>8. NextStart(w, p) \in (p + 1)..(Len(w) + 1) /\ p \in S /\ p \in Nat
  BY <1>6, NextIn
<1>9. t[p] = <<p>> \o t[NextStart(w, p)]
  BY <1>1, <1>6, <1>8 DEF Entry
<1> DEFINE c == t[NextStart(w, p)]
<1>10. c \in Seq(Nat) /\ <<p>> \in Seq(Nat) /\ Len(<<p>>) = 1 /\ <<p>>[1] = p
  <2>1. NextStart(w, p) \in 1..(Len(w) + 1)
    BY <1>8
  <2> QED
    BY <1>1, <1>8, <2>1
<1> HIDE DEF c
<1>11. t[1] = (b \o <<p>>) \o c
  <2>1. t[1] = b \o (<<p>> \o c)
    BY <1>7, <1>9 DEF c
  <2>2. b \o (<<p>> \o c) = (b \o <<p>>) \o c
    BY <1>10, Regroup
  <2> QED
    BY <2>1, <2>2
<1> DEFINE d == b \o <<p>>
<1>12. d \in Seq(Nat) /\ Len(d) = Len(b) + 1 /\ d[Len(b) + 1] = p /\ Len(b) \in Nat
  BY <1>10, ConcatProperties
<1> HIDE DEF d
<1>13. /\ t[1] \in Seq(Nat) /\ Len(t[1]) = Len(d) + Len(c)
       /\ \A m \in 1..(Len(d) + Len(c)) :
             t[1][m] = IF m <= Len(d) THEN d[m] ELSE c[m - Len(d)]
  BY <1>10, <1>11, <1>12, ConcatProperties DEF d
<1>14. Len(c) \in Nat
  BY <1>10
<1>15. Len(b) + 1 \in 1..(Len(d) + Len(c)) /\ Len(b) + 1 <= Len(d)
  BY <1>12, <1>14
<1>16. t[1][Len(b) + 1] = p
  BY <1>12, <1>13, <1>15
<1>17. Len(b) + 1 \in DOMAIN t[1]
  BY <1>13, <1>15
<1>18. Visited(w) = t[1]
  BY SearchUnfolds DEF Visited, t
<1> QED
  BY <1>16, <1>17, <1>18 DEF Range

-----------------------------------------------------------------------------
(* Where the splitter is in the stream.                                    *)

\* The text b is what ends at the x-th byte of t.
EndsAt(b, x, t) == /\ Len(b) <= x /\ x <= Len(t)
                   /\ \A k \in 1..Len(b) : b[k] = t[x - Len(b) + k]

FalseStart(w, p) == Candidate(w, p) /\ ~FrameAt(w, p)

\* The starts f of the frames found in t on the way to p, and what of them was
\* published.
Following(t, pub, p, f) ==
    /\ Reaches(Values(t), p, f)
    /\ Len(pub) = Len(f)
    /\ \A k \in 1..Len(f) :
          /\ Candidate(Values(t), f[k])
          /\ pub[k] = SubSeq(t, f[k], LastOf(Values(t), f[k]))

\* The splitter has collected what ends at the x-th byte: the beginning of a
\* candidate.
Holds(t, x, st, b, len) ==
    LET p == x - Len(b) + 1 IN
    /\ EndsAt(b, x, t)
    /\ st = "HUNT" <=> b = <<>>
    /\ st # "HUNT" => b[1].val = Preamble
    /\ st = "RTCM_HDR" => Len(b) < HeaderLen
    /\ st = "RTCM_BODY" => /\ HeaderLen <= Len(b) /\ Len(b) < len
                           /\ LengthOk(Values(t), p)
                           /\ LastOf(Values(t), p) = p + len - 1

\* What is replayed, up to the e-th byte, are the bytes behind a false start.
Replays(t, rb, e, p) ==
    LET o == e - Len(rb) IN
    /\ EndsAt(rb, e, t)
    /\ o \in Nat \ {0} /\ o < p
    /\ CanReach(Values(t), o) /\ FalseStart(Values(t), o) /\ LastOf(Values(t), o) = e

LEMMA ValuesOf ==
  ASSUME NEW t \in Seq(Byte)
  PROVE  /\ Values(t) \in Seq(Bytes) /\ Len(Values(t)) = Len(t) /\ Len(t) \in Nat
         /\ \A k \in 1..Len(t) : Values(t)[k] = t[k].val
<1>1. Len(t) \in Nat /\ DOMAIN t = 1..Len(t) /\ \A k \in 1..Len(t) : t[k] \in Byte
  OBVIOUS
<1>2. \A k \in 1..Len(t) : t[k].val \in Bytes
  BY <1>1 DEF Byte
<1> DEFINE v == [k \in 1..Len(t) |-> t[k].val]
<1>3. v \in [1..Len(t) -> Bytes]
  BY <1>2
<1>4. v \in Seq(Bytes) /\ Len(v) = Len(t)
  BY <1>1, <1>3
<1>5. Values(t) = v
  BY <1>1 DEF Values
<1> QED
  BY <1>1, <1>4, <1>5

\* What ends at x is a slice, and its values are a slice of the values.
LEMMA SliceEnds ==
  ASSUME NEW t \in Seq(Byte), NEW b \in Seq(Byte), NEW x \in Nat, EndsAt(b, x, t)
  PROVE  /\ b = SubSeq(t, x - Len(b) + 1, x)
         /\ Values(b) = SubSeq(Values(t), x - Len(b) + 1, x)
<1> DEFINE p == x - Len(b) + 1
<1>0. /\ Len(b) \in Nat /\ Len(t) \in Nat /\ Len(b) <= x /\ x <= Len(t)
      /\ p \in Nat /\ 1 <= p /\ p = x - Len(b) + 1
  BY DEF EndsAt
<1> HIDE DEF p
<1>1. ASSUME NEW k \in 1..Len(b) PROVE b[k] = t[p + k - 1] /\ p + k - 1 \in 1..Len(t)
  <2>1. p + k - 1 = x - Len(b) + k /\ p + k - 1 \in 1..Len(t)
    BY <1>0
  <2>2. b[k] = t[x - Len(b) + k]
    BY DEF EndsAt
  <2> QED
    BY <2>1, <2>2
<1> DEFINE u == SubSeq(t, p, x)
           w == Values(t)
           v == SubSeq(w, p, x)
<1>2. /\ u \in Seq(Byte) /\ Len(u) = IF p <= x THEN x - p + 1 ELSE 0
      /\ \A k \in 1..(x - p + 1) : u[k] = t[p + k - 1]
  BY <1>0, Slice
<1>3. w \in Seq(Bytes) /\ Len(w) = Len(t) /\ \A k \in 1..Len(t) : w[k] = t[k].val
  BY ValuesOf
<1>4. /\ Values(b) \in Seq(Bytes) /\ Len(Values(b)) = Len(b)
      /\ \A k \in 1..Len(b) : Values(b)[k] = b[k].val
  BY ValuesOf
<1> HIDE DEF w
<1>5. /\ v \in Seq(Bytes) /\ Len(v) = IF p <= x THEN x - p + 1 ELSE 0
      /\ \A k \in 1..(x - p + 1) : v[k] = w[p + k - 1]
  BY <1>0, <1>3, Slice
<1> HIDE DEF u, v
<1>6. x - p + 1 = Len(b) /\ (p <= x <=> Len(b) > 0)
  BY <1>0
<1>7. b = u
  <2>0. Len(u) = Len(b)
    BY <1>0, <1>2, <1>6
  <2>1. \A k \in 1..Len(b) : b[k] = u[k]
    BY <1>1, <1>2, <1>6
  <2> QED
    BY <1>2, <2>0, <2>1, SeqEqual
<1>8. Values(b) = v
  <2>1. Len(v) = Len(b)
    BY <1>0, <1>5, <1>6
  <2>2. ASSUME NEW k \in 1..Len(b) PROVE Values(b)[k] = v[k]
    <3>1. v[k] = w[p + k - 1]
      BY <1>5, <1>6
    <3>2. w[p + k - 1] = t[p + k - 1].val
      BY <1>1, <1>3
    <3> QED
      BY <1>1, <1>4, <3>1, <3>2
  <2> QED
    BY <1>4, <1>5, <2>1, <2>2, SeqEqual
<1> QED
  BY <1>7, <1>8 DEF p, u, v, w

\* One more byte.
LEMMA EndsNext ==
  ASSUME NEW t \in Seq(Byte), NEW b \in Seq(Byte), NEW x \in Nat, EndsAt(b, x, t),
         x + 1 <= Len(t), NEW c \in Byte, c = t[x + 1]
  PROVE  /\ EndsAt(Append(b, c), x + 1, t)
         /\ Len(Append(b, c)) = Len(b) + 1 /\ Len(b) \in Nat
         /\ Append(b, c)[1] = IF b = <<>> THEN c ELSE b[1]
<1> DEFINE d == Append(b, c)
<1>1. /\ Len(d) = Len(b) + 1 /\ d[Len(b) + 1] = c /\ Len(b) \in Nat
      /\ \A k \in 1..Len(b) : d[k] = b[k]
  OBVIOUS
<1> HIDE DEF d
<1>2. Len(b) <= x
  BY DEF EndsAt
<1>3. ASSUME NEW k \in 1..Len(d) PROVE d[k] = t[(x + 1) - Len(d) + k]
  <2>1. CASE k = Len(b) + 1
    <3>1. (x + 1) - Len(d) + k = x + 1
      BY <1>1, <2>1
    <3> QED
      BY <1>1, <2>1, <3>1
  <2>2. CASE k # Len(b) + 1
    <3>1. k \in 1..Len(b) /\ (x + 1) - Len(d) + k = x - Len(b) + k
      BY <1>1, <2>2
    <3>2. b[k] = t[x - Len(b) + k]
      BY <3>1 DEF EndsAt
    <3> QED
      BY <1>1, <3>1, <3>2
  <2> QED
    BY <2>1, <2>2
<1>4. Len(d) <= x + 1
  BY <1>1, <1>2
<1>5. d[1] = IF b = <<>> THEN c ELSE b[1]
  <2>1. CASE b = <<>>
    BY <1>1, <2>1
  <2>2. CASE b # <<>>
    <3>1. 1 \in 1..Len(b)
      BY <1>1, <2>2
    <3> QED
      BY <1>1, <2>2, <3>1
  <2> QED
    BY <2>1, <2>2
<1> QED
  BY <1>1, <1>3, <1>4, <1>5 DEF EndsAt, d

\* The bytes behind the first one.
LEMMA EndsTail ==
  ASSUME NEW t \in Seq(Byte), NEW b \in Seq(Byte), NEW x \in Nat, EndsAt(b, x, t),
         b # <<>>
  PROVE  /\ EndsAt(Tail(b), x, t) /\ Len(Tail(b)) = Len(b) - 1 /\ Len(b) \in Nat \ {0}
<1> DEFINE d == Tail(b)
<1>1. /\ Len(b) \in Nat \ {0} /\ Len(d) = Len(b) - 1
      /\ \A k \in 1..Len(d) : d[k] = b[k + 1]
  OBVIOUS
<1> HIDE DEF d
<1>2. ASSUME NEW k \in 1..Len(d) PROVE d[k] = t[x - Len(d) + k]
  <2>1. k + 1 \in 1..Len(b) /\ x - Len(b) + (k + 1) = x - Len(d) + k
    BY <1>1
  <2>2. b[k + 1] = t[x - Len(b) + (k + 1)]
    BY <2>1 DEF EndsAt
  <2> QED
    BY <1>1, <2>1, <2>2
<1>3. Len(d) <= x /\ x <= Len(t)
  BY <1>1 DEF EndsAt
<1> QED
  BY <1>1, <1>2, <1>3 DEF EndsAt, d

-----------------------------------------------------------------------------
(* More bytes are read.                                                    *)

LEMMA EndsLonger ==
  ASSUME NEW t, NEW u, Len(t) \in Nat, Longer(u, t), Len(u) \in Nat, NEW b, NEW x \in Nat,
         EndsAt(b, x, t), Len(b) \in Nat
  PROVE  EndsAt(b, x, u)
<1>1. Len(b) <= x /\ x <= Len(t) /\ Len(t) <= Len(u)
  BY DEF EndsAt, Longer
<1>2. ASSUME NEW k \in 1..Len(b) PROVE b[k] = u[x - Len(b) + k]
  <2>1. x - Len(b) + k \in 1..Len(t)
    BY <1>1
  <2> QED
    BY <2>1 DEF EndsAt, Longer
<1> QED
  BY <1>1, <1>2 DEF EndsAt

LEMMA ValuesLonger ==
  ASSUME NEW t \in Seq(Byte), NEW u \in Seq(Byte), Longer(u, t)
  PROVE  Longer(Values(u), Values(t))
<1>1. /\ Len(Values(t)) = Len(t) /\ Len(t) \in Nat
      /\ \A k \in 1..Len(t) : Values(t)[k] = t[k].val
  BY ValuesOf
<1>2. /\ Len(Values(u)) = Len(u) /\ Len(u) \in Nat
      /\ \A k \in 1..Len(u) : Values(u)[k] = u[k].val
  BY ValuesOf
<1>3. Len(t) <= Len(u) /\ \A k \in 1..Len(t) : u[k] = t[k] /\ k \in 1..Len(u)
  BY <1>1, <1>2 DEF Longer
<1> QED
  BY <1>1, <1>2, <1>3 DEF Longer

LEMMA FollowingLonger ==
  ASSUME NEW t \in Seq(Byte), NEW u \in Seq(Byte), Longer(u, t), NEW pub, NEW p,
         NEW f \in Seq(Nat \ {0}), Following(t, pub, p, f)
  PROVE  Following(u, pub, p, f)
<1> DEFINE w == Values(t)
           x == Values(u)
<1>1. w \in Seq(Bytes) /\ x \in Seq(Bytes) /\ Longer(x, w) /\ Len(w) = Len(t) /\ Len(w) \in Nat
  BY ValuesOf, ValuesLonger
<1>2. Reaches(w, p, f) /\ Len(pub) = Len(f)
  BY DEF Following
<1>3. ASSUME NEW k \in 1..Len(f)
      PROVE  Candidate(w, f[k]) /\ pub[k] = SubSeq(t, f[k], LastOf(w, f[k]))
             /\ f[k] \in Nat \ {0}
  BY DEF Following
<1> HIDE DEF w, x
<1>4. Reaches(x, p, f)
  BY <1>1, <1>2, ReachLonger
<1>5. ASSUME NEW k \in 1..Len(f)
      PROVE  Candidate(x, f[k]) /\ pub[k] = SubSeq(u, f[k], LastOf(x, f[k]))
  <2> DEFINE q == f[k]
             e == LastOf(w, q)
  <2>1. q \in Nat \ {0} /\ Candidate(w, q) /\ pub[k] = SubSeq(t, q, e)
    BY <1>3
  <2> HIDE DEF q
  <2>2. Candidate(x, q) /\ LastOf(x, q) = e
    <3>1. w \in Seq(Bytes) /\ x \in Seq(Bytes)
      BY <1>1
    <3>2. Longer(x, w)
      BY <1>1
    <3>3. Candidate(w, q) /\ q \in Nat \ {0}
      BY <2>1
    <3> QED
      BY <3>1, <3>2, <3>3, CandidateStays
  <2>3. e \in Nat /\ e <= Len(t) /\ q \in Nat /\ 1 <= q
    BY <1>1, <2>1, CandidateEnds
  <2> HIDE DEF e
  <2>4. SubSeq(u, q, e) = SubSeq(t, q, e)
    BY <2>3, SliceLonger
  <2> QED
    BY <2>1, <2>2, <2>4 DEF q
<1> QED
  BY <1>2, <1>4, <1>5 DEF Following, x

LEMMA HoldsLonger ==
  ASSUME NEW t \in Seq(Byte), NEW u \in Seq(Byte), Longer(u, t), NEW x \in Nat, NEW st,
         NEW b \in Seq(Byte), NEW len, Holds(t, x, st, b, len)
  PROVE  Holds(u, x, st, b, len)
<1> DEFINE v == Values(t)
           w == Values(u)
           p == x - Len(b) + 1
<1>1. v \in Seq(Bytes) /\ w \in Seq(Bytes) /\ Longer(w, v) /\ Len(v) = Len(t) /\ Len(v) \in Nat
  BY ValuesOf, ValuesLonger
<1>2. EndsAt(b, x, t) /\ Len(b) \in Nat /\ Len(b) <= x /\ x <= Len(t)
  BY DEF Holds, EndsAt
<1>3. EndsAt(b, x, u)
  BY <1>2, EndsLonger
<1>4. p \in Nat /\ 1 <= p
  BY <1>2
<1>5. st = "RTCM_BODY" => HeaderAt(w, p) = HeaderAt(v, p)
  <2> SUFFICES ASSUME st = "RTCM_BODY" PROVE HeaderAt(w, p) = HeaderAt(v, p)
    OBVIOUS
  <2>1. HeaderLen <= Len(b)
    BY DEF Holds
  <2>2. p + HeaderLen - 1 <= Len(v) /\ p \in Nat \ {0}
    BY <1>1, <1>2, <1>4, <2>1, FrameSizes
  <2> HIDE DEF p, v, w
  <2> QED
    BY <1>1, <2>2, HeaderLonger
<1>6. st = "RTCM_BODY" => LengthOk(w, p) = LengthOk(v, p) /\ LastOf(w, p) = LastOf(v, p)
  BY <1>5 DEF LengthOk, LastOf
<1> QED
  BY <1>3, <1>6 DEF Holds

-----------------------------------------------------------------------------
(* The steps of the search.                                                *)

\* The splitter has dealt with the first x bytes of t: it has published the
\* frames before what it has collected, and replays what follows a false start.
Placed(t, x, sr, rb, e, st, b, len, pub) ==
    LET p == x - Len(b) + 1 IN
    /\ Holds(t, x, st, b, len)
    /\ \E f \in Seq(Nat \ {0}) : Following(t, pub, p, f)
    /\ sr = "replay" => Replays(t, rb, e, p)

\* One false start inside another that ends later.
Nested(w) ==
    \E p, q \in Nat \ {0} :
        /\ p < q /\ q <= LastOf(w, p) /\ LastOf(w, q) < LastOf(w, p)
        /\ \A s \in {p, q} : CanReach(w, s) /\ FalseStart(w, s)

LEMMA Wider == ASSUME NEW f \in Seq(Nat \ {0}) PROVE f \in Seq(Nat)
<1>1. Len(f) \in Nat /\ DOMAIN f = 1..Len(f) /\ \A k \in 1..Len(f) : f[k] \in Nat \ {0}
  OBVIOUS
<1>2. f \in [1..Len(f) -> Nat]
  <2>1. f = [k \in 1..Len(f) |-> f[k]]
    BY <1>1
  <2> QED
    BY <1>1, <2>1
<1> QED
  BY <1>1, <1>2

\* The search goes on behind a byte that starts no frame ...
LEMMA FollowOn ==
  ASSUME NEW t \in Seq(Byte), NEW pub, NEW p \in Nat \ {0}, NEW f \in Seq(Nat \ {0}),
         Following(t, pub, p, f), GoesOn(Values(t), p), ~FrameAt(Values(t), p)
  PROVE  Following(t, pub, p + 1, f)
<1>1. Reaches(Values(t), p, f) /\ f \in Seq(Nat)
  BY Wider DEF Following
<1>2. Reaches(Values(t), NextStart(Values(t), p),
              IF FrameAt(Values(t), p) THEN Append(f, p) ELSE f)
  BY <1>1, ReachNext
<1>3. Reaches(Values(t), p + 1, f)
  BY <1>2 DEF NextStart
<1> QED
  BY <1>3 DEF Following

\* ... and behind a frame, which is published.
LEMMA FollowFrame ==
  ASSUME NEW t \in Seq(Byte), NEW pub \in Seq(Seq(Byte)), NEW p \in Nat \ {0},
         NEW f \in Seq(Nat \ {0}), Following(t, pub, p, f), FrameAt(Values(t), p)
  PROVE  /\ Append(f, p) \in Seq(Nat \ {0})
         /\ Following(t, Append(pub, SubSeq(t, p, LastOf(Values(t), p))),
                      LastOf(Values(t), p) + 1, Append(f, p))
<1> DEFINE w == Values(t)
           c == SubSeq(t, p, LastOf(w, p))
           g == Append(f, p)
           pub2 == Append(pub, c)
<1>1. /\ Reaches(w, p, f) /\ f \in Seq(Nat) /\ Len(pub) = Len(f) /\ Len(f) \in Nat
      /\ \A k \in 1..Len(f) : Candidate(w, f[k]) /\ pub[k] = SubSeq(t, f[k], LastOf(w, f[k]))
  BY Wider DEF Following
<1>2. Candidate(w, p)
  BY DEF FrameAt
<1>3. Len(w) = Len(t) /\ Len(w) \in Nat
  BY ValuesOf
<1>4. GoesOn(w, p)
  <2>1. LastOf(w, p) \in Nat /\ p <= LastOf(w, p) /\ LastOf(w, p) <= Len(w)
    BY <1>2, <1>3, CandidateEnds
  <2>2. p <= Len(w)
    BY <1>3, <2>1
  <2> QED
    BY <1>2, <2>2 DEF GoesOn
<1>5. Reaches(w, LastOf(w, p) + 1, g)
  <2>1. Reaches(w, NextStart(w, p), IF FrameAt(w, p) THEN Append(f, p) ELSE f)
    BY <1>1, <1>4, ReachNext
  <2> QED
    BY <2>1 DEF NextStart
<1>6. /\ g \in Seq(Nat \ {0}) /\ Len(g) = Len(f) + 1 /\ g[Len(f) + 1] = p
      /\ \A k \in 1..Len(f) : g[k] = f[k]
  OBVIOUS
<1>7. /\ Len(pub2) = Len(pub) + 1 /\ pub2[Len(pub) + 1] = c
      /\ \A k \in 1..Len(pub) : pub2[k] = pub[k]
  <2> DEFINE e == LastOf(w, p)
  <2>1. e \in Nat /\ e <= Len(t)
    BY <1>2, <1>3, CandidateEnds
  <2> HIDE DEF e
  <2>2. SubSeq(t, p, e) \in Seq(Byte)
    BY <2>1, Slice
  <2>3. c \in Seq(Byte)
    BY <2>2 DEF e
  <2> HIDE DEF c
  <2> QED
    BY <2>3, AppendProperties
<1> HIDE DEF g, pub2, w
<1>8. ASSUME NEW k \in 1..Len(g)
      PROVE  Candidate(w, g[k]) /\ pub2[k] = SubSeq(t, g[k], LastOf(w, g[k]))
  <2>1. CASE k = Len(f) + 1
    BY <1>1, <1>2, <1>6, <1>7, <2>1
  <2>2. CASE k # Len(f) + 1
    <3>1. k \in 1..Len(f) /\ k \in 1..Len(pub)
      BY <1>1, <1>6, <2>2
    <3> QED
      BY <1>1, <1>6, <1>7, <3>1
  <2> QED
    BY <2>1, <2>2
<1>9. Len(pub2) = Len(g)
  BY <1>1, <1>6, <1>7
<1>10. Following(t, pub2, LastOf(w, p) + 1, g)
  BY <1>5, <1>8, <1>9 DEF Following, w
<1> QED
  BY <1>6, <1>10 DEF g, pub2, w

\* The first collected byte.
LEMMA FirstHeld ==
  ASSUME NEW t \in Seq(Byte), NEW x \in Nat, NEW st, NEW b \in Seq(Byte), NEW len,
         Holds(t, x, st, b, len)
  PROVE  /\ EndsAt(b, x, t) /\ Len(b) \in Nat /\ Len(b) <= x /\ x <= Len(t)
         /\ x - Len(b) + 1 \in Nat \ {0}
         /\ st # "HUNT" => /\ b # <<>> /\ x - Len(b) + 1 \in 1..Len(t)
                           /\ Values(t)[x - Len(b) + 1] = Preamble
<1>1. EndsAt(b, x, t) /\ Len(b) \in Nat /\ Len(b) <= x /\ x <= Len(t) /\ Len(t) \in Nat
  BY DEF Holds, EndsAt
<1>2. x - Len(b) + 1 \in Nat \ {0}
  BY <1>1
<1>3. ASSUME st # "HUNT"
      PROVE  /\ b # <<>> /\ x - Len(b) + 1 \in 1..Len(t)
             /\ Values(t)[x - Len(b) + 1] = Preamble
  <2>1. b # <<>> /\ b[1].val = Preamble
    BY <1>3 DEF Holds
  <2>2. 1 \in 1..Len(b) /\ x - Len(b) + 1 \in 1..Len(t)
    BY <1>1, <2>1
  <2>3. b[1] = t[x - Len(b) + 1]
    BY <1>1, <2>2 DEF EndsAt
  <2>4. Values(t)[x - Len(b) + 1] = t[x - Len(b) + 1].val
    BY <2>2, ValuesOf
  <2> QED
    BY <2>1, <2>2, <2>3, <2>4
<1> QED
  BY <1>1, <1>2, <1>3

\* A byte that is no preamble, while the splitter hunts.
LEMMA PassByte ==
  ASSUME NEW t \in Seq(Byte), NEW x \in Nat, NEW sr, NEW rb, NEW e, NEW len, NEW pub,
         Placed(t, x, sr, rb, e, "HUNT", <<>>, len, pub),
         x + 1 <= Len(t), t[x + 1].val # Preamble
  PROVE  Placed(t, x + 1, sr, rb, e, "HUNT", <<>>, len, pub)
<1> DEFINE w == Values(t)
           p == x + 1
<1>0. Len(<<>>) = 0 /\ x - 0 + 1 = p /\ p - 0 + 1 = p + 1 /\ p \in Nat \ {0}
  OBVIOUS
<1>1. Len(w) = Len(t) /\ w[p] # Preamble
  <2>1. p \in 1..Len(t)
    OBVIOUS
  <2> QED
    BY <2>1, ValuesOf
<1>2. GoesOn(w, p) /\ ~FrameAt(w, p)
  BY <1>1 DEF GoesOn, FrameAt, Candidate
<1>3. PICK f \in Seq(Nat \ {0}) : Following(t, pub, p, f)
  BY <1>0 DEF Placed
<1>4. Following(t, pub, p + 1, f)
  BY <1>0, <1>2, <1>3, FollowOn
<1>5. sr = "replay" => Replays(t, rb, e, p + 1)
  <2>1. sr = "replay" => Replays(t, rb, e, p)
    BY <1>0 DEF Placed
  <2> QED
    BY <2>1 DEF Replays
<1>6. Holds(t, p, "HUNT", <<>>, len)
  BY <1>0 DEF Holds, EndsAt
<1> QED
  BY <1>0, <1>3, <1>4, <1>5, <1>6 DEF Placed

\* A byte is collected.
LEMMA SameStart ==
  ASSUME NEW t, NEW x \in Nat, NEW sr, NEW rb, NEW e, NEW st, NEW b, NEW len, NEW pub,
         Placed(t, x, sr, rb, e, st, b, len, pub),
         NEW st2, NEW b2, NEW len2, Holds(t, x + 1, st2, b2, len2),
         Len(b) \in Nat, Len(b2) = Len(b) + 1
  PROVE  Placed(t, x + 1, sr, rb, e, st2, b2, len2, pub)
<1>1. (x + 1) - Len(b2) + 1 = x - Len(b) + 1
  OBVIOUS
<1> QED
  BY <1>1 DEF Placed

\* A candidate is complete and fails: the bytes behind its first one are looked
\* at again, unless they are looked at already and there are more of them.
LEMMA ReplayPlaced ==
  ASSUME NEW t \in Seq(Byte), NEW x \in Nat, NEW sr, NEW rb, NEW e \in Nat, NEW st,
         NEW b \in Seq(Byte), NEW len, NEW pub, NEW rb0 \in Seq(Byte),
         Placed(t, x, sr, rb, e, st, b, len, pub), x + 1 <= Len(t),
         LastOf(Values(t), x - Len(b) + 1) = x + 1, FalseStart(Values(t), x - Len(b) + 1),
         EndsAt(rb0, x + 1, t), Len(rb0) = Len(b)
  PROVE  /\ sr # "replay" \/ e = x + 1
               => Placed(t, x + 1 - Len(b), "replay", rb0, x + 1, "HUNT", <<>>, 0, pub)
         /\ sr = "replay" /\ x + 1 < e => Nested(Values(t))
<1> DEFINE w == Values(t)
           p == x - Len(b) + 1
<1>0. /\ Len(b) \in Nat /\ Len(b) <= x /\ p \in Nat \ {0} /\ p <= x + 1 /\ Len(w) = Len(t)
      /\ Len(w) \in Nat
  BY FirstHeld, ValuesOf DEF Placed
<1>1. PICK f \in Seq(Nat \ {0}) : Following(t, pub, p, f)
  BY DEF Placed
<1>2. CanReach(w, p)
  BY <1>1, Wider DEF CanReach, Following
<1>3. FalseStart(w, p) /\ LastOf(w, p) = x + 1
  OBVIOUS
<1>4. x + 1 - Len(b) = p /\ p - 0 + 1 = p + 1 /\ (x + 1) - Len(rb0) = p /\ Len(<<>>) = 0
  BY <1>0
<1>5. GoesOn(w, p) /\ ~FrameAt(w, p)
  <2>1. p <= Len(w)
    BY <1>0
  <2> QED
    BY <1>3, <2>1 DEF GoesOn, FalseStart
<1> HIDE DEF p, w
<1>6. Following(t, pub, p + 1, f)
  BY <1>0, <1>1, <1>5, FollowOn DEF w
<1>7. Replays(t, rb0, x + 1, p + 1)
  <2>1. p < p + 1
    BY <1>0
  <2> QED
    BY <1>0, <1>2, <1>3, <1>4, <2>1 DEF Replays, w
<1>8. Holds(t, p, "HUNT", <<>>, 0)
  <2>1. p <= Len(t) /\ 0 <= p /\ 1..0 = {}
    BY <1>0
  <2> QED
    BY <1>4, <2>1 DEF Holds, EndsAt
<1>9. Placed(t, p, "replay", rb0, x + 1, "HUNT", <<>>, 0, pub)
  BY <1>4, <1>6, <1>7, <1>8 DEF Placed
<1>10. ASSUME sr = "replay", x + 1 < e PROVE Nested(w)
  <2> DEFINE o == e - Len(rb)
  <2>1. o \in Nat \ {0} /\ o < p /\ CanReach(w, o) /\ FalseStart(w, o) /\ LastOf(w, o) = e
    BY <1>10 DEF Placed, Replays, p, w
  <2> HIDE DEF o
  <2>2. p <= LastOf(w, o) /\ LastOf(w, p) < LastOf(w, o)
    BY <1>0, <1>3, <1>10, <2>1
  <2>3. \A s \in {o, p} : CanReach(w, s) /\ FalseStart(w, s)
    BY <1>2, <1>3, <2>1
  <2>4. p \in Nat \ {0}
    BY <1>0
  <2> QED
    BY <2>1, <2>2, <2>3, <2>4 DEF Nested
<1> QED
  BY <1>4, <1>9, <1>10 DEF w

\* It is not lost when more bytes come, and the search visits both starts.
LEMMA NestedLonger ==
  ASSUME NEW w \in Seq(Bytes), NEW x \in Seq(Bytes), Longer(x, w), Nested(w)
  PROVE  Nested(x)
<1>1. PICK p \in Nat \ {0}, q \in Nat \ {0} :
        /\ p < q /\ q <= LastOf(w, p) /\ LastOf(w, q) < LastOf(w, p)
        /\ \A s \in {p, q} : CanReach(w, s) /\ FalseStart(w, s)
  BY DEF Nested
<1>2. ASSUME NEW s \in {p, q}
      PROVE  CanReach(x, s) /\ FalseStart(x, s) /\ LastOf(x, s) = LastOf(w, s)
  <2>1. s \in Nat \ {0} /\ Candidate(w, s) /\ ~FrameAt(w, s) /\ CanReach(w, s)
    BY <1>1 DEF FalseStart
  <2>2. Candidate(x, s) /\ LastOf(x, s) = LastOf(w, s) /\ ~FrameAt(x, s)
    BY <2>1, CandidateStays
  <2>3. CanReach(x, s)
    BY <2>1, ReachLonger DEF CanReach
  <2> QED
    BY <2>2, <2>3 DEF FalseStart
<1> QED
  BY <1>1, <1>2 DEF Nested

LEMMA NestedVisited ==
  ASSUME NEW w, Len(w) \in Nat, Nested(w)
  PROVE  NestedFalseStarts(w)
<1>1. PICK p \in Nat \ {0}, q \in Nat \ {0} :
        /\ p < q /\ q <= LastOf(w, p) /\ LastOf(w, q) < LastOf(w, p)
        /\ \A s \in {p, q} : CanReach(w, s) /\ FalseStart(w, s)
  BY DEF Nested
<1>2. ASSUME NEW s \in {p, q}
      PROVE  s \in Range(Visited(w)) /\ Candidate(w, s) /\ ~FrameAt(w, s)
  <2>1. s \in Nat \ {0} /\ Candidate(w, s) /\ ~FrameAt(w, s) /\ CanReach(w, s)
    BY <1>1 DEF FalseStart
  <2>2. LastOf(w, s) \in Nat /\ s <= LastOf(w, s) /\ LastOf(w, s) <= Len(w)
    BY <2>1, CandidateEnds
  <2>3. s <= Len(w)
    BY <2>1, <2>2
  <2>4. GoesOn(w, s)
    BY <2>1, <2>3 DEF GoesOn
  <2>5. PICK f \in Seq(Nat) : Reaches(w, s, f)
    BY <2>1 DEF CanReach
  <2> QED
    BY <2>1, <2>4, <2>5, ReachVisited
<1> QED
  BY <1>1, <1>2 DEF NestedFalseStarts

\* With all bytes seen, the frames published are those of the stream.
LEMMA AllFound ==
  ASSUME NEW t \in Seq(Byte), NEW sr, NEW rb, NEW e, NEW st, NEW b \in Seq(Byte), NEW len \in Nat,
         NEW pub \in Seq(Seq(Byte)), Placed(t, Len(t), sr, rb, e, st, b, len, pub),
         st \in {"HUNT", "RTCM_HDR", "RTCM_BODY"}
  PROVE  LET w == Values(t)
         IN pub = [k \in DOMAIN FramesIn(w) |->
                     SubSeq(t, FramesIn(w)[k], LastOf(w, FramesIn(w)[k]))]
<1> DEFINE w == Values(t)
           p == Len(t) - Len(b) + 1
           S == {q \in 1..Len(w) : FrameAt(w, q)}
<1>0. /\ Len(w) = Len(t) /\ Len(t) \in Nat /\ Len(b) \in Nat /\ p \in Nat \ {0}
      /\ st # "HUNT" => w[p] = Preamble
  BY FirstHeld, ValuesOf DEF Placed
<1>1. ~GoesOn(w, p)
  <2>1. CASE st = "HUNT"
    <3>1. b = <<>>
      BY <2>1 DEF Placed, Holds
    <3>2. p = Len(w) + 1
      BY <1>0, <3>1
    <3> QED
      BY <1>0, <3>2 DEF GoesOn
  <2>2. CASE st = "RTCM_HDR"
    <3>1. Len(b) < HeaderLen
      BY <2>2 DEF Placed, Holds
    <3>2. ~(p + HeaderLen - 1 <= Len(w))
      BY <1>0, <3>1, FrameSizes
    <3> QED
      BY <1>0, <2>2, <3>2 DEF GoesOn, Candidate
  <2>3. CASE st = "RTCM_BODY"
    <3>1. Len(b) < len /\ LastOf(w, p) = p + len - 1
      BY <2>3 DEF Placed, Holds
    <3>2. ~(LastOf(w, p) <= Len(w))
      BY <1>0, <3>1
    <3> QED
      BY <1>0, <2>3, <3>2 DEF GoesOn, Candidate
  <2> QED
    BY <2>1, <2>2, <2>3
<1>2. PICK f \in Seq(Nat \ {0}) : Following(t, pub, p, f)
  BY DEF Placed
<1>3. /\ Reaches(w, p, f) /\ Len(pub) = Len(f)
      /\ \A k \in 1..Len(f) : pub[k] = SubSeq(t, f[k], LastOf(w, f[k]))
  BY <1>2 DEF Following
<1>4. FramesIn(w) = f
  <2> HIDE DEF w, p
  <2>1. p \in 1..(Len(w) + 1) /\ f \in Seq(Nat) /\ Search(w, S) = f \o Table(w, S)[p]
    BY <1>0, <1>3, ReachSearch
  <2>2. Table(w, S)[p] = <<>>
    <3>1. Table(w, S)[p] = Entry(w, S, Table(w, S), p)
      BY <1>0, <2>1, TableAt
    <3> QED
      BY <1>1, <3>1 DEF Entry
  <2>3. f \o <<>> = f
    BY <2>1, ConcatEmptySeq
  <2>4. FramesIn(w) = Search(w, S)
    BY DEF FramesIn
  <2> QED
    BY <2>1, <2>2, <2>3, <2>4
<1>5. DOMAIN f = 1..Len(f) /\ DOMAIN pub = 1..Len(pub)
  OBVIOUS
<1>6. pub = [k \in DOMAIN f |-> SubSeq(t, f[k], LastOf(w, f[k]))]
  <2>1. pub = [k \in DOMAIN pub |-> pub[k]]
    OBVIOUS
  <2> HIDE DEF w
  <2> QED
    BY <1>3, <1>5, <2>1
<1> QED
  BY <1>4, <1>6

-----------------------------------------------------------------------------
(* The steps of the splitter: c is the next byte.                          *)

LEMMA StartByte ==
  ASSUME NEW t \in Seq(Byte), NEW x \in Nat, NEW len, Holds(t, x, "HUNT", <<>>, len),
         x + 1 <= Len(t), NEW c \in Byte, c = t[x + 1], c.val = Preamble
  PROVE  Holds(t, x + 1, "RTCM_HDR", <<c>>, len)
<1>1. Len(<<c>>) = 1 /\ <<c>>[1] = c /\ <<c>> # <<>> /\ 1 < HeaderLen
  BY FrameSizes
<1>2. EndsAt(<<c>>, x + 1, t)
  <2>1. 1 <= x + 1 /\ (x + 1) - 1 + 1 = x + 1
    OBVIOUS
  <2>2. \A k \in 1..1 : <<c>>[k] = t[(x + 1) - 1 + k]
    OBVIOUS
  <2> QED
    BY <1>1, <2>1, <2>2 DEF EndsAt
<1> QED
  BY <1>1, <1>2 DEF Holds

LEMMA HeaderByte ==
  ASSUME NEW t \in Seq(Byte), NEW x \in Nat, NEW len, NEW b \in Seq(Byte),
         Holds(t, x, "RTCM_HDR", b, len),
         x + 1 <= Len(t), NEW c \in Byte, c = t[x + 1]
  PROVE  LET b2 == Append(b, c)
             l  == PayloadLen(Values(b2))
         IN /\ Len(b2) < HeaderLen => Holds(t, x + 1, "RTCM_HDR", b2, len)
            /\ Len(b2) >= HeaderLen /\ l \in 1..MaxPayload
                  => Holds(t, x + 1, "RTCM_BODY", b2, HeaderLen + l + TrailerLen)
            /\ Len(b2) >= HeaderLen /\ l \notin 1..MaxPayload
                  => /\ LastOf(Values(t), x - Len(b) + 1) = x + 1
                     /\ FalseStart(Values(t), x - Len(b) + 1)
<1> DEFINE w == Values(t)
           p == x - Len(b) + 1
           b2 == Append(b, c)
           l == PayloadLen(Values(b2))
<1>0. /\ EndsAt(b, x, t) /\ Len(b) \in Nat /\ Len(b) <= x /\ x <= Len(t) /\ p \in Nat \ {0}
      /\ b # <<>> /\ w[p] = Preamble /\ Len(w) = Len(t) /\ Len(t) \in Nat
  BY FirstHeld, ValuesOf
<1>1. Len(b) < HeaderLen /\ b[1].val = Preamble
  BY <1>0 DEF Holds
<1>2. /\ EndsAt(b2, x + 1, t) /\ Len(b2) = Len(b) + 1 /\ b2[1] = b[1]
      /\ b2 \in Seq(Byte) /\ b2 # <<>>
  BY <1>0, EndsNext
<1>3. (x + 1) - Len(b2) + 1 = p
  BY <1>0, <1>2
<1> HIDE DEF b2
<1>4. ASSUME Len(b2) < HeaderLen PROVE Holds(t, x + 1, "RTCM_HDR", b2, len)
  BY <1>1, <1>2, <1>4 DEF Holds
<1>5. ASSUME Len(b2) >= HeaderLen
      PROVE  Len(b2) = HeaderLen /\ p + HeaderLen - 1 = x + 1 /\ HeaderAt(w, p) = Values(b2)
  <2>0. Len(b) \in Nat /\ Len(b) < HeaderLen /\ Len(b2) = Len(b) + 1
    BY <1>0, <1>1, <1>2
  <2>1. Len(b2) = HeaderLen /\ p + HeaderLen - 1 = x + 1
    BY <1>5, <2>0, FrameSizes
  <2>2. p \in Nat /\ p = (x + 1) - Len(b2) + 1 /\ x + 1 \in Nat
    BY <1>0, <1>3
  <2>3. EndsAt(b2, x + 1, t) /\ b2 \in Seq(Byte) /\ x + 1 \in Nat
    BY <1>2
  <2>4. Values(b2) = SubSeq(Values(t), (x + 1) - Len(b2) + 1, x + 1)
    BY <2>3, SliceEnds
  <2> HIDE DEF p
  <2> QED
    BY <2>1, <2>2, <2>4 DEF HeaderAt
<1>6. ASSUME Len(b2) >= HeaderLen, l \in 1..MaxPayload
      PROVE  Holds(t, x + 1, "RTCM_BODY", b2, HeaderLen + l + TrailerLen)
  <2>1. LengthOk(w, p) /\ PayloadLen(HeaderAt(w, p)) = l
    BY <1>5, <1>6 DEF LengthOk
  <2>2. l \in Nat /\ l > 0
    <3>1. MaxPayload \in Nat
      BY SizesAssumption
    <3> HIDE DEF l
    <3> QED
      BY <1>6, <3>1
  <2>3. LastOf(w, p) = p + HeaderLen + l + TrailerLen - 1
    BY <2>1 DEF LastOf
  <2> HIDE DEF l
  <2>4. /\ LastOf(w, p) = p + (HeaderLen + l + TrailerLen) - 1
        /\ HeaderLen <= Len(b2) /\ Len(b2) < HeaderLen + l + TrailerLen
    BY <1>0, <1>5, <1>6, <2>2, <2>3, FrameSizes
  <2> QED
    BY <1>1, <1>2, <1>3, <2>1, <2>4 DEF Holds
<1>7. ASSUME Len(b2) >= HeaderLen, l \notin 1..MaxPayload
      PROVE  LastOf(w, p) = x + 1 /\ FalseStart(w, p)
  <2>1. ~LengthOk(w, p)
    BY <1>5, <1>7 DEF LengthOk
  <2>2. LastOf(w, p) = x + 1
    BY <1>5, <1>7, <2>1 DEF LastOf
  <2> QED
    BY <1>0, <1>5, <1>7, <2>1, <2>2 DEF FalseStart, Candidate, FrameAt
<1> QED
  BY <1>4, <1>6, <1>7 DEF b2

LEMMA NextBodyByte ==
  ASSUME NEW t \in Seq(Byte), NEW x \in Nat, NEW len \in Nat, NEW b \in Seq(Byte),
         Holds(t, x, "RTCM_BODY", b, len),
         x + 1 <= Len(t), NEW c \in Byte, c = t[x + 1]
  PROVE  LET b2 == Append(b, c)
             p  == x - Len(b) + 1
         IN /\ Len(b2) # len => Holds(t, x + 1, "RTCM_BODY", b2, len)
            /\ Len(b2) = len => /\ LastOf(Values(t), p) = x + 1
                                /\ CrcOk(Values(b2)) => FrameAt(Values(t), p)
                                /\ ~CrcOk(Values(b2)) => FalseStart(Values(t), p)
<1> DEFINE w == Values(t)
           p == x - Len(b) + 1
           b2 == Append(b, c)
<1>0. /\ EndsAt(b, x, t) /\ Len(b) \in Nat /\ Len(b) <= x /\ x <= Len(t) /\ p \in Nat \ {0}
      /\ b # <<>> /\ w[p] = Preamble /\ Len(w) = Len(t) /\ Len(t) \in Nat
  <2>1. Len(w) = Len(t) /\ Len(t) \in Nat
    BY ValuesOf
  <2>2. /\ EndsAt(b, x, t) /\ Len(b) \in Nat /\ Len(b) <= x /\ x <= Len(t) /\ p \in Nat \ {0}
        /\ b # <<>> /\ w[p] = Preamble
    BY FirstHeld
  <2> QED
    BY <2>1, <2>2
<1>1. /\ HeaderLen <= Len(b) /\ Len(b) < len /\ LengthOk(w, p) /\ LastOf(w, p) = p + len - 1
      /\ b[1].val = Preamble
  BY <1>0 DEF Holds
<1>2. /\ EndsAt(b2, x + 1, t) /\ Len(b2) = Len(b) + 1 /\ b2[1] = b[1]
      /\ b2 \in Seq(Byte) /\ b2 # <<>>
  <2>1. EndsAt(b, x, t) /\ b # <<>>
    BY <1>0
  <2>2. /\ EndsAt(b2, x + 1, t) /\ Len(b2) = Len(b) + 1
        /\ b2[1] = IF b = <<>> THEN c ELSE b[1]
    BY <2>1, EndsNext
  <2> QED
    BY <2>1, <2>2
<1>3. (x + 1) - Len(b2) + 1 = p
  BY <1>0, <1>2
<1> HIDE DEF b2
<1>4. ASSUME Len(b2) # len PROVE Holds(t, x + 1, "RTCM_BODY", b2, len)
  <2>0. Len(b) \in Nat /\ HeaderLen <= Len(b) /\ Len(b) < len /\ Len(b2) = Len(b) + 1
    BY <1>0, <1>1, <1>2
  <2>1. HeaderLen <= Len(b2) /\ Len(b2) < len
    BY <1>4, <2>0, FrameSizes
  <2> QED
    BY <1>1, <1>2, <1>3, <2>1 DEF Holds
<1>5. ASSUME Len(b2) = len
      PROVE  /\ LastOf(w, p) = x + 1
             /\ CrcOk(Values(b2)) => FrameAt(w, p)
             /\ ~CrcOk(Values(b2)) => FalseStart(w, p)
  <2>1. LastOf(w, p) = x + 1
    BY <1>0, <1>1, <1>2, <1>5
  <2>2. p + HeaderLen - 1 <= Len(w)
    BY <1>0, <1>1, FrameSizes
  <2>3. Candidate(w, p)
    BY <1>0, <2>1, <2>2 DEF Candidate
  <2>5. EndsAt(b2, x + 1, t) /\ b2 \in Seq(Byte) /\ x + 1 \in Nat
    BY <1>2
  <2>6. Values(b2) = SubSeq(Values(t), (x + 1) - Len(b2) + 1, x + 1)
    BY <2>5, SliceEnds
  <2>7. Values(b2) = SubSeq(w, p, x + 1)
    BY <1>3, <2>6
  <2> HIDE DEF p
  <2> QED
    BY <1>1, <2>1, <2>3, <2>7 DEF FrameAt, FalseStart
<1> QED
  BY <1>4, <1>5 DEF b2

\* A frame is published.
LEMMA FramePlaced ==
  ASSUME NEW t \in Seq(Byte), NEW x \in Nat, NEW sr, NEW rb, NEW e, NEW st,
         NEW b \in Seq(Byte), NEW len, NEW pub \in Seq(Seq(Byte)),
         Placed(t, x, sr, rb, e, st, b, len, pub), x + 1 <= Len(t),
         LastOf(Values(t), x - Len(b) + 1) = x + 1, FrameAt(Values(t), x - Len(b) + 1),
         NEW b2, b2 = SubSeq(t, x - Len(b) + 1, x + 1)
  PROVE  Placed(t, x + 1, sr, rb, e, "HUNT", <<>>, 0, Append(pub, b2))
<1> DEFINE w == Values(t)
           p == x - Len(b) + 1
<1>0. Len(b) \in Nat /\ Len(b) <= x /\ p \in Nat \ {0} /\ p <= x + 1 /\ Len(<<>>) = 0
  BY FirstHeld DEF Placed
<1>1. PICK f \in Seq(Nat \ {0}) : Following(t, pub, p, f)
  BY DEF Placed
<1>2. /\ Append(f, p) \in Seq(Nat \ {0})
      /\ Following(t, Append(pub, SubSeq(t, p, LastOf(w, p))), LastOf(w, p) + 1, Append(f, p))
  <2> HIDE DEF p
  <2>1. FrameAt(w, p)
    BY DEF p
  <2> QED
    BY <1>0, <1>1, <2>1, FollowFrame
<1>3. (x + 1) - 0 + 1 = LastOf(w, p) + 1 /\ SubSeq(t, p, LastOf(w, p)) = b2
  <2>1. LastOf(w, p) = x + 1
    OBVIOUS
  <2>2. b2 = SubSeq(t, p, x + 1)
    OBVIOUS
  <2>3. (x + 1) - 0 = x + 1
    OBVIOUS
  <2> HIDE DEF w, p
  <2> QED
    BY <2>1, <2>2, <2>3
<1>4. \E f2 \in Seq(Nat \ {0}) : Following(t, Append(pub, b2), (x + 1) - 0 + 1, f2)
  BY <1>2, <1>3
<1>5. sr = "replay" => Replays(t, rb, e, (x + 1) - 0 + 1)
  <2>1. sr = "replay" => Replays(t, rb, e, p)
    BY DEF Placed
  <2>2. p < (x + 1) - 0 + 1
    BY <1>0
  <2> QED
    BY <1>0, <2>1, <2>2 DEF Replays
<1>6. Holds(t, x + 1, "HUNT", <<>>, 0)
  <2>1. 0 <= x + 1 /\ 1..0 = {}
    OBVIOUS
  <2> QED
    BY <1>0, <2>1 DEF Holds, EndsAt
<1> QED
  BY <1>0, <1>4, <1>5, <1>6 DEF Placed

\* More bytes have been read, outside a replay.
LEMMA PlacedLonger ==
  ASSUME NEW t \in Seq(Byte), NEW u \in Seq(Byte), Longer(u, t), NEW x \in Nat, NEW sr,
         NEW rb, NEW e, NEW st, NEW b \in Seq(Byte), NEW len, NEW pub,
         Placed(t, x, sr, rb, e, st, b, len, pub), sr # "replay"
  PROVE  Placed(u, x, sr, rb, e, st, b, len, pub)
<1> DEFINE p == x - Len(b) + 1
<1>1. PICK f \in Seq(Nat \ {0}) : Following(t, pub, p, f)
  BY DEF Placed
<1>2. Following(u, pub, p, f)
  <2> HIDE DEF p
  <2> QED
    BY <1>1, FollowingLonger
<1>3. Holds(u, x, st, b, len)
  BY HoldsLonger DEF Placed
<1> QED
  BY <1>2, <1>3 DEF Placed

-----------------------------------------------------------------------------
(* The reader.  The chunk is the end of what was fed to the splitter; in a *)
(* replay it has seen the chunk up to the byte that ended the false start. *)

Base      == Len(fed) - Len(data)
ReplayEnd == Base + resume_i
Seen      == IF src = "data" THEN Base + i ELSE ReplayEnd - Len(replay_buf) + i
Stream    == Values(fed)

ChunkOk == /\ pc # "push" => data = <<>>
           /\ EndsAt(data, Len(fed), fed)

InPlace == Placed(fed, Seen, src, replay_buf, ReplayEnd, state, buf, rtcm_total_len, published)

SearchInv == IInv /\ ChunkOk /\ (InPlace \/ Nested(Stream))

LEMMA SearchTypes ==
  ASSUME IInv, ChunkOk, InPlace
  PROVE  /\ fed \in Seq(Byte) /\ data \in Seq(Byte) /\ replay_buf \in Seq(Byte)
         /\ buf \in Seq(Byte) /\ Len(fed) \in Nat /\ Len(data) \in Nat
         /\ Len(buf) \in Nat /\ Len(replay_buf) \in Nat /\ i \in Nat /\ resume_i \in Nat
         /\ rtcm_total_len \in Nat
         /\ Base \in Nat /\ ReplayEnd \in Nat /\ Seen \in Nat
<1>1. /\ fed \in Seq(Byte) /\ data \in Seq(Byte) /\ replay_buf \in Seq(Byte) /\ buf \in Seq(Byte)
      /\ i \in Nat /\ resume_i \in Nat
  BY DEF IInv, TypeOK
<1>2. Len(fed) \in Nat /\ Len(data) \in Nat /\ Len(replay_buf) \in Nat /\ Len(buf) \in Nat
  BY <1>1
<1>3. Base \in Nat
  BY <1>2 DEF ChunkOk, EndsAt, Base
<1>4. ReplayEnd \in Nat
  BY <1>1, <1>3 DEF ReplayEnd
<1>5. Seen \in Nat
  <2>1. CASE src = "data"
    BY <1>1, <1>3, <2>1 DEF Seen
  <2>2. CASE src # "data"
    <3>1. src = "replay"
      BY <2>2 DEF IInv, TypeOK
    <3>2. ReplayEnd - Len(replay_buf) \in Nat
      BY <3>1 DEF InPlace, Placed, Replays
    <3> QED
      BY <1>1, <2>2, <3>2 DEF Seen
  <2> QED
    BY <2>1, <2>2
<1>6. rtcm_total_len \in Nat
  BY Sizes DEF IInv, TypeOK
<1> QED
  BY <1>1, <1>2, <1>3, <1>4, <1>5, <1>6

\* The next byte of the chunk, or of the replay, is the next one of the stream.
LEMMA NextSeen ==
  ASSUME IInv, ChunkOk, InPlace, i < Len(Src)
  PROVE  /\ Seen + 1 <= Len(fed) /\ Src[i + 1] = fed[Seen + 1] /\ Src[i + 1] \in Byte
<1>0. /\ Len(fed) \in Nat /\ Len(data) \in Nat /\ Len(replay_buf) \in Nat
      /\ i \in Nat /\ ReplayEnd \in Nat
  BY SearchTypes
<1>1. Src[i + 1] \in Byte
  BY WithType DEF IInv
<1>2. CASE src = "data"
  <2>1. Src = data /\ Seen = (Len(fed) - Len(data)) + i
    BY <1>2 DEF Src, Seen, Base
  <2>2. Seen + 1 = Len(fed) - Len(data) + (i + 1) /\ i + 1 \in 1..Len(data)
    BY <1>0, <2>1
  <2>3. data[i + 1] = fed[Len(fed) - Len(data) + (i + 1)]
    BY <2>2 DEF ChunkOk, EndsAt
  <2>4. Seen + 1 <= Len(fed)
    BY <1>0, <2>2
  <2> QED
    BY <1>1, <2>1, <2>2, <2>3, <2>4
<1>3. CASE src # "data"
  <2>1. src = "replay" /\ Src = replay_buf /\ Seen = ReplayEnd - Len(replay_buf) + i
    BY <1>3 DEF Src, Seen, IInv, TypeOK
  <2>2. EndsAt(replay_buf, ReplayEnd, fed)
    BY <2>1 DEF InPlace, Placed, Replays
  <2>3. Seen + 1 = ReplayEnd - Len(replay_buf) + (i + 1) /\ i + 1 \in 1..Len(replay_buf)
    BY <1>0, <2>1
  <2>4. replay_buf[i + 1] = fed[ReplayEnd - Len(replay_buf) + (i + 1)] /\ ReplayEnd <= Len(fed)
    BY <2>2, <2>3 DEF EndsAt
  <2>5. Seen + 1 <= Len(fed)
    BY <1>0, <2>3, <2>4
  <2> QED
    BY <1>1, <2>1, <2>3, <2>4, <2>5
<1> QED
  BY <1>2, <1>3

\* One byte of the chunk is dealt with and nothing is replayed from its start.
LEMMA OneSeen ==
  ASSUME IInv, ChunkOk, InPlace, UNCHANGED <<pc, process, fed>>, i' = i + 1,
         Placed(fed, Seen + 1, src, replay_buf, ReplayEnd, state', buf', rtcm_total_len', published')
  PROVE  InPlace'
<1>1. /\ fed' = fed /\ data' = data /\ src' = src /\ replay_buf' = replay_buf
      /\ resume_i' = resume_i /\ pc' = pc
  BY DEF process
<1>2. Base' = Base
  BY <1>1 DEF Base
<1>3. ReplayEnd' = ReplayEnd
  BY <1>1, <1>2 DEF ReplayEnd
<1>4. Seen' = Seen + 1
  <2>0. Base \in Nat /\ i \in Nat /\ ReplayEnd \in Nat /\ Len(replay_buf) \in Nat
    BY SearchTypes
  <2>1. CASE src = "data"
    <3>1. Seen' = Base + (i + 1) /\ Seen = Base + i
      BY <1>1, <1>2, <2>1 DEF Seen
    <3> QED
      BY <2>0, <3>1
  <2>2. CASE src # "data"
    <3>1. /\ Seen' = ReplayEnd - Len(replay_buf) + (i + 1)
          /\ Seen = ReplayEnd - Len(replay_buf) + i
      BY <1>1, <1>3, <2>2 DEF Seen
    <3> QED
      BY <2>0, <3>1
  <2> QED
    BY <2>1, <2>2
<1> QED
  BY <1>1, <1>3, <1>4 DEF InPlace

LEMMA HuntFinds ==
  ASSUME IInv, ChunkOk, InPlace, Hunt
  PROVE  InPlace'
<1> DEFINE c == Src[i + 1]
<1>1. /\ Seen + 1 <= Len(fed) /\ c = fed[Seen + 1] /\ c \in Byte
      /\ Seen \in Nat /\ fed \in Seq(Byte)
  BY NextSeen, SearchTypes DEF Hunt, Pushing
<1>2. state = "HUNT" /\ buf = <<>> /\ Len(buf) = 0
  BY DEF Hunt, Pushing, IInv, Collected
<1>3. Placed(fed, Seen, src, replay_buf, ReplayEnd, "HUNT", <<>>, rtcm_total_len, published)
  BY <1>2 DEF InPlace
<1>4. /\ UNCHANGED <<pc, process, fed>> /\ i' = i + 1
      /\ rtcm_total_len' = rtcm_total_len /\ published' = published
      /\ IF c.val = Preamble THEN state' = "RTCM_HDR" /\ buf' = <<c>>
         ELSE state' = state /\ buf' = buf
  BY DEF Hunt, Untouched
<1> HIDE DEF c
<1>5. Placed(fed, Seen + 1, src, replay_buf, ReplayEnd, state', buf', rtcm_total_len', published')
  <2>1. CASE c.val = Preamble
    <3>1. Holds(fed, Seen, "HUNT", <<>>, rtcm_total_len)
      BY <1>3 DEF Placed
    <3>2. Holds(fed, Seen + 1, "RTCM_HDR", <<c>>, rtcm_total_len)
      BY <1>1, <2>1, <3>1, StartByte
    <3>3. Len(<<>>) = 0 /\ Len(<<>>) \in Nat /\ Len(<<c>>) = Len(<<>>) + 1
      OBVIOUS
    <3>4. Placed(fed, Seen + 1, src, replay_buf, ReplayEnd, "RTCM_HDR", <<c>>,
                 rtcm_total_len, published)
      BY <1>1, <1>3, <3>2, <3>3, SameStart
    <3> QED
      BY <1>4, <2>1, <3>4
  <2>2. CASE c.val # Preamble
    <3>1. fed[Seen + 1].val # Preamble
      BY <1>1, <2>2
    <3>2. Placed(fed, Seen + 1, src, replay_buf, ReplayEnd, "HUNT", <<>>, rtcm_total_len, published)
      BY <1>1, <1>3, <3>1, PassByte
    <3> QED
      BY <1>2, <1>4, <2>2, <3>2
  <2> QED
    BY <2>1, <2>2
<1> QED
  BY <1>4, <1>5, OneSeen

\* A false start is replayed, or given up for one inside it.
LEMMA ReplayFinds ==
  ASSUME IInv, IInv', ChunkOk, InPlace, pc = "push", i < Len(Src), Replay, Untouched,
         LastOf(Stream, Seen - Len(buf) + 1) = Seen + 1,
         FalseStart(Stream, Seen - Len(buf) + 1)
  PROVE  InPlace' \/ Nested(Stream')
<1> DEFINE e == ReplayEnd
           c == Src[i + 1]
           rb == Tail(With)
           x == Seen
<1>1. /\ fed' = fed /\ data' = data /\ pc' = pc /\ published' = published
      /\ src' = "replay" /\ i' = 0 /\ state' = "HUNT" /\ buf' = <<>> /\ rtcm_total_len' = 0
      /\ replay_buf' = rb /\ resume_i' = IF src = "data" THEN i + 1 ELSE resume_i
  BY DEF Replay, splitter_init, Untouched
<1>2. Base' = Base
  BY <1>1 DEF Base
<1>3. /\ x + 1 <= Len(fed) /\ c = fed[x + 1] /\ c \in Byte
      /\ x \in Nat /\ e \in Nat /\ fed \in Seq(Byte) /\ buf \in Seq(Byte) /\ Len(buf) \in Nat
  BY NextSeen, SearchTypes
<1>4. EndsAt(rb, x + 1, fed) /\ Len(rb) = Len(buf) /\ rb \in Seq(Byte)
  <2>1. EndsAt(buf, x, fed)
    BY DEF InPlace, Placed, Holds
  <2>2. With = Append(buf, c)
    BY DEF With
  <2> HIDE DEF c, x
  <2>3. EndsAt(With, x + 1, fed) /\ Len(With) = Len(buf) + 1
    BY <1>3, <2>1, <2>2, EndsNext
  <2>4. With \in Seq(Byte) /\ With # <<>> /\ x + 1 \in Nat
    BY <1>3, <2>2
  <2>5. EndsAt(rb, x + 1, fed) /\ Len(rb) = Len(With) - 1
    BY <1>3, <2>3, <2>4, EndsTail
  <2> QED
    BY <1>3, <2>3, <2>4, <2>5
<1>5. Placed(fed, x, src, replay_buf, e, state, buf, rtcm_total_len, published)
  BY DEF InPlace
<1>6. LastOf(Values(fed), x - Len(buf) + 1) = x + 1 /\ FalseStart(Values(fed), x - Len(buf) + 1)
  BY DEF Stream
<1> HIDE DEF c, rb, x, e
<1>7. /\ src # "replay" \/ e = x + 1
            => Placed(fed, x + 1 - Len(buf), "replay", rb, x + 1, "HUNT", <<>>, 0, published)
      /\ src = "replay" /\ x + 1 < e => Nested(Values(fed))
  BY <1>3, <1>4, <1>5, <1>6, ReplayPlaced
<1>8. CASE src # "replay" \/ e = x + 1
  <2>1. ReplayEnd' = x + 1
    <3>1. CASE src = "data"
      <4>1. ReplayEnd' = Base + (i + 1) /\ x = Base + i
        BY <1>1, <1>2, <3>1 DEF ReplayEnd, Seen, x
      <4> QED
        BY <4>1, SearchTypes
    <3>2. CASE src # "data"
      <4>1. src = "replay"
        BY <3>2 DEF IInv, TypeOK
      <4>2. ReplayEnd' = e
        BY <1>1, <1>2, <3>2 DEF ReplayEnd, e
      <4> QED
        BY <1>8, <4>1, <4>2
    <3> QED
      BY <3>1, <3>2
  <2>2. Seen' = x + 1 - Len(buf)
    <3>1. Seen' = ReplayEnd' - Len(rb) + 0
      BY <1>1 DEF Seen
    <3> QED
      BY <1>3, <1>4, <2>1, <3>1
  <2>3. InPlace'
    BY <1>1, <1>7, <1>8, <2>1, <2>2 DEF InPlace
  <2> QED
    BY <2>3
<1>9. CASE src = "replay" /\ e # x + 1
  <2>1. x + 1 <= e
    <3>1. Src = replay_buf /\ x = e - Len(replay_buf) + i
      BY <1>9 DEF Src, Seen, x, e
    <3> QED
      BY <1>3, <3>1, SearchTypes
  <2>2. x + 1 < e
    BY <1>3, <1>9, <2>1
  <2>3. Nested(Values(fed))
    BY <1>7, <1>9, <2>2
  <2> QED
    BY <1>1, <2>3 DEF Stream
<1> QED
  BY <1>8, <1>9

LEMMA HeaderFinds ==
  ASSUME IInv, IInv', ChunkOk, InPlace, Header
  PROVE  InPlace' \/ Nested(Stream')
<1> DEFINE c == Src[i + 1]
           b2 == Append(buf, c)
           l == PayloadLen(Values(b2))
<1>1. pc = "push" /\ i < Len(Src) /\ state = "RTCM_HDR"
  BY DEF Header, Pushing
<1>2. /\ Seen + 1 <= Len(fed) /\ c = fed[Seen + 1] /\ c \in Byte
      /\ Seen \in Nat /\ fed \in Seq(Byte) /\ buf \in Seq(Byte)
  BY <1>1, NextSeen, SearchTypes
<1>3. With = b2
  BY DEF With
<1>4. Holds(fed, Seen, "RTCM_HDR", buf, rtcm_total_len)
  BY <1>1 DEF InPlace, Placed
<1>5. Len(b2) \in Nat /\ Len(b2) = Len(buf) + 1 /\ Len(buf) \in Nat
  BY <1>2
<1> HIDE DEF c
<1>6. /\ Len(b2) < HeaderLen => Holds(fed, Seen + 1, "RTCM_HDR", b2, rtcm_total_len)
      /\ Len(b2) >= HeaderLen /\ l \in 1..MaxPayload
            => Holds(fed, Seen + 1, "RTCM_BODY", b2, HeaderLen + l + TrailerLen)
      /\ Len(b2) >= HeaderLen /\ l \notin 1..MaxPayload
            => /\ LastOf(Values(fed), Seen - Len(buf) + 1) = Seen + 1
               /\ FalseStart(Values(fed), Seen - Len(buf) + 1)
  BY <1>2, <1>4, HeaderByte
<1>7. Placed(fed, Seen, src, replay_buf, ReplayEnd, state, buf, rtcm_total_len, published)
  BY DEF InPlace
<1>8. /\ Len(b2) < HeaderLen => Collect("RTCM_HDR") /\ rtcm_total_len' = rtcm_total_len
      /\ ~(Len(b2) < HeaderLen) =>
            IF l \notin 1..MaxPayload THEN Replay
            ELSE Collect("RTCM_BODY") /\ rtcm_total_len' = HeaderLen + l + TrailerLen
      /\ Untouched
  BY <1>3 DEF Header
<1>9. ~(Len(b2) < HeaderLen) => Len(b2) >= HeaderLen
  BY <1>5, FrameSizes
<1> HIDE DEF b2, l
<1>10. CASE Len(b2) < HeaderLen
  <2>1. Collect("RTCM_HDR") /\ rtcm_total_len' = rtcm_total_len
    BY <1>8, <1>10
  <2>2. /\ state' = "RTCM_HDR" /\ buf' = b2 /\ i' = i + 1 /\ published' = published
        /\ UNCHANGED <<pc, process, fed>>
    BY <1>3, <1>8, <2>1 DEF Collect, Untouched
  <2>3. Holds(fed, Seen + 1, "RTCM_HDR", b2, rtcm_total_len)
    BY <1>6, <1>10
  <2>4. Placed(fed, Seen + 1, src, replay_buf, ReplayEnd, "RTCM_HDR", b2,
               rtcm_total_len, published)
    BY <1>2, <1>5, <1>7, <2>3, SameStart
  <2> QED
    BY <2>1, <2>2, <2>4, OneSeen
<1>11. CASE ~(Len(b2) < HeaderLen) /\ l \in 1..MaxPayload
  <2>1. Collect("RTCM_BODY") /\ rtcm_total_len' = HeaderLen + l + TrailerLen
    BY <1>8, <1>11
  <2>2. /\ state' = "RTCM_BODY" /\ buf' = b2 /\ i' = i + 1 /\ published' = published
        /\ UNCHANGED <<pc, process, fed>>
    BY <1>3, <1>8, <2>1 DEF Collect, Untouched
  <2>3. Holds(fed, Seen + 1, "RTCM_BODY", b2, HeaderLen + l + TrailerLen)
    BY <1>6, <1>9, <1>11
  <2>4. Placed(fed, Seen + 1, src, replay_buf, ReplayEnd, "RTCM_BODY", b2,
               HeaderLen + l + TrailerLen, published)
    BY <1>2, <1>5, <1>7, <2>3, SameStart
  <2> QED
    BY <2>1, <2>2, <2>4, OneSeen
<1>12. CASE ~(Len(b2) < HeaderLen) /\ l \notin 1..MaxPayload
  <2>1. Replay /\ Untouched
    BY <1>8, <1>12
  <2>2. /\ LastOf(Stream, Seen - Len(buf) + 1) = Seen + 1
        /\ FalseStart(Stream, Seen - Len(buf) + 1)
    BY <1>6, <1>9, <1>12 DEF Stream
  <2> QED
    BY <1>1, <2>1, <2>2, ReplayFinds
<1> QED
  BY <1>10, <1>11, <1>12

LEMMA BodyFinds ==
  ASSUME IInv, IInv', ChunkOk, InPlace, BodyByte \/ GoodFrame \/ BadCrc
  PROVE  InPlace' \/ Nested(Stream')
<1> DEFINE c == Src[i + 1]
           b2 == Append(buf, c)
           w == Values(fed)
           p == Seen - Len(buf) + 1
<1>1. pc = "push" /\ i < Len(Src) /\ state = "RTCM_BODY" /\ Untouched
  BY DEF BodyByte, GoodFrame, BadCrc, Pushing
<1>2. /\ Seen + 1 <= Len(fed) /\ c = fed[Seen + 1] /\ c \in Byte
      /\ Seen \in Nat /\ fed \in Seq(Byte) /\ buf \in Seq(Byte) /\ rtcm_total_len \in Nat
      /\ Len(buf) \in Nat
  BY <1>1, NextSeen, SearchTypes
<1>3. With = b2 /\ Len(b2) = Len(buf) + 1
  BY <1>2 DEF With
<1>4. Holds(fed, Seen, "RTCM_BODY", buf, rtcm_total_len)
  BY <1>1 DEF InPlace, Placed
<1> HIDE DEF c
<1>5. /\ Len(b2) # rtcm_total_len => Holds(fed, Seen + 1, "RTCM_BODY", b2, rtcm_total_len)
      /\ Len(b2) = rtcm_total_len => /\ LastOf(w, p) = Seen + 1
                                     /\ b2 = SubSeq(fed, p, Seen + 1)
                                     /\ CrcOk(Values(b2)) => FrameAt(w, p)
                                     /\ ~CrcOk(Values(b2)) => FalseStart(w, p)
  <2>1. fed \in Seq(Byte) /\ Seen \in Nat /\ rtcm_total_len \in Nat /\ buf \in Seq(Byte)
    BY <1>2
  <2>2. Seen + 1 <= Len(fed) /\ c \in Byte /\ c = fed[Seen + 1]
    BY <1>2
  <2>3. fed \in Seq(Byte) /\ buf \in Seq(Byte)
    BY <2>1
  <2>4. c \in Byte
    BY <2>2
  <2>5. c = fed[Seen + 1] /\ Seen + 1 <= Len(fed)
    BY <2>2
  <2>6. Seen \in Nat /\ rtcm_total_len \in Nat
    BY <2>1
  <2>7. Len(b2) # rtcm_total_len => Holds(fed, Seen + 1, "RTCM_BODY", b2, rtcm_total_len)
    BY <1>4, <2>3, <2>4, <2>5, <2>6, NextBodyByte
  <2>8. Len(b2) = rtcm_total_len => LastOf(w, p) = Seen + 1
    BY <1>4, <2>3, <2>4, <2>5, <2>6, NextBodyByte
  <2>10. b2 = SubSeq(fed, p, Seen + 1)
    <3>1. EndsAt(buf, Seen, fed)
      BY <1>4 DEF Holds
    <3>2. EndsAt(b2, Seen + 1, fed)
      BY <2>3, <2>4, <2>5, <2>6, <3>1, EndsNext
    <3>3. b2 \in Seq(Byte) /\ Seen + 1 \in Nat
      BY <2>3, <2>4, <2>6
    <3>4. p = (Seen + 1) - Len(b2) + 1
      BY <1>2, <1>3
    <3> HIDE DEF b2, p
    <3>5. b2 = SubSeq(fed, (Seen + 1) - Len(b2) + 1, Seen + 1)
      BY <2>3, <3>2, <3>3, SliceEnds
    <3> QED
      BY <3>4, <3>5
  <2>9. Len(b2) = rtcm_total_len => /\ CrcOk(Values(b2)) => FrameAt(w, p)
                                    /\ ~CrcOk(Values(b2)) => FalseStart(w, p)
    BY <1>4, <2>3, <2>4, <2>5, <2>6, NextBodyByte
  <2> QED
    BY <2>7, <2>8, <2>9, <2>10
<1>6. Placed(fed, Seen, src, replay_buf, ReplayEnd, state, buf, rtcm_total_len, published)
  BY DEF InPlace
<1> HIDE DEF b2
<1>7. CASE BodyByte
  <2>1. /\ state' = "RTCM_BODY" /\ buf' = b2 /\ i' = i + 1 /\ published' = published
        /\ rtcm_total_len' = rtcm_total_len /\ Len(b2) # rtcm_total_len
        /\ UNCHANGED <<pc, process, fed>>
    BY <1>3, <1>7 DEF BodyByte, Collect, Untouched
  <2>2. Holds(fed, Seen + 1, "RTCM_BODY", b2, rtcm_total_len)
    BY <1>5, <2>1
  <2>3. Placed(fed, Seen + 1, src, replay_buf, ReplayEnd, "RTCM_BODY", b2,
               rtcm_total_len, published)
    BY <1>2, <1>3, <1>6, <2>2, SameStart
  <2> QED
    BY <2>1, <2>3, OneSeen
<1>8. CASE GoodFrame
  <2>1. /\ state' = "HUNT" /\ buf' = <<>> /\ rtcm_total_len' = 0 /\ i' = i + 1
        /\ published' = Append(published, b2) /\ Len(b2) = rtcm_total_len
        /\ CrcOk(Values(b2)) /\ UNCHANGED <<pc, process, fed>>
    BY <1>3, <1>8 DEF GoodFrame, splitter_init, Untouched
  <2>2. LastOf(w, p) = Seen + 1 /\ FrameAt(w, p) /\ b2 = SubSeq(fed, p, Seen + 1)
    BY <1>5, <2>1
  <2>3. published \in Seq(Seq(Byte))
    BY DEF IInv, TypeOK
  <2>4. Placed(fed, Seen + 1, src, replay_buf, ReplayEnd, "HUNT", <<>>, 0,
               Append(published, b2))
    BY <1>2, <1>6, <2>2, <2>3, FramePlaced
  <2> QED
    BY <2>1, <2>4, OneSeen
<1>9. CASE BadCrc
  <2>1. Replay /\ Len(b2) = rtcm_total_len /\ ~CrcOk(Values(b2))
    BY <1>3, <1>9 DEF BadCrc
  <2>2. LastOf(w, p) = Seen + 1 /\ FalseStart(w, p)
    BY <1>5, <2>1
  <2>3. /\ LastOf(Stream, Seen - Len(buf) + 1) = Seen + 1
        /\ FalseStart(Stream, Seen - Len(buf) + 1)
    BY <2>2 DEF Stream
  <2> QED
    BY <1>1, <2>1, <2>3, ReplayFinds
<1> QED
  BY <1>7, <1>8, <1>9

\* Between chunks.
LEMMA Between ==
  ASSUME IInv, ChunkOk, InPlace, pc # "push"
  PROVE  src = "data" /\ i = 0 /\ data = <<>> /\ Len(data) = 0 /\ Seen = Len(fed)
<1>1. src = "data" /\ i = 0 /\ data = <<>>
  BY DEF IInv, Reading, ChunkOk
<1>2. Len(data) = 0
  BY <1>1
<1>3. Seen = Len(fed)
  BY <1>1, <1>2, SearchTypes DEF Seen, Base
<1> QED
  BY <1>1, <1>2, <1>3

\* The splitter does nothing.
LEMMA QuietFinds ==
  ASSUME IInv, ChunkOk, InPlace, UNCHANGED <<process, i, splitter, published, fed>>
  PROVE  InPlace'
<1>1. Base' = Base
  BY DEF Base, process
<1>2. ReplayEnd' = ReplayEnd /\ Seen' = Seen
  BY <1>1 DEF ReplayEnd, Seen, process
<1> QED
  BY <1>2 DEF InPlace, process, splitter

\* The chunk is what was fed last.
LEMMA ChunkFinds == IInv /\ ChunkOk /\ [Next]_vars => ChunkOk'
<1> SUFFICES ASSUME IInv, ChunkOk, [Next]_vars PROVE ChunkOk'
  OBVIOUS
<1>0. Len(<<>>) = 0 /\ 1..0 = {}
  OBVIOUS
<1>1. fed \in Seq(Byte) /\ Len(fed) \in Nat /\ <<>> \in Seq(Byte)
  BY DEF IInv, TypeOK
<1>2. CASE ResetQueue
  <2>1. data' = <<>> /\ fed' = <<>>
    BY <1>2 DEF ResetQueue, process, ChunkOk
  <2> QED
    BY <1>0, <2>1 DEF ChunkOk, EndsAt
<1>3. ASSUME NEW n \in 1..ReadChunk, NEW val \in [1..n -> Bytes], ReadChunkOf(n, val)
      PROVE  ChunkOk'
  <2>1. fed' = fed \o data' /\ pc' = "push"
    BY <1>3 DEF ReadChunkOf
  <2>2. data' \in Seq(Byte)
    BY <1>3, ReadType DEF IInv, TypeOK
  <2> DEFINE d == data'
  <2> HIDE DEF d
  <2>3. d \in Seq(Byte) /\ d = data'
    BY <2>2 DEF d
  <2>4. /\ Len(d) \in Nat /\ Len(fed \o d) = Len(fed) + Len(d)
        /\ \A k \in 1..Len(d) : (fed \o d)[Len(fed) + k] = d[k]
    BY <1>1, <2>3, Joined
  <2> DEFINE u == fed \o d
  <2> HIDE DEF u
  <2>5. Len(u) = Len(fed) + Len(d) /\ \A k \in 1..Len(d) : u[Len(fed) + k] = d[k]
    BY <2>4 DEF u
  <2>6. ASSUME NEW k \in 1..Len(d) PROVE d[k] = u[Len(u) - Len(d) + k]
    <3>1. Len(u) - Len(d) + k = Len(fed) + k
      BY <1>1, <2>4, <2>5
    <3> QED
      BY <2>5, <3>1
  <2>7. Len(d) <= Len(u) /\ Len(u) <= Len(u)
    BY <1>1, <2>4, <2>5
  <2>8. EndsAt(d, Len(u), u)
    BY <2>6, <2>7 DEF EndsAt
  <2> QED
    BY <2>1, <2>3, <2>8 DEF ChunkOk, u
<1>4. CASE ChunkDone
  <2>1. data' = <<>> /\ fed' = fed
    BY <1>4 DEF ChunkDone
  <2>2. EndsAt(<<>>, Len(fed), fed)
    BY <1>0, <1>1 DEF EndsAt
  <2> QED
    BY <2>1, <2>2 DEF ChunkOk
<1>5. CASE UNCHANGED <<data, fed>> /\ (pc' = pc \/ pc # "push")
  BY <1>5 DEF ChunkOk
<1> QED
  BY <1>2, <1>3, <1>4, <1>5
     DEF Next, ReaderStep, DriverStep, vars, process, reader, Untouched, Replay, Collect,
         FlushInput, TakeEvent, EventDone, Hunt, Header, BodyByte, GoodFrame, BadCrc,
         EndOfReplay, ReceiveBurst, FifoOverflow

\* A reset: the next byte is the first of the stream.
LEMMA ResetFinds ==
  ASSUME IInv, ChunkOk, ResetQueue
  PROVE  InPlace'
<1>1. /\ fed' = <<>> /\ published' = <<>> /\ state' = "HUNT" /\ buf' = <<>>
      /\ rtcm_total_len' = 0 /\ UNCHANGED <<process, i>> /\ pc = "reset"
  BY DEF ResetQueue, splitter_init
<1>2. data' = <<>> /\ src' = "data" /\ i' = 0
  BY <1>1 DEF IInv, Reading, ChunkOk, process
<1>3. Len(<<>>) = 0 /\ 1..0 = {} /\ 0 - 0 + 0 = 0 /\ 0 - 0 + 1 = 1
  OBVIOUS
<1>4. Seen' = 0
  BY <1>1, <1>2, <1>3 DEF Seen, Base
<1>5. Holds(<<>>, 0, "HUNT", <<>>, 0)
  BY <1>3 DEF Holds, EndsAt
<1>6. Following(<<>>, <<>>, 1, <<>>) /\ <<>> \in Seq(Nat \ {0})
  BY <1>3, ReachFirst DEF Following
<1>7. ASSUME NEW rb, NEW e PROVE Placed(<<>>, 0, "data", rb, e, "HUNT", <<>>, 0, <<>>)
  BY <1>3, <1>5, <1>6 DEF Placed
<1> QED
  BY <1>1, <1>2, <1>4, <1>7 DEF InPlace

\* More bytes are read, none of which the splitter has seen.
LEMMA Fed ==
  ASSUME IInv, ChunkOk, NEW n \in 1..ReadChunk, NEW val \in [1..n -> Bytes],
         ReadChunkOf(n, val)
  PROVE  /\ fed \in Seq(Byte) /\ fed' \in Seq(Byte) /\ Longer(fed', fed)
         /\ data' \in Seq(Byte) /\ Len(fed') = Len(fed) + Len(data')
<1>1. fed' = fed \o data'
  BY DEF ReadChunkOf
<1>2. data' \in Seq(Byte) /\ fed' \in Seq(Byte)
  BY ReadType DEF IInv, TypeOK
<1>3. fed \in Seq(Byte)
  BY DEF IInv, TypeOK
<1> DEFINE d == data'
           u == fed'
<1> HIDE DEF d, u
<1>4. d \in Seq(Byte) /\ u = fed \o d
  BY <1>1, <1>2 DEF d, u
<1>5. /\ Len(fed) \in Nat /\ Len(d) \in Nat /\ Len(u) = Len(fed) + Len(d)
      /\ \A k \in 1..Len(fed) : u[k] = fed[k]
  BY <1>3, <1>4, Joined
<1>6. Longer(u, fed)
  BY <1>5 DEF Longer
<1> QED
  BY <1>2, <1>3, <1>5, <1>6 DEF d, u

LEMMA ReadFinds ==
  ASSUME IInv, ChunkOk, InPlace, NEW n \in 1..ReadChunk, NEW val \in [1..n -> Bytes],
         ReadChunkOf(n, val)
  PROVE  InPlace'
<1>1. /\ src' = src /\ i' = i /\ replay_buf' = replay_buf /\ resume_i' = resume_i
      /\ state' = state /\ buf' = buf /\ rtcm_total_len' = rtcm_total_len
      /\ published' = published /\ pc # "push"
  BY DEF ReadChunkOf, splitter
<1>2. src = "data" /\ i = 0 /\ Seen = Len(fed)
  BY <1>1, Between
<1>3. /\ fed \in Seq(Byte) /\ fed' \in Seq(Byte) /\ Longer(fed', fed)
      /\ data' \in Seq(Byte) /\ Len(fed') = Len(fed) + Len(data')
  BY Fed
<1>4. Seen \in Nat /\ buf \in Seq(Byte) /\ Len(fed) \in Nat
  BY SearchTypes
<1>5. Seen' = Seen
  <2>1. Seen' = Len(fed') - Len(data') + 0
    BY <1>1, <1>2 DEF Seen, Base
  <2>2. Len(data') \in Nat
    BY <1>3
  <2> QED
    BY <1>2, <1>3, <1>4, <2>1, <2>2
<1>6. ASSUME NEW e
      PROVE  Placed(fed', Seen, src, replay_buf, e, state, buf, rtcm_total_len, published)
  <2>1. Placed(fed, Seen, src, replay_buf, e, state, buf, rtcm_total_len, published)
    BY <1>2 DEF InPlace, Placed
  <2>2. src # "replay"
    BY <1>2
  <2> DEFINE u == fed'
  <2>3. u \in Seq(Byte) /\ Longer(u, fed)
    BY <1>3
  <2> HIDE DEF u
  <2>4. Placed(u, Seen, src, replay_buf, e, state, buf, rtcm_total_len, published)
    BY <1>3, <1>4, <2>1, <2>2, <2>3, PlacedLonger
  <2> QED
    BY <2>4 DEF u
<1> QED
  BY <1>1, <1>5, <1>6 DEF InPlace

\* The replay ends where it was begun, and a chunk ends with it.
LEMMA EndFinds ==
  ASSUME IInv, ChunkOk, InPlace, EndOfReplay \/ ChunkDone
  PROVE  InPlace'
<1>1. CASE EndOfReplay
  <2>1. /\ src = "replay" /\ i = Len(replay_buf) /\ src' = "data" /\ i' = resume_i
        /\ UNCHANGED <<data, replay_buf, resume_i, splitter, published, fed>>
    BY <1>1 DEF EndOfReplay
  <2>2. Seen = ReplayEnd /\ Seen' = ReplayEnd
    <3>1. Seen = ReplayEnd - Len(replay_buf) + Len(replay_buf)
      BY <2>1 DEF Seen
    <3>2. Seen' = Base + resume_i
      BY <2>1 DEF Seen, Base
    <3> QED
      BY <3>1, <3>2, SearchTypes DEF ReplayEnd
  <2>3. ASSUME NEW e
        PROVE  Placed(fed, Seen, "data", replay_buf, e, state, buf, rtcm_total_len, published)
    BY DEF InPlace, Placed
  <2> QED
    BY <2>1, <2>2, <2>3 DEF InPlace, splitter
<1>2. CASE ChunkDone
  <2>1. /\ src = "data" /\ i = Len(data) /\ src' = "data" /\ i' = 0
        /\ data' = <<>> /\ UNCHANGED <<splitter, published, fed>>
    BY <1>2 DEF ChunkDone
  <2>2. Seen' = Seen
    <3>1. Seen = Len(fed) - Len(data) + Len(data)
      BY <2>1 DEF Seen, Base
    <3>2. Seen' = Len(fed) - 0 + 0
      <4>1. Len(data') = 0
        BY <2>1
      <4> QED
        BY <2>1, <4>1 DEF Seen, Base
    <3> QED
      BY <3>1, <3>2, SearchTypes
  <2>3. ASSUME NEW rb, NEW e
        PROVE  Placed(fed, Seen, "data", rb, e, state, buf, rtcm_total_len, published)
    BY <2>1 DEF InPlace, Placed
  <2> QED
    BY <2>1, <2>2, <2>3 DEF InPlace, splitter
<1> QED
  BY <1>1, <1>2

-----------------------------------------------------------------------------
LEMMA SearchInit == Init => SearchInv
<1> SUFFICES ASSUME Init PROVE SearchInv
  OBVIOUS
<1>1. IInv
  BY InitType
<1>2. /\ fed = <<>> /\ data = <<>> /\ src = "data" /\ i = 0 /\ state = "HUNT" /\ buf = <<>>
      /\ rtcm_total_len = 0 /\ published = <<>>
  BY DEF Init
<1>3. Len(<<>>) = 0 /\ 1..0 = {} /\ 0 - 0 + 0 = 0 /\ 0 - 0 + 1 = 1
  OBVIOUS
<1>4. ChunkOk
  BY <1>2, <1>3 DEF ChunkOk, EndsAt
<1>5. Seen = 0
  BY <1>2, <1>3 DEF Seen, Base
<1>6. Holds(<<>>, 0, "HUNT", <<>>, 0)
  BY <1>3 DEF Holds, EndsAt
<1>7. Following(<<>>, <<>>, 1, <<>>) /\ <<>> \in Seq(Nat \ {0})
  BY <1>3, ReachFirst DEF Following
<1>8. ASSUME NEW rb, NEW e PROVE Placed(<<>>, 0, "data", rb, e, "HUNT", <<>>, 0, <<>>)
  BY <1>3, <1>6, <1>7 DEF Placed
<1>9. InPlace
  BY <1>2, <1>5, <1>8 DEF InPlace
<1> QED
  BY <1>1, <1>4, <1>9 DEF SearchInv

\* A false start inside another stays in the stream until the next reset.
LEMMA NestedStays ==
  ASSUME IInv, ChunkOk, Nested(Stream), [Next]_vars, ~ResetQueue
  PROVE  Nested(Stream')
<1>1. ASSUME NEW n \in 1..ReadChunk, NEW val \in [1..n -> Bytes], ReadChunkOf(n, val)
      PROVE  Nested(Stream')
  <2> DEFINE u == fed'
             x == Values(u)
             w == Values(fed)
  <2>1. fed \in Seq(Byte) /\ u \in Seq(Byte) /\ Longer(u, fed)
    BY <1>1, Fed
  <2> HIDE DEF u
  <2>2. w \in Seq(Bytes) /\ x \in Seq(Bytes) /\ Longer(x, w)
    BY <2>1, ValuesOf, ValuesLonger
  <2>3. Nested(w)
    BY DEF Stream
  <2> HIDE DEF x, w
  <2>4. Nested(x)
    BY <2>2, <2>3, NestedLonger
  <2> QED
    BY <2>4 DEF x, u, Stream
<1>2. CASE fed' = fed
  BY <1>2 DEF Stream
<1> QED
  BY <1>1, <1>2
     DEF Next, ReaderStep, DriverStep, vars, reader, Untouched,
         FlushInput, TakeEvent, EventDone, Hunt, Header, BodyByte, GoodFrame, BadCrc,
         EndOfReplay, ChunkDone, ReceiveBurst, FifoOverflow

LEMMA SearchStep == SearchInv /\ [Next]_vars => SearchInv'
<1> SUFFICES ASSUME SearchInv, [Next]_vars PROVE SearchInv'
  OBVIOUS
<1>1. IInv /\ IInv' /\ ChunkOk /\ ChunkOk'
  BY TypeStep, ChunkFinds DEF SearchInv
<1>2. CASE ResetQueue
  BY <1>1, <1>2, ResetFinds DEF SearchInv
<1>3. CASE Nested(Stream) /\ ~ResetQueue
  BY <1>1, <1>3, NestedStays DEF SearchInv
<1>4. CASE InPlace /\ ~ResetQueue
  <2> SUFFICES InPlace' \/ Nested(Stream')
    BY <1>1 DEF SearchInv
  <2>1. ASSUME NEW n \in 1..ReadChunk, NEW val \in [1..n -> Bytes], ReadChunkOf(n, val)
        PROVE  InPlace'
    BY <1>1, <1>4, <2>1, ReadFinds
  <2>2. CASE Hunt
    BY <1>1, <1>4, <2>2, HuntFinds
  <2>3. CASE Header
    BY <1>1, <1>4, <2>3, HeaderFinds
  <2>4. CASE BodyByte \/ GoodFrame \/ BadCrc
    BY <1>1, <1>4, <2>4, BodyFinds
  <2>5. CASE EndOfReplay \/ ChunkDone
    BY <1>1, <1>4, <2>5, EndFinds
  <2>6. CASE UNCHANGED <<process, i, splitter, published, fed>>
    BY <1>1, <1>4, <2>6, QuietFinds
  <2>7. FlushInput \/ TakeEvent \/ EventDone \/ DriverStep \/ UNCHANGED vars
            => UNCHANGED <<process, i, splitter, published, fed>>
    BY DEF FlushInput, TakeEvent, EventDone, DriverStep, ReceiveBurst, FifoOverflow, vars,
       reader
  <2> QED
    BY <1>4, <2>1, <2>2, <2>3, <2>4, <2>5, <2>6, <2>7 DEF Next, ReaderStep
<1> QED
  BY <1>2, <1>3, <1>4 DEF SearchInv

LEMMA SearchHolds == SearchInv => FramesFound
<1> SUFFICES ASSUME SearchInv, pc \in {"wait", "read", "flush"}
             PROVE  FoundSinceReset \/ NestedFalseStarts(Values(fed))
  BY DEF FramesFound
<1>1. CASE Nested(Stream)
  <2>1. fed \in Seq(Byte)
    BY DEF SearchInv, IInv, TypeOK
  <2>2. Len(Values(fed)) \in Nat
    BY <2>1, ValuesOf
  <2> QED
    BY <1>1, <2>2, NestedVisited DEF Stream
<1>2. CASE InPlace
  <2>1. IInv /\ ChunkOk /\ pc # "push"
    BY DEF SearchInv
  <2>2. Seen = Len(fed)
    BY <1>2, <2>1, Between
  <2>3. /\ fed \in Seq(Byte) /\ buf \in Seq(Byte) /\ rtcm_total_len \in Nat
    BY <1>2, <2>1, SearchTypes
  <2>4. published \in Seq(Seq(Byte)) /\ state \in {"HUNT", "RTCM_HDR", "RTCM_BODY"}
    BY <2>1 DEF IInv, TypeOK
  <2>5. Placed(fed, Len(fed), src, replay_buf, ReplayEnd, state, buf, rtcm_total_len, published)
    BY <1>2, <2>2 DEF InPlace
  <2>6. FoundSinceReset
    BY <2>3, <2>4, <2>5, AllFound DEF FoundSinceReset
  <2> QED
    BY <2>6
<1> QED
  BY <1>1, <1>2 DEF SearchInv

\* For every alphabet, length field and checksum, and however the bytes arrive:
\* between chunks the published frames are those a search of the whole stream
\* finds, none missing, none too many, unless one false start lies inside another
\* (splitter_process_bytes, gnss_uart.c:350-393).
THEOREM FramesAreFound == Spec => []FramesFound
BY SearchInit, SearchStep, SearchHolds, PTL DEF Spec

-----------------------------------------------------------------------------
(* The work on a chunk.  Every step of the splitter takes a byte of the    *)
(* chunk, or shortens the replay, or takes a byte of the replay.  With a   *)
(* fair reader this is why ReplayTerminates.                               *)

ChunkLeft  == Len(data) - (IF src = "data" THEN i ELSE resume_i)
ReplayLen  == IF src = "data" THEN 0 ELSE Len(replay_buf) + 1
ReplayLeft == IF src = "data" THEN 0 ELSE Len(replay_buf) - i

Shrinks ==
    \/ ChunkLeft' < ChunkLeft
    \/ ChunkLeft' = ChunkLeft /\ ReplayLen' < ReplayLen
    \/ ChunkLeft' = ChunkLeft /\ ReplayLen' = ReplayLen /\ ReplayLeft' < ReplayLeft

\* The splitter is empty when a replay begins, so that what it has collected in
\* it is part of it.
WorkInv == IInv /\ (src = "replay" => Len(buf) <= i)

WorkShrinks ==
    [][pc = "push" /\ pc' = "push" =>
         {ChunkLeft, ReplayLen, ReplayLeft} \subseteq Nat /\ Shrinks]_vars

LEMMA WorkTypes ==
  ASSUME WorkInv
  PROVE  /\ Len(data) \in Nat /\ Len(replay_buf) \in Nat /\ Len(buf) \in Nat
         /\ i \in Nat /\ resume_i \in Nat /\ src \in {"data", "replay"}
         /\ i <= Len(Src) /\ (src = "replay" => resume_i <= Len(data) /\ Len(buf) <= i)
  BY DEF WorkInv, IInv, TypeOK, Reading

LEMMA RanksAreNumbers ==
  ASSUME WorkInv PROVE {ChunkLeft, ReplayLen, ReplayLeft} \subseteq Nat
<1>1. CASE src = "data"
  <2>1. i <= Len(data)
    BY <1>1, WorkTypes DEF Src
  <2> QED
    BY <1>1, <2>1, WorkTypes DEF ChunkLeft, ReplayLen, ReplayLeft
<1>2. CASE src = "replay"
  <2>1. i <= Len(replay_buf)
    BY <1>2, WorkTypes DEF Src
  <2> QED
    BY <1>2, <2>1, WorkTypes DEF ChunkLeft, ReplayLen, ReplayLeft
<1> QED
  BY <1>1, <1>2, WorkTypes

\* A byte is collected or passed over, or ends a frame.
LEMMA ByteShrinks ==
  ASSUME WorkInv, i < Len(Src), i' = i + 1, UNCHANGED process,
         Len(buf') <= Len(buf) + 1, IInv'
  PROVE  Shrinks /\ WorkInv'
<1>1. /\ data' = data /\ src' = src /\ replay_buf' = replay_buf /\ resume_i' = resume_i
  BY DEF process
<1>2. CASE src = "data"
  <2>1. ChunkLeft' = Len(data) - (i + 1) /\ ChunkLeft = Len(data) - i
    BY <1>1, <1>2 DEF ChunkLeft
  <2>2. ChunkLeft' < ChunkLeft
    BY <2>1, WorkTypes
  <2> QED
    BY <1>1, <1>2, <2>2 DEF Shrinks, WorkInv
<1>3. CASE src = "replay"
  <2>1. /\ ChunkLeft' = ChunkLeft /\ ReplayLen' = ReplayLen
        /\ ReplayLeft' = Len(replay_buf) - (i + 1) /\ ReplayLeft = Len(replay_buf) - i
    BY <1>1, <1>3 DEF ChunkLeft, ReplayLen, ReplayLeft
  <2>2. ReplayLeft' < ReplayLeft
    BY <2>1, WorkTypes
  <2>3. Len(buf') <= i'
    <3>1. Len(buf') \in Nat
      BY DEF IInv, TypeOK
    <3> QED
      BY <1>3, <3>1, WorkTypes
  <2> QED
    BY <2>1, <2>2, <2>3 DEF Shrinks, WorkInv
<1> QED
  BY <1>2, <1>3, WorkTypes

\* A replay takes a byte of the chunk, or is shorter than the one it ends.
LEMMA ReplayShrinks ==
  ASSUME WorkInv, IInv', i < Len(Src), Replay
  PROVE  Shrinks /\ WorkInv'
<1>1. /\ data' = data /\ src' = "replay" /\ i' = 0 /\ buf' = <<>>
      /\ replay_buf' = Tail(With) /\ resume_i' = IF src = "data" THEN i + 1 ELSE resume_i
  BY DEF Replay, splitter_init
<1>2. Len(replay_buf') = Len(buf)
  BY <1>1, WithType DEF WorkInv, IInv
<1>3. WorkInv'
  <2>1. Len(buf') = 0
    BY <1>1
  <2> QED
    BY <1>1, <2>1 DEF WorkInv
<1>4. CASE src = "data"
  <2>1. ChunkLeft' = Len(data) - (i + 1) /\ ChunkLeft = Len(data) - i
    BY <1>1, <1>4 DEF ChunkLeft
  <2>2. ChunkLeft' < ChunkLeft
    BY <2>1, WorkTypes
  <2> QED
    BY <1>3, <2>2 DEF Shrinks
<1>5. CASE src = "replay"
  <2>1. ChunkLeft' = ChunkLeft /\ ReplayLen' = Len(buf) + 1 /\ ReplayLen = Len(replay_buf) + 1
    BY <1>1, <1>2, <1>5 DEF ChunkLeft, ReplayLen
  <2>2. i < Len(replay_buf)
    BY <1>5 DEF Src
  <2>3. ReplayLen' < ReplayLen
    BY <1>5, <2>1, <2>2, WorkTypes
  <2> QED
    BY <1>3, <2>1, <2>3 DEF Shrinks
<1> QED
  BY <1>4, <1>5, WorkTypes

LEMMA PushShrinks ==
  ASSUME WorkInv, IInv', Splitting
  PROVE  Shrinks /\ WorkInv'
<1>1. pc = "push" /\ i < Len(Src)
  BY DEF Splitting, Hunt, Header, BodyByte, GoodFrame, BadCrc, Pushing
<1>2. With \in Seq(Byte) /\ Len(With) = Len(buf) + 1 /\ Len(buf) \in Nat /\ Len(<<>>) = 0
  BY <1>1, WithType, WorkTypes DEF WorkInv, IInv
<1>3. \/ i' = i + 1 /\ UNCHANGED process /\ (buf' = With \/ buf' = <<>> \/ buf' = buf)
      \/ i' = i + 1 /\ UNCHANGED process /\ buf' = <<Src[i + 1]>>
      \/ Replay
  BY DEF Splitting, Hunt, Header, BodyByte, GoodFrame, BadCrc, Collect, splitter_init
<1>4. CASE Replay
  BY <1>1, <1>4, ReplayShrinks
<1>5. CASE i' = i + 1 /\ UNCHANGED process /\ (buf' = With \/ buf' = <<>> \/ buf' = buf)
  <2>1. Len(buf') <= Len(buf) + 1
    BY <1>2, <1>5
  <2> QED
    BY <1>1, <1>5, <2>1, ByteShrinks
<1>6. CASE i' = i + 1 /\ UNCHANGED process /\ buf' = <<Src[i + 1]>>
  <2>1. Len(buf') = 1
    BY <1>6
  <2>2. Len(buf') <= Len(buf) + 1
    BY <1>2, <2>1
  <2> QED
    BY <1>1, <1>6, <2>2, ByteShrinks
<1> QED
  BY <1>3, <1>4, <1>5, <1>6

LEMMA EndShrinks ==
  ASSUME WorkInv, EndOfReplay
  PROVE  Shrinks
<1>1. /\ src = "replay" /\ src' = "data" /\ i' = resume_i /\ data' = data
  BY DEF EndOfReplay
<1>2. ChunkLeft' = ChunkLeft /\ ReplayLen' = 0 /\ ReplayLen = Len(replay_buf) + 1
  BY <1>1 DEF ChunkLeft, ReplayLen
<1> QED
  BY <1>2, WorkTypes DEF Shrinks

LEMMA WorkStep ==
  ASSUME WorkInv, [Next]_vars
  PROVE  /\ WorkInv'
         /\ pc = "push" /\ pc' = "push" /\ vars' # vars => Shrinks
<1>0. IInv'
  BY TypeStep DEF WorkInv
<1>1. CASE Splitting
  BY <1>0, <1>1, PushShrinks
<1>2. CASE EndOfReplay
  <2>1. src' = "data"
    BY <1>2 DEF EndOfReplay
  <2> QED
    BY <1>0, <1>2, <2>1, EndShrinks DEF WorkInv
<1>3. CASE pc' # "push"
  BY <1>0, <1>3 DEF WorkInv, IInv, Reading
<1>4. CASE pc # "push" /\ UNCHANGED <<src, i, buf>>
  BY <1>0, <1>4 DEF WorkInv
<1>5. CASE UNCHANGED vars
  BY <1>0, <1>5 DEF WorkInv, vars, process, splitter
<1>6. \/ Splitting \/ EndOfReplay \/ pc' # "push" \/ UNCHANGED vars
      \/ pc # "push" /\ UNCHANGED <<src, i, buf>>
  BY DEF Next, ReaderStep, DriverStep, Splitting, FlushInput, ResetQueue, TakeEvent, EventDone,
     ReadChunkOf, ChunkDone, ReceiveBurst, FifoOverflow, reader, process, splitter
<1> QED
  BY <1>1, <1>2, <1>3, <1>4, <1>5, <1>6

\* Whatever the bytes are, replays within replays included, the splitter comes to
\* the end of a chunk: a triple of numbers gets smaller, in lexicographic order,
\* with every step (the loop of splitter_process_bytes, gnss_uart.c:357-392).
THEOREM EveryStepShrinksTheWork == Spec => WorkShrinks
<1>1. Init => WorkInv
  BY InitType DEF WorkInv, Init
<1>2. WorkInv /\ [Next]_vars => WorkInv'
  BY WorkStep
<1>3. WorkInv /\ [Next]_vars => [pc = "push" /\ pc' = "push" =>
         {ChunkLeft, ReplayLen, ReplayLeft} \subseteq Nat /\ Shrinks]_vars
  BY WorkStep, RanksAreNumbers
<1> QED
  BY <1>1, <1>2, <1>3, PTL DEF Spec, WorkShrinks
=============================================================================
