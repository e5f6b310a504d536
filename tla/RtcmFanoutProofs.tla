-------------------------- MODULE RtcmFanoutProofs --------------------------
(* Theorems about RtcmFanout, for every number of destinations, queue depth *)
(* and pool size.                                                           *)
EXTENDS RtcmFanout, SumTheorems, FiniteSetTheorems, SequenceTheorems, TLAPS

(***************************************************************************)
(* Type correctness, in regular operation and during start-up.             *)
(***************************************************************************)

LEMMA NextDestType == TypeOK /\ pc \in {"send", "drop"} /\ NextDest => ReaderTypeOK'
<1> SUFFICES ASSUME TypeOK, pc \in {"send", "drop"}, NextDest PROVE ReaderTypeOK'
  OBVIOUS
<1>1. CASE i = N
  BY <1>1, SizesAssumption DEF NextDest, ReaderDone, TypeOK, ReaderTypeOK, NULL
<1>2. CASE i # N
  BY <1>2, SizesAssumption DEF NextDest, TypeOK, ReaderTypeOK
<1> QED
  BY <1>1, <1>2

LEMMA TypeStep == TypeOK /\ [Next]_vars => TypeOK'
<1> SUFFICES ASSUME TypeOK, [Next]_vars PROVE TypeOK'
  OBVIOUS
<1> USE SizesAssumption, NoFrameAssumption DEF Dest, Slots, NULL, Caster
<1>1. ASSUME NEW fr \in Frames, PublishFrame(fr) PROVE TypeOK'
  BY <1>1 DEF TypeOK, ReaderTypeOK, PublishFrame, service
<1>2. CASE CountActive
  BY <1>2 DEF TypeOK, ReaderTypeOK, CountActive, service
<1>3. CASE NoConsumers
  BY <1>3 DEF TypeOK, ReaderTypeOK, NoConsumers, ReaderDone, service
<1>4. CASE StartAlloc
  BY <1>4 DEF TypeOK, ReaderTypeOK, StartAlloc, service
<1>5. CASE AllocSlot
  BY <1>5 DEF TypeOK, ReaderTypeOK, AllocSlot, service
<1>6. CASE ScanNext
  BY <1>6 DEF TypeOK, ReaderTypeOK, ScanNext, service
<1>7. CASE PoolExhausted
  BY <1>7 DEF TypeOK, ReaderTypeOK, PoolExhausted, ReaderDone, service
<1>8. CASE CopyFrame
  BY <1>8 DEF TypeOK, ReaderTypeOK, CopyFrame, service
<1>9. CASE SetRefs
  BY <1>9 DEF TypeOK, ReaderTypeOK, SetRefs, service
<1>10. CASE SkipDest
  <2>1. ReaderTypeOK'
    BY <1>10, NextDestType DEF SkipDest
  <2> QED
    BY <1>10, <2>1 DEF TypeOK, SkipDest, service
<1>11. CASE SendFrame
  <2>1. queue' \in [Dest -> Seq(Slots)]
    BY <1>11 DEF TypeOK, ReaderTypeOK, SendFrame
  <2>2. ReaderTypeOK'
    BY <1>11, NextDestType DEF SendFrame
  <2> QED
    BY <1>11, <2>1, <2>2 DEF TypeOK, SendFrame, service
<1>12. CASE SendLost
  <2>1. ReaderTypeOK'
    BY <1>12, NextDestType DEF SendLost
  <2> QED
    BY <1>12, <2>1 DEF TypeOK, SendLost, service
<1>13. CASE QueueFull
  BY <1>13 DEF TypeOK, ReaderTypeOK, QueueFull, service
<1>14. CASE DropFrame
  <2>1. ReaderTypeOK'
    BY <1>14, NextDestType DEF DropFrame
  <2> QED
    BY <1>14, <2>1 DEF TypeOK, ReaderTypeOK, DropFrame, service
<1>15. ASSUME NEW d \in Dest, Receive(d) PROVE TypeOK'
  <2>1. Head(queue[d]) \in Slots /\ Tail(queue[d]) \in Seq(Slots)
    BY <1>15 DEF TypeOK, Receive
  <2> QED
    BY <1>15, <2>1 DEF TypeOK, ReaderTypeOK, Receive, reader, service
<1>16. ASSUME NEW d \in Dest, Release(d) PROVE TypeOK'
  BY <1>16 DEF TypeOK, ReaderTypeOK, Release, reader, service
<1>17. CASE BootStep
  <2>1. CASE BootSkip
    BY <2>1 DEF TypeOK, ReaderTypeOK, BootSkip, reader
  <2>2. CASE BootOpen
    BY <2>2 DEF TypeOK, ReaderTypeOK, BootOpen, reader
  <2>3. ASSUME NEW ok \in BOOLEAN, BootStart(ok) PROVE TypeOK'
    BY <2>3 DEF TypeOK, ReaderTypeOK, BootStart, reader
  <2>4. CASE BootDeleteCaster
    BY <2>4 DEF TypeOK, ReaderTypeOK, BootDeleteCaster, reader
  <2>5. CASE BootCloseCaster
    <3>1. boot' \in 1..(N + 1)
      BY <2>5 DEF BootCloseCaster
    <3>2. deleted' \in BOOLEAN
      BY <2>5 DEF BootCloseCaster
    <3>3. open' \in [Dest -> BOOLEAN]
      BY <2>5 DEF TypeOK, BootCloseCaster
    <3> QED
      BY <2>5, <3>1, <3>2, <3>3 DEF TypeOK, ReaderTypeOK, BootCloseCaster, reader
  <2> QED
    BY <1>17, <2>1, <2>2, <2>3, <2>4, <2>5 DEF BootStep
<1>18. CASE UNCHANGED vars
  BY <1>18 DEF TypeOK, ReaderTypeOK, vars, reader, service
<1> QED
  BY <1>1, <1>2, <1>3, <1>4, <1>5, <1>6, <1>7, <1>8, <1>9, <1>10, <1>11, <1>12,
     <1>13, <1>14, <1>15, <1>16, <1>17, <1>18 DEF Next, ReaderStep

LEMMA PoolInitType == PoolInit /\ open \in [Dest -> BOOLEAN]
                      /\ running \in [Dest -> BOOLEAN] /\ boot \in 1..(N + 1)
                      => TypeOK
<1> SUFFICES ASSUME PoolInit, open \in [Dest -> BOOLEAN],
                    running \in [Dest -> BOOLEAN], boot \in 1..(N + 1)
             PROVE  TypeOK
  OBVIOUS
<1>1. queue \in [Dest -> Seq(Slots)]
  BY DEF PoolInit
<1>2. ReaderTypeOK
  BY SizesAssumption DEF PoolInit, ReaderTypeOK, NULL
<1>3. deleted \in BOOLEAN
  BY DEF PoolInit
<1> QED
  BY <1>1, <1>2, <1>3 DEF PoolInit, TypeOK, NULL

\* Every variable keeps its type: no loop index leaves its range and no slot
\* pointer dangles, whatever the order of the steps of the two cores.
THEOREM TypeCorrect == Spec => []TypeOK
<1>1. Init => TypeOK
  BY PoolInitType, SizesAssumption DEF Init, Dest
<1> QED
  BY <1>1, TypeStep, PTL DEF Spec

\* The same while app_main is still starting the services.
THEOREM TypeCorrectDuringBoot == BootSpec => []TypeOK
<1>1. BootInit => TypeOK
  BY PoolInitType, SizesAssumption DEF BootInit, Dest
<1> QED
  BY <1>1, TypeStep, PTL DEF BootSpec

-----------------------------------------------------------------------------
(***************************************************************************)
(* Queues as sequences without repetition.                                 *)
(***************************************************************************)

NoRepeats(q) == \A j, k \in 1..Len(q) : q[j] = q[k] => j = k

LEMMA InAppend ==
    ASSUME NEW S, NEW q \in Seq(S), NEW s \in S, NEW t
    PROVE  InQueue(Append(q, s), t) <=> InQueue(q, t) \/ t = s
<1> DEFINE q2 == Append(q, s)
<1>1. /\ Len(q2) = Len(q) + 1
      /\ q2[Len(q) + 1] = s
      /\ \A k \in 1..Len(q) : q2[k] = q[k]
  OBVIOUS
<1>2. Len(q) \in Nat
  OBVIOUS
<1> HIDE DEF q2
<1>3. InQueue(q2, t) => InQueue(q, t) \/ t = s
  BY <1>1, <1>2 DEF InQueue
<1>4. InQueue(q, t) => InQueue(q2, t)
  BY <1>1, <1>2 DEF InQueue
<1>5. t = s => InQueue(q2, t)
  BY <1>1, <1>2 DEF InQueue
<1> QED
  BY <1>3, <1>4, <1>5 DEF q2

LEMMA AppendNoRepeats ==
    ASSUME NEW S, NEW q \in Seq(S), NEW s \in S, NoRepeats(q), ~InQueue(q, s)
    PROVE  NoRepeats(Append(q, s))
BY DEF NoRepeats, InQueue

LEMMA TailNoRepeats ==
    ASSUME NEW S, NEW q \in Seq(S), q # <<>>, NoRepeats(q)
    PROVE  NoRepeats(Tail(q))
BY DEF NoRepeats

LEMMA InTail ==
    ASSUME NEW S, NEW q \in Seq(S), q # <<>>, NoRepeats(q), NEW t
    PROVE  InQueue(Tail(q), t) <=> InQueue(q, t) /\ t # Head(q)
<1> DEFINE q2 == Tail(q)
<1>1. /\ Len(q) \in Nat
      /\ Len(q) > 0
      /\ Len(q2) = Len(q) - 1
      /\ Head(q) = q[1]
      /\ \A k \in 1..Len(q2) : q2[k] = q[k + 1]
  OBVIOUS
<1> HIDE DEF q2
<1>2. ASSUME InQueue(q2, t) PROVE InQueue(q, t) /\ t # Head(q)
  <2>1. PICK k \in 1..Len(q2) : q2[k] = t
    BY <1>2 DEF InQueue
  <2>2. k + 1 \in 1..Len(q) /\ q[k + 1] = t /\ k + 1 # 1
    BY <1>1, <2>1
  <2> QED
    BY <1>1, <2>2 DEF InQueue, NoRepeats
<1>3. ASSUME InQueue(q, t), t # Head(q) PROVE InQueue(q2, t)
  <2>1. PICK k \in 1..Len(q) : q[k] = t
    BY <1>3 DEF InQueue
  <2>2. k - 1 \in 1..Len(q2) /\ q2[k - 1] = q[(k - 1) + 1]
    BY <1>1, <1>3, <2>1
  <2>3. (k - 1) + 1 = k
    OBVIOUS
  <2> QED
    BY <2>1, <2>2, <2>3 DEF InQueue
<1> QED
  BY <1>2, <1>3 DEF q2

LEMMA HeadInQueue ==
    ASSUME NEW S, NEW q \in Seq(S), q # <<>>
    PROVE  InQueue(q, Head(q)) /\ Head(q) \in S
<1>1. Len(q) \in Nat /\ Len(q) > 0 /\ Head(q) = q[1]
  OBVIOUS
<1> QED
  BY <1>1 DEF InQueue
-----------------------------------------------------------------------------
(***************************************************************************)
(* The inductive invariant.  The counts are exact only because no queue    *)
(* holds a slot twice, a destination's slot in hand is no longer in its    *)
(* queue, and the slot being published is nowhere it has not been sent to. *)
(***************************************************************************)

Started == boot = N + 1 /\ deleted = FALSE

QueuesDistinct == \A d \in Dest : NoRepeats(queue[d]) /\ ~InQueue(queue[d], held[d])

QueuesBounded == \A d \in Dest : Len(queue[d]) <= Depth

NotYetSent == pc \in {"send", "drop"} => \A d \in Dest : d >= i => ~Refers(d, f)

Refused == pc = "drop" => open[i]

RefsCounted ==
    /\ pc = "count" => refs = Cardinality({d \in Dest : d < i /\ open[d]})
    /\ pc \in {"scan", "copy", "set_refs"} => refs = Cardinality({d \in Dest : open[d]})

IInv == /\ TypeOK
        /\ Started
        /\ QueuesDistinct
        /\ QueuesBounded
        /\ NotYetSent
        /\ Refused
        /\ RefsCounted
        /\ NoOverwriteInUse
        /\ RefCountExact

LEMMA DestFinite == /\ IsFiniteSet(Dest)
                    /\ Cardinality(Dest) = N
                    /\ \A D \in SUBSET Dest : IsFiniteSet(D)
<1>1. IsFiniteSet(Dest) /\ Cardinality(Dest) = N
  BY FS_Interval, SizesAssumption DEF Dest
<1> QED
  BY <1>1, FS_Subset

\* The reader is between two frames, counting, or looking for a slot: nothing
\* is pending, so the counts stay exact as long as nobody else moves.
LEMMA ReaderLooksAround ==
    ASSUME IInv, TypeOK', UNCHANGED <<ref_count, queue, held, service>>,
           pc \in {"idle", "count", "scan"}, pc' \in {"idle", "count", "scan"},
           RefsCounted'
    PROVE  IInv'
<1> USE DEF IInv
<1>1. Started' /\ QueuesDistinct' /\ QueuesBounded'
  BY DEF Started, QueuesDistinct, QueuesBounded, service
<1>2. NotYetSent' /\ Refused' /\ NoOverwriteInUse'
  BY DEF NotYetSent, Refused, NoOverwriteInUse
<1>3. \A s \in Slots : Holders(s)' = Holders(s) /\ Pending(s)' = {} /\ Pending(s) = {}
  BY DEF Holders, Refers, Pending
<1>4. RefCountExact'
  BY <1>3 DEF RefCountExact
<1> QED
  BY <1>1, <1>2, <1>4

LEMMA PublishFrameStep ==
    ASSUME IInv, TypeOK', NEW fr \in Frames, PublishFrame(fr)
    PROVE  IInv'
<1>1. {d \in Dest : d < i /\ open[d]} = {}
  BY DEF IInv, TypeOK, ReaderTypeOK, PublishFrame, Dest
<1>2. RefsCounted'
  BY <1>1, FS_EmptySet DEF IInv, TypeOK, ReaderTypeOK, PublishFrame, RefsCounted, service
<1> QED
  BY <1>2, ReaderLooksAround DEF PublishFrame

LEMMA CountActiveStep ==
    ASSUME IInv, TypeOK', CountActive
    PROVE  IInv'
<1> DEFINE Below(n) == {d \in Dest : d < n /\ open[d]}
<1>1. i \in Dest /\ i \in Nat /\ refs = Cardinality(Below(i)) /\ refs \in 0..N
  BY SizesAssumption DEF IInv, TypeOK, ReaderTypeOK, CountActive, RefsCounted, Dest
<1>2. IsFiniteSet(Below(i)) /\ i \notin Below(i)
  BY <1>1, DestFinite
<1>3. CASE open[i]
  <2>1. Below(i + 1) = Below(i) \cup {i}
    BY <1>1, <1>3 DEF Dest
  <2>2. Cardinality(Below(i + 1)) = Cardinality(Below(i)) + 1
    BY <1>2, <2>1, FS_AddElement
  <2> QED
    BY <1>1, <1>3, <2>2, ReaderLooksAround DEF CountActive, RefsCounted, service
<1>4. CASE ~open[i]
  <2>1. Below(i + 1) = Below(i)
    BY <1>1, <1>4 DEF Dest
  <2> QED
    BY <1>1, <1>4, <2>1, ReaderLooksAround DEF CountActive, RefsCounted, service
<1> QED
  BY <1>3, <1>4

LEMMA StartAllocStep ==
    ASSUME IInv, TypeOK', StartAlloc
    PROVE  IInv'
<1>1. {d \in Dest : d < i /\ open[d]} = {d \in Dest : open[d]}
  BY SizesAssumption DEF StartAlloc, Dest
<1>2. RefsCounted'
  BY <1>1 DEF IInv, StartAlloc, RefsCounted, service
<1> QED
  BY <1>2, ReaderLooksAround DEF StartAlloc

LEMMA GiveUpStep ==
    ASSUME IInv, TypeOK', NoConsumers \/ PoolExhausted \/ ScanNext
    PROVE  IInv'
<1>1. RefsCounted'
  BY DEF IInv, NoConsumers, PoolExhausted, ScanNext, ReaderDone, RefsCounted, service
<1> QED
  BY <1>1, ReaderLooksAround DEF NoConsumers, PoolExhausted, ScanNext, ReaderDone

LEMMA AllocSlotStep ==
    ASSUME IInv, TypeOK', AllocSlot
    PROVE  IInv'
<1> USE DEF IInv
<1>1. Started' /\ QueuesDistinct' /\ QueuesBounded'
  BY DEF AllocSlot, Started, QueuesDistinct, QueuesBounded, service
<1>2. NotYetSent' /\ Refused'
  BY DEF AllocSlot, NotYetSent, Refused
<1>3. RefsCounted'
  BY DEF AllocSlot, RefsCounted, service
<1>4. i \in Slots /\ f' = i
  BY DEF AllocSlot, TypeOK, ReaderTypeOK, Slots
<1>5. \A s \in Slots : /\ Holders(s)' = Holders(s)
                       /\ Pending(s)' = {}
                       /\ Pending(s) = {}
  BY DEF AllocSlot, Holders, Refers, Pending
<1>6. Holders(i) = {}
  <2>1. Cardinality(Holders(i)) = 0
    BY <1>4, <1>5 DEF AllocSlot, RefCountExact
  <2> QED
    BY <2>1, DestFinite, FS_EmptySet DEF Holders
<1>7. NoOverwriteInUse'
  BY <1>4, <1>5, <1>6 DEF NoOverwriteInUse
<1>8. RefCountExact'
  <2> SUFFICES ASSUME NEW s \in Slots
               PROVE  ref_count'[s] = IF s = i THEN 1 ELSE Cardinality(Holders(s))
    BY <1>4, <1>5 DEF AllocSlot, RefCountExact
  <2> QED
    BY <1>4, <1>5 DEF AllocSlot, RefCountExact, TypeOK
<1> QED
  BY <1>1, <1>2, <1>3, <1>7, <1>8

LEMMA CopyFrameStep ==
    ASSUME IInv, TypeOK', CopyFrame
    PROVE  IInv'
<1> USE DEF IInv
<1>1. Started' /\ QueuesDistinct' /\ QueuesBounded'
  BY DEF CopyFrame, Started, QueuesDistinct, QueuesBounded, service
<1>2. NotYetSent' /\ Refused' /\ RefsCounted'
  BY DEF CopyFrame, NotYetSent, Refused, RefsCounted, service
<1>3. \A s \in Slots : /\ Holders(s)' = Holders(s)
                       /\ Pending(s)' = {}
                       /\ Pending(s) = {}
  BY DEF CopyFrame, Holders, Refers, Pending
<1>4. f \in Slots /\ f' = f
  BY DEF CopyFrame, TypeOK, ReaderTypeOK
<1>5. NoOverwriteInUse'
  BY <1>3, <1>4 DEF CopyFrame, NoOverwriteInUse
<1>6. RefCountExact'
  BY <1>3, <1>4 DEF CopyFrame, RefCountExact
<1> QED
  BY <1>1, <1>2, <1>5, <1>6

LEMMA SetRefsStep ==
    ASSUME IInv, TypeOK', SetRefs
    PROVE  IInv'
<1> USE DEF IInv
<1>1. Started' /\ QueuesDistinct' /\ QueuesBounded'
  BY DEF SetRefs, Started, QueuesDistinct, QueuesBounded, service
<1>2. Refused' /\ RefsCounted' /\ NoOverwriteInUse'
  BY DEF SetRefs, Refused, RefsCounted, NoOverwriteInUse
<1>3. f \in Slots /\ f' = f /\ Holders(f) = {}
  BY DEF SetRefs, TypeOK, ReaderTypeOK, NoOverwriteInUse
<1>4. \A s \in Slots : Holders(s)' = Holders(s) /\ Pending(s) = {}
  BY DEF SetRefs, Holders, Refers, Pending
<1>5. \A s \in Slots : Pending(s)' = IF s = f THEN {d \in Dest : open[d]} ELSE {}
  BY SizesAssumption DEF SetRefs, Pending, service, Dest
<1>6. NotYetSent'
  BY <1>3, <1>4 DEF SetRefs, NotYetSent, Holders
<1>7. RefCountExact'
  <2> SUFFICES ASSUME NEW s \in Slots
               PROVE  ref_count'[s] = Cardinality(Holders(s)' \cup Pending(s)')
    BY DEF SetRefs, RefCountExact
  <2>1. CASE s = f
    <3>1. Holders(s)' \cup Pending(s)' = {d \in Dest : open[d]}
      BY <1>3, <1>4, <1>5, <2>1
    <3>2. ref_count'[s] = refs
      BY <1>3, <2>1 DEF SetRefs, TypeOK
    <3> QED
      BY <3>1, <3>2 DEF SetRefs, RefsCounted
  <2>2. CASE s # f
    BY <1>3, <1>4, <1>5, <2>2 DEF SetRefs, TypeOK, RefCountExact
  <2> QED
    BY <2>1, <2>2
<1> QED
  BY <1>1, <1>2, <1>6, <1>7

\* Moving on to the next handle takes destination i out of what is pending.
LEMMA NextDestPending ==
    ASSUME TypeOK, pc \in {"send", "drop"}, NextDest, open' = open
    PROVE  /\ pc' \in {"idle", "send"}
           /\ pc' = "send" => i' = i + 1 /\ f' = f
           /\ \A s \in Slots : Pending(s)' = Pending(s) \ {i}
<1>1. i \in Dest /\ i \in Nat
  BY SizesAssumption DEF TypeOK, ReaderTypeOK, Dest
<1>2. CASE i = N
  <2>1. pc' = "idle"
    BY <1>2 DEF NextDest, ReaderDone
  <2>2. ASSUME NEW s \in Slots PROVE Pending(s) \subseteq {i} /\ Pending(s)' = {}
    BY <1>1, <1>2, <2>1 DEF Pending, Dest
  <2> QED
    BY <2>1, <2>2
<1>3. CASE i # N
  <2>1. pc' = "send" /\ i' = i + 1 /\ f' = f
    BY <1>3 DEF NextDest
  <2>2. ASSUME NEW s \in Slots PROVE Pending(s)' = Pending(s) \ {i}
    BY <1>1, <2>1 DEF Pending, Dest
  <2> QED
    BY <2>1, <2>2
<1> QED
  BY <1>2, <1>3

LEMMA SkipDestStep ==
    ASSUME IInv, TypeOK', SkipDest
    PROVE  IInv'
<1> USE DEF IInv
<1>1. /\ pc' \in {"idle", "send"}
      /\ pc' = "send" => i' = i + 1 /\ f' = f
      /\ \A s \in Slots : Pending(s)' = Pending(s) \ {i}
  BY NextDestPending DEF SkipDest, service
<1>2. Started' /\ QueuesDistinct' /\ QueuesBounded'
  BY DEF SkipDest, Started, QueuesDistinct, QueuesBounded, service
<1>3. Refused' /\ RefsCounted' /\ NoOverwriteInUse'
  BY <1>1 DEF Refused, RefsCounted, NoOverwriteInUse
<1>4. i \in Nat
  BY DEF TypeOK, ReaderTypeOK
<1>5. NotYetSent'
  BY <1>1, <1>4 DEF SkipDest, NotYetSent, Refers, Dest
<1>6. \A s \in Slots : Holders(s)' = Holders(s) /\ i \notin Pending(s)
  BY DEF SkipDest, Holders, Refers, Pending
<1>7. RefCountExact'
  BY <1>1, <1>6 DEF SkipDest, RefCountExact
<1> QED
  BY <1>2, <1>3, <1>5, <1>7

LEMMA SendFrameStep ==
    ASSUME IInv, TypeOK', SendFrame
    PROVE  IInv'
<1> USE DEF IInv
<1>1. /\ pc' \in {"idle", "send"}
      /\ pc' = "send" => i' = i + 1 /\ f' = f
      /\ \A s \in Slots : Pending(s)' = Pending(s) \ {i}
  BY NextDestPending DEF SendFrame, service
<1>2. /\ i \in Dest /\ i \in Nat /\ f \in Slots /\ open[i]
      /\ queue[i] \in Seq(Slots)
  BY DEF SendFrame, TypeOK, ReaderTypeOK, Dest
<1>3. /\ queue'[i] = Append(queue[i], f)
      /\ \A d \in Dest : d # i => queue'[d] = queue[d]
      /\ held' = held /\ ref_count' = ref_count
  BY <1>2 DEF SendFrame, TypeOK
<1>4. ~Refers(i, f)
  BY <1>2 DEF SendFrame, NotYetSent
<1>sent. \A t : InQueue(queue'[i], t) <=> InQueue(queue[i], t) \/ t = f
  <2> TAKE t
  <2> QED
    BY <1>2, <1>3, InAppend
<1>5. \A d \in Dest, s \in Slots : Refers(d, s)' <=> Refers(d, s) \/ (d = i /\ s = f)
  <2> TAKE d \in Dest, s \in Slots
  <2>1. CASE d = i
    BY <1>3, <1>sent, <2>1 DEF Refers
  <2>2. CASE d # i
    BY <1>3, <2>2 DEF Refers
  <2> QED
    BY <2>1, <2>2
<1>6. Started'
  BY DEF SendFrame, Started, service
<1>7. QueuesDistinct'
  <2> SUFFICES ASSUME NEW d \in Dest
               PROVE  NoRepeats(queue'[d]) /\ ~InQueue(queue'[d], held'[d])
    BY DEF QueuesDistinct
  <2>1. CASE d = i
    <3>1. NoRepeats(queue[i]) /\ ~InQueue(queue[i], f) /\ held[i] # f
      BY <1>2, <1>4 DEF QueuesDistinct, Refers
    <3>2. ~InQueue(queue[i], held[i])
      BY <1>2 DEF QueuesDistinct
    <3>3. NoRepeats(queue'[i])
      BY <1>2, <1>3, <3>1, AppendNoRepeats
    <3>4. ~InQueue(queue'[i], held'[i])
      BY <1>3, <1>sent, <3>1, <3>2
    <3> QED
      BY <2>1, <3>3, <3>4
  <2>2. CASE d # i
    BY <1>3, <2>2 DEF QueuesDistinct
  <2> QED
    BY <2>1, <2>2
<1>8. QueuesBounded'
  <2>1. Len(queue'[i]) = Len(queue[i]) + 1 /\ Len(queue[i]) \in Nat
    BY <1>2, <1>3
  <2> QED
    BY <1>2, <1>3, <2>1, SizesAssumption DEF SendFrame, QueuesBounded
<1>9. Refused' /\ RefsCounted' /\ NoOverwriteInUse'
  BY <1>1 DEF Refused, RefsCounted, NoOverwriteInUse
<1>10. NotYetSent'
  <2> SUFFICES ASSUME pc' = "send", NEW d \in Dest, d >= i + 1
               PROVE  ~Refers(d, f)'
    BY <1>1 DEF NotYetSent
  <2> QED
    BY <1>1, <1>2, <1>5 DEF SendFrame, NotYetSent, Dest
<1>11. RefCountExact'
  <2> SUFFICES ASSUME NEW s \in Slots
               PROVE  Holders(s)' \cup Pending(s)' = Holders(s) \cup Pending(s)
    BY <1>1, <1>3 DEF SendFrame, RefCountExact
  <2>1. Holders(s)' = IF s = f THEN Holders(s) \cup {i} ELSE Holders(s)
    BY <1>2, <1>5 DEF Holders
  <2>2. i \in Pending(s) <=> s = f
    BY <1>2 DEF SendFrame, Pending
  <2> QED
    BY <1>1, <2>1, <2>2
<1> QED
  BY <1>6, <1>7, <1>8, <1>9, <1>10, <1>11

LEMMA QueueFullStep ==
    ASSUME IInv, TypeOK', QueueFull
    PROVE  IInv'
<1> USE DEF IInv
<1>1. Started' /\ QueuesDistinct' /\ QueuesBounded'
  BY DEF QueueFull, Started, QueuesDistinct, QueuesBounded, service
<1>2. Refused' /\ RefsCounted' /\ NoOverwriteInUse'
  BY DEF QueueFull, Refused, RefsCounted, NoOverwriteInUse, service
<1>3. NotYetSent'
  BY DEF QueueFull, NotYetSent, Refers
<1>4. \A s \in Slots : Holders(s)' = Holders(s) /\ Pending(s)' = Pending(s)
  BY DEF QueueFull, Holders, Refers, Pending, service
<1>5. RefCountExact'
  BY <1>4 DEF QueueFull, RefCountExact
<1> QED
  BY <1>1, <1>2, <1>3, <1>5

LEMMA DropFrameStep ==
    ASSUME IInv, TypeOK', DropFrame
    PROVE  IInv'
<1> USE DEF IInv
<1>1. /\ pc' \in {"idle", "send"}
      /\ pc' = "send" => i' = i + 1 /\ f' = f
      /\ \A s \in Slots : Pending(s)' = Pending(s) \ {i}
  BY NextDestPending DEF DropFrame, service
<1>2. i \in Dest /\ i \in Nat /\ f \in Slots /\ open[i]
  BY DEF DropFrame, TypeOK, ReaderTypeOK, Dest, Refused
<1>3. Started' /\ QueuesDistinct' /\ QueuesBounded'
  BY DEF DropFrame, Started, QueuesDistinct, QueuesBounded, service
<1>4. Refused' /\ RefsCounted' /\ NoOverwriteInUse'
  BY <1>1 DEF Refused, RefsCounted, NoOverwriteInUse
<1>5. NotYetSent'
  BY <1>1, <1>2 DEF DropFrame, NotYetSent, Refers, Dest
<1>6. \A s \in Slots : Holders(s)' = Holders(s)
  BY DEF DropFrame, Holders, Refers
<1>7. RefCountExact'
  <2> SUFFICES ASSUME NEW s \in Slots
               PROVE  ref_count'[s] = Cardinality(Holders(s) \cup (Pending(s) \ {i}))
    BY <1>1, <1>6 DEF RefCountExact
  <2>1. ref_count[s] = Cardinality(Holders(s) \cup Pending(s))
    BY DEF DropFrame, RefCountExact
  <2>2. CASE s = f
    <3>1. i \in Pending(s) /\ i \notin Holders(s)
      BY <1>2, <2>2 DEF DropFrame, Pending, NotYetSent, Holders
    <3>2. Holders(s) \cup (Pending(s) \ {i}) = (Holders(s) \cup Pending(s)) \ {i}
      BY <3>1
    <3>3. IsFiniteSet(Holders(s) \cup Pending(s))
      BY DestFinite DEF Holders, Pending
    <3>4. Cardinality((Holders(s) \cup Pending(s)) \ {i})
            = Cardinality(Holders(s) \cup Pending(s)) - 1
      BY <3>1, <3>3, FS_RemoveElement
    <3>5. ref_count'[s] = ref_count[s] - 1
      BY <1>2, <2>2 DEF DropFrame, TypeOK
    <3> QED
      BY <2>1, <3>2, <3>4, <3>5
  <2>3. CASE s # f
    <3>1. Pending(s) \ {i} = Pending(s)
      BY <2>3 DEF Pending
    <3>2. ref_count'[s] = ref_count[s]
      BY <1>2, <2>3 DEF DropFrame, TypeOK
    <3> QED
      BY <2>1, <3>1, <3>2
  <2> QED
    BY <2>2, <2>3
<1> QED
  BY <1>3, <1>4, <1>5, <1>7

LEMMA ReceiveStep ==
    ASSUME IInv, TypeOK', NEW e \in Dest, Receive(e)
    PROVE  IInv'
<1> USE DEF IInv
<1>1. queue[e] \in Seq(Slots) /\ queue[e] # <<>> /\ NoRepeats(queue[e])
  BY DEF Receive, TypeOK, QueuesDistinct
<1>2. /\ queue'[e] = Tail(queue[e])
      /\ held'[e] = Head(queue[e])
      /\ \A d \in Dest : d # e => queue'[d] = queue[d] /\ held'[d] = held[d]
  BY DEF Receive, TypeOK
<1>3. InQueue(queue[e], Head(queue[e])) /\ Head(queue[e]) \in Slots
  BY <1>1, HeadInQueue
<1>4. NULL \notin Slots
  BY DEF NULL, Slots
<1>5. ASSUME NEW d \in Dest, NEW s \in Slots PROVE Refers(d, s)' <=> Refers(d, s)
  <2>1. CASE d = e
    <3>1. InQueue(queue'[e], s) <=> InQueue(queue[e], s) /\ s # Head(queue[e])
      BY <1>1, <1>2, InTail
    <3> QED
      BY <1>2, <1>3, <1>4, <2>1, <3>1 DEF Receive, Refers
  <2>2. CASE d # e
    BY <1>2, <2>2 DEF Refers
  <2> QED
    BY <2>1, <2>2
<1>6. Started'
  BY DEF Receive, Started, service
<1>7. QueuesDistinct'
  <2>1. NoRepeats(queue'[e]) /\ ~InQueue(queue'[e], held'[e])
    BY <1>1, <1>2, TailNoRepeats, InTail
  <2> QED
    BY <1>2, <2>1 DEF QueuesDistinct
<1>8. QueuesBounded'
  <2>1. Len(queue'[e]) = Len(queue[e]) - 1 /\ Len(queue[e]) \in Nat
    BY <1>1, <1>2
  <2>2. Len(queue[e]) <= Depth
    BY DEF QueuesBounded
  <2>3. Len(queue'[e]) <= Depth
    BY <2>1, <2>2, SizesAssumption
  <2> QED
    BY <1>2, <2>3 DEF QueuesBounded
<1>9. \A s \in Slots : Holders(s)' = Holders(s) /\ Pending(s)' = Pending(s)
  BY <1>5 DEF Receive, Holders, Pending, reader, service
<1>10. pc' = pc /\ f' = f /\ i' = i /\ refs' = refs /\ ref_count' = ref_count /\ open' = open
  BY DEF Receive, reader, service
<1>11. Refused' /\ RefsCounted'
  BY <1>10 DEF Refused, RefsCounted
<1>12. NotYetSent'
  BY <1>5, <1>10 DEF NotYetSent, TypeOK, ReaderTypeOK
<1>13. NoOverwriteInUse'
  BY <1>9, <1>10 DEF NoOverwriteInUse, TypeOK, ReaderTypeOK
<1>14. RefCountExact'
  BY <1>9, <1>10 DEF RefCountExact
<1> QED
  BY <1>6, <1>7, <1>8, <1>11, <1>12, <1>13, <1>14

LEMMA ReleaseStep ==
    ASSUME IInv, TypeOK', NEW e \in Dest, Release(e)
    PROVE  IInv'
<1> USE DEF IInv
<1> DEFINE r == held[e]
<1>1. r \in Slots /\ r # NULL /\ queue' = queue /\ NULL \notin Slots
  BY DEF Release, TypeOK, NULL, Slots
<1>2. held'[e] = NULL /\ \A d \in Dest : d # e => held'[d] = held[d]
  BY DEF Release, TypeOK
<1>3. pc' = pc /\ f' = f /\ i' = i /\ refs' = refs /\ open' = open
  BY DEF Release, reader, service
<1>4. ~InQueue(queue[e], r) /\ ~InQueue(queue[e], NULL)
  <2>1. queue[e] \in Seq(Slots)
    BY DEF TypeOK
  <2>2. ~InQueue(queue[e], NULL)
    BY <1>1, <2>1 DEF InQueue
  <2> QED
    BY <2>2 DEF QueuesDistinct
<1> HIDE DEF r
<1>5. \A d \in Dest, s \in Slots : Refers(d, s)' <=> Refers(d, s) /\ ~(d = e /\ s = r)
  BY <1>1, <1>2, <1>4 DEF Refers, r
<1>6. Started'
  BY DEF Release, Started, service
<1>7. QueuesDistinct' /\ QueuesBounded'
  BY <1>1, <1>2, <1>4 DEF QueuesDistinct, QueuesBounded
<1>8. Refused' /\ RefsCounted'
  BY <1>3 DEF Refused, RefsCounted
<1>9. NotYetSent'
  BY <1>3, <1>5 DEF NotYetSent, TypeOK, ReaderTypeOK
<1>10. \A s \in Slots : Holders(s)' = Holders(s) \ (IF s = r THEN {e} ELSE {})
  BY <1>5 DEF Holders
<1>11. NoOverwriteInUse'
  BY <1>3, <1>10 DEF NoOverwriteInUse, TypeOK, ReaderTypeOK
<1>12. e \in Holders(r) /\ e \notin Pending(r)
  BY <1>1 DEF Holders, Refers, Pending, NotYetSent, r
<1>13. RefCountExact'
  <2> SUFFICES ASSUME NEW s \in Slots
               PROVE  ref_count'[s] = IF pc \in {"copy", "set_refs"} /\ s = f THEN 1
                                      ELSE Cardinality(Holders(s)' \cup Pending(s))
    BY <1>3 DEF RefCountExact, Pending
  <2>1. CASE s = r
    <3>1. ~(pc \in {"copy", "set_refs"} /\ s = f)
      BY <1>12, <2>1 DEF NoOverwriteInUse
    <3>2. ref_count[s] = Cardinality(Holders(s) \cup Pending(s))
      BY <3>1 DEF RefCountExact
    <3>3. Holders(s)' \cup Pending(s) = (Holders(s) \cup Pending(s)) \ {e}
      BY <1>10, <1>12, <2>1
    <3>4. IsFiniteSet(Holders(s) \cup Pending(s))
      BY DestFinite DEF Holders, Pending
    <3>5. ref_count'[s] = ref_count[s] - 1
      BY <1>1, <2>1 DEF Release, TypeOK, r
    <3>6. Cardinality((Holders(s) \cup Pending(s)) \ {e})
            = Cardinality(Holders(s) \cup Pending(s)) - 1
      BY <1>12, <2>1, <3>4, FS_RemoveElement
    <3> QED
      BY <3>1, <3>2, <3>3, <3>5, <3>6
  <2>2. CASE s # r
    <3>1. ref_count'[s] = ref_count[s]
      BY <1>1, <2>2 DEF Release, TypeOK, r
    <3> QED
      BY <1>10, <2>2, <3>1 DEF RefCountExact
  <2> QED
    BY <2>1, <2>2
<1> QED
  BY <1>6, <1>7, <1>8, <1>9, <1>11, <1>13

LEMMA IInvInit == Init => IInv
<1> SUFFICES ASSUME Init PROVE IInv
  OBVIOUS
<1> USE DEF Init, PoolInit
<1>1. TypeOK
  BY PoolInitType, SizesAssumption DEF Dest
<1>2. \A d \in Dest : queue[d] = <<>> /\ Len(queue[d]) = 0
  OBVIOUS
<1>3. \A d \in Dest : \A s : ~InQueue(queue[d], s)
  BY <1>2 DEF InQueue
<1>4. Started /\ NotYetSent /\ Refused /\ RefsCounted /\ NoOverwriteInUse
  BY DEF Started, NotYetSent, Refused, RefsCounted, NoOverwriteInUse
<1>5. QueuesDistinct /\ QueuesBounded
  BY <1>2, <1>3, SizesAssumption DEF QueuesDistinct, QueuesBounded, NoRepeats
<1>6. RefCountExact
  <2> SUFFICES ASSUME NEW s \in Slots PROVE Holders(s) \cup Pending(s) = {}
    BY FS_EmptySet DEF RefCountExact
  <2> QED
    BY <1>3 DEF Holders, Refers, Pending, NULL, Slots
<1> QED
  BY <1>1, <1>4, <1>5, <1>6 DEF IInv

LEMMA IInvStep == IInv /\ [Next]_vars => IInv'
<1> SUFFICES ASSUME IInv, [Next]_vars PROVE IInv'
  OBVIOUS
<1>1. TypeOK'
  BY TypeStep DEF IInv
<1>2. ASSUME NEW fr \in Frames, PublishFrame(fr) PROVE IInv'
  BY <1>1, <1>2, PublishFrameStep
<1>3. CASE ReaderStep
  <2>1. CASE SendLost
    BY <2>1 DEF SendLost, Gone, IInv, Started
  <2> QED
    BY <1>1, <1>3, <2>1, CountActiveStep, StartAllocStep, GiveUpStep, AllocSlotStep,
       CopyFrameStep, SetRefsStep, SkipDestStep, SendFrameStep, QueueFullStep,
       DropFrameStep DEF ReaderStep
<1>4. ASSUME NEW d \in Dest, Receive(d) \/ Release(d) PROVE IInv'
  BY <1>1, <1>4, ReceiveStep, ReleaseStep
<1>5. CASE BootStep
  <2>1. boot = N + 1 /\ N \in Nat /\ deleted = FALSE
    BY SizesAssumption DEF IInv, Started
  <2> QED
    BY <1>5, <2>1 DEF BootStep, BootSkip, BootOpen, BootStart, BootDeleteCaster,
                      BootCloseCaster, Caster
<1>6. CASE UNCHANGED vars
  <2>1. /\ UNCHANGED <<ref_count, queue, held, pc, f, i, refs>>
        /\ UNCHANGED <<open, boot, deleted>>
    BY <1>6 DEF vars, reader, service
  <2>2. Started' /\ QueuesDistinct' /\ QueuesBounded' /\ Refused' /\ RefsCounted'
    BY <2>1 DEF IInv, Started, QueuesDistinct, QueuesBounded, Refused, RefsCounted
  <2>3. \A d, s : Refers(d, s)' <=> Refers(d, s)
    BY <2>1 DEF Refers
  <2>4. \A s : Holders(s)' = Holders(s) /\ Pending(s)' = Pending(s)
    BY <2>1, <2>3 DEF Holders, Pending
  <2>5. NotYetSent' /\ NoOverwriteInUse' /\ RefCountExact'
    BY <2>1, <2>3, <2>4 DEF IInv, NotYetSent, NoOverwriteInUse, RefCountExact
  <2> QED
    BY <1>1, <2>2, <2>5 DEF IInv
<1> QED
  BY <1>2, <1>3, <1>4, <1>5, <1>6 DEF Next

LEMMA IInvHolds == Spec => []IInv
BY IInvInit, IInvStep, PTL DEF Spec

\* For any number of destinations, queue depth and pool size, the count of a
\* slot is at every instant the number of destinations that still need it.
THEOREM RefCountsAreExact == Spec => []RefCountExact
<1>1. IInv => RefCountExact
  BY DEF IInv
<1> QED
  BY <1>1, IInvHolds, PTL

\* The reader never writes a slot that a destination can still read.
THEOREM SlotsAreNotOverwritten == Spec => []NoOverwriteInUse
<1>1. IInv => NoOverwriteInUse
  BY DEF IInv
<1> QED
  BY <1>1, IInvHolds, PTL

\* pool_release's error branch is dead code once start-up is over.
THEOREM NothingIsReleasedTwice == Spec => []NoDoubleRelease
<1>1. IInv => NoDoubleRelease
  <2> SUFFICES ASSUME IInv, NEW d \in Dest, held[d] # NULL
               PROVE  ref_count[held[d]] > 0
    BY DEF NoDoubleRelease
  <2> DEFINE s == held[d]
  <2>1. s \in Slots /\ d \in Holders(s)
    BY DEF IInv, TypeOK, Holders, Refers
  <2>2. CASE pc \in {"copy", "set_refs"} /\ s = f
    BY <2>1, <2>2 DEF IInv, NoOverwriteInUse
  <2>3. CASE ~(pc \in {"copy", "set_refs"} /\ s = f)
    <3>1. ref_count[s] = Cardinality(Holders(s) \cup Pending(s))
      BY <2>1, <2>3 DEF IInv, RefCountExact
    <3>2. IsFiniteSet(Holders(s) \cup Pending(s)) /\ Holders(s) \cup Pending(s) # {}
      BY <2>1, DestFinite DEF Holders, Pending
    <3> QED
      BY <3>1, <3>2, FS_EmptySet, FS_CardinalityType
  <2> QED
    BY <2>2, <2>3
<1> QED
  BY <1>1, IInvHolds, PTL

-----------------------------------------------------------------------------
(***************************************************************************)
(* The size of the pool.  A slot in use when the scan starts sits in a     *)
(* queue or in a hand, and there are N * (Depth + 1) such places; a slot   *)
(* free then stays free, for only the reader takes slots.  So the scan     *)
(* always has a free slot ahead of it.                                     *)
(***************************************************************************)

FreeAhead == pc = "scan" => \E s \in Slots : s >= i /\ ref_count[s] = 0

LEMMA SomeSlotFree ==
    ASSUME IInv, pc = "count", PoolSize > N * (Depth + 1)
    PROVE  \E s \in Slots : ref_count[s] = 0
<1> SUFFICES ASSUME \A s \in Slots : ref_count[s] # 0 PROVE FALSE
  OBVIOUS
<1> DEFINE Places == Dest \X (0..Depth)
           At(p, s) == IF p[2] = 0 THEN held[p[1]] = s
                       ELSE p[2] \in 1..Len(queue[p[1]]) /\ queue[p[1]][p[2]] = s
           place == [s \in Slots |-> CHOOSE p \in Places : At(p, s)]
<1>1. ASSUME NEW s \in Slots PROVE \E p \in Places : At(p, s)
  <2>1. Holders(s) # {}
    <3>1. Pending(s) = {}
      BY DEF Pending
    <3>2. ref_count[s] = Cardinality(Holders(s))
      BY <3>1 DEF IInv, RefCountExact
    <3> QED
      BY <3>2, FS_EmptySet
  <2>2. PICK d \in Dest : Refers(d, s)
    BY <2>1 DEF Holders
  <2>3. CASE held[d] = s
    <3>1. <<d, 0>> \in Places /\ At(<<d, 0>>, s)
      BY <2>3, SizesAssumption
    <3> QED
      BY <3>1
  <2>4. CASE InQueue(queue[d], s)
    <3>1. PICK k \in 1..Len(queue[d]) : queue[d][k] = s
      BY <2>4 DEF InQueue
    <3>2. queue[d] \in Seq(Slots) /\ Len(queue[d]) <= Depth /\ Len(queue[d]) \in Nat
      BY DEF IInv, TypeOK, QueuesBounded
    <3>3. k \in 0..Depth /\ k # 0
      BY <3>1, <3>2, SizesAssumption
    <3>4. <<d, k>> \in Places /\ At(<<d, k>>, s)
      BY <3>1, <3>3
    <3> QED
      BY <3>4
  <2> QED
    BY <2>2, <2>3, <2>4 DEF Refers
<1>2. place \in [Slots -> Places] /\ \A s \in Slots : At(place[s], s)
  <2> HIDE DEF Places, At
  <2> QED
    BY <1>1
<1>3. IsFiniteSet(Slots) /\ Cardinality(Slots) = PoolSize
  BY FS_Interval, SizesAssumption DEF Slots
<1>4. IsFiniteSet(Places) /\ Cardinality(Places) = N * (Depth + 1)
  <2>1. IsFiniteSet(0..Depth) /\ Cardinality(0..Depth) = Depth + 1
    BY FS_Interval, SizesAssumption
  <2> QED
    BY <2>1, DestFinite, FS_Product
<1>5. Cardinality(Places) < Cardinality(Slots)
  BY <1>3, <1>4, SizesAssumption
<1>6. PICK s, t \in Slots : s # t /\ place[s] = place[t]
  <2> HIDE DEF Places, place
  <2> QED
    BY <1>2, <1>3, <1>4, <1>5, FS_PigeonHole
<1>7. \A p : At(p, s) /\ At(p, t) => s = t
  OBVIOUS
<1>8. At(place[s], s) /\ At(place[t], t)
  BY <1>2
<1> HIDE DEF At, place
<1> QED
  BY <1>6, <1>7, <1>8

LEMMA FreeAheadStep ==
    ASSUME PoolSize > N * (Depth + 1)
    PROVE  IInv /\ FreeAhead /\ [Next]_vars => FreeAhead'
<1> SUFFICES ASSUME IInv, FreeAhead, [Next]_vars, pc' = "scan"
             PROVE  (\E s \in Slots : s >= i /\ ref_count[s] = 0)'
  BY DEF FreeAhead
<1> USE DEF Slots
<1>1. CASE StartAlloc
  BY <1>1, SomeSlotFree DEF StartAlloc
<1>2. CASE ScanNext
  <2>1. PICK s \in Slots : s >= i /\ ref_count[s] = 0
    BY <1>2 DEF ScanNext, FreeAhead
  <2>2. s >= i + 1
    BY <1>2, <2>1 DEF ScanNext, IInv, TypeOK, ReaderTypeOK
  <2> QED
    BY <1>2, <2>1, <2>2 DEF ScanNext
<1>3. ASSUME NEW d \in Dest, Receive(d) PROVE (\E s \in Slots : s >= i /\ ref_count[s] = 0)'
  BY <1>3 DEF Receive, reader, FreeAhead
<1>4. ASSUME NEW d \in Dest, Release(d) PROVE (\E s \in Slots : s >= i /\ ref_count[s] = 0)'
  <2>1. PICK s \in Slots : s >= i /\ ref_count[s] = 0
    BY <1>4 DEF Release, reader, FreeAhead
  <2>2. s # held[d]
    <3>1. Holders(s) = {}
      <4>1. Cardinality(Holders(s) \cup Pending(s)) = 0
        BY <1>4, <2>1 DEF Release, reader, IInv, RefCountExact
      <4> QED
        BY <4>1, DestFinite, FS_EmptySet DEF Holders, Pending
    <3> QED
      BY <3>1 DEF Holders, Refers
  <2> QED
    BY <1>4, <2>1, <2>2 DEF Release, reader, IInv, TypeOK
<1>5. CASE BootStep
  <2>1. boot = N + 1 /\ N \in Nat /\ deleted = FALSE
    BY SizesAssumption DEF IInv, Started
  <2> QED
    BY <1>5, <2>1 DEF BootStep, BootSkip, BootOpen, BootStart, BootDeleteCaster,
                      BootCloseCaster, Caster
<1>6. CASE UNCHANGED vars
  BY <1>6 DEF vars, reader, FreeAhead
<1>7. ASSUME NEW fr \in Frames, PublishFrame(fr) PROVE FALSE
  BY <1>7 DEF PublishFrame
<1>8. CASE ReaderStep
  BY <1>1, <1>2, <1>8 DEF ReaderStep, CountActive, NoConsumers, AllocSlot, PoolExhausted,
     CopyFrame, SetRefs, SkipDest, SendFrame, SendLost, QueueFull, DropFrame,
     NextDest, ReaderDone
<1> QED
  BY <1>3, <1>4, <1>5, <1>6, <1>7, <1>8 DEF Next

\* One slot more than the places for slots is enough: "Pool exhausted!" is
\* never logged.  For the code's 3 destinations and depth 16 that is 52 <= 56.
THEOREM PoolIsLargeEnough ==
    ASSUME PoolSize > N * (Depth + 1)
    PROVE  Spec => []PoolNeverExhausted
<1>1. Init => FreeAhead
  BY DEF Init, PoolInit, FreeAhead
<1>2. IInv /\ FreeAhead => PoolNeverExhausted
  BY DEF IInv, TypeOK, ReaderTypeOK, FreeAhead, PoolNeverExhausted, Slots
<1>3. IInv /\ FreeAhead /\ [Next]_vars => FreeAhead'
  BY FreeAheadStep
<1> QED
  BY <1>1, <1>2, <1>3, IInvHolds, PTL DEF Spec

-----------------------------------------------------------------------------
(***************************************************************************)
(* RtcmFanout implements FrameDelivery.                                    *)
(***************************************************************************)

\* The contents of the queues and hands, read through the slots
Subs   == {d \in Dest : open[d]}
Offer  == IF Offered = {} THEN NoFrame ELSE frame
Fifo   == [d \in Dest |-> [k \in 1..Len(queue[d]) |-> data[queue[d][k]]]]
InHand == [d \in Dest |-> IF held[d] = NULL THEN NoFrame ELSE data[held[d]]]
Abstract == <<Subs, Offer, Offered, Fifo, InHand>>

\* The steps of FrameDelivery on them
AcceptStep(fr) ==
    /\ Offered = {} /\ Subs # {}
    /\ Offer' = fr /\ Offered' = Subs
    /\ UNCHANGED <<Subs, Fifo, InHand>>
ServedStep(d) ==
    /\ Offered' = Offered \ {d}
    /\ Offer' = IF Offered' = {} THEN NoFrame ELSE Offer
DeliverStep(d) ==
    /\ d \in Offered /\ Len(Fifo[d]) < Depth
    /\ Fifo' = [Fifo EXCEPT ![d] = Append(@, Offer)]
    /\ ServedStep(d)
    /\ UNCHANGED <<Subs, InHand>>
MissStep(d) ==
    /\ d \in Offered /\ Len(Fifo[d]) = Depth
    /\ ServedStep(d)
    /\ UNCHANGED <<Subs, Fifo, InHand>>
TakeStep(d) ==
    /\ InHand[d] = NoFrame /\ Fifo[d] # <<>>
    /\ InHand' = [InHand EXCEPT ![d] = Head(Fifo[d])]
    /\ Fifo' = [Fifo EXCEPT ![d] = Tail(@)]
    /\ UNCHANGED <<Subs, Offer, Offered>>
FinishStep(d) ==
    /\ InHand[d] # NoFrame
    /\ InHand' = [InHand EXCEPT ![d] = NoFrame]
    /\ UNCHANGED <<Subs, Offer, Offered, Fifo>>

LEMMA AbstractInit ==
  ASSUME Offer = NoFrame, Offered = {}, Fifo = [d \in Dest |-> <<>>],
         InHand = [d \in Dest |-> NoFrame]
  PROVE  Delivery!Init
  BY DEF Delivery!Init, Offer, Fifo, InHand

LEMMA AbstractStep ==
  ASSUME \/ \E fr \in Frames : AcceptStep(fr)
         \/ \E d \in Dest : DeliverStep(d) \/ MissStep(d) \/ TakeStep(d) \/ FinishStep(d)
         \/ UNCHANGED Abstract
  PROVE  [Delivery!Next]_(Delivery!vars)
<1>1. ASSUME NEW fr \in Frames, AcceptStep(fr) PROVE Delivery!Accept(fr)
  BY <1>1 DEF Delivery!Accept, AcceptStep, Subs, Offer, Fifo, InHand
<1>2. ASSUME NEW d \in Dest, DeliverStep(d) PROVE Delivery!Deliver(d)
  BY <1>2 DEF Delivery!Deliver, Delivery!Served, DeliverStep, ServedStep, Subs, Offer, Fifo, InHand
<1>3. ASSUME NEW d \in Dest, MissStep(d) PROVE Delivery!Miss(d)
  BY <1>3 DEF Delivery!Miss, Delivery!Served, MissStep, ServedStep, Subs, Offer, Fifo, InHand
<1>4. ASSUME NEW d \in Dest, TakeStep(d) PROVE Delivery!Take(d)
  BY <1>4 DEF Delivery!Take, TakeStep, Subs, Offer, Fifo, InHand
<1>5. ASSUME NEW d \in Dest, FinishStep(d) PROVE Delivery!Finish(d)
  BY <1>5 DEF Delivery!Finish, FinishStep, Subs, Offer, Fifo, InHand
<1>6. CASE UNCHANGED Abstract
  BY <1>6 DEF Delivery!vars, Abstract, Subs, Offer, Fifo, InHand
<1> QED
  BY <1>1, <1>2, <1>3, <1>4, <1>5, <1>6 DEF Delivery!Next

\* The contents of a queue to which a slot is added, or from which one is taken
LEMMA ValuesAppend ==
  ASSUME NEW S, NEW T, NEW q \in Seq(S), NEW s \in S, NEW g \in [S -> T]
  PROVE  [k \in 1..Len(Append(q, s)) |-> g[Append(q, s)[k]]]
           = Append([k \in 1..Len(q) |-> g[q[k]]], g[s])
<1> DEFINE q2 == Append(q, s)
           v == [k \in 1..Len(q) |-> g[q[k]]]
           v2 == [k \in 1..Len(q2) |-> g[q2[k]]]
           w == Append(v, g[s])
<1>1. /\ q2 \in Seq(S) /\ Len(q) \in Nat /\ Len(q2) = Len(q) + 1 /\ q2[Len(q) + 1] = s
      /\ \A k \in 1..Len(q) : q2[k] = q[k] /\ q[k] \in S
  OBVIOUS
<1> HIDE DEF q2
<1>2. v \in Seq(T) /\ Len(v) = Len(q)
  BY <1>1
<1>3. g[s] \in T
  OBVIOUS
<1> HIDE DEF v
<1>4. /\ w \in Seq(T) /\ Len(w) = Len(q) + 1 /\ w[Len(q) + 1] = g[s]
      /\ \A k \in 1..Len(q) : w[k] = v[k]
  BY <1>1, <1>2, <1>3
<1>5. \A k \in 1..Len(q2) : q2[k] \in S
  BY <1>1
<1>6. v2 \in Seq(T) /\ Len(v2) = Len(q) + 1
  BY <1>1, <1>5
<1> HIDE DEF w
<1>7. ASSUME NEW k \in 1..Len(v2) PROVE v2[k] = w[k]
  <2>1. CASE k \in 1..Len(q)
    BY <1>1, <1>4, <2>1 DEF v
  <2>2. CASE k = Len(q) + 1
    BY <1>1, <1>4, <2>2
  <2> QED
    BY <1>1, <1>6, <1>7, <2>1, <2>2
<1> HIDE DEF v2
<1>8. v2 = w
  BY <1>4, <1>6, <1>7, SeqEqual
<1> QED
  BY <1>8 DEF v, v2, w, q2

LEMMA ValuesTail ==
  ASSUME NEW S, NEW T, NEW q \in Seq(S), q # <<>>, NEW g \in [S -> T]
  PROVE  LET v == [k \in 1..Len(q) |-> g[q[k]]] IN
         /\ v # <<>> /\ Head(v) = g[Head(q)]
         /\ [k \in 1..Len(Tail(q)) |-> g[Tail(q)[k]]] = Tail(v)
<1> DEFINE q2 == Tail(q)
           v == [k \in 1..Len(q) |-> g[q[k]]]
           v2 == [k \in 1..Len(q2) |-> g[q2[k]]]
           w == Tail(v)
<1>1. /\ q2 \in Seq(S) /\ Len(q) \in Nat \ {0} /\ Len(q2) = Len(q) - 1 /\ Head(q) = q[1]
      /\ \A k \in 1..Len(q2) : q2[k] = q[k + 1]
      /\ \A k \in 1..Len(q) : q[k] \in S
  OBVIOUS
<1> HIDE DEF q2
<1>2. v \in Seq(T) /\ Len(v) = Len(q) /\ \A k \in 1..Len(q) : v[k] = g[q[k]]
  BY <1>1
<1> HIDE DEF v
<1>3. v # <<>> /\ Head(v) = v[1]
  BY <1>1, <1>2
<1>4. /\ w \in Seq(T) /\ Len(w) = Len(q) - 1
      /\ \A k \in 1..Len(w) : w[k] = v[k + 1]
  BY <1>1, <1>2, <1>3
<1>5. Head(v) = g[Head(q)]
  <2>1. 1 \in 1..Len(q)
    BY <1>1
  <2> QED
    BY <1>1, <1>2, <1>3, <2>1
<1>6. v2 \in Seq(T) /\ Len(v2) = Len(q) - 1
  <2>1. \A k \in 1..Len(q2) : q2[k] \in S
    BY <1>1
  <2> QED
    BY <1>1, <2>1
<1> HIDE DEF w
<1>7. ASSUME NEW k \in 1..Len(v2) PROVE v2[k] = w[k]
  <2>1. k \in 1..Len(q2) /\ k \in 1..Len(w) /\ k + 1 \in 1..Len(q)
    BY <1>1, <1>4, <1>6, <1>7
  <2> QED
    BY <1>1, <1>2, <1>4, <2>1
<1> HIDE DEF v2
<1>8. v2 = w
  BY <1>4, <1>6, <1>7, SeqEqual
<1> QED
  BY <1>3, <1>5, <1>8 DEF v, v2, w, q2

\* What the contents need beside IInv: the slot under publication holds the
\* frame, what is waiting or in a hand has been written, and somebody is served.
FrameKnown   == pc \in {"set_refs", "send", "drop"} => data[f] = frame
HoldKnown    == \A d \in Dest, s \in Slots : Refers(d, s) => data[s] \in Frames
SomebodyOpen == pc \in {"scan", "copy", "set_refs"} => refs # 0

DInv == IInv /\ FrameKnown /\ HoldKnown /\ SomebodyOpen

\* The steps by what they do to queues, hands and contents
Quiet == UNCHANGED <<data, queue, held, open>>

LEMMA StepKinds ==
  ASSUME IInv, [Next]_vars
  PROVE  \/ Quiet /\ pc \notin {"send", "drop"} /\ pc' \notin {"set_refs", "send", "drop"}
         \/ Quiet /\ UNCHANGED <<pc, frame, f, i, refs>>
         \/ CopyFrame \/ SetRefs \/ SkipDest \/ SendFrame \/ QueueFull \/ DropFrame
         \/ \E d \in Dest : Receive(d) \/ Release(d)
<1>1. ASSUME NEW fr \in Frames, PublishFrame(fr)
      PROVE  Quiet /\ pc \notin {"send", "drop"} /\ pc' \notin {"set_refs", "send", "drop"}
  BY <1>1 DEF PublishFrame, Quiet, service
<1>2. CASE CountActive \/ NoConsumers \/ StartAlloc \/ AllocSlot \/ ScanNext \/ PoolExhausted
  BY <1>2 DEF CountActive, NoConsumers, StartAlloc, AllocSlot, ScanNext, PoolExhausted,
              ReaderDone, Quiet, service
<1>3. ~SendLost
  BY DEF SendLost, Gone, IInv, Started
<1>4. ~BootStep
  <2>1. boot = N + 1 /\ N \in Nat /\ deleted = FALSE
    BY SizesAssumption DEF IInv, Started
  <2> QED
    BY <2>1 DEF BootStep, BootSkip, BootOpen, BootStart, BootDeleteCaster, BootCloseCaster, Caster
<1>5. CASE UNCHANGED vars
  BY <1>5 DEF vars, reader, service, Quiet
<1> QED
  BY <1>1, <1>2, <1>3, <1>4, <1>5 DEF Next, ReaderStep

LEMMA DInvInit == Init => DInv
<1> SUFFICES ASSUME Init PROVE DInv
  OBVIOUS
<1>1. IInv
  BY IInvInit
<1>2. \A d \in Dest, s \in Slots : ~Refers(d, s)
  <2>1. \A d \in Dest : queue[d] = <<>> /\ held[d] = NULL
    BY DEF Init, PoolInit
  <2>2. \A s \in Slots : ~InQueue(<<>>, s)
    BY DEF InQueue
  <2>3. \A s \in Slots : s # NULL
    BY DEF Slots, NULL
  <2> QED
    BY <2>1, <2>2, <2>3 DEF Refers
<1> QED
  BY <1>1, <1>2 DEF DInv, FrameKnown, HoldKnown, SomebodyOpen, Init, PoolInit

LEMMA DInvStep == DInv /\ [Next]_vars => DInv'
<1> SUFFICES ASSUME DInv, [Next]_vars PROVE DInv'
  OBVIOUS
<1>1. IInv'
  BY IInvStep DEF DInv
<1>2. TypeOK /\ TypeOK'
  BY <1>1 DEF DInv, IInv
<1>3. SomebodyOpen'
  <2>1. ASSUME NEW fr \in Frames, PublishFrame(fr) PROVE SomebodyOpen'
    BY <2>1 DEF PublishFrame, SomebodyOpen
  <2>2. CASE ReaderStep
    BY <2>2 DEF ReaderStep, CountActive, NoConsumers, StartAlloc, AllocSlot, ScanNext,
       PoolExhausted, CopyFrame, SetRefs, SkipDest, SendFrame, SendLost, QueueFull, DropFrame,
       NextDest, ReaderDone, SomebodyOpen, DInv
  <2>3. CASE UNCHANGED reader
    BY <2>3 DEF reader, SomebodyOpen, DInv
  <2>4. ASSUME NEW d \in Dest, Receive(d) \/ Release(d) PROVE UNCHANGED reader
    BY <2>4 DEF Receive, Release
  <2>5. CASE BootStep
    BY <2>3, <2>5 DEF BootStep, BootSkip, BootOpen, BootStart, BootDeleteCaster, BootCloseCaster
  <2> QED
    BY <2>1, <2>2, <2>3, <2>4, <2>5 DEF Next, vars
<1>4. FrameKnown' /\ HoldKnown'
  <2>1. ASSUME Quiet, ~CopyFrame PROVE FrameKnown' /\ HoldKnown'
    <3>1. HoldKnown'
      BY <2>1 DEF Quiet, DInv, HoldKnown, Refers
    <3>2. FrameKnown'
      BY <2>1, StepKinds DEF Quiet, DInv, FrameKnown, SetRefs, SkipDest, SendFrame,
         QueueFull, DropFrame, Receive, Release, NextDest, ReaderDone, reader
    <3> QED
      BY <3>1, <3>2
  <2>2. CASE CopyFrame
    <3>1. /\ f \in Slots /\ frame \in Frames /\ data \in [Slots -> Frames \cup {NoFrame}]
          /\ data' = [data EXCEPT ![f] = frame] /\ UNCHANGED <<queue, held, f, frame>>
      BY <1>2, <2>2 DEF CopyFrame, TypeOK, ReaderTypeOK
    <3> QED
      BY <3>1 DEF DInv, FrameKnown, HoldKnown, Refers
  <2>3. CASE SendFrame
    <3>1. /\ f \in Slots /\ frame \in Frames /\ i \in Dest /\ queue \in [Dest -> Seq(Slots)]
      BY <1>2, <2>3, SizesAssumption DEF SendFrame, TypeOK, ReaderTypeOK, Dest
    <3>2. /\ queue' = [queue EXCEPT ![i] = Append(@, f)] /\ UNCHANGED <<data, held>>
          /\ data[f] = frame
          /\ pc' \in {"set_refs", "send", "drop"} => f' = f /\ frame' = frame
      BY <2>3 DEF SendFrame, NextDest, ReaderDone, DInv, FrameKnown
    <3>3. ASSUME NEW d \in Dest, NEW s \in Slots, Refers(d, s)'
          PROVE  Refers(d, s) \/ s = f
      <4>1. CASE d = i
        <5>1. InQueue(Append(queue[i], f), s) <=> InQueue(queue[i], s) \/ s = f
          BY <3>1, InAppend
        <5> QED
          BY <3>1, <3>2, <3>3, <4>1, <5>1 DEF Refers
      <4>2. CASE d # i
        BY <3>1, <3>2, <3>3, <4>2 DEF Refers
      <4> QED
        BY <4>1, <4>2
    <3> QED
      BY <3>1, <3>2, <3>3 DEF DInv, FrameKnown, HoldKnown
  <2>4. ASSUME NEW d \in Dest, Receive(d) PROVE FrameKnown' /\ HoldKnown'
    <3>1. /\ queue \in [Dest -> Seq(Slots)] /\ held \in [Dest -> Slots \cup {NULL}]
          /\ queue[d] # <<>> /\ UNCHANGED <<data, pc, f, frame>>
          /\ held' = [held EXCEPT ![d] = Head(queue[d])]
          /\ queue' = [queue EXCEPT ![d] = Tail(@)]
      BY <1>2, <2>4 DEF Receive, TypeOK, reader
    <3>2. ASSUME NEW e \in Dest, NEW s \in Slots, Refers(e, s)' PROVE Refers(e, s)
      <4>1. CASE e = d
        <5>1. InQueue(queue[d], Head(queue[d]))
          BY <3>1, HeadInQueue
        <5>2. InQueue(Tail(queue[d]), s) => InQueue(queue[d], s)
          BY <3>1, InTail DEF DInv, IInv, QueuesDistinct
        <5> QED
          BY <3>1, <3>2, <4>1, <5>1, <5>2 DEF Refers
      <4>2. CASE e # d
        BY <3>1, <3>2, <4>2 DEF Refers
      <4> QED
        BY <4>1, <4>2
    <3> QED
      BY <3>1, <3>2 DEF DInv, FrameKnown, HoldKnown
  <2>5. ASSUME NEW d \in Dest, Release(d) PROVE FrameKnown' /\ HoldKnown'
    <3>1. /\ held \in [Dest -> Slots \cup {NULL}] /\ held' = [held EXCEPT ![d] = NULL]
          /\ UNCHANGED <<data, queue, pc, f, frame>>
      BY <1>2, <2>5 DEF Release, TypeOK, reader
    <3>2. \A s \in Slots : s # NULL
      BY DEF Slots, NULL
    <3> QED
      BY <3>1, <3>2 DEF DInv, FrameKnown, HoldKnown, Refers
  <2>6. CASE SetRefs \/ SkipDest \/ QueueFull \/ DropFrame
    <3>1. Quiet /\ ~CopyFrame
      BY <2>6 DEF SetRefs, SkipDest, QueueFull, DropFrame, CopyFrame, Quiet, service
    <3> QED
      BY <2>1, <3>1
  <2> QED
    BY <2>1, <2>2, <2>3, <2>4, <2>5, <2>6, StepKinds DEF DInv
<1> QED
  BY <1>1, <1>3, <1>4 DEF DInv

\* The destinations still to be served, before and after the reader goes on
LEMMA OfferedNext ==
  ASSUME DInv, NextDest, UNCHANGED open, pc \in {"send", "drop"}
  PROVE  /\ Offered' = {d \in Dest : open[d] /\ d > i}
         /\ Offer' = IF Offered' = {} THEN NoFrame ELSE frame
<1>1. N \in Nat \ {0} /\ i \in Dest /\ \A d \in Dest : d \in Nat /\ d <= N /\ (d > i <=> d >= i + 1)
  BY SizesAssumption DEF DInv, IInv, TypeOK, ReaderTypeOK, Dest
<1>2. CASE i = N
  <2>1. pc' = "idle"
    BY <1>2 DEF NextDest, ReaderDone
  <2>2. Offered' = {}
    BY <2>1 DEF Offered
  <2>3. \A d \in Dest : ~(d > i)
    BY <1>1, <1>2
  <2> QED
    BY <2>2, <2>3 DEF Offer
<1>3. CASE i # N
  <2>1. pc' = "send" /\ i' = i + 1 /\ frame' = frame
    BY <1>3 DEF NextDest
  <2>2. Offered' = {d \in Dest : open[d] /\ d > i}
    BY <1>1, <2>1 DEF Offered
  <2> QED
    BY <2>1, <2>2 DEF Offer
<1> QED
  BY <1>2, <1>3

LEMMA QuietValues == Quiet => UNCHANGED <<Subs, Fifo, InHand>>
  BY DEF Quiet, Subs, Fifo, InHand

LEMMA RefinesStep ==
  ASSUME DInv, [Next]_vars
  PROVE  [Delivery!Next]_(Delivery!vars)
<1>0. /\ TypeOK /\ N \in Nat \ {0} /\ \A d \in Dest : d \in Nat /\ d >= 1 /\ d <= N
  BY SizesAssumption DEF DInv, IInv, Dest
<1>1. CASE Quiet /\ pc \notin {"send", "drop"} /\ pc' \notin {"set_refs", "send", "drop"}
  <2>1. Offered = {} /\ Offered' = {}
    BY <1>1 DEF Offered
  <2>2. UNCHANGED Abstract
    BY <1>1, <2>1, QuietValues DEF Abstract, Offer
  <2> QED
    BY <2>2, AbstractStep
<1>2. CASE Quiet /\ UNCHANGED <<pc, frame, f, i, refs>>
  <2>1. Offered' = Offered /\ Offer' = Offer
    BY <1>2 DEF Offered, Offer, Quiet
  <2> QED
    BY <1>2, <2>1, QuietValues, AbstractStep DEF Abstract
<1>3. CASE CopyFrame
  <2>1. /\ pc = "copy" /\ data' = [data EXCEPT ![f] = frame]
        /\ UNCHANGED <<queue, held, open>> /\ pc' = "set_refs" /\ f \in Slots
        /\ data \in [Slots -> Frames \cup {NoFrame}] /\ queue \in [Dest -> Seq(Slots)]
        /\ held \in [Dest -> Slots \cup {NULL}]
    BY <1>0, <1>3 DEF CopyFrame, TypeOK, ReaderTypeOK, service
  <2>2. \A d \in Dest : ~Refers(d, f)
    BY <2>1 DEF DInv, IInv, NoOverwriteInUse, Holders
  <2>3. \A s \in Slots : s # f => data'[s] = data[s]
    BY <2>1
  <2>4. UNCHANGED InHand
    <3>1. \A d \in Dest : held[d] # NULL => held[d] \in Slots /\ held[d] # f
      BY <2>1, <2>2 DEF Refers
    <3> QED
      BY <2>1, <2>3, <3>1 DEF InHand
  <2>5. UNCHANGED Fifo
    <3>1. \A d \in Dest : \A k \in 1..Len(queue[d]) : queue[d][k] \in Slots /\ queue[d][k] # f
      BY <2>1, <2>2 DEF Refers, InQueue
    <3>2. \A d \in Dest : [k \in 1..Len(queue[d]) |-> data'[queue[d][k]]]
                            = [k \in 1..Len(queue[d]) |-> data[queue[d][k]]]
      BY <2>3, <3>1
    <3> QED
      BY <2>1, <3>2 DEF Fifo
  <2>6. Offered = {} /\ Offered' = {} /\ Subs' = Subs
    BY <2>1 DEF Offered, Subs
  <2> QED
    BY <2>4, <2>5, <2>6, AbstractStep DEF Abstract, Offer
<1>4. CASE SetRefs
  <2>1. /\ pc = "set_refs" /\ pc' = "send" /\ i' = 1 /\ frame' = frame /\ Quiet /\ frame \in Frames
    BY <1>0, <1>4 DEF SetRefs, Quiet, service, TypeOK, ReaderTypeOK
  <2>2. Subs # {}
    <3>1. refs # 0 /\ refs = Cardinality(Subs)
      BY <2>1 DEF DInv, SomebodyOpen, IInv, RefsCounted, Subs
    <3> QED
      BY <3>1, FS_EmptySet
  <2>3. Offered = {} /\ Offered' = Subs
    BY <1>0, <2>1 DEF Offered, Subs, Quiet
  <2>4. Offer' = frame
    BY <2>1, <2>2, <2>3 DEF Offer
  <2> QED
    BY <2>1, <2>2, <2>3, <2>4, QuietValues, AbstractStep DEF AcceptStep
<1>5. CASE SkipDest
  <2>1. pc = "send" /\ ~open[i] /\ Quiet /\ NextDest
    BY <1>5 DEF SkipDest, Quiet, service
  <2>2. i \in Dest
    BY <1>0, <2>1, SizesAssumption DEF TypeOK, ReaderTypeOK, Dest
  <2>3. Offered = {d \in Dest : open[d] /\ d > i}
    BY <1>0, <2>1, <2>2 DEF Offered
  <2>4. Offered' = Offered /\ Offer' = Offer
    BY <2>1, <2>3, OfferedNext DEF Quiet, Offer
  <2> QED
    BY <2>1, <2>4, QuietValues, AbstractStep DEF Abstract
<1>6. CASE DropFrame
  <2>1. pc = "drop" /\ Quiet /\ NextDest
    BY <1>6 DEF DropFrame, Quiet, service
  <2>2. Offered = {d \in Dest : open[d] /\ d > i}
    BY <2>1 DEF Offered
  <2>3. Offered' = Offered /\ Offer' = Offer
    BY <2>1, <2>2, OfferedNext DEF Quiet, Offer
  <2> QED
    BY <2>1, <2>3, QuietValues, AbstractStep DEF Abstract
<1>7. CASE QueueFull
  <2>1. /\ pc = "send" /\ pc' = "drop" /\ open[i] /\ UNCHANGED <<frame, i>> /\ Quiet
    BY <1>7 DEF QueueFull, Quiet, service
  <2>2. Len(queue[i]) = Depth
    BY <1>7 DEF QueueFull, Gone, DInv, IInv, Started
  <2>3. i \in Dest
    BY <1>0, <2>1, SizesAssumption DEF TypeOK, ReaderTypeOK, Dest
  <2>4. i \in Offered /\ Offered' = Offered \ {i}
    BY <1>0, <2>1, <2>3 DEF Offered, Quiet
  <2>5. Offer' = IF Offered' = {} THEN NoFrame ELSE Offer
    BY <2>1, <2>4 DEF Offer
  <2>6. Len(Fifo[i]) = Depth
    <3>1. Len(queue[i]) \in Nat
      BY <1>0, <2>3 DEF TypeOK
    <3> QED
      BY <2>2, <2>3, <3>1 DEF Fifo
  <2> QED
    BY <2>1, <2>3, <2>4, <2>5, <2>6, QuietValues, AbstractStep DEF MissStep, ServedStep
<1>8. CASE SendFrame
  <2>1. /\ pc = "send" /\ open[i] /\ Len(queue[i]) < Depth /\ NextDest
        /\ queue' = [queue EXCEPT ![i] = Append(@, f)] /\ UNCHANGED <<data, held, open>>
    BY <1>8 DEF SendFrame, service
  <2>2. /\ i \in Dest /\ f \in Slots /\ queue \in [Dest -> Seq(Slots)]
        /\ data \in [Slots -> Frames \cup {NoFrame}]
    BY <1>0, <2>1, SizesAssumption DEF TypeOK, ReaderTypeOK, Dest
  <2>3. i \in Offered /\ Offered' = Offered \ {i}
    <3>1. Offered = {d \in Dest : open[d] /\ d >= i}
      BY <2>1 DEF Offered
    <3>2. Offered' = {d \in Dest : open[d] /\ d > i}
      BY <2>1, OfferedNext
    <3> QED
      BY <1>0, <2>1, <2>2, <3>1, <3>2
  <2>4. Offer = frame /\ frame = data[f]
    BY <2>1, <2>3 DEF Offer, DInv, FrameKnown
  <2>5. Offer' = IF Offered' = {} THEN NoFrame ELSE Offer
    BY <2>1, <2>4, OfferedNext
  <2>6. Len(Fifo[i]) < Depth
    <3>1. Len(queue[i]) \in Nat
      BY <2>2
    <3> QED
      BY <2>1, <2>2, <3>1 DEF Fifo
  <2>7. Fifo' = [Fifo EXCEPT ![i] = Append(@, Offer)]
    <3>1. [k \in 1..Len(Append(queue[i], f)) |-> data[Append(queue[i], f)[k]]]
            = Append([k \in 1..Len(queue[i]) |-> data[queue[i][k]]], data[f])
      BY <2>2, ValuesAppend
    <3>2. queue'[i] = Append(queue[i], f) /\ \A d \in Dest : d # i => queue'[d] = queue[d]
      BY <2>1, <2>2
    <3>3. Fifo'[i] = Append(Fifo[i], Offer)
      BY <2>1, <2>2, <2>4, <3>1, <3>2 DEF Fifo
    <3>4. \A d \in Dest : d # i => Fifo'[d] = Fifo[d]
      BY <2>1, <3>2 DEF Fifo
    <3>5. Fifo = [d \in Dest |-> Fifo[d]] /\ Fifo' = [d \in Dest |-> Fifo'[d]]
      BY DEF Fifo
    <3> QED
      BY <2>2, <3>3, <3>4, <3>5
  <2>8. UNCHANGED <<Subs, InHand>>
    BY <2>1 DEF Subs, InHand
  <2> QED
    BY <2>2, <2>3, <2>5, <2>6, <2>7, <2>8, AbstractStep DEF DeliverStep, ServedStep
<1>9. ASSUME NEW d \in Dest, Receive(d) PROVE [Delivery!Next]_(Delivery!vars)
  <2>1. /\ held[d] = NULL /\ queue[d] # <<>> /\ held' = [held EXCEPT ![d] = Head(queue[d])]
        /\ queue' = [queue EXCEPT ![d] = Tail(@)]
        /\ UNCHANGED <<data, open, pc, i, frame>>
    BY <1>9 DEF Receive, reader, service
  <2>2. /\ queue \in [Dest -> Seq(Slots)] /\ held \in [Dest -> Slots \cup {NULL}]
        /\ data \in [Slots -> Frames \cup {NoFrame}]
    BY <1>0 DEF TypeOK
  <2>3. UNCHANGED <<Subs, Offer, Offered>>
    BY <2>1 DEF Subs, Offer, Offered
  <2>4. /\ Fifo[d] # <<>> /\ Head(Fifo[d]) = data[Head(queue[d])]
        /\ [k \in 1..Len(Tail(queue[d])) |-> data[Tail(queue[d])[k]]] = Tail(Fifo[d])
    BY <2>1, <2>2, ValuesTail DEF Fifo
  <2>5. InHand[d] = NoFrame
    BY <2>1 DEF InHand
  <2>6. InHand' = [InHand EXCEPT ![d] = Head(Fifo[d])]
    <3>1. Head(queue[d]) # NULL
      <4>1. queue[d] \in Seq(Slots)
        BY <2>2
      <4>2. Head(queue[d]) \in Slots
        BY <2>1, <4>1, HeadInQueue
      <4> QED
        BY <4>2 DEF Slots, NULL
    <3>2. held'[d] = Head(queue[d]) /\ \A e \in Dest : e # d => held'[e] = held[e]
      BY <2>1, <2>2
    <3>3. InHand'[d] = Head(Fifo[d])
      BY <2>1, <2>4, <3>1, <3>2 DEF InHand
    <3>4. \A e \in Dest : e # d => InHand'[e] = InHand[e]
      BY <2>1, <3>2 DEF InHand
    <3>5. InHand = [e \in Dest |-> InHand[e]] /\ InHand' = [e \in Dest |-> InHand'[e]]
      BY DEF InHand
    <3> QED
      BY <3>3, <3>4, <3>5
  <2>7. Fifo' = [Fifo EXCEPT ![d] = Tail(@)]
    <3>1. queue'[d] = Tail(queue[d]) /\ \A e \in Dest : e # d => queue'[e] = queue[e]
      BY <2>1, <2>2
    <3>2. Fifo'[d] = Tail(Fifo[d])
      <4>1. Fifo'[d] = [k \in 1..Len(queue'[d]) |-> data[queue'[d][k]]]
        BY <2>1 DEF Fifo
      <4> QED
        BY <2>4, <3>1, <4>1
    <3>3. \A e \in Dest : e # d => Fifo'[e] = Fifo[e]
      BY <2>1, <3>1 DEF Fifo
    <3>4. Fifo = [e \in Dest |-> Fifo[e]] /\ Fifo' = [e \in Dest |-> Fifo'[e]]
      BY DEF Fifo
    <3> QED
      BY <3>2, <3>3, <3>4
  <2> QED
    BY <2>3, <2>4, <2>5, <2>6, <2>7, AbstractStep DEF TakeStep
<1>10. ASSUME NEW d \in Dest, Release(d) PROVE [Delivery!Next]_(Delivery!vars)
  <2>1. /\ held[d] # NULL /\ held' = [held EXCEPT ![d] = NULL]
        /\ UNCHANGED <<data, queue, open, pc, i, frame>>
    BY <1>10 DEF Release, reader, service
  <2>2. held \in [Dest -> Slots \cup {NULL}]
    BY <1>0 DEF TypeOK
  <2>3. UNCHANGED <<Subs, Offer, Offered, Fifo>>
    BY <2>1 DEF Subs, Offer, Offered, Fifo
  <2>4. InHand[d] # NoFrame
    <3>1. data[held[d]] \in Frames
      BY <2>1, <2>2 DEF DInv, HoldKnown, Refers
    <3> QED
      BY <2>1, <3>1, NoFrameAssumption DEF InHand
  <2>5. InHand' = [InHand EXCEPT ![d] = NoFrame]
    <3>1. held'[d] = NULL /\ \A e \in Dest : e # d => held'[e] = held[e]
      BY <2>1, <2>2
    <3>2. InHand'[d] = NoFrame /\ \A e \in Dest : e # d => InHand'[e] = InHand[e]
      BY <2>1, <3>1 DEF InHand
    <3>3. InHand = [e \in Dest |-> InHand[e]] /\ InHand' = [e \in Dest |-> InHand'[e]]
      BY DEF InHand
    <3> QED
      BY <3>2, <3>3
  <2> QED
    BY <2>3, <2>4, <2>5, AbstractStep DEF FinishStep
<1> QED
  BY <1>1, <1>2, <1>3, <1>4, <1>5, <1>6, <1>7, <1>8, <1>9, <1>10, StepKinds DEF DInv

LEMMA RefinesInit == Init => Delivery!Init
<1> SUFFICES ASSUME Init PROVE Delivery!Init
  OBVIOUS
<1>1. \A d \in Dest : queue[d] = <<>> /\ held[d] = NULL
  BY DEF Init, PoolInit
<1>2. Offered = {} /\ Offer = NoFrame
  BY DEF Init, PoolInit, Offered, Offer
<1>3. InHand = [d \in Dest |-> NoFrame]
  BY <1>1 DEF InHand
<1>4. Fifo = [d \in Dest |-> <<>>]
  <2>1. \A d \in Dest : [k \in 1..Len(queue[d]) |-> data[queue[d][k]]] = <<>>
    BY <1>1
  <2> QED
    BY <2>1 DEF Fifo
<1> QED
  BY <1>2, <1>3, <1>4, AbstractInit

\* What gnss_uart.c, ntrip_client.c and ntrip_caster.c do with shared slots and
\* counts is what FrameDelivery promises by value: a frame reaches each service
\* that was there when it was published, unaltered and in order, unless the
\* queue of that service was full.
THEOREM DeliveryCorrect == Spec => DeliversByValue
<1>1. Spec => []DInv
  BY DInvInit, DInvStep, PTL DEF Spec
<1> QED
  BY <1>1, RefinesInit, RefinesStep, PTL DEF Spec, DeliversByValue, Delivery!Spec

-----------------------------------------------------------------------------
(***************************************************************************)
(* Start-up under a running reader.  RefCountExact fails there, because a  *)
(* service may open between the count and the send and gets a pointer that *)
(* nobody counted.  It costs at most that one pointer, once: what is still *)
(* to come (services that may open, and those the frame in work will be    *)
(* sent to) and the damage done so far stay below N together, and the      *)
(* references that will still be counted make up for the rest.             *)
(***************************************************************************)

\* Pointers in queues and hands, and those among them that nobody counted.
Circulating == SumFunction([d \in Dest |-> Len(queue[d]) + IF held[d] = NULL THEN 0 ELSE 1])
Damage      == Circulating - SumFunction(ref_count)

\* Those that may still open, and those the frame in work may still go to.
Fresh  == {d \in Dest : d >= boot /\ ~open[d]}
Due    == {d \in Dest : \/ pc = "drop" /\ d = i
                        \/ /\ open[d]
                           /\ \/ pc = "count" /\ d < i
                              \/ pc \in {"scan", "copy", "set_refs"}
                              \/ pc \in {"send", "drop"} /\ d >= i}
Coming == Fresh \cup Due

\* What the reader will write into the count of the slot, less what is in it.
Credit == IF pc \in {"count", "scan"} THEN refs
          ELSE IF pc \in {"copy", "set_refs"} THEN refs - 1 ELSE 0

\* Before the slot is taken the damage is that of earlier frames; the frame in work
\* is covered by its count, once somebody was counted.
Bounded == Damage <= 0 \/ Damage + Cardinality(Fresh) < N
Covered == (Damage + Cardinality(Coming)) - Credit < N

\* While the slot is filled, and its count is about to be overwritten, late
\* releases can only have made the old count smaller.
BootInv ==
    /\ TypeOK
    /\ pc \in {"idle", "count", "scan"} => Bounded
    /\ pc # "idle" => Covered \/ (pc = "count" /\ refs = 0 /\ Damage <= 0)
    /\ pc \in {"copy", "set_refs"} => ref_count[f] <= 1
    /\ pc = "drop" => i \notin Fresh

\* Circulating, as a function of queues and hands.
Hand(s)       == IF s = NULL THEN 0 ELSE 1
InHands(q, h) == [d \in Dest |-> Len(q[d]) + Hand(h[d])]

\* It is a sum of numbers over the destinations.
LEMMA PointersTyped ==
  ASSUME NEW q \in [Dest -> Seq(Slots)], NEW h
  PROVE  /\ SumFunction(InHands(q, h)) \in Int
         /\ SumFunction(InHands(q, h)) = SumFunctionOnSet(InHands(q, h), Dest)
         /\ \A d \in Dest : /\ InHands(q, h)[d] \in Int
                            /\ InHands(q, h)[d] = Len(q[d]) + Hand(h[d])
<1>1. \A d \in Dest : Len(q[d]) \in Int
  OBVIOUS
<1>2. \A d \in Dest : /\ InHands(q, h)[d] \in Int
                      /\ InHands(q, h)[d] = Len(q[d]) + Hand(h[d])
  BY <1>1 DEF InHands, Hand
<1>3. 0 \in Int /\ \A a, b \in Int : a + b \in Int
  OBVIOUS
<1>4. Dest \in SUBSET Dest
  OBVIOUS
<1>5. SumFunctionOnSet(InHands(q, h), Dest) \in Int
  BY <1>2, <1>3, <1>4, DestFinite, SumType
<1>6. DOMAIN InHands(q, h) = Dest
  BY DEF InHands
<1>7. SumFunction(InHands(q, h)) = SumFunctionOnSet(InHands(q, h), Dest)
  BY <1>6 DEF SumFunction
<1> QED
  BY <1>2, <1>5, <1>7

\* SumChanges for destinations.
LEMMA OneChanges ==
  ASSUME NEW a, NEW b, NEW d \in Dest, \A e \in Dest : b[e] \in Int /\ a[e] \in Int,
         \A e \in Dest \ {d} : a[e] = b[e]
  PROVE  SumFunctionOnSet(a, Dest) = SumFunctionOnSet(b, Dest) + (a[d] - b[d])
<1>1. IsFiniteSet(Dest)
  BY DestFinite
<1> QED
  BY <1>1, SumChanges

\* The pointers of one destination change.
LEMMA PointersChange ==
  ASSUME NEW q \in [Dest -> Seq(Slots)], NEW h \in [Dest -> Slots \cup {NULL}],
         NEW d \in Dest, NEW w \in Seq(Slots), NEW s \in Slots \cup {NULL}
  PROVE  SumFunction(InHands([q EXCEPT ![d] = w], [h EXCEPT ![d] = s]))
           = SumFunction(InHands(q, h)) + ((Len(w) + Hand(s)) - (Len(q[d]) + Hand(h[d])))
<1> DEFINE p == [q EXCEPT ![d] = w]
           g == [h EXCEPT ![d] = s]
<1>1. /\ p \in [Dest -> Seq(Slots)] /\ p[d] = w /\ g[d] = s
      /\ \A e \in Dest \ {d} : p[e] = q[e] /\ g[e] = h[e]
  OBVIOUS
<1> HIDE DEF p, g
<1>2. \A e \in Dest \ {d} : InHands(p, g)[e] = InHands(q, h)[e]
  BY <1>1 DEF InHands
<1>3. \A e \in Dest : InHands(q, h)[e] \in Int /\ InHands(p, g)[e] \in Int
  BY <1>1, PointersTyped
<1>4. SumFunctionOnSet(InHands(p, g), Dest)
        = SumFunctionOnSet(InHands(q, h), Dest) + (InHands(p, g)[d] - InHands(q, h)[d])
  BY <1>2, <1>3, OneChanges
<1>5. /\ SumFunction(InHands(p, g)) = SumFunctionOnSet(InHands(p, g), Dest)
      /\ SumFunction(InHands(q, h)) = SumFunctionOnSet(InHands(q, h), Dest)
      /\ InHands(p, g)[d] = Len(w) + Hand(s)
      /\ InHands(q, h)[d] = Len(q[d]) + Hand(h[d])
  BY <1>1, PointersTyped
<1>6. SumFunction(InHands(p, g))
        = SumFunction(InHands(q, h)) + ((Len(w) + Hand(s)) - (Len(q[d]) + Hand(h[d])))
  BY <1>4, <1>5
<1> QED
  BY <1>6 DEF p, g

\* The counts are a sum of numbers over the slots.
LEMMA CountsTyped ==
  ASSUME NEW r \in [Slots -> Int]
  PROVE  /\ IsFiniteSet(Slots)
         /\ SumFunction(r) \in Int
         /\ SumFunction(r) = SumFunctionOnSet(r, Slots)
<1>1. IsFiniteSet(Slots)
  BY SizesAssumption, FS_Interval DEF Slots
<1>2. \A s \in Slots : r[s] \in Int
  OBVIOUS
<1>3. 0 \in Int /\ \A a, b \in Int : a + b \in Int
  OBVIOUS
<1>4. Slots \in SUBSET Slots
  OBVIOUS
<1>5. SumFunctionOnSet(r, Slots) \in Int
  BY <1>1, <1>2, <1>3, <1>4, SumType
<1> QED
  BY <1>1, <1>5 DEF SumFunction

\* One count is written.
LEMMA CountsChange ==
  ASSUME NEW r \in [Slots -> Int], NEW s \in Slots, NEW v \in Int
  PROVE  SumFunction([r EXCEPT ![s] = v]) = SumFunction(r) + (v - r[s])
<1> DEFINE e == [r EXCEPT ![s] = v]
<1>1. e \in [Slots -> Int] /\ e[s] = v /\ \A t \in Slots \ {s} : e[t] = r[t]
  OBVIOUS
<1> HIDE DEF e
<1>2. IsFiniteSet(Slots) /\ \A t \in Slots : r[t] \in Int /\ e[t] \in Int
  BY <1>1, CountsTyped
<1>3. SumFunctionOnSet(e, Slots) = SumFunctionOnSet(r, Slots) + (e[s] - r[s])
  BY <1>1, <1>2, SumChanges
<1>4. SumFunction(e) = SumFunction(r) + (v - r[s])
  BY <1>1, <1>3, CountsTyped
<1> QED
  BY <1>4 DEF e

\* All of it are numbers, in this state and the next.
LEMMA DamageTyped ==
  ASSUME TypeOK
  PROVE  /\ Circulating \in Int /\ SumFunction(ref_count) \in Int /\ Damage \in Int
         /\ Circulating = SumFunction(InHands(queue, held))
         /\ refs \in Nat /\ Credit \in Int /\ i \in Nat /\ N \in Nat
<1>1. Circulating = SumFunction(InHands(queue, held))
  BY DEF Circulating, InHands, Hand
<1>2. Circulating \in Int /\ SumFunction(ref_count) \in Int
  BY <1>1, PointersTyped, CountsTyped DEF TypeOK
<1>3. refs \in Nat /\ i \in Nat /\ N \in Nat
  BY SizesAssumption DEF TypeOK, ReaderTypeOK
<1>4. Credit \in Int
  BY <1>3 DEF Credit
<1> QED
  BY <1>1, <1>2, <1>3, <1>4 DEF Damage

LEMMA DamageTypedNext == ASSUME TypeOK' PROVE Damage' \in Int
<1>1. Circulating' = SumFunction(InHands(queue', held'))
  BY DEF Circulating, InHands, Hand
<1>2. Circulating' \in Int /\ SumFunction(ref_count') \in Int
  BY <1>1, PointersTyped, CountsTyped DEF TypeOK
<1> QED
  BY <1>2 DEF Damage

\* Sets of destinations.
LEMMA Fewer ==
  ASSUME NEW A, NEW B \in SUBSET Dest, A \subseteq B
  PROVE  /\ Cardinality(A) \in Nat /\ Cardinality(B) \in Nat
         /\ Cardinality(A) <= Cardinality(B) /\ Cardinality(B) <= N
         /\ \A x \in B : x \notin A => Cardinality(A) <= Cardinality(B) - 1
<1>1. IsFiniteSet(A) /\ IsFiniteSet(B) /\ IsFiniteSet(Dest) /\ Cardinality(Dest) = N
  BY DestFinite
<1>2. Cardinality(A) \in Nat /\ Cardinality(B) \in Nat
  BY <1>1, FS_CardinalityType
<1>3. Cardinality(A) <= Cardinality(B) /\ Cardinality(B) <= N
  BY <1>1, FS_Subset
<1>4. ASSUME NEW x \in B, x \notin A PROVE Cardinality(A) <= Cardinality(B) - 1
  <2>1. IsFiniteSet(B \ {x}) /\ Cardinality(B \ {x}) = Cardinality(B) - 1
    BY <1>1, <1>4, FS_RemoveElement
  <2>2. A \in SUBSET (B \ {x})
    BY <1>4
  <2> QED
    BY <2>1, <2>2, FS_Subset
<1> QED
  BY <1>2, <1>3, <1>4

\* The destinations to come are destinations.
LEMMA ComingTyped == /\ Fresh \in SUBSET Dest /\ Coming \in SUBSET Dest /\ Fresh \subseteq Coming
                     /\ Cardinality(Fresh) \in Nat /\ Cardinality(Coming) \in Nat
                     /\ Cardinality(Fresh) <= Cardinality(Coming)
                     /\ Cardinality(Coming) <= N
<1>1. Fresh \in SUBSET Dest /\ Coming \in SUBSET Dest /\ Fresh \subseteq Coming
  BY DEF Coming, Fresh, Due
<1> QED
  BY <1>1, Fewer

LEMMA ComingTypedNext ==
    /\ Fresh' \in SUBSET Dest /\ Coming' \in SUBSET Dest /\ Fresh' \subseteq Coming'
    /\ Cardinality(Fresh') \in Nat /\ Cardinality(Coming') \in Nat
    /\ Cardinality(Fresh') <= Cardinality(Coming')
    /\ Cardinality(Coming') <= N
<1>1. Fresh' \in SUBSET Dest /\ Coming' \in SUBSET Dest /\ Fresh' \subseteq Coming'
  BY DEF Coming, Fresh, Due
<1> QED
  BY <1>1, Fewer

\* Nothing circulates and nothing is counted at first.
LEMMA BootInvInit == BootInit => BootInv
<1> SUFFICES ASSUME BootInit PROVE BootInv
  OBVIOUS
<1>1. TypeOK
  BY PoolInitType, SizesAssumption DEF BootInit, Dest
<1>2. Damage = 0
  <2>1. \A d \in Dest : InHands(queue, held)[d] = 0
    BY DEF InHands, Hand, BootInit, PoolInit
  <2> DEFINE none == {0}
  <2>0. 0 \in none /\ \A a, b \in none : a + b \in none
    OBVIOUS
  <2>2. SumFunctionOnSet(InHands(queue, held), Dest) = 0
    <3>1. \A d \in Dest : InHands(queue, held)[d] \in none
      BY <2>1
    <3>2. Dest \in SUBSET Dest /\ IsFiniteSet(Dest)
      BY DestFinite
    <3> HIDE DEF none
    <3>3. SumFunctionOnSet(InHands(queue, held), Dest) \in none
      BY <2>0, <3>1, <3>2, SumType
    <3> QED
      BY <3>3 DEF none
  <2>3. Circulating = 0
    BY <1>1, <2>2, DamageTyped, PointersTyped DEF TypeOK
  <2>4. \A s \in Slots : ref_count[s] \in none
    BY DEF BootInit, PoolInit
  <2>5. SumFunctionOnSet(ref_count, Slots) = 0
    <3>1. Slots \in SUBSET Slots /\ IsFiniteSet(Slots)
      BY <1>1, CountsTyped DEF TypeOK
    <3> HIDE DEF none
    <3>2. SumFunctionOnSet(ref_count, Slots) \in none
      BY <2>0, <2>4, <3>1, SumType
    <3> QED
      BY <3>2 DEF none
  <2>6. SumFunction(ref_count) = 0
    BY <1>1, <2>5, CountsTyped DEF TypeOK
  <2> QED
    BY <2>3, <2>6 DEF Damage
<1>3. pc = "idle"
  BY DEF BootInit, PoolInit
<1> QED
  BY <1>1, <1>2, <1>3 DEF BootInv, Bounded
\* Steps that are not the reader's: they move pointers, give them back with
\* their counts, drop them, or open a destination.
LEMMA OthersKeepBound ==
  ASSUME BootInv, TypeOK', UNCHANGED <<pc, refs, i, f>>, Damage' <= Damage,
         Fresh' \subseteq Fresh, Coming' \subseteq Coming,
         pc \in {"copy", "set_refs"} => ref_count'[f] <= ref_count[f]
  PROVE  BootInv'
<1>1. TypeOK /\ Credit' = Credit
  BY DEF BootInv, Credit
<1>2. /\ Damage \in Int /\ Damage' \in Int /\ Credit \in Int /\ N \in Nat
      /\ Cardinality(Fresh) \in Nat /\ Cardinality(Coming) \in Nat
      /\ Cardinality(Fresh') \in Nat /\ Cardinality(Coming') \in Nat
      /\ Cardinality(Fresh') <= Cardinality(Fresh)
      /\ Cardinality(Coming') <= Cardinality(Coming)
  <2>1. Fresh \in SUBSET Dest /\ Coming \in SUBSET Dest
    BY ComingTyped
  <2>2. Damage \in Int /\ Damage' \in Int /\ Credit \in Int /\ N \in Nat
    BY <1>1, DamageTyped, DamageTypedNext
  <2>3. /\ Cardinality(Fresh) \in Nat /\ Cardinality(Fresh') \in Nat
        /\ Cardinality(Fresh') <= Cardinality(Fresh)
    BY <2>1, Fewer
  <2>4. /\ Cardinality(Coming) \in Nat /\ Cardinality(Coming') \in Nat
        /\ Cardinality(Coming') <= Cardinality(Coming)
    BY <2>1, Fewer
  <2> QED
    BY <2>2, <2>3, <2>4
<1>3. Bounded => Bounded'
  BY <1>2 DEF Bounded
<1>4. Covered => Covered'
  BY <1>1, <1>2 DEF Covered
<1>5. Damage <= 0 => Damage' <= 0
  BY <1>2
<1>6. pc \in {"copy", "set_refs"} => ref_count'[f] <= 1
  <2>1. pc \in {"copy", "set_refs"} => ref_count'[f] \in Int /\ ref_count[f] \in Int
    BY <1>1 DEF TypeOK, ReaderTypeOK
  <2> QED
    BY <2>1 DEF BootInv
<1> QED
  BY <1>3, <1>4, <1>5, <1>6 DEF BootInv

\* Steps of the reader that touch no count and no queue.
LEMMA SameDamage ==
  ASSUME TypeOK, UNCHANGED <<ref_count, queue, held>>
  PROVE  Damage' = Damage
BY DEF Damage, Circulating

\* Only app_main opens a service.
LEMMA SameFresh == UNCHANGED service => Fresh' = Fresh
BY DEF service, Fresh

\* The reader goes on behind destination i, which only comes again if it opens.
LEMMA NextComing ==
  ASSUME TypeOK, pc \in {"send", "drop"}, NextDest, UNCHANGED service
  PROVE  Coming' \subseteq Coming /\ (i \notin Fresh => i \notin Coming')
<1>1. i \in Nat /\ i <= N /\ N \in Nat /\ Fresh' = Fresh /\ open' = open
  BY SizesAssumption, SameFresh DEF TypeOK, ReaderTypeOK, service
<1>2. CASE i = N
  BY <1>1, <1>2 DEF NextDest, ReaderDone, Coming, Due
<1>3. CASE i # N
  <2>1. pc' = "send" /\ i' = i + 1
    BY <1>3 DEF NextDest
  <2>2. \A d \in Due' : d \in Due /\ d # i
    BY <1>1, <2>1 DEF Due, Dest
  <2> QED
    BY <1>1, <2>2 DEF Coming
<1> QED
  BY <1>2, <1>3

\* After a destination the bound holds again when the damage has grown by one
\* for one that was to come, or has not grown.
LEMMA NextKeepsBound ==
  ASSUME BootInv, TypeOK', pc \in {"send", "drop"}, NextDest, UNCHANGED service,
         Damage' = Damage \/ (i \in Coming \ Fresh /\ Damage' = Damage + 1)
  PROVE  BootInv'
<1>1. TypeOK /\ Covered /\ Credit = 0
  BY DEF BootInv, Credit
<1>2. pc' \in {"idle", "send"} /\ Credit' = 0 /\ Fresh' = Fresh
  BY SameFresh DEF NextDest, ReaderDone, Credit
<1>3. Coming' \subseteq Coming /\ (i \notin Fresh => i \notin Coming')
  BY <1>1, NextComing
<1>4. /\ Damage \in Int /\ Damage' \in Int /\ N \in Nat
      /\ Cardinality(Coming) \in Nat /\ Cardinality(Coming') \in Nat
      /\ Cardinality(Coming') <= Cardinality(Coming)
      /\ (i \in Coming \ Fresh => Cardinality(Coming') <= Cardinality(Coming) - 1)
  BY <1>1, <1>3, DamageTyped, DamageTypedNext, ComingTyped, Fewer
<1>5. (Damage + Cardinality(Coming)) - 0 < N
  BY <1>1 DEF Covered
<1>6. Damage' + Cardinality(Coming') < N
  BY <1>4, <1>5
<1>7. Covered'
  BY <1>2, <1>4, <1>6 DEF Covered
<1>8. Bounded'
  <2>1. Cardinality(Fresh') \in Nat /\ Cardinality(Fresh') <= Cardinality(Coming')
    BY ComingTypedNext
  <2> QED
    BY <1>4, <1>6, <2>1 DEF Bounded
<1> QED
  BY <1>2, <1>7, <1>8 DEF BootInv

\* Between two frames, or while it counts and looks for a slot, the reader
\* changes nothing that another task can see.
LEMMA LookingKeepsBound ==
  ASSUME BootInv, TypeOK', UNCHANGED <<ref_count, queue, held, service>>,
         pc \in {"idle", "count", "scan"}, pc' \in {"idle", "count", "scan"},
         pc' # "idle" => Covered' \/ (pc' = "count" /\ refs' = 0 /\ Damage <= 0)
  PROVE  BootInv'
<1>1. Damage' = Damage /\ Fresh' = Fresh
  BY SameDamage, SameFresh DEF BootInv
<1>2. Bounded'
  BY <1>1 DEF BootInv, Bounded
<1> QED
  BY <1>1, <1>2 DEF BootInv

\* One more is to come, and one more is counted.
LEMMA CountKeepsBound ==
  ASSUME BootInv, TypeOK', CountActive
  PROVE  BootInv'
<1>1. /\ TypeOK /\ pc = "count" /\ pc' = "count" /\ i' = i + 1 /\ i <= N
      /\ refs' = (IF open[i] THEN refs + 1 ELSE refs)
      /\ UNCHANGED <<ref_count, queue, held, service>> /\ open' = open
  BY DEF CountActive, BootInv, service
<1>2. Damage' = Damage /\ Fresh' = Fresh
  BY <1>1, SameDamage, SameFresh
<1>3. /\ i \in Dest /\ i \in Nat /\ refs \in Nat /\ N \in Nat /\ Damage \in Int
      /\ Cardinality(Coming) \in Nat /\ Cardinality(Coming') \in Nat
      /\ Cardinality(Coming') <= N
      /\ Credit = refs /\ Credit' = refs'
  <2>1. i \in Nat /\ i >= 1 /\ refs \in Nat /\ N \in Nat
    BY <1>1, SizesAssumption DEF TypeOK, ReaderTypeOK
  <2> QED
    BY <1>1, <2>1, DamageTyped, ComingTyped, ComingTypedNext DEF Credit, Dest
<1>4. CASE ~open[i]
  <2>1. \A d \in Dest : d \in Due' <=> d \in Due
    BY <1>1, <1>3, <1>4 DEF Due, Dest
  <2>2. Coming' = Coming
    BY <1>2, <2>1 DEF Coming, Due
  <2>3. Covered => Covered'
    BY <1>1, <1>2, <1>3, <1>4, <2>2 DEF Covered
  <2> QED
    BY <1>1, <1>4, <2>3, LookingKeepsBound DEF BootInv
<1>5. CASE open[i]
  <2>1. \A d \in Dest : d \in Due' <=> d \in Due \/ d = i
    BY <1>1, <1>3, <1>5 DEF Due, Dest
  <2>2. Coming' = Coming \cup {i}
    BY <1>2, <1>3, <2>1 DEF Coming, Due
  <2>3. Cardinality(Coming') <= Cardinality(Coming) + 1
    <3>1. IsFiniteSet(Coming)
      BY ComingTyped, DestFinite
    <3>2. Cardinality(Coming \cup {i}) = IF i \in Coming THEN Cardinality(Coming)
                                         ELSE Cardinality(Coming) + 1
      BY <3>1, FS_AddElement
    <3> QED
      BY <1>3, <2>2, <3>2
  <2>4. refs' = refs + 1 /\ Credit' = refs + 1
    BY <1>1, <1>3, <1>5
  <2>5. CASE Covered
    <3>1. (Damage + Cardinality(Coming)) - refs < N
      BY <1>3, <2>5 DEF Covered
    <3>2. (Damage + Cardinality(Coming')) - (refs + 1) < N
      BY <1>3, <2>3, <3>1
    <3>3. Covered'
      BY <1>2, <2>4, <3>2 DEF Covered
    <3> QED
      BY <1>1, <3>3, LookingKeepsBound
  <2>6. CASE refs = 0 /\ Damage <= 0
    <3>1. (Damage + Cardinality(Coming')) - (refs + 1) < N
      BY <1>3, <2>6
    <3>2. Covered'
      BY <1>2, <2>4, <3>1 DEF Covered
    <3> QED
      BY <1>1, <3>2, LookingKeepsBound
  <2> QED
    BY <1>1, <2>5, <2>6 DEF BootInv
<1> QED
  BY <1>4, <1>5

\* Every step of the reader.
LEMMA ReaderKeepsBound ==
  ASSUME BootInv, TypeOK', ReaderStep
  PROVE  BootInv'
<1>1. TypeOK /\ N \in Nat /\ i \in Nat /\ refs \in Nat /\ Damage \in Int
  BY DamageTyped DEF BootInv
<1>2. /\ Cardinality(Coming) \in Nat /\ Cardinality(Fresh) \in Nat
      /\ Cardinality(Coming') \in Nat /\ Cardinality(Fresh') \in Nat
  BY ComingTyped, ComingTypedNext
<1>3. CASE CountActive
  BY <1>3, CountKeepsBound
<1>4. CASE NoConsumers \/ PoolExhausted
  BY <1>4, LookingKeepsBound DEF NoConsumers, PoolExhausted, ReaderDone
<1>5. CASE StartAlloc
  <2>1. /\ pc = "count" /\ pc' = "scan" /\ i = N + 1 /\ refs # 0 /\ refs' = refs
        /\ UNCHANGED <<ref_count, queue, held, service>>
    BY <1>5 DEF StartAlloc
  <2>2. open' = open /\ Fresh' = Fresh /\ Damage' = Damage
    BY <1>1, <2>1, SameFresh, SameDamage DEF service
  <2>3. \A d \in Dest : d \in Due' <=> d \in Due
    BY <1>1, <2>1, <2>2 DEF Due, Dest
  <2>4. Coming' = Coming /\ Credit' = Credit
    BY <2>1, <2>2, <2>3 DEF Coming, Due, Credit
  <2>5. Covered'
    BY <2>1, <2>2, <2>4 DEF Covered, BootInv
  <2> QED
    BY <2>1, <2>5, LookingKeepsBound
<1>6. CASE ScanNext
  <2>1. /\ pc = "scan" /\ pc' = "scan" /\ refs' = refs
        /\ UNCHANGED <<ref_count, queue, held, service>>
    BY <1>6 DEF ScanNext
  <2>2. open' = open /\ Fresh' = Fresh /\ Damage' = Damage
    BY <1>1, <2>1, SameFresh, SameDamage DEF service
  <2>3. Coming' = Coming /\ Credit' = Credit
    BY <2>1, <2>2 DEF Coming, Due, Credit
  <2>4. Covered'
    BY <2>1, <2>2, <2>3 DEF Covered, BootInv
  <2> QED
    BY <2>1, <2>4, LookingKeepsBound
<1>7. CASE AllocSlot
  <2>1. /\ pc = "scan" /\ pc' = "copy" /\ refs' = refs /\ f' = i /\ i \in Slots
        /\ ref_count[i] = 0 /\ ref_count' = [ref_count EXCEPT ![i] = 1]
        /\ UNCHANGED <<queue, held, service>>
    BY <1>1, <1>7 DEF AllocSlot, TypeOK, ReaderTypeOK, Slots
  <2>2. open' = open /\ Fresh' = Fresh /\ Circulating' = Circulating
    BY <2>1, SameFresh DEF service, Circulating
  <2>3. SumFunction(ref_count') = SumFunction(ref_count) + (1 - ref_count[i])
    BY <1>1, <2>1, CountsChange DEF TypeOK
  <2>4. Damage' = Damage - 1
    BY <1>1, <2>1, <2>2, <2>3, DamageTyped DEF Damage
  <2>5. Coming' = Coming /\ Credit = refs /\ Credit' = refs - 1
    BY <2>1, <2>2 DEF Coming, Due, Credit
  <2>6. (Damage + Cardinality(Coming)) - refs < N
    BY <2>1, <2>5 DEF Covered, BootInv
  <2>7. ((Damage - 1) + Cardinality(Coming)) - (refs - 1) < N
    BY <1>1, <1>2, <2>6
  <2>8. Covered'
    BY <2>4, <2>5, <2>7 DEF Covered
  <2>9. ref_count'[f'] <= 1
    BY <1>1, <2>1 DEF TypeOK
  <2> QED
    BY <2>1, <2>8, <2>9 DEF BootInv
<1>8. CASE CopyFrame
  <2>1. /\ pc = "copy" /\ pc' = "set_refs"
        /\ UNCHANGED <<ref_count, queue, held, refs, i, f, service>>
    BY <1>8 DEF CopyFrame
  <2>2. open' = open /\ Fresh' = Fresh /\ Damage' = Damage
    BY <1>1, <2>1, SameFresh, SameDamage DEF service
  <2>3. Coming' = Coming /\ Credit' = Credit
    BY <2>1, <2>2 DEF Coming, Due, Credit
  <2>4. Covered'
    BY <2>1, <2>2, <2>3 DEF Covered, BootInv
  <2> QED
    BY <2>1, <2>4 DEF BootInv
<1>9. CASE SetRefs
  <2>1. /\ pc = "set_refs" /\ pc' = "send" /\ i' = 1 /\ f \in Slots
        /\ ref_count' = [ref_count EXCEPT ![f] = refs]
        /\ ref_count[f] \in Int /\ ref_count[f] <= 1
        /\ UNCHANGED <<queue, held, service>>
    BY <1>1, <1>9 DEF SetRefs, TypeOK, ReaderTypeOK, BootInv
  <2>2. open' = open /\ Fresh' = Fresh /\ Circulating' = Circulating
    BY <2>1, SameFresh DEF service, Circulating
  <2>3. SumFunction(ref_count') = SumFunction(ref_count) + (refs - ref_count[f])
    BY <1>1, <2>1, CountsChange DEF TypeOK
  <2>4. Damage' = Damage - (refs - ref_count[f])
    BY <1>1, <2>1, <2>2, <2>3, DamageTyped DEF Damage
  <2>5. \A d \in Dest : d >= 1
    BY DEF Dest
  <2>6. Coming' = Coming /\ Credit = refs - 1 /\ Credit' = 0
    BY <2>1, <2>2, <2>5 DEF Coming, Due, Credit
  <2>7. (Damage + Cardinality(Coming)) - (refs - 1) < N
    BY <2>1, <2>6 DEF Covered, BootInv
  <2>8. ((Damage - (refs - ref_count[f])) + Cardinality(Coming)) - 0 < N
    BY <1>1, <1>2, <2>1, <2>7
  <2>9. Covered'
    BY <2>4, <2>6, <2>8 DEF Covered
  <2> QED
    BY <2>1, <2>9 DEF BootInv
<1>10. CASE SkipDest \/ SendLost
  <2>1. /\ pc = "send" /\ NextDest /\ UNCHANGED <<ref_count, queue, held, service>>
    BY <1>10 DEF SkipDest, SendLost
  <2>2. Damage' = Damage
    BY <1>1, <2>1, SameDamage
  <2> QED
    BY <2>1, <2>2, NextKeepsBound
<1>11. CASE SendFrame
  <2>1. /\ pc = "send" /\ NextDest /\ open[i] /\ i \in Dest /\ f \in Slots
        /\ queue' = [queue EXCEPT ![i] = Append(queue[i], f)]
        /\ UNCHANGED <<ref_count, held, service>>
    BY <1>1, <1>11 DEF SendFrame, TypeOK, ReaderTypeOK, Dest
  <2>2. queue \in [Dest -> Seq(Slots)] /\ held \in [Dest -> Slots \cup {NULL}]
    BY <1>1 DEF TypeOK
  <2>3. queue[i] \in Seq(Slots) /\ Append(queue[i], f) \in Seq(Slots)
    BY <2>1, <2>2
  <2>4. Len(Append(queue[i], f)) = Len(queue[i]) + 1 /\ Len(queue[i]) \in Nat
    BY <2>1, <2>3
  <2>5. held' = [held EXCEPT ![i] = held[i]] /\ held[i] \in Slots \cup {NULL}
    BY <2>1, <2>2
  <2>6. SumFunction(InHands(queue', held')) = SumFunction(InHands(queue, held)) + 1
    <3>1. SumFunction(InHands(queue', held')) = SumFunction(InHands(queue, held))
            + ((Len(Append(queue[i], f)) + Hand(held[i])) - (Len(queue[i]) + Hand(held[i])))
      <4>1. SumFunction(InHands([queue EXCEPT ![i] = Append(queue[i], f)],
                                [held EXCEPT ![i] = held[i]]))
              = SumFunction(InHands(queue, held))
                + ((Len(Append(queue[i], f)) + Hand(held[i])) - (Len(queue[i]) + Hand(held[i])))
        <5>1. i \in Dest /\ held[i] \in Slots \cup {NULL}
          BY <2>1, <2>5
        <5> QED
          BY <2>2, <2>3, <5>1, PointersChange, Zenon
      <4>2. queue' = [queue EXCEPT ![i] = Append(queue[i], f)]
        BY <2>1
      <4> QED
        BY <2>5, <4>1, <4>2, Zenon
    <3>2. Hand(held[i]) \in Int
      BY DEF Hand
    <3>3. \A l, h \in Int : ((l + 1) + h) - (l + h) = 1
      OBVIOUS
    <3> QED
      BY <2>4, <3>1, <3>2, <3>3
  <2>7. Damage' = Damage + 1
    BY <1>1, <2>1, <2>6, DamageTyped DEF Damage, Circulating, InHands, Hand
  <2>8. i \in Coming /\ i \notin Fresh
    BY <1>1, <2>1 DEF Coming, Due, Fresh
  <2> QED
    BY <1>1, <2>1, <2>7, <2>8, NextKeepsBound
<1>12. CASE QueueFull
  <2>1. /\ pc = "send" /\ pc' = "drop" /\ open[i] /\ i' = i
        /\ UNCHANGED <<ref_count, queue, held, service>>
    BY <1>12 DEF QueueFull
  <2>2. open' = open /\ Fresh' = Fresh /\ Damage' = Damage
    BY <1>1, <2>1, SameFresh, SameDamage DEF service
  <2>3. \A d \in Dest : d \in Due' <=> d \in Due
    BY <1>1, <2>1, <2>2 DEF Due, Dest
  <2>4. Coming' = Coming /\ Credit' = Credit /\ i \notin Fresh
    BY <2>1, <2>2, <2>3 DEF Coming, Due, Credit, Fresh
  <2>5. Covered'
    BY <2>1, <2>2, <2>4 DEF Covered, BootInv
  <2> QED
    BY <2>1, <2>2, <2>4, <2>5 DEF BootInv
<1>13. CASE DropFrame
  <2>1. /\ pc = "drop" /\ NextDest /\ i \in Dest /\ f \in Slots /\ i \notin Fresh
        /\ ref_count' = [ref_count EXCEPT ![f] = ref_count[f] - 1]
        /\ ref_count[f] \in Int
        /\ UNCHANGED <<queue, held, service>>
    BY <1>1, <1>13 DEF DropFrame, TypeOK, ReaderTypeOK, Dest, BootInv
  <2>2. SumFunction(ref_count') = SumFunction(ref_count) + ((ref_count[f] - 1) - ref_count[f])
    <3>1. ref_count[f] - 1 \in Int
      BY <2>1
    <3> QED
      BY <1>1, <2>1, <3>1, CountsChange DEF TypeOK
  <2>3. Circulating' = Circulating
    BY <2>1 DEF Circulating
  <2>4. Damage' = Damage + 1
    BY <1>1, <2>1, <2>2, <2>3, DamageTyped DEF Damage
  <2>5. i \in Coming
    BY <2>1 DEF Coming, Due
  <2> QED
    BY <1>1, <2>1, <2>4, <2>5, NextKeepsBound
<1> QED
  BY <1>3, <1>4, <1>5, <1>6, <1>7, <1>8, <1>9, <1>10, <1>11, <1>12, <1>13 DEF ReaderStep

\* A pointer goes from the queue to the hand.
LEMMA ReceiveKeepsBound ==
  ASSUME BootInv, TypeOK', NEW d \in Dest, Receive(d)
  PROVE  BootInv'
<1>1. TypeOK
  BY DEF BootInv
<1>2. /\ queue[d] \in Seq(Slots) /\ queue[d] # <<>> /\ held[d] = NULL
      /\ queue' = [queue EXCEPT ![d] = Tail(queue[d])]
      /\ held' = [held EXCEPT ![d] = Head(queue[d])]
      /\ UNCHANGED <<ref_count, reader, service>>
  BY <1>1 DEF Receive, TypeOK
<1>3. /\ Tail(queue[d]) \in Seq(Slots) /\ Head(queue[d]) \in Slots
      /\ Len(Tail(queue[d])) = Len(queue[d]) - 1 /\ Len(queue[d]) \in Nat
  BY <1>2
<1>4. Hand(held[d]) = 0 /\ Hand(Head(queue[d])) = 1
  BY <1>2, <1>3 DEF Hand, Slots, NULL
<1>5. SumFunction(InHands(queue', held')) = SumFunction(InHands(queue, held)) + 0
  <2>1. SumFunction(InHands(queue', held')) = SumFunction(InHands(queue, held))
          + ((Len(Tail(queue[d])) + Hand(Head(queue[d]))) - (Len(queue[d]) + Hand(held[d])))
    <3>1. queue \in [Dest -> Seq(Slots)] /\ held \in [Dest -> Slots \cup {NULL}]
          /\ Head(queue[d]) \in Slots \cup {NULL}
      BY <1>1, <1>3 DEF TypeOK
    <3>2. SumFunction(InHands([queue EXCEPT ![d] = Tail(queue[d])],
                              [held EXCEPT ![d] = Head(queue[d])]))
            = SumFunction(InHands(queue, held))
              + ((Len(Tail(queue[d])) + Hand(Head(queue[d]))) - (Len(queue[d]) + Hand(held[d])))
      BY <1>3, <3>1, PointersChange, Zenon
    <3> QED
      BY <1>2, <3>2
  <2> QED
    BY <1>3, <1>4, <2>1
<1>6. Damage' = Damage
  BY <1>1, <1>2, <1>5, DamageTyped DEF Damage, Circulating, InHands, Hand
<1>7. Fresh' = Fresh /\ Coming' = Coming
  BY <1>2 DEF reader, service, Fresh, Coming, Due
<1> QED
  BY <1>1, <1>2, <1>6, <1>7, DamageTyped, OthersKeepBound DEF reader, TypeOK, ReaderTypeOK

\* A pointer and its count are given back together.
LEMMA ReleaseKeepsBound ==
  ASSUME BootInv, TypeOK', NEW d \in Dest, Release(d)
  PROVE  BootInv'
<1>1. TypeOK
  BY DEF BootInv
<1>2. /\ held[d] \in Slots /\ queue[d] \in Seq(Slots)
      /\ held' = [held EXCEPT ![d] = NULL] /\ queue' = [queue EXCEPT ![d] = queue[d]]
      /\ ref_count' = [ref_count EXCEPT ![held[d]] = ref_count[held[d]] - 1]
      /\ UNCHANGED <<reader, service>>
  BY <1>1 DEF Release, TypeOK
<1>3. ref_count \in [Slots -> Int]
  BY <1>1 DEF TypeOK
<1>4. Hand(held[d]) = 1 /\ Hand(NULL) = 0 /\ Len(queue[d]) \in Nat
  BY <1>2 DEF Hand, Slots, NULL
<1>5. SumFunction(InHands(queue', held')) = SumFunction(InHands(queue, held)) + (0 - 1)
  <2>1. SumFunction(InHands(queue', held')) = SumFunction(InHands(queue, held))
          + ((Len(queue[d]) + Hand(NULL)) - (Len(queue[d]) + Hand(held[d])))
    <3>1. queue \in [Dest -> Seq(Slots)] /\ held \in [Dest -> Slots \cup {NULL}]
          /\ NULL \in Slots \cup {NULL}
      BY <1>1 DEF TypeOK
    <3>2. SumFunction(InHands([queue EXCEPT ![d] = queue[d]], [held EXCEPT ![d] = NULL]))
            = SumFunction(InHands(queue, held))
              + ((Len(queue[d]) + Hand(NULL)) - (Len(queue[d]) + Hand(held[d])))
      BY <1>2, <3>1, PointersChange, Zenon
    <3> QED
      BY <1>2, <3>2
  <2> QED
    BY <1>4, <2>1
<1>6. SumFunction(ref_count') = SumFunction(ref_count)
                                  + ((ref_count[held[d]] - 1) - ref_count[held[d]])
  <2>1. ref_count[held[d]] - 1 \in Int
    BY <1>2, <1>3
  <2> QED
    BY <1>2, <1>3, <2>1, CountsChange
<1>7. Damage' = Damage
  <2>1. SumFunction(ref_count') = SumFunction(ref_count) - 1
    BY <1>1, <1>2, <1>3, <1>6, DamageTyped
  <2>2. Circulating' = Circulating - 1
    BY <1>1, <1>5, DamageTyped DEF Circulating, InHands, Hand
  <2> QED
    BY <1>1, <2>1, <2>2, DamageTyped DEF Damage
<1>8. Fresh' = Fresh /\ Coming' = Coming
  BY <1>2 DEF reader, service, Fresh, Coming, Due
<1>9. \A s \in Slots : ref_count'[s] <= ref_count[s]
  BY <1>2, <1>3
<1>10. pc \in {"copy", "set_refs"} => f \in Slots
  BY <1>1 DEF TypeOK, ReaderTypeOK
<1> QED
  BY <1>1, <1>2, <1>7, <1>8, <1>9, <1>10, DamageTyped, OthersKeepBound DEF reader

\* A service that opens was still to come; the deleted queue loses pointers.
LEMMA BootStepKeepsBound ==
  ASSUME BootInv, TypeOK', BootStep
  PROVE  BootInv'
<1>1. TypeOK /\ N \in Nat /\ boot \in Nat
  BY SizesAssumption DEF BootInv, TypeOK
<1>2. UNCHANGED <<ref_count, held, reader>>
  BY DEF BootStep, BootSkip, BootOpen, BootStart, BootDeleteCaster, BootCloseCaster
<1>3. pc \in {"copy", "set_refs"} => ref_count'[f] <= ref_count[f]
  BY <1>1, <1>2 DEF TypeOK, ReaderTypeOK
<1>4. CASE BootDeleteCaster
  <2>1. /\ Caster \in Dest /\ queue' = [queue EXCEPT ![Caster] = <<>>]
        /\ held' = [held EXCEPT ![Caster] = held[Caster]]
        /\ UNCHANGED <<open, boot>>
    BY <1>1, <1>2, <1>4, SizesAssumption DEF BootDeleteCaster, TypeOK, Caster, Dest
  <2>2. /\ queue[Caster] \in Seq(Slots) /\ held[Caster] \in Slots \cup {NULL}
        /\ <<>> \in Seq(Slots) /\ Len(<<>>) = 0
    BY <1>1, <2>1 DEF TypeOK
  <2>3. PICK l \in Nat : l = Len(queue[Caster])
    BY <2>2
  <2>4. SumFunction(InHands(queue', held')) = SumFunction(InHands(queue, held)) + (0 - l)
    <3>1. SumFunction(InHands(queue', held')) = SumFunction(InHands(queue, held))
            + ((Len(<<>>) + Hand(held[Caster])) - (Len(queue[Caster]) + Hand(held[Caster])))
      <4>1. queue \in [Dest -> Seq(Slots)] /\ held \in [Dest -> Slots \cup {NULL}]
        BY <1>1 DEF TypeOK
      <4>2. SumFunction(InHands([queue EXCEPT ![Caster] = <<>>],
                                [held EXCEPT ![Caster] = held[Caster]]))
              = SumFunction(InHands(queue, held))
                + ((Len(<<>>) + Hand(held[Caster])) - (Len(queue[Caster]) + Hand(held[Caster])))
        <5>1. /\ Caster \in Dest /\ held[Caster] \in Slots \cup {NULL}
              /\ <<>> \in Seq(Slots)
          BY <2>1, <2>2
        <5> QED
          BY <4>1, <5>1, PointersChange, Zenon
      <4> QED
        BY <2>1, <4>2
    <3>2. Hand(held[Caster]) \in Int
      BY DEF Hand
    <3>3. \A h \in Int : (0 + h) - (l + h) = 0 - l
      OBVIOUS
    <3> QED
      BY <2>2, <2>3, <3>1, <3>2, <3>3
  <2>5. Damage' <= Damage
    BY <1>1, <1>2, <2>4, DamageTyped DEF Damage, Circulating, InHands, Hand
  <2>6. Fresh' = Fresh /\ Coming' = Coming
    BY <1>2, <2>1 DEF reader, Fresh, Coming, Due
  <2> QED
    BY <1>2, <1>3, <2>5, <2>6, OthersKeepBound DEF reader
<1>5. CASE ~BootDeleteCaster
  <2>1. queue' = queue
    BY <1>5 DEF BootStep, BootSkip, BootOpen, BootStart, BootCloseCaster
  <2>2. Damage' = Damage
    BY <1>1, <1>2, <2>1, SameDamage
  <2>3. UNCHANGED <<pc, refs, i, f>>
    BY <1>2 DEF reader
  <2>4. Fresh' \subseteq Fresh /\ Coming' \subseteq Coming
    <3>1. CASE BootSkip
      BY <1>1, <2>3, <3>1 DEF BootSkip, Fresh, Coming, Due, Dest
    <3>2. CASE BootOpen
      BY <1>1, <2>3, <3>2 DEF BootOpen, Fresh, Coming, Due, Dest, TypeOK
    <3>3. ASSUME NEW ok \in BOOLEAN, BootStart(ok)
          PROVE  Fresh' \subseteq Fresh /\ Coming' \subseteq Coming
      BY <1>1, <2>3, <3>3 DEF BootStart, Fresh, Coming, Due, Dest
    <3>4. CASE BootCloseCaster
      <4>1. boot' = N + 1 /\ \A e \in Dest : open'[e] => open[e]
        BY <1>1, <3>4 DEF BootCloseCaster, TypeOK
      <4>2. Fresh' = {}
        BY <1>1, <4>1 DEF Fresh, Dest
      <4>3. Due' \subseteq Due
        BY <2>3, <4>1 DEF Due
      <4> QED
        BY <4>2, <4>3 DEF Coming
    <3> QED
      BY <1>5, <3>1, <3>2, <3>3, <3>4 DEF BootStep
  <2> QED
    BY <1>1, <1>3, <2>2, <2>3, <2>4, DamageTyped, OthersKeepBound
<1> QED
  BY <1>4, <1>5

\* Every step, in any order of the tasks.
LEMMA BootInvStep == BootInv /\ [Next]_vars => BootInv'
<1> SUFFICES ASSUME BootInv, [Next]_vars PROVE BootInv'
  OBVIOUS
<1>1. TypeOK /\ TypeOK'
  BY TypeStep DEF BootInv
<1>2. ASSUME NEW fr \in Frames, PublishFrame(fr) PROVE BootInv'
  <2>1. /\ pc = "idle" /\ pc' = "count" /\ refs' = refs /\ refs = 0 /\ i' = 1
        /\ UNCHANGED <<ref_count, queue, held, service>>
    BY <1>1, <1>2 DEF PublishFrame, TypeOK, ReaderTypeOK
  <2>2. Fresh' = Fresh /\ Damage' = Damage
    BY <1>1, <2>1, SameFresh, SameDamage
  <2>3. Coming' = Fresh /\ Credit' = 0
    BY <2>1, <2>2 DEF Coming, Due, Credit, Dest
  <2>4. Covered' \/ Damage <= 0
    <3>1. Damage \in Int /\ Cardinality(Fresh) \in Nat /\ N \in Nat
      BY <1>1, DamageTyped, ComingTyped
    <3>2. Damage <= 0 \/ (Damage + Cardinality(Fresh)) - 0 < N
      BY <2>1, <3>1 DEF BootInv, Bounded
    <3> QED
      BY <2>2, <2>3, <3>2 DEF Covered
  <2> QED
    BY <1>1, <2>1, <2>4, LookingKeepsBound
<1>3. CASE ReaderStep
  BY <1>1, <1>3, ReaderKeepsBound
<1>4. ASSUME NEW d \in Dest, Receive(d) \/ Release(d) PROVE BootInv'
  BY <1>1, <1>4, ReceiveKeepsBound, ReleaseKeepsBound
<1>5. CASE BootStep
  BY <1>1, <1>5, BootStepKeepsBound
<1>6. CASE UNCHANGED vars
  <2>1. UNCHANGED <<ref_count, queue, held, reader, service>>
    BY <1>6 DEF vars
  <2>2. Damage' = Damage /\ Fresh' = Fresh /\ Coming' = Coming
    BY <1>1, <2>1, SameDamage DEF reader, service, Fresh, Coming, Due
  <2>3. pc \in {"copy", "set_refs"} => ref_count'[f] <= ref_count[f]
    BY <1>1, <2>1 DEF TypeOK, ReaderTypeOK
  <2> QED
    BY <1>1, <2>1, <2>2, <2>3, DamageTyped, OthersKeepBound DEF reader
<1> QED
  BY <1>2, <1>3, <1>4, <1>5, <1>6 DEF Next

\* Whatever goes wrong with the counts while the services are started under a
\* running reader, between two frames fewer pointers than there are services
\* are not counted, for every number of services and every queue depth
\* (main.c:86-89, gnss_uart.c publish_rtcm_frame).
THEOREM BootDamageIsBounded == BootSpec => []BootDamageBounded
<1>1. BootInv => BootDamageBounded
  <2> SUFFICES ASSUME BootInv, pc = "idle"
               PROVE  Circulating < SumFunction(ref_count) + N
    BY DEF BootDamageBounded, Circulating
  <2>1. Damage <= 0 \/ Damage + Cardinality(Fresh) < N
    BY DEF BootInv, Bounded
  <2>2. /\ Circulating \in Int /\ SumFunction(ref_count) \in Int /\ N \in Nat /\ N >= 1
        /\ Cardinality(Fresh) \in Nat
    BY DamageTyped, ComingTyped, SizesAssumption DEF BootInv
  <2> QED
    BY <2>1, <2>2 DEF Damage
<1> QED
  BY <1>1, BootInvInit, BootInvStep, PTL DEF BootSpec

-----------------------------------------------------------------------------
(* The work of the reader.  A publication is a bounded number of steps:    *)
(* none of its loops waits for a queue, a slot or another task.  With a    *)
(* fair reader this is why ReaderNeverBlocked.                             *)

\* How many steps the reader has to take at most.
StepsLeft ==
    CASE pc = "idle"     -> 0
      [] pc = "count"    -> 2 * N + 3 + PoolSize + (N + 1 - i)
      [] pc = "scan"     -> 2 * N + 3 + (PoolSize - i)
      [] pc = "copy"     -> 2 * N + 2
      [] pc = "set_refs" -> 2 * N + 1
      [] pc = "send"     -> 2 * (N - i) + 2
      [] pc = "drop"     -> 2 * (N - i) + 1

\* A step of the reader takes one off, one of another task leaves it alone.
ReaderAdvances ==
    [][/\ StepsLeft \in 0..(3 * N + PoolSize + 3)
       /\ pc # "idle" => \/ StepsLeft' < StepsLeft
                         \/ UNCHANGED reader /\ StepsLeft' = StepsLeft]_vars

LEMMA StepsNumber == TypeOK => StepsLeft \in 0..(3 * N + PoolSize + 3)
<1> SUFFICES ASSUME TypeOK PROVE StepsLeft \in 0..(3 * N + PoolSize + 3)
  OBVIOUS
<1>1. N \in Nat \ {0} /\ PoolSize \in Nat \ {0} /\ i \in Nat \ {0}
  BY SizesAssumption DEF TypeOK, ReaderTypeOK
<1>2. CASE pc = "idle"
  BY <1>1, <1>2 DEF StepsLeft
<1>3. CASE pc = "count"
  <2>1. i <= N + 1
    BY <1>3 DEF TypeOK, ReaderTypeOK
  <2>2. StepsLeft = 2 * N + 3 + PoolSize + (N + 1 - i)
    BY <1>3 DEF StepsLeft
  <2> QED
    BY <1>1, <2>1, <2>2
<1>4. CASE pc = "scan"
  <2>1. i <= PoolSize
    BY <1>4 DEF TypeOK, ReaderTypeOK
  <2>2. StepsLeft = 2 * N + 3 + (PoolSize - i)
    BY <1>4 DEF StepsLeft
  <2> QED
    BY <1>1, <2>1, <2>2
<1>5. CASE pc \in {"copy", "set_refs"}
  BY <1>1, <1>5 DEF StepsLeft
<1>6. CASE pc \in {"send", "drop"}
  <2>1. i <= N
    BY <1>6 DEF TypeOK, ReaderTypeOK
  <2>2. StepsLeft = 2 * (N - i) + 2 \/ StepsLeft = 2 * (N - i) + 1
    BY <1>6 DEF StepsLeft
  <2> QED
    BY <1>1, <2>1, <2>2
<1> QED
  BY <1>2, <1>3, <1>4, <1>5, <1>6 DEF TypeOK, ReaderTypeOK

\* The publish loop goes on, with a full queue or without.
LEMMA NextDestAdvances ==
  ASSUME TypeOK, pc \in {"send", "drop"}, NextDest
  PROVE  StepsLeft' < StepsLeft
<1>1. N \in Nat \ {0} /\ i \in Nat \ {0} /\ i <= N
  BY SizesAssumption DEF TypeOK, ReaderTypeOK
<1>2. StepsLeft = 2 * (N - i) + 2 \/ StepsLeft = 2 * (N - i) + 1
  BY DEF StepsLeft
<1>3. CASE i = N
  <2>1. StepsLeft' = 0
    BY <1>3 DEF NextDest, ReaderDone, StepsLeft
  <2> QED
    BY <1>1, <1>2, <2>1
<1>4. CASE i # N
  <2>1. pc' = "send" /\ i' = i + 1
    BY <1>4 DEF NextDest
  <2>2. StepsLeft' = 2 * (N - (i + 1)) + 2
    BY <2>1 DEF StepsLeft
  <2> QED
    BY <1>1, <1>2, <2>2
<1> QED
  BY <1>3, <1>4

LEMMA StepAdvances ==
  ASSUME TypeOK, ReaderStep
  PROVE  StepsLeft' < StepsLeft
<1>1. N \in Nat \ {0} /\ PoolSize \in Nat \ {0} /\ i \in Nat \ {0}
  BY SizesAssumption DEF TypeOK, ReaderTypeOK
<1>2. CASE CountActive
  <2>1. StepsLeft = 2 * N + 3 + PoolSize + (N + 1 - i)
    BY <1>2 DEF CountActive, StepsLeft
  <2>2. StepsLeft' = 2 * N + 3 + PoolSize + (N + 1 - (i + 1))
    BY <1>2 DEF CountActive, StepsLeft
  <2> QED
    BY <1>1, <2>1, <2>2
<1>3. CASE NoConsumers
  <2>1. StepsLeft = 2 * N + 3 + PoolSize + (N + 1 - i) /\ i = N + 1 /\ StepsLeft' = 0
    BY <1>3 DEF NoConsumers, ReaderDone, StepsLeft
  <2> QED
    BY <1>1, <2>1
<1>4. CASE StartAlloc
  <2>1. StepsLeft = 2 * N + 3 + PoolSize + (N + 1 - i) /\ i = N + 1
    BY <1>4 DEF StartAlloc, StepsLeft
  <2>2. StepsLeft' = 2 * N + 3 + (PoolSize - 1)
    BY <1>4 DEF StartAlloc, StepsLeft
  <2> QED
    BY <1>1, <2>1, <2>2
<1>5. CASE AllocSlot \/ ScanNext \/ PoolExhausted
  <2>1. StepsLeft = 2 * N + 3 + (PoolSize - i)
    BY <1>5 DEF AllocSlot, ScanNext, PoolExhausted, StepsLeft
  <2>2. i <= PoolSize
    BY <1>5 DEF AllocSlot, ScanNext, PoolExhausted, TypeOK, ReaderTypeOK
  <2>3. \/ StepsLeft' = 2 * N + 2
        \/ StepsLeft' = 2 * N + 3 + (PoolSize - (i + 1))
        \/ StepsLeft' = 0
    BY <1>5 DEF AllocSlot, ScanNext, PoolExhausted, ReaderDone, StepsLeft
  <2> QED
    BY <1>1, <2>1, <2>2, <2>3
<1>6. CASE CopyFrame
  <2>1. StepsLeft = 2 * N + 2 /\ StepsLeft' = 2 * N + 1
    BY <1>6 DEF CopyFrame, StepsLeft
  <2> QED
    BY <1>1, <2>1
<1>7. CASE SetRefs
  <2>1. StepsLeft = 2 * N + 1 /\ StepsLeft' = 2 * (N - 1) + 2
    BY <1>7 DEF SetRefs, StepsLeft
  <2> QED
    BY <1>1, <2>1
<1>8. CASE SkipDest \/ SendFrame \/ SendLost \/ DropFrame
  <2>1. pc \in {"send", "drop"} /\ NextDest
    BY <1>8 DEF SkipDest, SendFrame, SendLost, DropFrame
  <2> QED
    BY <2>1, NextDestAdvances
<1>9. CASE QueueFull
  <2>1. StepsLeft = 2 * (N - i) + 2 /\ StepsLeft' = 2 * (N - i) + 1
    BY <1>9 DEF QueueFull, StepsLeft
  <2> QED
    BY <1>1, <2>1
<1> QED
  BY <1>2, <1>3, <1>4, <1>5, <1>6, <1>7, <1>8, <1>9 DEF ReaderStep

LEMMA NextAdvances ==
  TypeOK /\ [Next]_vars =>
     [/\ StepsLeft \in 0..(3 * N + PoolSize + 3)
      /\ pc # "idle" => \/ StepsLeft' < StepsLeft
                        \/ UNCHANGED reader /\ StepsLeft' = StepsLeft]_vars
<1> SUFFICES ASSUME TypeOK, Next
             PROVE  pc # "idle" => \/ StepsLeft' < StepsLeft
                                   \/ UNCHANGED reader /\ StepsLeft' = StepsLeft
  BY StepsNumber
<1>1. CASE \E fr \in Frames : PublishFrame(fr)
  BY <1>1 DEF PublishFrame
<1>2. CASE ReaderStep
  BY <1>2, StepAdvances
<1>3. CASE UNCHANGED reader
  BY <1>3 DEF reader, StepsLeft
<1>4. (\E d \in Dest : Receive(d) \/ Release(d)) \/ BootStep => UNCHANGED reader
  BY DEF Receive, Release, BootStep, BootSkip, BootOpen, BootStart, BootDeleteCaster,
     BootCloseCaster
<1> QED
  BY <1>1, <1>2, <1>3, <1>4 DEF Next

\* publish_rtcm_frame (gnss_uart.c:240-258) takes at most 3 * N + PoolSize + 3
\* accesses to shared state, whatever the other tasks do in between and whether
\* app_main has started them all or not.
THEOREM PublicationIsBounded == Spec \/ BootSpec => ReaderAdvances
<1>1. Spec => ReaderAdvances
  BY TypeCorrect, NextAdvances, PTL DEF Spec, ReaderAdvances
<1>2. BootSpec => ReaderAdvances
  BY TypeCorrectDuringBoot, NextAdvances, PTL DEF BootSpec, ReaderAdvances
<1> QED
  BY <1>1, <1>2

-----------------------------------------------------------------------------
(* The work of a destination.  A slot in its queue moves to the front with *)
(* every slot it takes, and nothing is put in front of it.  With a fair    *)
(* caster this is why CasterLetsGo.                                        *)

\* Where a slot is in a queue, and how many receives and releases it takes until
\* the destination has given it back.
Place(q, s)     == CHOOSE k \in 1..Len(q) : q[k] = s
Stages(q, h, s) == IF h = s THEN 1 ELSE 2 * Place(q, s) + (IF h = NULL THEN 0 ELSE 1)
Distance(d, s)  == Stages(queue[d], held[d], s)

\* Every receive and release of the destination brings the slot nearer.
SlotsComeNearer ==
    [][\A d \in Dest, s \in Slots : Refers(d, s) /\ Refers(d, s)' =>
         /\ Distance(d, s) \in 1..(2 * Depth + 1)
         /\ held'[d] = held[d] => Distance(d, s)' = Distance(d, s)
         /\ held'[d] # held[d] => Distance(d, s)' < Distance(d, s)]_vars

LEMMA PlaceIs ==
  ASSUME NEW q, NoRepeats(q), NEW k \in 1..Len(q), NEW s, q[k] = s
  PROVE  Place(q, s) = k
<1>1. Place(q, s) \in 1..Len(q) /\ q[Place(q, s)] = s
  BY DEF Place
<1> QED
  BY <1>1 DEF NoRepeats

\* It keeps its place when another slot is sent.
LEMMA PlaceKept ==
  ASSUME NEW q \in Seq(Slots), NEW t \in Slots, NEW s, InQueue(q, s),
         NoRepeats(q), ~InQueue(q, t)
  PROVE  Place(Append(q, t), s) = Place(q, s)
<1> DEFINE r == Append(q, t)
<1>1. Len(r) = Len(q) + 1 /\ Len(q) \in Nat /\ \A k \in 1..Len(q) : r[k] = q[k]
  OBVIOUS
<1>2. NoRepeats(r)
  BY AppendNoRepeats
<1>3. PICK k \in 1..Len(q) : q[k] = s
  BY DEF InQueue
<1> HIDE DEF r
<1>4. k \in 1..Len(r) /\ r[k] = s
  BY <1>1, <1>3
<1>5. Place(q, s) = k
  BY <1>3, PlaceIs
<1>6. Place(r, s) = k
  BY <1>2, <1>4, PlaceIs
<1> QED
  BY <1>5, <1>6 DEF r

\* It moves up when the first slot is taken, unless it is the first.
LEMMA PlaceMoves ==
  ASSUME NEW q \in Seq(Slots), q # <<>>, NoRepeats(q), NEW s, InQueue(q, s)
  PROVE  \/ s = Head(q) /\ Place(q, s) = 1
         \/ Place(Tail(q), s) = Place(q, s) - 1 /\ Place(q, s) \in 2..Len(q)
<1> DEFINE r == Tail(q)
<1>1. /\ Len(q) \in Nat \ {0} /\ Len(r) = Len(q) - 1 /\ Head(q) = q[1]
      /\ \A k \in 1..Len(r) : r[k] = q[k + 1]
  OBVIOUS
<1>2. NoRepeats(r)
  BY TailNoRepeats
<1>3. PICK k \in 1..Len(q) : q[k] = s
  BY DEF InQueue
<1>4. Place(q, s) = k
  BY <1>3, PlaceIs
<1> HIDE DEF r
<1>5. CASE k = 1
  BY <1>1, <1>3, <1>4, <1>5
<1>6. CASE k # 1
  <2>1. k - 1 \in 1..Len(r) /\ (k - 1) + 1 = k
    BY <1>1, <1>6
  <2>2. r[k - 1] = s
    BY <1>1, <1>3, <2>1
  <2>3. Place(r, s) = k - 1
    BY <1>2, <2>1, <2>2, PlaceIs
  <2> QED
    BY <1>1, <1>4, <1>6, <2>3 DEF r
<1> QED
  BY <1>5, <1>6

LEMMA DistanceBounded ==
  ASSUME IInv, NEW d \in Dest, NEW s \in Slots, Refers(d, s)
  PROVE  Distance(d, s) \in 1..(2 * Depth + 1)
<1>1. /\ queue[d] \in Seq(Slots) /\ NoRepeats(queue[d]) /\ Len(queue[d]) <= Depth
  BY DEF IInv, TypeOK, QueuesDistinct, QueuesBounded
<1>2. Depth \in Nat \ {0} /\ Len(queue[d]) \in Nat
  BY <1>1, SizesAssumption
<1>3. CASE held[d] = s
  BY <1>2, <1>3 DEF Distance, Stages
<1>4. CASE held[d] # s
  <2>1. InQueue(queue[d], s)
    BY <1>4 DEF Refers
  <2>2. PICK k \in 1..Len(queue[d]) : queue[d][k] = s
    BY <2>1 DEF InQueue
  <2>3. Place(queue[d], s) = k
    BY <1>1, <2>2, PlaceIs
  <2>4. Distance(d, s) = 2 * k \/ Distance(d, s) = 2 * k + 1
    BY <1>2, <1>4, <2>3 DEF Distance, Stages
  <2> QED
    BY <1>1, <1>2, <2>4
<1> QED
  BY <1>3, <1>4

\* What the steps do to one destination.
LEMMA OneDestination ==
  ASSUME IInv, [Next]_vars, NEW d \in Dest
  PROVE  \/ queue'[d] = queue[d] /\ held'[d] = held[d]
         \/ /\ held'[d] = held[d] /\ queue'[d] = Append(queue[d], f)
            /\ f \in Slots /\ ~Refers(d, f)
         \/ Receive(d)
         \/ Release(d)
<1>1. TypeOK /\ N \in Nat /\ boot = N + 1 /\ deleted = FALSE
  BY SizesAssumption DEF IInv, Started
<1>2. queue \in [Dest -> Seq(Slots)] /\ held \in [Dest -> Slots \cup {NULL}]
  BY <1>1 DEF TypeOK
<1>3. CASE SendFrame
  <2>1. f \in Slots /\ i \in Dest
    BY <1>1, <1>3 DEF SendFrame, TypeOK, ReaderTypeOK, Dest
  <2>2. held' = held /\ queue' = [queue EXCEPT ![i] = Append(@, f)] /\ pc = "send"
    BY <1>3 DEF SendFrame
  <2>3. ~Refers(i, f)
    BY <2>1, <2>2 DEF IInv, NotYetSent, Dest
  <2> QED
    BY <1>2, <2>1, <2>2, <2>3
<1>4. ASSUME NEW e \in Dest, Receive(e) \/ Release(e), e # d
      PROVE  queue'[d] = queue[d] /\ held'[d] = held[d]
  BY <1>2, <1>4 DEF Receive, Release
<1>5. CASE UNCHANGED <<queue, held>>
  BY <1>5
<1>6. BootStep => FALSE
  BY <1>1 DEF BootStep, BootSkip, BootOpen, BootStart, BootDeleteCaster,
              BootCloseCaster, Caster
<1>7. ReaderStep => SendFrame \/ UNCHANGED <<queue, held>>
  BY DEF ReaderStep, CountActive, NoConsumers, StartAlloc, AllocSlot, ScanNext, PoolExhausted,
         CopyFrame, SetRefs, SkipDest, SendFrame, SendLost, QueueFull, DropFrame
<1>8. (\E fr \in Frames : PublishFrame(fr)) \/ UNCHANGED vars => UNCHANGED <<queue, held>>
  BY DEF PublishFrame, vars
<1> QED
  BY <1>3, <1>4, <1>5, <1>6, <1>7, <1>8 DEF Next

LEMMA NearerStep ==
  ASSUME IInv, [Next]_vars, NEW d \in Dest, NEW s \in Slots, Refers(d, s), Refers(d, s)'
  PROVE  /\ held'[d] = held[d] => Distance(d, s)' = Distance(d, s)
         /\ held'[d] # held[d] => Distance(d, s)' < Distance(d, s)
<1>1. /\ queue \in [Dest -> Seq(Slots)] /\ queue[d] \in Seq(Slots) /\ NoRepeats(queue[d])
      /\ held \in [Dest -> Slots \cup {NULL}]
      /\ ~InQueue(queue[d], held[d])
  BY DEF IInv, TypeOK, QueuesDistinct
<1>2. s # NULL
  BY DEF Slots, NULL
<1>3. Distance(d, s) = Stages(queue[d], held[d], s)
  BY DEF Distance
<1>4. Distance(d, s)' = Stages(queue'[d], held'[d], s)
  BY DEF Distance
<1>5. held[d] = s \/ InQueue(queue[d], s)
  BY DEF Refers
<1>6. held'[d] = s \/ InQueue(queue'[d], s)
  BY DEF Refers
<1>7. CASE queue'[d] = queue[d] /\ held'[d] = held[d]
  BY <1>3, <1>4, <1>7
<1>8. CASE /\ held'[d] = held[d] /\ queue'[d] = Append(queue[d], f)
           /\ f \in Slots /\ ~Refers(d, f)
  <2>1. ~InQueue(queue[d], f)
    BY <1>8 DEF Refers
  <2>2. CASE held[d] = s
    BY <1>3, <1>4, <1>8, <2>2 DEF Stages
  <2>3. CASE held[d] # s
    <3>1. Place(Append(queue[d], f), s) = Place(queue[d], s)
      BY <1>1, <1>5, <1>8, <2>1, <2>3, PlaceKept
    <3> QED
      BY <1>3, <1>4, <1>8, <2>3, <3>1 DEF Stages
  <2> QED
    BY <2>2, <2>3
<1>9. CASE Receive(d)
  <2>1. /\ held[d] = NULL /\ queue[d] # <<>>
        /\ held'[d] = Head(queue[d]) /\ queue'[d] = Tail(queue[d])
    BY <1>1, <1>9 DEF Receive
  <2>2. InQueue(queue[d], s) /\ held[d] # s
    BY <1>2, <1>5, <2>1
  <2>3. held'[d] # NULL
    BY <1>1, <2>1, HeadInQueue DEF Slots, NULL
  <2>4. Distance(d, s) = 2 * Place(queue[d], s) + 0
    BY <1>3, <2>1, <2>2 DEF Stages
  <2>5. CASE s = Head(queue[d]) /\ Place(queue[d], s) = 1
    <3>1. Distance(d, s)' = 1
      BY <1>4, <2>1, <2>5 DEF Stages
    <3> QED
      BY <2>1, <2>3, <2>4, <2>5, <3>1
  <2>6. CASE /\ s # Head(queue[d])
             /\ Place(Tail(queue[d]), s) = Place(queue[d], s) - 1
             /\ Place(queue[d], s) \in 2..Len(queue[d])
    <3>1. Distance(d, s)' = 2 * (Place(queue[d], s) - 1) + 1
      BY <1>4, <2>1, <2>3, <2>6 DEF Stages
    <3>2. Place(queue[d], s) \in Int
      BY <1>1, <2>6
    <3> QED
      BY <2>1, <2>3, <2>4, <3>1, <3>2
  <2>7. s = Head(queue[d]) => Place(queue[d], s) = 1
    <3>1. Len(queue[d]) \in Nat \ {0} /\ Head(queue[d]) = queue[d][1]
      BY <1>1, <2>1
    <3> QED
      BY <1>1, <3>1, PlaceIs
  <2> QED
    BY <1>1, <2>1, <2>2, <2>5, <2>6, <2>7, PlaceMoves
<1>10. CASE Release(d)
  <2>1. held[d] # NULL /\ held'[d] = NULL /\ queue'[d] = queue[d]
    BY <1>1, <1>10 DEF Release
  <2>2. InQueue(queue[d], s) /\ held[d] # s
    BY <1>1, <1>2, <1>6, <2>1
  <2>3. PICK k \in 1..Len(queue[d]) : queue[d][k] = s
    BY <2>2 DEF InQueue
  <2>4. Place(queue[d], s) = k /\ k \in Int
    BY <1>1, <2>3, PlaceIs
  <2>5. Distance(d, s) = 2 * k + 1
    BY <1>3, <2>1, <2>2, <2>4 DEF Stages
  <2>6. Distance(d, s)' = 2 * k + 0
    BY <1>2, <1>4, <2>1, <2>4 DEF Stages
  <2> QED
    BY <2>1, <2>4, <2>5, <2>6
<1> QED
  BY <1>7, <1>8, <1>9, <1>10, OneDestination

\* Once a slot is in the queue of a task, at most 2 * Depth + 1 receives and
\* releases of this task (ntrip_client.c:349-386, ntrip_caster.c:679-687) give
\* it back: nothing that is published later is dealt with before it.
THEOREM SlotsAreGivenBack == Spec => SlotsComeNearer
<1>1. IInv /\ [Next]_vars =>
        [\A d \in Dest, s \in Slots : Refers(d, s) /\ Refers(d, s)' =>
           /\ Distance(d, s) \in 1..(2 * Depth + 1)
           /\ held'[d] = held[d] => Distance(d, s)' = Distance(d, s)
           /\ held'[d] # held[d] => Distance(d, s)' < Distance(d, s)]_vars
  BY DistanceBounded, NearerStep
<1> QED
  BY <1>1, IInvHolds, PTL DEF Spec, SlotsComeNearer
=============================================================================
