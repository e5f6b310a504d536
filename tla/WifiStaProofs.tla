--------------------------- MODULE WifiStaProofs ---------------------------
(***************************************************************************)
(* Proofs about WifiSta for any room in the event loop's queue and any     *)
(* width of the attempt counter.                                           *)
(***************************************************************************)
EXTENDS WifiSta, TLAPS

-----------------------------------------------------------------------------
(* The table of delays.                                                    *)

LEMMA Table ==
  /\ Len(delays) = 16
  /\ \A k \in 1..16 : delays[k] \in Nat /\ (k > 1 => delays[k] >= ShortDelay)
  /\ \A k \in 1..15 : delays[k] <= delays[k + 1]
  /\ delays[1] < ShortDelay
<1>1. Len(delays) = 16
  BY DEF delays
<1>2. \A k \in 1..16 : k = 1 \/ k = 2 \/ k = 3 \/ k = 4 \/ k = 5 \/ k = 6 \/ k = 7 \/ k = 8
        \/ k = 9 \/ k = 10 \/ k = 11 \/ k = 12 \/ k = 13 \/ k = 14 \/ k = 15 \/ k = 16
  OBVIOUS
<1>3. /\ delays[1] = 1000 /\ delays[2] = 2000 /\ delays[3] = 5000 /\ delays[4] = 10000
      /\ delays[5] = 15000 /\ delays[6] = 30000 /\ delays[7] = 45000 /\ delays[8] = 60000
      /\ delays[9] = 90000 /\ delays[10] = 120000 /\ delays[11] = 300000
      /\ delays[12] = 600000 /\ delays[13] = 900000 /\ delays[14] = 1800000
      /\ delays[15] = 2700000 /\ delays[16] = 3600000
  BY DEF delays
<1>4. \A k \in 1..16 : delays[k] \in Nat /\ (k > 1 => delays[k] >= ShortDelay)
  BY <1>2, <1>3 DEF ShortDelay
<1>5. \A k \in 1..15 : delays[k] <= delays[k + 1]
  <2>1. \A k \in 1..15 : k \in 1..16 /\ k # 16
    OBVIOUS
  <2> QED
    BY <1>2, <1>3, <2>1
<1> QED
  BY <1>1, <1>3, <1>4, <1>5 DEF ShortDelay

\* retry_init skips the one entry that is shorter than the short delay.
LEMMA Offset == delays_offset = 1
<1> DEFINE P(k) == /\ \A j \in 1..k : delays[j] < ShortDelay
                   /\ k = Len(delays) \/ delays[k + 1] >= ShortDelay
<1>1. ASSUME NEW k \in 0..Len(delays), P(k) PROVE k = 1
  <2>1. k \in 0..16
    BY Table
  <2>2. k # 0
    BY <1>1, <2>1, Table DEF ShortDelay
  <2>3. ~(k > 1)
    <3>1. 2 \in 1..16
      OBVIOUS
    <3>2. delays[2] >= ShortDelay /\ delays[2] \in Nat
      BY <3>1, Table
    <3> QED
      BY <1>1, <2>1, <3>2 DEF ShortDelay
  <2> QED
    BY <2>1, <2>2, <2>3
<1>2. 1 \in 0..Len(delays) /\ P(1)
  <2>1. 2 \in 1..16 /\ delays[2] >= ShortDelay
    BY Table
  <2>2. \A j \in 1..1 : delays[j] < ShortDelay
    BY Table
  <2> QED
    BY <2>1, <2>2, Table
<1>3. delays_offset = CHOOSE k \in 0..Len(delays) : P(k)
  BY DEF delays_offset
<1> HIDE DEF P
<1> QED
  BY <1>1, <1>2, <1>3

LEMMA Parameters ==
  /\ ShortDelay \in Nat /\ ShortDelay > 0
  /\ MaxDelay \in Nat /\ ShortDelay <= MaxDelay
  BY DEF ShortDelay, MaxDelay

\* Where the table is read, and what comes of it.
Entry(n) == AtMost(n - 3, 16)
Long(n)  == AtMost(delays[Entry(n)], MaxDelay)

LEMMA Entries ==
  ASSUME NEW n \in Nat, n >= 5
  PROVE  /\ Entry(n) \in 2..16
         /\ Entry(n + 1) = Entry(n) \/ (Entry(n) \in 1..15 /\ Entry(n + 1) = Entry(n) + 1)
  BY DEF Entry, AtMost

LEMMA Smaller ==
  ASSUME NEW a \in Nat, NEW b \in Nat, ShortDelay <= a, a <= b
  PROVE  /\ AtMost(a, MaxDelay) \in Nat
         /\ ShortDelay <= AtMost(a, MaxDelay) /\ AtMost(a, MaxDelay) <= MaxDelay
         /\ AtMost(a, MaxDelay) <= AtMost(b, MaxDelay)
  BY Parameters DEF AtMost

LEMMA Longs ==
  ASSUME NEW n \in Nat, n >= 5
  PROVE  /\ Long(n) \in Nat /\ ShortDelay <= Long(n) /\ Long(n) <= MaxDelay
         /\ Long(n) <= Long(n + 1)
<1>1. Entry(n) \in 2..16 /\ n + 1 \in Nat /\ n + 1 >= 5
  BY Entries
<1>2. Entry(n + 1) \in 2..16
  BY <1>1, Entries
<1>3. Entry(n) \in 1..16 /\ Entry(n + 1) \in 1..16 /\ Entry(n) > 1
  BY <1>1, <1>2
<1>4. /\ delays[Entry(n)] \in Nat /\ ShortDelay <= delays[Entry(n)]
      /\ delays[Entry(n + 1)] \in Nat
  BY <1>3, Table, Parameters
<1>5. delays[Entry(n)] <= delays[Entry(n + 1)]
  <2>1. CASE Entry(n + 1) = Entry(n)
    BY <1>4, <2>1
  <2>2. CASE Entry(n) \in 1..15 /\ Entry(n + 1) = Entry(n) + 1
    BY <2>2, Table
  <2> QED
    BY <2>1, <2>2, Entries
<1> QED
  BY <1>4, <1>5, Smaller DEF Long

LEMMA DelayIs ==
  ASSUME NEW n \in Nat
  PROVE  Delay(n) = IF n = 0 THEN 0 ELSE IF n < 5 THEN ShortDelay ELSE Long(n)
<1>1. n - 5 + 1 + 1 = n - 3
  OBVIOUS
<1> QED
  BY <1>1, Offset, Table DEF Delay, ShortCount, Long, Entry

\* The delay is within the bound and does not shrink with the attempts.
LEMMA Delays ==
  ASSUME NEW n \in Nat
  PROVE  Delay(n) \in 0..MaxDelay /\ Delay(n) <= Delay(n + 1)
<1>1. n + 1 \in Nat /\ Delay(n) = (IF n = 0 THEN 0 ELSE IF n < 5 THEN ShortDelay ELSE Long(n))
  BY DelayIs
<1>2. Delay(n + 1) = (IF n + 1 < 5 THEN ShortDelay ELSE Long(n + 1))
  BY <1>1, DelayIs
<1>3. CASE n < 4
  BY <1>1, <1>2, <1>3, Parameters
<1>4. CASE n = 4
  <2>1. ShortDelay <= Long(n + 1)
    BY <1>4, Longs
  <2> QED
    BY <1>1, <1>2, <1>4, <2>1, Parameters
<1>5. CASE n > 4
  <2>1. Long(n) \in Nat /\ Long(n) <= MaxDelay /\ Long(n) <= Long(n + 1)
    BY <1>5, Longs
  <2> QED
    BY <1>1, <1>2, <1>5, <2>1, Parameters
<1> QED
  BY <1>3, <1>4, <1>5

-----------------------------------------------------------------------------
(* The queue of the event loop.                                            *)

InQueue(e) == \E k \in 1..Len(events) : events[k] = e
Once(e)    == \A j, k \in 1..Len(events) : events[j] = e /\ events[k] = e => j = k

-----------------------------------------------------------------------------
(* One attempt at a time.  An attempt to connect is in one place: the START *)
(* event, the driver, a DISCONNECTED event that has not resumed the task, or *)
(* the reconnect task.                                                     *)

Starting == InQueue("START") \/ handler = "START"
Linked   == link \in {"connecting", "connected"}
Falling  == InQueue("DISCONNECTED") \/ handler \in {"DISCONNECTED", "resume"}
Armed    == main = "done" /\ Running /\ task \in {"retry", "sleep", "connect"}

\* Before esp_wifi_start nothing happens but in app_main and the new task.
BootOk == /\ main # "done" => /\ link = "off" /\ events = <<>> /\ handler = "idle"
                              /\ dhcp = "off" /\ ~lost_timer /\ ~sta_connected /\ ~got_ip
          /\ main = "done" => link # "off"
          /\ main = "start" => suspended

OneAttempt ==
    /\ ~(Starting /\ (Linked \/ Falling \/ Armed))
    /\ ~(Linked /\ (Falling \/ Armed))
    /\ ~(Falling /\ Armed)
    /\ ~(InQueue("START") /\ handler = "START")
    /\ ~(InQueue("DISCONNECTED") /\ handler \in {"DISCONNECTED", "resume"})
    /\ Once("START") /\ Once("DISCONNECTED")

\* What the events that wait say of the link
Reported == handler = "CONNECTED" \/ (handler # "DISCONNECTED" /\ sta_connected)

LinkOk ==
    /\ Once("CONNECTED")
    /\ \A j, k \in 1..Len(events) :
          events[j] = "DISCONNECTED" /\ events[k] = "CONNECTED" => k < j
    /\ InQueue("CONNECTED") => dhcp = "off" /\ (InQueue("DISCONNECTED") \/ link = "connected")
    /\ ~InQueue("CONNECTED") /\ ~InQueue("DISCONNECTED") =>
          (Reported <=> link = "connected")
    /\ dhcp # "off" => InQueue("DISCONNECTED") \/ link = "connected"

\* What the events that wait say of the address
IpEvents   == {"GOT_IP", "LOST_IP", "DISCONNECTED"}
LastWord(k) == /\ k \in 1..Len(events) /\ events[k] \in IpEvents
               /\ \A j \in 1..Len(events) : events[j] \in IpEvents => j <= k
ReportedIp == handler = "GOT_IP"
              \/ (handler \notin {"LOST_IP", "DISCONNECTED", "resume", "clear"} /\ got_ip)

AddressOk ==
    /\ lost_timer => dhcp # "bound"
    /\ \A k \in 1..Len(events) : LastWord(k) /\ events[k] = "GOT_IP" /\ ~lost_timer => dhcp = "bound"
    /\ \A k \in 1..Len(events) : LastWord(k) /\ events[k] = "LOST_IP" => dhcp # "bound"
    /\ (\A k \in 1..Len(events) : events[k] \notin IpEvents) /\ ~lost_timer =>
          (ReportedIp <=> dhcp = "bound")

\* The delay in force is that of the last attempt.
DelayOk == attempts # 0 => wait = Delay(attempts - 1)

WifiInv == TypeOK /\ BootOk /\ OneAttempt /\ LinkOk /\ AddressOk /\ DelayOk

-----------------------------------------------------------------------------
(* Posting and taking events                                               *)

LEMMA Posted ==
  ASSUME events \in Seq(Event), NEW e \in Event, events' = Append(events, e)
  PROVE  /\ events' \in Seq(Event) /\ Len(events) \in Nat /\ Len(events') = Len(events) + 1
         /\ \A k \in 1..Len(events) : events'[k] = events[k]
         /\ events'[Len(events) + 1] = e
         /\ \A k \in 1..Len(events') : k \in 1..Len(events) \/ k = Len(events) + 1
<1>1. Len(events) \in Nat /\ events' \in Seq(Event)
  OBVIOUS
<1>2. /\ Len(events') = Len(events) + 1 /\ events'[Len(events) + 1] = e
      /\ \A k \in 1..Len(events) : events'[k] = events[k]
  OBVIOUS
<1>3. \A k \in 1..Len(events') : k \in 1..Len(events) \/ k = Len(events) + 1
  BY <1>1, <1>2
<1> QED
  BY <1>1, <1>2, <1>3

LEMMA PostedIn ==
  ASSUME events \in Seq(Event), NEW e \in Event, events' = Append(events, e), NEW x
  PROVE  /\ InQueue(x)' <=> InQueue(x) \/ x = e
         /\ Once(x) /\ (x # e \/ ~InQueue(x)) => Once(x)'
<1>0. /\ Len(events) \in Nat /\ Len(events') = Len(events) + 1
      /\ \A k \in 1..Len(events) : events'[k] = events[k] /\ k \in 1..Len(events')
      /\ events'[Len(events) + 1] = e /\ Len(events) + 1 \in 1..Len(events')
      /\ \A k \in 1..Len(events') : k \in 1..Len(events) \/ k = Len(events) + 1
  BY Posted
<1>1. InQueue(x)' <=> InQueue(x) \/ x = e
  BY <1>0 DEF InQueue
<1>2. ASSUME Once(x), x # e \/ ~InQueue(x) PROVE Once(x)'
  <2> SUFFICES ASSUME NEW j \in 1..Len(events'), NEW k \in 1..Len(events'),
                      events'[j] = x, events'[k] = x
               PROVE  j = k
    BY DEF Once
  <2>1. CASE x # e
    <3>1. j \in 1..Len(events) /\ k \in 1..Len(events)
      BY <1>0, <2>1
    <3> QED
      BY <1>0, <1>2, <3>1 DEF Once
  <2>2. CASE ~InQueue(x)
    BY <1>0, <2>2 DEF InQueue
  <2> QED
    BY <1>2, <2>1, <2>2
<1> QED
  BY <1>1, <1>2

LEMMA Taken ==
  ASSUME events \in Seq(Event), events # <<>>, events' = Tail(events)
  PROVE  /\ events' \in Seq(Event) /\ Len(events) \in Nat \ {0}
         /\ Len(events') = Len(events) - 1
         /\ Head(events) = events[1] /\ Head(events) \in Event
         /\ \A k \in 1..Len(events') : k + 1 \in 1..Len(events) /\ events'[k] = events[k + 1]
         /\ \A k \in 1..Len(events) : k = 1 \/ (k - 1 \in 1..Len(events') /\ events'[k - 1] = events[k])
<1>1. Len(events) \in Nat \ {0}
  OBVIOUS
<1>2. events' \in Seq(Event) /\ Len(events') = Len(events) - 1
  BY <1>1
<1>3. Head(events) = events[1] /\ Head(events) \in Event
  BY <1>1
<1>4. \A k \in 1..Len(events') : k + 1 \in 1..Len(events) /\ events'[k] = events[k + 1]
  BY <1>1, <1>2
<1>5. ASSUME NEW k \in 1..Len(events), k # 1
      PROVE  k - 1 \in 1..Len(events') /\ events'[k - 1] = events[k]
  <2>1. k - 1 \in 1..Len(events') /\ k - 1 + 1 = k
    BY <1>1, <1>2, <1>5
  <2> QED
    BY <1>4, <2>1
<1> QED
  BY <1>1, <1>2, <1>3, <1>4, <1>5

LEMMA TakenIn ==
  ASSUME events \in Seq(Event), events # <<>>, events' = Tail(events), NEW x
  PROVE  /\ InQueue(Head(events))
         /\ InQueue(x)' => InQueue(x)
         /\ InQueue(x) => InQueue(x)' \/ x = Head(events)
         /\ Once(x) => Once(x)'
         /\ Once(x) /\ x = Head(events) => ~InQueue(x)'
<1>0. /\ Len(events) \in Nat \ {0} /\ Head(events) = events[1] /\ 1 \in 1..Len(events)
      /\ \A k \in 1..Len(events') : k + 1 \in 1..Len(events) /\ events'[k] = events[k + 1]
      /\ \A k \in 1..Len(events) : k = 1 \/ (k - 1 \in 1..Len(events') /\ events'[k - 1] = events[k])
  BY Taken
<1>1. InQueue(Head(events))
  BY <1>0 DEF InQueue
<1>2. InQueue(x)' => InQueue(x)
  BY <1>0 DEF InQueue
<1>3. InQueue(x) => InQueue(x)' \/ x = Head(events)
  BY <1>0 DEF InQueue
<1>4. Once(x) => Once(x)'
  <2> SUFFICES ASSUME Once(x), NEW j \in 1..Len(events'), NEW k \in 1..Len(events'),
                      events'[j] = x, events'[k] = x
               PROVE  j = k
    BY DEF Once
  <2>1. j + 1 = k + 1
    BY <1>0 DEF Once
  <2> QED
    BY <2>1
<1>5. ASSUME Once(x), x = Head(events), InQueue(x)' PROVE FALSE
  <2>1. PICK k \in 1..Len(events') : events'[k] = x
    BY <1>5 DEF InQueue
  <2>2. k + 1 = 1
    BY <1>0, <1>5, <2>1 DEF Once
  <2> QED
    BY <2>2
<1> QED
  BY <1>1, <1>2, <1>3, <1>4, <1>5

LEMMA SameQueue ==
  ASSUME events' = events, NEW x
  PROVE  (InQueue(x)' <=> InQueue(x)) /\ (Once(x)' <=> Once(x))
  BY DEF InQueue, Once

-----------------------------------------------------------------------------
(* Types.                                                                  *)

LEMMA InitialInv == Init => WifiInv
<1> SUFFICES ASSUME Init PROVE WifiInv
  OBVIOUS
<1>1. events = <<>> /\ Len(events) = 0 /\ events \in Seq(Event)
  BY DEF Init
<1>2. TypeOK
  <2>1. 0 \in 0..(AttemptsMod - 1) /\ 0 \in 0..MaxDelay /\ 0 <= MaxEvents
    BY BoundsAssumption, Parameters
  <2>2. attempts \in 0..(AttemptsMod - 1) /\ wait \in 0..MaxDelay /\ Len(events) <= MaxEvents
    BY <1>1, <2>1 DEF Init
  <2> QED
    BY <1>1, <2>2 DEF Init, TypeOK
<1>3. BootOk /\ DelayOk
  BY DEF Init, BootOk, DelayOk
<1>4. \A x : ~InQueue(x) /\ Once(x)
  BY <1>1 DEF InQueue, Once
<1>5. OneAttempt
  BY <1>4 DEF Init, OneAttempt, Starting, Linked, Falling, Armed
<1>6. LinkOk
  BY <1>1, <1>4 DEF Init, LinkOk, Reported
<1>7. AddressOk
  BY <1>1 DEF Init, AddressOk, LastWord, ReportedIp
<1> QED
  BY <1>2, <1>3, <1>5, <1>6, <1>7 DEF WifiInv

LEMMA PostKeepsType ==
  ASSUME TypeOK, NEW e \in Event, Post(e)
  PROVE  events' \in Seq(Event) /\ Len(events') <= MaxEvents /\ events' = Append(events, e)
<1>1. events \in Seq(Event) /\ Len(events) < MaxEvents /\ events' = Append(events, e)
  BY DEF TypeOK, Post
<1>2. events' \in Seq(Event) /\ Len(events) \in Nat /\ Len(events') = Len(events) + 1
  BY <1>1, Posted
<1> QED
  BY <1>1, <1>2, BoundsAssumption

LEMMA KeepsType == ASSUME TypeOK, [Next]_vars PROVE TypeOK'
<1>1. CASE UNCHANGED vars
  BY <1>1 DEF vars, reconnect, status, netif, TypeOK
<1>2. CASE RetryDelay
  <2>1. attempts \in Nat /\ AttemptsMod \in Nat \ {0}
    BY BoundsAssumption DEF TypeOK
  <2>2. wait' \in 0..MaxDelay
    BY <1>2, <2>1, Delays DEF RetryDelay
  <2>3. (attempts + 1) % AttemptsMod \in 0..(AttemptsMod - 1)
    BY <2>1
  <2>4. attempts' \in 0..(AttemptsMod - 1) /\ task' \in {"sleep", "connect"}
    BY <1>2, <2>3 DEF RetryDelay
  <2> QED
    BY <1>2, <2>2, <2>4 DEF RetryDelay, TypeOK, status, netif
<1>3. CASE DelayOver \/ Reconnect \/ Park
  BY <1>3 DEF DelayOver, Reconnect, Park, Connect, TypeOK, status, netif
<1>4. CASE CreateTask \/ SuspendAtStart
  BY <1>4 DEF CreateTask, SuspendAtStart, TypeOK, status, netif
<1>5. CASE \E e \in Event : Post(e) /\ UNCHANGED <<reconnect, handler, status>>
            /\ main' \in {main, "done"} /\ link' \in {link, "idle", "connected"}
            /\ dhcp' \in {dhcp, "bound"} /\ lost_timer' \in {lost_timer, FALSE}
  <2>1. events' \in Seq(Event) /\ Len(events') <= MaxEvents
    BY <1>5, PostKeepsType
  <2>2. UNCHANGED <<task, suspended, attempts, wait, handler, sta_connected, got_ip>>
    BY <1>5 DEF reconnect, status
  <2>3. /\ main' \in {"create", "suspend", "start", "done"}
        /\ link' \in {"off", "idle", "connecting", "connected"}
        /\ dhcp' \in {"off", "asking", "bound"} /\ lost_timer' \in BOOLEAN
    BY <1>5 DEF TypeOK
  <2> QED
    BY <2>1, <2>2, <2>3 DEF TypeOK
<1>6. CASE StartWifi \/ ConnectAnswered \/ LinkLost \/ DhcpBinds \/ IpLost
  BY <1>5, <1>6 DEF StartWifi, ConnectAnswered, ConnectSucceeds, ConnectFails, LinkLost,
                    DhcpBinds, IpLost, netif, Event
<1>7. CASE Dispatch
  <2>1. /\ events' \in Seq(Event) /\ Len(events) \in Nat /\ Len(events') = Len(events) - 1
        /\ Head(events) \in Event
    BY <1>7, Taken DEF Dispatch, TypeOK
  <2>2. Len(events') <= MaxEvents
    BY <2>1, BoundsAssumption DEF TypeOK
  <2>3. handler' \in Event /\ dhcp' \in {"asking", "off", dhcp}
    BY <1>7, <2>1 DEF Dispatch
  <2>4. lost_timer' \in BOOLEAN
    BY <1>7 DEF Dispatch
  <2> QED
    BY <1>7, <2>1, <2>2, <2>3, <2>4 DEF Dispatch, TypeOK, reconnect, status
<1>8. CASE \/ HandleStart \/ HandleConnected \/ SuspendReconnect
           \/ HandleDisconnected \/ ResumeReconnect \/ ClearIpBits \/ HandleGotIp \/ HandleLostIp
  <2>1. UNCHANGED <<main, attempts, wait, dhcp, lost_timer, events>>
    BY <1>8 DEF HandleStart, HandleConnected, SuspendReconnect, HandleDisconnected,
       ResumeReconnect, ClearIpBits, HandleGotIp, HandleLostIp, reconnect, netif
  <2>2. handler' \in {"idle", "reset", "resume", "clear"}
    BY <1>8 DEF HandleStart, HandleConnected, SuspendReconnect, HandleDisconnected,
       ResumeReconnect, ClearIpBits, HandleGotIp, HandleLostIp
  <2>3. sta_connected' \in BOOLEAN /\ got_ip' \in BOOLEAN
    BY <1>8 DEF HandleStart, HandleConnected, SuspendReconnect, HandleDisconnected,
       ResumeReconnect, ClearIpBits, HandleGotIp, HandleLostIp, TypeOK, status
  <2>4. link' \in {link, "connecting"}
    BY <1>8 DEF HandleStart, HandleConnected, SuspendReconnect, HandleDisconnected,
       ResumeReconnect, ClearIpBits, HandleGotIp, HandleLostIp, Connect
  <2>5. suspended' \in BOOLEAN /\ task' \in {task, "connect"}
    BY <1>8 DEF HandleStart, HandleConnected, SuspendReconnect, HandleDisconnected,
       ResumeReconnect, ClearIpBits, HandleGotIp, HandleLostIp, TypeOK, reconnect
  <2> QED
    BY <2>1, <2>2, <2>3, <2>4, <2>5 DEF TypeOK
<1>9. CASE RetryReset
  BY <1>9, BoundsAssumption, Parameters DEF RetryReset, TypeOK, status, netif
<1> QED
  BY <1>1, <1>2, <1>3, <1>4, <1>6, <1>7, <1>8, <1>9
     DEF Next, WifiInit, ReconnectTask, EventLoop

-----------------------------------------------------------------------------
(* One attempt at a time.                                                  *)

\* The actions that leave the queue alone
Quiet == \/ CreateTask \/ SuspendAtStart \/ RetryDelay \/ DelayOver \/ Reconnect \/ Park
         \/ HandleStart \/ HandleConnected \/ RetryReset \/ SuspendReconnect
         \/ HandleDisconnected \/ ResumeReconnect \/ ClearIpBits \/ HandleGotIp \/ HandleLostIp

\* The actions that post an event
Posts(e) == \/ e = "START" /\ StartWifi
            \/ e = "CONNECTED" /\ ConnectSucceeds
            \/ e = "DISCONNECTED" /\ (ConnectFails \/ LinkLost)
            \/ e = "GOT_IP" /\ DhcpBinds
            \/ e = "LOST_IP" /\ IpLost

LEMMA Kinds ==
  ASSUME Next
  PROVE  Quiet \/ Dispatch \/ \E e \in Event : Posts(e)
  BY DEF Next, WifiInit, ReconnectTask, EventLoop, ConnectAnswered, Quiet, Posts, Event

LEMMA QuietQueue == ASSUME Quiet PROVE events' = events
  BY DEF Quiet, CreateTask, SuspendAtStart, RetryDelay, DelayOver, Reconnect, Park,
     HandleStart, HandleConnected, RetryReset, SuspendReconnect, HandleDisconnected,
     ResumeReconnect, ClearIpBits, HandleGotIp, HandleLostIp

LEMMA PostsQueue ==
  ASSUME NEW e \in Event, Posts(e)
  PROVE  /\ Post(e) /\ UNCHANGED <<reconnect, handler, status>>
         /\ main' = IF e = "START" THEN "done" ELSE main
  BY DEF Posts, StartWifi, ConnectSucceeds, ConnectFails, LinkLost, DhcpBinds, IpLost, netif

LEMMA KeepsBoot == ASSUME TypeOK, BootOk, Next PROVE BootOk'
<1>1. CASE Quiet
  <2>1. CASE main # "done"
    <3>1. UNCHANGED <<events, handler, link, dhcp, lost_timer, sta_connected, got_ip>>
      BY <1>1, <2>1 DEF BootOk, Quiet, CreateTask, SuspendAtStart, RetryDelay, DelayOver,
         Reconnect, Connect, Park, HandleStart, HandleConnected, RetryReset, SuspendReconnect,
         HandleDisconnected, ResumeReconnect, ClearIpBits, HandleGotIp, HandleLostIp, status,
         netif
    <3>2. main' = "start" => suspended'
      BY <1>1, <2>1 DEF BootOk, Quiet, CreateTask, SuspendAtStart, RetryDelay, DelayOver,
         Reconnect, Park, HandleStart, HandleConnected, RetryReset, SuspendReconnect,
         HandleDisconnected, ResumeReconnect, ClearIpBits, HandleGotIp, HandleLostIp
    <3>3. main' # "done"
      BY <1>1, <2>1 DEF Quiet, CreateTask, SuspendAtStart, RetryDelay, DelayOver,
         Reconnect, Park, HandleStart, HandleConnected, RetryReset, SuspendReconnect,
         HandleDisconnected, ResumeReconnect, ClearIpBits, HandleGotIp, HandleLostIp
    <3> QED
      BY <2>1, <3>1, <3>2, <3>3 DEF BootOk
  <2>2. CASE main = "done"
    BY <1>1, <2>2 DEF BootOk, Quiet, CreateTask, SuspendAtStart, RetryDelay, DelayOver,
       Reconnect, Connect, Park, HandleStart, HandleConnected, RetryReset, SuspendReconnect,
       HandleDisconnected, ResumeReconnect, ClearIpBits, HandleGotIp, HandleLostIp
  <2> QED
    BY <2>1, <2>2
<1>2. CASE Dispatch
  BY <1>2 DEF BootOk, Dispatch
<1>3. CASE \E e \in Event : Posts(e)
  BY <1>3 DEF BootOk, Posts, StartWifi, ConnectSucceeds, ConnectFails, LinkLost, DhcpBinds,
              IpLost
<1> QED
  BY <1>1, <1>2, <1>3, Kinds

\* What a step does to the places where an attempt can be
LEMMA KeepsOneAttempt == ASSUME TypeOK, BootOk, OneAttempt, Next PROVE OneAttempt'
<1>0. events \in Seq(Event)
  BY DEF TypeOK
<1>1. CASE Quiet
  <2>1. /\ InQueue("START")' <=> InQueue("START")
        /\ InQueue("DISCONNECTED")' <=> InQueue("DISCONNECTED")
        /\ Once("START")' /\ Once("DISCONNECTED")'
    BY <1>1, QuietQueue, SameQueue DEF OneAttempt
  <2>2. CASE CreateTask \/ SuspendAtStart
    <3>1. ~Armed' /\ UNCHANGED <<link, handler>>
      BY <2>2 DEF CreateTask, SuspendAtStart, Armed
    <3> QED
      BY <2>1, <3>1 DEF OneAttempt, Starting, Linked, Falling
  <2>3. CASE RetryDelay \/ DelayOver
    <3>1. (Armed' => Armed) /\ UNCHANGED <<link, handler>>
      BY <2>3 DEF RetryDelay, DelayOver, Armed, Running
    <3> QED
      BY <2>1, <3>1 DEF OneAttempt, Starting, Linked, Falling
  <2>4. CASE Reconnect
    <3>1. ~Armed' /\ handler' = handler /\ (Linked' => Linked \/ link = "idle")
      BY <2>4 DEF Reconnect, Connect, Armed, Linked
    <3>2. link = "idle" => Armed
      BY <2>4 DEF Reconnect, BootOk, Armed
    <3> QED
      BY <2>1, <3>1, <3>2 DEF OneAttempt, Starting, Falling
  <2>5. CASE Park
    <3>1. ~Armed' /\ UNCHANGED <<link, handler>>
      BY <2>5 DEF Park, Armed, Running
    <3> QED
      BY <2>1, <3>1 DEF OneAttempt, Starting, Linked, Falling
  <2>6. CASE HandleStart
    <3>1. (Armed' => Armed) /\ handler = "START" /\ handler' = "idle"
      BY <2>6 DEF HandleStart, Armed, Running, reconnect
    <3> QED
      BY <2>1, <3>1 DEF OneAttempt, Starting, Falling
  <2>7. CASE RetryReset \/ SuspendReconnect \/ HandleConnected \/ ClearIpBits \/ HandleGotIp
             \/ HandleLostIp
    <3>1. /\ Armed' => Armed
          /\ link' = link /\ handler' \in {"idle", "reset", "suspend"}
      BY <2>7 DEF RetryReset, SuspendReconnect, HandleConnected, ClearIpBits, HandleGotIp,
                  HandleLostIp, Armed, Running, reconnect
    <3> QED
      BY <2>1, <3>1 DEF OneAttempt, Starting, Linked, Falling
  <2>8. CASE HandleDisconnected
    <3>1. (Armed' => Armed) /\ link' = link /\ handler = "DISCONNECTED" /\ handler' = "resume"
      BY <2>8 DEF HandleDisconnected, Armed, Running, reconnect
    <3> QED
      BY <2>1, <3>1 DEF OneAttempt, Starting, Linked, Falling
  <2>9. CASE ResumeReconnect
    <3>1. link' = link /\ handler = "resume" /\ handler' = "clear"
      BY <2>9 DEF ResumeReconnect
    <3> QED
      BY <2>1, <3>1 DEF OneAttempt, Starting, Linked, Falling
  <2> QED
    BY <1>1, <2>2, <2>3, <2>4, <2>5, <2>6, <2>7, <2>8, <2>9 DEF Quiet
<1>2. CASE Dispatch
  <2>1. /\ events # <<>> /\ events' = Tail(events) /\ handler = "idle" /\ handler' = Head(events)
        /\ (Armed' => Armed) /\ link' = link
    BY <1>2 DEF Dispatch, Armed, Running, reconnect
  <2>2. /\ InQueue("START")' => InQueue("START")
        /\ InQueue("DISCONNECTED")' => InQueue("DISCONNECTED")
        /\ Once("START")' /\ Once("DISCONNECTED")'
        /\ InQueue(handler')
        /\ handler' = "START" => ~InQueue("START")'
        /\ handler' = "DISCONNECTED" => ~InQueue("DISCONNECTED")'
    BY <1>0, <2>1, TakenIn DEF OneAttempt
  <2>3. handler' \in Event
    BY <1>0, <2>1, Taken
  <2>4. (Starting' => Starting) /\ (Falling' => Falling)
    BY <2>2, <2>3 DEF Starting, Falling, Event
  <2> QED
    BY <2>1, <2>2, <2>3, <2>4 DEF OneAttempt, Linked, Event
<1>3. ASSUME NEW e \in Event, Posts(e) PROVE OneAttempt'
  <2>1. Post(e) /\ UNCHANGED <<reconnect, handler>> /\ main' = IF e = "START" THEN "done" ELSE main
    BY <1>3, PostsQueue
  <2>2. events' = Append(events, e)
    BY <2>1 DEF Post
  <2>3. /\ InQueue("START")' <=> InQueue("START") \/ e = "START"
        /\ InQueue("DISCONNECTED")' <=> InQueue("DISCONNECTED") \/ e = "DISCONNECTED"
        /\ Once("START") /\ ("START" # e \/ ~InQueue("START")) => Once("START")'
        /\ Once("DISCONNECTED") /\ ("DISCONNECTED" # e \/ ~InQueue("DISCONNECTED"))
             => Once("DISCONNECTED")'
    BY <1>0, <2>2, PostedIn
  <2>4. CASE e = "START"
    <3>1. main = "start" /\ link' = "idle"
      BY <1>3, <2>4 DEF Posts, StartWifi
    <3>2. events = <<>> /\ handler = "idle" /\ suspended
      BY <3>1 DEF BootOk
    <3>3. ~InQueue("START") /\ ~InQueue("DISCONNECTED")
      BY <3>2 DEF InQueue
    <3>4. ~Armed'
      BY <2>1, <3>2 DEF Armed, Running, reconnect
    <3> QED
      BY <2>1, <2>3, <2>4, <3>1, <3>2, <3>3, <3>4 DEF OneAttempt, Starting, Linked, Falling
  <2>5. CASE e = "CONNECTED"
    <3>1. link = "connecting" /\ link' = "connected"
      BY <1>3, <2>5 DEF Posts, ConnectSucceeds
    <3>2. Armed' <=> Armed
      BY <2>1, <2>5 DEF Armed, Running, reconnect
    <3> QED
      BY <2>1, <2>3, <2>5, <3>1, <3>2 DEF OneAttempt, Starting, Linked, Falling
  <2>6. CASE e = "DISCONNECTED"
    <3>1. Linked /\ link' = "idle"
      BY <1>3, <2>6 DEF Posts, ConnectFails, LinkLost, Linked
    <3>2. Armed' <=> Armed
      BY <2>1, <2>6 DEF Armed, Running, reconnect
    <3> QED
      BY <2>1, <2>3, <2>6, <3>1, <3>2 DEF OneAttempt, Starting, Linked, Falling
  <2>7. CASE e \in {"GOT_IP", "LOST_IP"}
    <3>1. link' = link
      BY <1>3, <2>7 DEF Posts, DhcpBinds, IpLost
    <3>2. Armed' <=> Armed
      BY <2>1, <2>7 DEF Armed, Running, reconnect
    <3> QED
      BY <2>1, <2>3, <2>7, <3>1, <3>2 DEF OneAttempt, Starting, Linked, Falling
  <2> QED
    BY <2>4, <2>5, <2>6, <2>7 DEF Event
<1> QED
  BY <1>1, <1>2, <1>3, Kinds

-----------------------------------------------------------------------------
(* The status flag and the link                                            *)

\* Where two events stand in the queue
Behind(d, c) == \A j, k \in 1..Len(events) : events[j] = d /\ events[k] = c => k < j

LEMMA BehindKept ==
  ASSUME events \in Seq(Event), NEW d, NEW c, d # c, Behind(d, c)
  PROVE  /\ events' = events => Behind(d, c)'
         /\ events # <<>> /\ events' = Tail(events) => Behind(d, c)'
         /\ \A e \in Event : events' = Append(events, e) /\ (e # c \/ ~InQueue(d)) => Behind(d, c)'
<1>1. CASE events' = events
  BY <1>1 DEF Behind
<1>2. ASSUME events # <<>>, events' = Tail(events) PROVE Behind(d, c)'
  <2>1. /\ Len(events') \in Nat
        /\ \A k \in 1..Len(events') : k + 1 \in 1..Len(events) /\ events'[k] = events[k + 1]
    BY <1>2, Taken
  <2> SUFFICES ASSUME NEW j \in 1..Len(events'), NEW k \in 1..Len(events'),
                      events'[j] = d, events'[k] = c
               PROVE  k < j
    BY DEF Behind
  <2>2. k + 1 < j + 1
    BY <2>1 DEF Behind
  <2> QED
    BY <2>2
<1>3. ASSUME NEW e \in Event, events' = Append(events, e), e # c \/ ~InQueue(d)
      PROVE  Behind(d, c)'
  <2>1. /\ Len(events) \in Nat
        /\ \A k \in 1..Len(events) : events'[k] = events[k]
        /\ events'[Len(events) + 1] = e
        /\ \A k \in 1..Len(events') : k \in 1..Len(events) \/ k = Len(events) + 1
    BY <1>3, Posted
  <2> SUFFICES ASSUME NEW j \in 1..Len(events'), NEW k \in 1..Len(events'),
                      events'[j] = d, events'[k] = c
               PROVE  k < j
    BY DEF Behind
  <2>2. CASE k \in 1..Len(events) /\ j \in 1..Len(events)
    BY <2>1, <2>2 DEF Behind
  <2>3. CASE k \in 1..Len(events) /\ j = Len(events) + 1
    BY <2>1, <2>3
  <2>4. CASE k = Len(events) + 1
    <3>1. e = c /\ j \in 1..Len(events) /\ events[j] = d
      BY <2>1, <2>4
    <3> QED
      BY <1>3, <3>1 DEF InQueue
  <2> QED
    BY <2>1, <2>2, <2>3, <2>4
<1> QED
  BY <1>1, <1>2, <1>3

\* A DISCONNECTED that is taken leaves no CONNECTED behind it.
LEMMA HeadIsFirst ==
  ASSUME events \in Seq(Event), NEW d, NEW c, Behind(d, c), events # <<>>, Head(events) = d
  PROVE  ~InQueue(c)
<1>1. Len(events) \in Nat \ {0} /\ 1 \in 1..Len(events) /\ events[1] = d
  BY Taken
<1>2. ASSUME NEW k \in 1..Len(events), events[k] = c PROVE FALSE
  BY <1>1, <1>2 DEF Behind
<1> QED
  BY <1>2 DEF InQueue

LEMMA KeepsLink ==
  ASSUME TypeOK, BootOk, OneAttempt, LinkOk, Next
  PROVE  LinkOk'
<1>0. events \in Seq(Event) /\ Behind("DISCONNECTED", "CONNECTED") /\ Once("CONNECTED")
  BY DEF TypeOK, LinkOk, Behind
<1>1. CASE Quiet
  <2>1. /\ InQueue("CONNECTED")' <=> InQueue("CONNECTED")
        /\ InQueue("DISCONNECTED")' <=> InQueue("DISCONNECTED")
        /\ Once("CONNECTED")' /\ Behind("DISCONNECTED", "CONNECTED")'
    BY <1>0, <1>1, QuietQueue, SameQueue, BehindKept
  <2>2. dhcp' = dhcp
    BY <1>1 DEF Quiet, CreateTask, SuspendAtStart, RetryDelay, DelayOver, Reconnect, Park,
       HandleStart, HandleConnected, RetryReset, SuspendReconnect, HandleDisconnected,
       ResumeReconnect, ClearIpBits, HandleGotIp, HandleLostIp, netif
  <2>3. link' = "connected" <=> link = "connected"
    BY <1>1 DEF Quiet, CreateTask, SuspendAtStart, RetryDelay, DelayOver, Reconnect, Park,
       HandleStart, HandleConnected, RetryReset, SuspendReconnect, HandleDisconnected,
       ResumeReconnect, ClearIpBits, HandleGotIp, HandleLostIp, Connect
  <2>4. Reported' <=> Reported
    <3>1. CASE CreateTask \/ SuspendAtStart \/ RetryDelay \/ DelayOver \/ Reconnect \/ Park
      BY <3>1 DEF CreateTask, SuspendAtStart, RetryDelay, DelayOver, Reconnect, Park, Reported,
                  status
    <3>2. CASE HandleConnected
      BY <3>2 DEF HandleConnected, Reported
    <3>3. CASE HandleDisconnected
      BY <3>3 DEF HandleDisconnected, Reported
    <3>4. CASE \/ HandleStart \/ RetryReset \/ SuspendReconnect \/ ResumeReconnect
               \/ ClearIpBits \/ HandleGotIp \/ HandleLostIp
      BY <3>4 DEF HandleStart, RetryReset, SuspendReconnect, ResumeReconnect, ClearIpBits,
                  HandleGotIp, HandleLostIp, Reported, status
    <3> QED
      BY <1>1, <3>1, <3>2, <3>3, <3>4 DEF Quiet
  <2> QED
    BY <2>1, <2>2, <2>3, <2>4 DEF LinkOk, Behind
<1>2. CASE Dispatch
  <2>1. /\ events # <<>> /\ events' = Tail(events) /\ handler = "idle" /\ handler' = Head(events)
        /\ UNCHANGED <<link, sta_connected>>
    BY <1>2 DEF Dispatch, status
  <2>2. /\ InQueue("CONNECTED")' => InQueue("CONNECTED")
        /\ InQueue("CONNECTED") => InQueue("CONNECTED")' \/ handler' = "CONNECTED"
        /\ InQueue("DISCONNECTED")' => InQueue("DISCONNECTED")
        /\ InQueue("DISCONNECTED") => InQueue("DISCONNECTED")' \/ handler' = "DISCONNECTED"
        /\ Once("CONNECTED")' /\ InQueue(handler')
        /\ handler' = "CONNECTED" => ~InQueue("CONNECTED")'
        /\ Behind("DISCONNECTED", "CONNECTED")'
    BY <1>0, <2>1, TakenIn, BehindKept
  <2>3. handler' \in Event
    BY <1>0, <2>1, Taken
  <2>4. CASE handler' = "CONNECTED"
    <3>1. dhcp' = "asking" /\ InQueue("CONNECTED") /\ ~InQueue("CONNECTED")'
          /\ (InQueue("DISCONNECTED")' <=> InQueue("DISCONNECTED")) /\ Reported'
      BY <1>2, <2>1, <2>2, <2>4 DEF Dispatch, Reported
    <3> QED
      BY <2>1, <2>2, <3>1 DEF LinkOk, Behind
  <2>5. CASE handler' = "DISCONNECTED"
    <3>1. dhcp' = "off" /\ ~Reported'
      BY <1>2, <2>1, <2>5 DEF Dispatch, Reported
    <3>2. ~InQueue("CONNECTED")
      BY <1>0, <2>1, <2>5, HeadIsFirst
    <3>3. link # "connected"
      BY <2>2, <2>5 DEF OneAttempt, Falling, Linked
    <3> QED
      BY <2>1, <2>2, <3>1, <3>2, <3>3 DEF LinkOk, Behind
  <2>6. CASE handler' \in {"START", "GOT_IP", "LOST_IP"}
    <3>1. dhcp' = dhcp /\ (Reported' <=> Reported)
      BY <1>2, <2>1, <2>6 DEF Dispatch, Reported
    <3>2. /\ InQueue("CONNECTED")' <=> InQueue("CONNECTED")
          /\ InQueue("DISCONNECTED")' <=> InQueue("DISCONNECTED")
      BY <2>2, <2>6
    <3> QED
      BY <2>1, <2>2, <3>1, <3>2 DEF LinkOk, Behind
  <2> QED
    BY <2>3, <2>4, <2>5, <2>6 DEF Event
<1>3. ASSUME NEW e \in Event, Posts(e) PROVE LinkOk'
  <2>1. Post(e) /\ UNCHANGED <<handler, sta_connected>>
    BY <1>3, PostsQueue DEF status
  <2>2. events' = Append(events, e)
    BY <2>1 DEF Post
  <2>3. /\ InQueue("CONNECTED")' <=> InQueue("CONNECTED") \/ e = "CONNECTED"
        /\ InQueue("DISCONNECTED")' <=> InQueue("DISCONNECTED") \/ e = "DISCONNECTED"
        /\ e # "CONNECTED" \/ ~InQueue("CONNECTED") => Once("CONNECTED")'
        /\ e # "CONNECTED" \/ ~InQueue("DISCONNECTED") => Behind("DISCONNECTED", "CONNECTED")'
    BY <1>0, <2>2, PostedIn, BehindKept
  <2>4. Reported' <=> Reported
    BY <2>1 DEF Reported
  <2>5. CASE e = "CONNECTED"
    <3>1. link = "connecting" /\ link' = "connected" /\ dhcp' = dhcp
      BY <1>3, <2>5 DEF Posts, ConnectSucceeds, netif
    <3>2. ~InQueue("DISCONNECTED")
      BY <3>1 DEF OneAttempt, Falling, Linked
    <3>3. ~InQueue("CONNECTED") /\ dhcp = "off"
      BY <3>1, <3>2 DEF LinkOk
    <3> QED
      BY <2>3, <2>5, <3>1, <3>2, <3>3 DEF LinkOk, Behind
  <2>6. CASE e = "DISCONNECTED"
    <3>1. dhcp' = dhcp
      BY <1>3, <2>6 DEF Posts, ConnectFails, LinkLost, netif
    <3> QED
      BY <2>3, <2>6, <3>1 DEF LinkOk, Behind
  <2>7. CASE e = "GOT_IP"
    <3>1. dhcp = "asking" /\ dhcp' = "bound" /\ link' = link
      BY <1>3, <2>7 DEF Posts, DhcpBinds
    <3>2. ~InQueue("CONNECTED")
      BY <3>1 DEF LinkOk
    <3> QED
      BY <2>3, <2>4, <2>7, <3>1, <3>2 DEF LinkOk, Behind
  <2>8. CASE e \in {"START", "LOST_IP"}
    <3>1. dhcp' = dhcp /\ (link' = "connected" <=> link = "connected")
      BY <1>3, <2>8 DEF Posts, StartWifi, IpLost, netif, BootOk
    <3> QED
      BY <2>3, <2>4, <2>8, <3>1 DEF LinkOk, Behind
  <2> QED
    BY <2>5, <2>6, <2>7, <2>8 DEF Event
<1> QED
  BY <1>1, <1>2, <1>3, Kinds

-----------------------------------------------------------------------------
(* The address                                                             *)

NoWord == \A k \in 1..Len(events) : events[k] \notin IpEvents

LEMMA PostedWord ==
  ASSUME events \in Seq(Event), NEW e \in Event, events' = Append(events, e)
  PROVE  /\ \A k \in 1..Len(events') : LastWord(k)' =>
               \/ e \in IpEvents /\ events'[k] = e
               \/ /\ e \notin IpEvents /\ k \in 1..Len(events)
                  /\ LastWord(k) /\ events'[k] = events[k]
         /\ e \notin IpEvents => (NoWord' <=> NoWord)
         /\ e \in IpEvents => ~NoWord'
<1>0. /\ Len(events) \in Nat /\ Len(events') = Len(events) + 1
      /\ \A k \in 1..Len(events) : events'[k] = events[k] /\ k \in 1..Len(events')
      /\ events'[Len(events) + 1] = e /\ Len(events) + 1 \in 1..Len(events')
      /\ \A k \in 1..Len(events') : k \in 1..Len(events) \/ k = Len(events) + 1
  BY Posted
<1>1. ASSUME NEW k \in 1..Len(events'), LastWord(k)'
      PROVE  \/ e \in IpEvents /\ events'[k] = e
             \/ /\ e \notin IpEvents /\ k \in 1..Len(events)
                /\ LastWord(k) /\ events'[k] = events[k]
  <2>1. /\ events'[k] \in IpEvents
        /\ \A j \in 1..Len(events') : events'[j] \in IpEvents => j <= k
    BY <1>1 DEF LastWord
  <2>2. CASE k = Len(events) + 1
    BY <1>0, <2>1, <2>2
  <2>3. CASE k \in 1..Len(events)
    <3>1. LastWord(k)
      BY <1>0, <2>1, <2>3 DEF LastWord
    <3>2. e \notin IpEvents
      BY <1>0, <2>1, <2>3
    <3> QED
      BY <1>0, <2>3, <3>1, <3>2
  <2> QED
    BY <1>0, <2>2, <2>3
<1>2. e \notin IpEvents => (NoWord' <=> NoWord)
  BY <1>0 DEF NoWord
<1>3. e \in IpEvents => ~NoWord'
  BY <1>0 DEF NoWord
<1> QED
  BY <1>1, <1>2, <1>3

LEMMA TakenWord ==
  ASSUME events \in Seq(Event), events # <<>>, events' = Tail(events)
  PROVE  /\ \A k \in 1..Len(events') : LastWord(k)' =>
               /\ k + 1 \in 1..Len(events) /\ LastWord(k + 1) /\ events'[k] = events[k + 1]
         /\ 1 \in 1..Len(events) /\ events[1] = Head(events)
         /\ NoWord' /\ Head(events) \in IpEvents => LastWord(1)
         /\ NoWord' /\ Head(events) \notin IpEvents => NoWord
<1>0. /\ Len(events) \in Nat \ {0} /\ Head(events) = events[1] /\ 1 \in 1..Len(events)
      /\ \A k \in 1..Len(events') : k + 1 \in 1..Len(events) /\ events'[k] = events[k + 1]
      /\ \A k \in 1..Len(events) : k = 1 \/ (k - 1 \in 1..Len(events') /\ events'[k - 1] = events[k])
  BY Taken
<1>1. ASSUME NEW k \in 1..Len(events'), LastWord(k)'
      PROVE  LastWord(k + 1)
  <2>1. /\ events[k + 1] \in IpEvents
        /\ \A j \in 1..Len(events') : events'[j] \in IpEvents => j <= k
    BY <1>0, <1>1 DEF LastWord
  <2>2. ASSUME NEW j \in 1..Len(events), events[j] \in IpEvents PROVE j <= k + 1
    <3>1. CASE j = 1
      BY <3>1
    <3>2. CASE j # 1
      <4>1. j - 1 \in 1..Len(events') /\ events'[j - 1] \in IpEvents
        BY <1>0, <2>2, <3>2
      <4>2. j - 1 <= k
        BY <2>1, <4>1
      <4> QED
        BY <4>2
    <3> QED
      BY <3>1, <3>2
  <2> QED
    BY <1>0, <2>1, <2>2 DEF LastWord
<1>2. ASSUME NoWord' PROVE \A j \in 1..Len(events) : j = 1 \/ events[j] \notin IpEvents
  BY <1>0, <1>2 DEF NoWord
<1>3. NoWord' /\ Head(events) \in IpEvents => LastWord(1)
  BY <1>0, <1>2 DEF LastWord
<1>4. NoWord' /\ Head(events) \notin IpEvents => NoWord
  BY <1>0, <1>2 DEF NoWord
<1> QED
  BY <1>0, <1>1, <1>3, <1>4

\* AddressOk, conjunct by conjunct
GotOk  == \A k \in 1..Len(events) : LastWord(k) /\ events[k] = "GOT_IP" /\ ~lost_timer => dhcp = "bound"
LostOk == \A k \in 1..Len(events) : LastWord(k) /\ events[k] = "LOST_IP" => dhcp # "bound"

LEMMA AddressParts ==
  AddressOk <=> /\ lost_timer => dhcp # "bound"
                /\ GotOk /\ LostOk
                /\ NoWord /\ ~lost_timer => (ReportedIp <=> dhcp = "bound")
  BY DEF AddressOk, GotOk, LostOk, NoWord

LEMMA QuietAddress == ASSUME AddressOk, Quiet PROVE AddressOk'
<1>1. UNCHANGED <<events, dhcp, lost_timer>>
  BY DEF Quiet, CreateTask, SuspendAtStart, RetryDelay, DelayOver, Reconnect, Park,
     HandleStart, HandleConnected, RetryReset, SuspendReconnect, HandleDisconnected,
     ResumeReconnect, ClearIpBits, HandleGotIp, HandleLostIp, netif
<1>2. ReportedIp' <=> ReportedIp
  <2>1. CASE \/ CreateTask \/ SuspendAtStart \/ RetryDelay \/ DelayOver \/ Reconnect \/ Park
             \/ HandleStart \/ HandleConnected \/ RetryReset \/ SuspendReconnect
    BY <2>1 DEF CreateTask, SuspendAtStart, RetryDelay, DelayOver, Reconnect, Park, HandleStart,
                HandleConnected, RetryReset, SuspendReconnect, ReportedIp, status
  <2>2. CASE HandleDisconnected \/ ResumeReconnect
    BY <2>2 DEF HandleDisconnected, ResumeReconnect, ReportedIp
  <2>3. CASE ClearIpBits \/ HandleGotIp \/ HandleLostIp
    BY <2>3 DEF ClearIpBits, HandleGotIp, HandleLostIp, ReportedIp
  <2> QED
    BY <2>1, <2>2, <2>3 DEF Quiet
<1> QED
  BY <1>1, <1>2 DEF AddressOk, LastWord

LEMMA KeepsAddress ==
  ASSUME TypeOK, BootOk, OneAttempt, LinkOk, AddressOk, Next
  PROVE  AddressOk'
<1>0. /\ events \in Seq(Event) /\ GotOk /\ LostOk
      /\ lost_timer => dhcp # "bound"
      /\ NoWord /\ ~lost_timer => (ReportedIp <=> dhcp = "bound")
  BY AddressParts DEF TypeOK
<1>1. CASE Dispatch
  <2>1. /\ events # <<>> /\ events' = Tail(events) /\ handler = "idle" /\ handler' = Head(events)
        /\ got_ip' = got_ip
    BY <1>1 DEF Dispatch, status
  <2>2. handler' \in Event
    BY <1>0, <2>1, Taken
  <2>3. /\ \A k \in 1..Len(events') : LastWord(k)' =>
              /\ k + 1 \in 1..Len(events) /\ LastWord(k + 1) /\ events'[k] = events[k + 1]
        /\ 1 \in 1..Len(events) /\ events[1] = handler'
        /\ NoWord' /\ handler' \in IpEvents => LastWord(1)
        /\ NoWord' /\ handler' \notin IpEvents => NoWord
    BY <1>0, <2>1, TakenWord
  <2>4. /\ dhcp' = IF handler' = "CONNECTED" THEN "asking"
                   ELSE IF handler' = "DISCONNECTED" THEN "off" ELSE dhcp
        /\ lost_timer' <=> lost_timer \/ (handler' = "DISCONNECTED" /\ dhcp = "bound")
    BY <1>1, <2>1 DEF Dispatch
  <2>5. handler' = "CONNECTED" => dhcp = "off"
    BY <2>3 DEF LinkOk, InQueue
  <2>6. (lost_timer' => dhcp' # "bound") /\ (dhcp' = "bound" => dhcp = "bound")
    BY <1>0, <2>4
  <2>7. GotOk'
    <3> SUFFICES ASSUME NEW k \in 1..Len(events'), LastWord(k)', events'[k] = "GOT_IP", ~lost_timer'
                 PROVE  dhcp' = "bound"
      BY DEF GotOk
    <3>1. dhcp = "bound"
      BY <1>0, <2>3, <2>4 DEF GotOk
    <3> QED
      BY <2>4, <2>5, <3>1
  <2>8. LostOk'
    BY <1>0, <2>3, <2>6 DEF LostOk
  <2>9. ASSUME NoWord', ~lost_timer' PROVE ReportedIp' <=> dhcp' = "bound"
    <3>1. CASE handler' = "GOT_IP"
      BY <1>0, <2>3, <2>4, <2>9, <3>1 DEF GotOk, ReportedIp, IpEvents
    <3>2. CASE handler' = "LOST_IP"
      BY <1>0, <2>3, <2>4, <2>9, <3>2 DEF LostOk, ReportedIp, IpEvents
    <3>3. CASE handler' = "DISCONNECTED"
      BY <2>4, <3>3 DEF ReportedIp
    <3>4. CASE handler' \in {"START", "CONNECTED"}
      <4>1. NoWord /\ ~lost_timer
        BY <2>3, <2>4, <2>9, <3>4 DEF IpEvents
      <4>2. ReportedIp' <=> ReportedIp
        BY <2>1, <3>4 DEF ReportedIp
      <4> QED
        BY <1>0, <2>4, <2>5, <3>4, <4>1, <4>2
    <3> QED
      BY <2>2, <3>1, <3>2, <3>3, <3>4 DEF Event
  <2>10. (AddressOk <=> /\ lost_timer => dhcp # "bound"
                        /\ GotOk /\ LostOk
                        /\ NoWord /\ ~lost_timer => (ReportedIp <=> dhcp = "bound"))'
    BY AddressParts, PTL
  <2> QED
    BY <2>6, <2>7, <2>8, <2>9, <2>10
<1>2. ASSUME NEW e \in Event, Posts(e) PROVE AddressOk'
  <2>1. Post(e) /\ UNCHANGED <<handler, got_ip>>
    BY <1>2, PostsQueue DEF status
  <2>2. events' = Append(events, e)
    BY <2>1 DEF Post
  <2>3. /\ \A k \in 1..Len(events') : LastWord(k)' =>
              \/ e \in IpEvents /\ events'[k] = e
              \/ /\ e \notin IpEvents /\ k \in 1..Len(events)
                 /\ LastWord(k) /\ events'[k] = events[k]
        /\ e \notin IpEvents => (NoWord' <=> NoWord)
        /\ e \in IpEvents => ~NoWord'
    BY <1>0, <2>2, PostedWord
  <2>4. ReportedIp' <=> ReportedIp
    BY <2>1 DEF ReportedIp
  <2>5. CASE e = "GOT_IP"
    <3>1. dhcp' = "bound" /\ ~lost_timer'
      BY <1>2, <2>5 DEF Posts, DhcpBinds
    <3>2. \A k \in 1..Len(events') : LastWord(k)' => events'[k] = "GOT_IP"
      BY <2>3, <2>5 DEF IpEvents
    <3> QED
      BY <2>3, <2>5, <3>1, <3>2 DEF AddressOk, NoWord, IpEvents
  <2>6. CASE e = "LOST_IP"
    <3>1. dhcp' = dhcp /\ dhcp # "bound" /\ lost_timer /\ ~lost_timer'
      BY <1>0, <1>2, <2>6 DEF Posts, IpLost
    <3>2. \A k \in 1..Len(events') : LastWord(k)' => events'[k] = "LOST_IP"
      BY <2>3, <2>6 DEF IpEvents
    <3> QED
      BY <2>3, <2>6, <3>1, <3>2 DEF AddressOk, NoWord, IpEvents
  <2>7. CASE e \in {"START", "CONNECTED", "DISCONNECTED"}
    <3>1. UNCHANGED <<dhcp, lost_timer>>
      BY <1>2, <2>7 DEF Posts, StartWifi, ConnectSucceeds, ConnectFails, LinkLost, netif
    <3>2. e \in IpEvents => e = "DISCONNECTED"
      BY <2>7 DEF IpEvents
    <3>3. GotOk' /\ LostOk'
      BY <1>0, <2>3, <3>1, <3>2 DEF GotOk, LostOk
    <3> QED
      BY <1>0, <2>3, <2>4, <3>1, <3>3 DEF AddressOk, GotOk, LostOk, NoWord
  <2> QED
    BY <2>5, <2>6, <2>7 DEF Event
<1> QED
  BY <1>1, <1>2, QuietAddress, Kinds

-----------------------------------------------------------------------------
(* The delay, and the theorems                                             *)

LEMMA KeepsDelay ==
  ASSUME TypeOK, DelayOk, Next
  PROVE  /\ DelayOk'
         /\ attempts # 0 /\ attempts' = attempts + 1 => wait' >= wait
<1>0. /\ attempts \in Nat /\ AttemptsMod \in Nat \ {0} /\ attempts < AttemptsMod
      /\ wait \in 0..MaxDelay
  BY BoundsAssumption DEF TypeOK
<1>1. CASE RetryDelay
  <2>1. wait' = Delay(attempts) /\ attempts' = (attempts + 1) % AttemptsMod
    BY <1>1 DEF RetryDelay
  <2>2. attempts' = attempts + 1 \/ attempts' = 0
    <3>1. CASE attempts + 1 < AttemptsMod
      BY <1>0, <2>1, <3>1
    <3>2. CASE attempts + 1 = AttemptsMod
      BY <1>0, <2>1, <3>2
    <3> QED
      BY <1>0, <3>1, <3>2
  <2>3. DelayOk'
    BY <1>0, <2>1, <2>2 DEF DelayOk
  <2>4. ASSUME attempts # 0 PROVE wait' >= wait
    <3>1. attempts - 1 \in Nat /\ wait = Delay(attempts - 1)
      BY <1>0, <2>4 DEF DelayOk
    <3>2. Delay(attempts - 1) <= Delay(attempts - 1 + 1)
      BY <3>1, Delays
    <3>3. attempts - 1 + 1 = attempts
      BY <1>0
    <3>4. Delay(attempts) \in 0..MaxDelay
      BY <1>0, Delays
    <3> QED
      BY <1>0, <2>1, <3>1, <3>2, <3>3, <3>4, Parameters
  <2> QED
    BY <2>3, <2>4
<1>2. CASE UNCHANGED <<attempts, wait>>
  BY <1>0, <1>2 DEF DelayOk
<1>3. CASE RetryReset
  BY <1>0, <1>3 DEF RetryReset, DelayOk
<1>4. CASE Dispatch \/ \E e \in Event : Posts(e)
  BY <1>2, <1>4, PostsQueue DEF Dispatch, reconnect
<1>5. CASE \/ CreateTask \/ SuspendAtStart \/ DelayOver \/ Reconnect \/ Park
           \/ HandleStart \/ HandleConnected \/ SuspendReconnect
           \/ HandleDisconnected \/ ResumeReconnect \/ ClearIpBits \/ HandleGotIp \/ HandleLostIp
  BY <1>2, <1>5 DEF CreateTask, SuspendAtStart, DelayOver, Reconnect, Park, HandleStart,
     HandleConnected, SuspendReconnect, HandleDisconnected, ResumeReconnect, ClearIpBits,
     HandleGotIp, HandleLostIp, reconnect
<1> QED
  BY <1>1, <1>3, <1>4, <1>5, Kinds DEF Quiet

LEMMA KeepsInv == ASSUME WifiInv, [Next]_vars PROVE WifiInv'
<1>1. TypeOK'
  BY KeepsType DEF WifiInv
<1>2. CASE Next
  BY <1>1, <1>2, KeepsBoot, KeepsOneAttempt, KeepsLink, KeepsAddress, KeepsDelay DEF WifiInv
<1>3. CASE UNCHANGED vars
  <2>1. /\ UNCHANGED <<main, task, suspended, attempts, wait, handler, sta_connected, got_ip>>
        /\ UNCHANGED <<link, dhcp, lost_timer, events>>
    BY <1>3 DEF vars, reconnect, status, netif
  <2>2. BootOk' /\ DelayOk'
    BY <2>1 DEF WifiInv, BootOk, DelayOk
  <2>3. OneAttempt'
    BY <2>1 DEF WifiInv, OneAttempt, Starting, Linked, Falling, Armed, Running, InQueue, Once
  <2>4. LinkOk'
    BY <2>1 DEF WifiInv, LinkOk, Reported, InQueue, Once
  <2>5. AddressOk'
    BY <2>1 DEF WifiInv, AddressOk, LastWord, ReportedIp
  <2> QED
    BY <1>1, <2>2, <2>3, <2>4, <2>5 DEF WifiInv
<1> QED
  BY <1>2, <1>3

LEMMA AlwaysInv == Spec => []WifiInv
  BY InitialInv, KeepsInv, PTL DEF Spec

\* Every variable keeps its type: the delay stays within max_delay for every
\* value of the 16-bit counter, and the table is not read past its end (retry.c).
THEOREM WifiTypeCorrect == Spec => []TypeOK
<1>1. WifiInv => TypeOK
  BY DEF WifiInv
<1> QED
  BY <1>1, AlwaysInv, PTL

\* The reconnect task never calls esp_wifi_connect on a station that connects or
\* is connected, although the handlers suspend and resume it anywhere in its
\* loop (wifi.c): an attempt is in one place only.
THEOREM ReconnectCorrect == Spec => []OnlyReconnectsWhenDown
<1>1. ASSUME WifiInv PROVE OnlyReconnectsWhenDown
  <2>1. TypeOK /\ BootOk /\ OneAttempt
    BY <1>1 DEF WifiInv
  <2>2. CASE main = "done"
    BY <2>1, <2>2 DEF OnlyReconnectsWhenDown, OneAttempt, Armed, Linked, TypeOK
  <2>3. CASE main # "done"
    BY <2>1, <2>3 DEF OnlyReconnectsWhenDown, BootOk
  <2> QED
    BY <2>2, <2>3
<1> QED
  BY <1>1, AlwaysInv, PTL

\* When all events are handled and no timer runs, the flags the firmware reads
\* are what the driver and the netif know, in whatever order link, DHCP and
\* timer events came (wifi.c, the handlers of wifi_init).
THEOREM StatusCorrect == Spec => []StatusAgrees
<1>1. ASSUME WifiInv PROVE StatusAgrees
  <2> SUFFICES ASSUME Settled
               PROVE  (sta_connected <=> link = "connected") /\ (got_ip <=> dhcp = "bound")
    BY DEF StatusAgrees
  <2>1. Len(events) = 0 /\ handler = "idle" /\ ~lost_timer
    BY DEF Settled
  <2>2. ~InQueue("CONNECTED") /\ ~InQueue("DISCONNECTED")
    BY <2>1 DEF InQueue
  <2>3. sta_connected <=> link = "connected"
    BY <1>1, <2>1, <2>2 DEF WifiInv, LinkOk, Reported
  <2>4. got_ip <=> dhcp = "bound"
    BY <1>1, <2>1 DEF WifiInv, AddressOk, ReportedIp
  <2> QED
    BY <2>3, <2>4
<1> QED
  BY <1>1, AlwaysInv, PTL

\* The delay between attempts does not shrink until the station connects or the
\* counter wraps (retry.c: this is what delays_offset is for).
THEOREM BackoffCorrect == Spec => BackoffNeverShrinks
<1>1. ASSUME WifiInv, [Next]_vars
      PROVE  [attempts # 0 /\ attempts' = attempts + 1 => wait' >= wait]_vars
  BY <1>1, KeepsDelay DEF WifiInv
<1> QED
  BY <1>1, AlwaysInv, PTL DEF Spec, BackoffNeverShrinks

-----------------------------------------------------------------------------
(* The end of a stale address.                                             *)

\* The bit of a GOT_IP that was handled after the link was lost
Stale == got_ip /\ link = "idle"

\* What the event loop and the netif's timer still have to do
Owed == handler # "idle" \/ events # <<>> \/ lost_timer

One(b) == IF b THEN 1 ELSE 0

\* How many events can still be posted before the link comes back: a CONNECTED
\* starts DHCP, DHCP posts an address, a DISCONNECTED can arm the timer, and the
\* timer posts the loss
Coming == 2 * One(InQueue("CONNECTED")) + One(dhcp = "asking")
          + One(InQueue("DISCONNECTED")) + One(lost_timer)

\* The steps left of the handler that runs
StepsOf(h) == CASE h \in {"CONNECTED", "DISCONNECTED"} -> 3
                [] h \in {"reset", "resume"} -> 2
                [] h = "idle" -> 0
                [] OTHER -> 1

Sooner ==
    \/ Coming' < Coming
    \/ Coming' <= Coming /\ Len(events') < Len(events)
    \/ Coming' = Coming /\ events' = events /\ StepsOf(handler') < StepsOf(handler)

StaleIsBrief ==
    [][Stale => /\ Owed
                /\ Stale' => \/ (EventLoop \/ DhcpBinds \/ IpLost) /\ Sooner
                             \/ UNCHANGED <<handler, events, netif>>]_vars

LEMMA StaleOwes == ASSUME WifiInv, Stale PROVE Owed
<1> SUFFICES ASSUME ~Owed PROVE FALSE
  OBVIOUS
<1>1. Len(events) = 0 /\ handler = "idle" /\ ~lost_timer
  BY DEF Owed
<1>2. ~InQueue("DISCONNECTED") /\ \A k \in 1..Len(events) : events[k] \notin IpEvents
  BY <1>1 DEF InQueue
<1>3. dhcp = "bound"
  BY <1>1, <1>2 DEF WifiInv, AddressOk, ReportedIp, Stale
<1>4. link = "connected"
  BY <1>2, <1>3 DEF WifiInv, LinkOk
<1> QED
  BY <1>4 DEF Stale

LEMMA Ones == \A b : One(b) \in {0, 1} /\ (b => One(b) = 1) /\ (~b => One(b) = 0)
  BY DEF One

LEMMA ComingOf ==
  /\ Coming = 2 * One(InQueue("CONNECTED")) + One(dhcp = "asking")
              + One(InQueue("DISCONNECTED")) + One(lost_timer)
  /\ Coming' = 2 * One(InQueue("CONNECTED")') + One(dhcp' = "asking")
              + One(InQueue("DISCONNECTED")') + One(lost_timer')
  BY DEF Coming, One

LEMMA HandlerShortens ==
  ASSUME HandleStart \/ HandleConnected \/ RetryReset \/ SuspendReconnect
         \/ HandleDisconnected \/ ResumeReconnect \/ ClearIpBits \/ HandleGotIp \/ HandleLostIp
  PROVE  Sooner
<1>1. events' = events /\ UNCHANGED netif
  BY DEF HandleStart, HandleConnected, RetryReset, SuspendReconnect, HandleDisconnected,
     ResumeReconnect, ClearIpBits, HandleGotIp, HandleLostIp
<1>2. StepsOf(handler') < StepsOf(handler)
  BY DEF StepsOf, HandleStart, HandleConnected, RetryReset, SuspendReconnect,
     HandleDisconnected, ResumeReconnect, ClearIpBits, HandleGotIp, HandleLostIp
<1>3. Coming' = Coming
  BY <1>1, SameQueue DEF Coming, One, netif
<1> QED
  BY <1>1, <1>2, <1>3 DEF Sooner

LEMMA TimerShortens ==
  ASSUME WifiInv, DhcpBinds \/ IpLost
  PROVE  Coming' < Coming
<1>1. events \in Seq(Event)
  BY DEF WifiInv, TypeOK
<1>2. PICK e \in {"GOT_IP", "LOST_IP"} : e \in Event /\ events' = Append(events, e)
  BY DEF DhcpBinds, IpLost, Post, Event
<1>3. (InQueue("CONNECTED")' <=> InQueue("CONNECTED"))
  BY <1>1, <1>2, PostedIn
<1>4. (InQueue("DISCONNECTED")' <=> InQueue("DISCONNECTED"))
  BY <1>1, <1>2, PostedIn
<1>5. /\ One(InQueue("CONNECTED")') = One(InQueue("CONNECTED"))
      /\ One(InQueue("DISCONNECTED")') = One(InQueue("DISCONNECTED"))
      /\ One(InQueue("CONNECTED")) \in {0, 1} /\ One(InQueue("DISCONNECTED")) \in {0, 1}
  BY <1>3, <1>4 DEF One
<1>6. /\ One(dhcp' = "asking") + One(lost_timer') < One(dhcp = "asking") + One(lost_timer)
      /\ One(dhcp' = "asking") \in {0, 1} /\ One(lost_timer') \in {0, 1}
      /\ One(dhcp = "asking") \in {0, 1} /\ One(lost_timer) \in {0, 1}
  <2>1. CASE DhcpBinds
    BY <2>1 DEF DhcpBinds, One
  <2>2. CASE IpLost
    BY <2>2 DEF IpLost, One
  <2> QED
    BY <2>1, <2>2
<1> QED
  BY <1>5, <1>6, ComingOf

LEMMA TakingShortens ==
  ASSUME WifiInv, Dispatch
  PROVE  Sooner
<1> DEFINE c == One(InQueue("CONNECTED"))
           d == One(InQueue("DISCONNECTED"))
           a == One(dhcp = "asking")
           l == One(lost_timer)
           cn == One(InQueue("CONNECTED")')
           dn == One(InQueue("DISCONNECTED")')
           an == One(dhcp' = "asking")
           ln == One(lost_timer')
<1>1. events \in Seq(Event) /\ events # <<>> /\ events' = Tail(events)
  BY DEF WifiInv, TypeOK, Dispatch
<1>2. Len(events) \in Nat \ {0} /\ Len(events') = Len(events) - 1
  BY <1>1, Taken
<1>3. Len(events') < Len(events)
  BY <1>2
<1>4. InQueue(Head(events)) /\ (InQueue("CONNECTED")' => InQueue("CONNECTED"))
      /\ (InQueue("DISCONNECTED")' => InQueue("DISCONNECTED"))
  BY <1>1, TakenIn
<1>5. /\ c \in {0, 1} /\ d \in {0, 1} /\ a \in {0, 1} /\ l \in {0, 1}
      /\ cn \in {0, 1} /\ dn \in {0, 1} /\ an \in {0, 1} /\ ln \in {0, 1}
      /\ cn <= c /\ dn <= d
  BY <1>4 DEF One
<1>6. Coming = 2 * c + a + d + l /\ Coming' = 2 * cn + an + dn + ln
  BY ComingOf
<1>7. CASE Head(events) = "CONNECTED"
  <2>1. Once("CONNECTED") /\ dhcp = "off"
    BY <1>4, <1>7 DEF WifiInv, LinkOk
  <2>2. ~InQueue("CONNECTED")'
    BY <1>1, <1>7, <2>1, TakenIn
  <2>3. c = 1 /\ cn = 0 /\ a = 0
    BY <1>4, <1>7, <2>1, <2>2 DEF One
  <2>4. lost_timer' <=> lost_timer
    BY <1>7 DEF Dispatch
  <2>5. ln = l
    BY <2>4 DEF One
  <2> HIDE DEF c, d, a, l, cn, dn, an, ln
  <2>6. Coming' < Coming
    BY <1>5, <1>6, <2>3, <2>5
  <2> QED
    BY <2>6 DEF Sooner
<1>8. CASE Head(events) = "DISCONNECTED"
  <2>1. Once("DISCONNECTED") /\ (lost_timer => dhcp # "bound")
    BY DEF WifiInv, OneAttempt, AddressOk
  <2>2. ~InQueue("DISCONNECTED")'
    BY <1>1, <1>8, <2>1, TakenIn
  <2>3. d = 1 /\ dn = 0
    BY <1>4, <1>8, <2>2 DEF One
  <2>4. dhcp' = "off" /\ (lost_timer' <=> lost_timer \/ dhcp = "bound")
    BY <1>8 DEF Dispatch
  <2>5. an = 0 /\ ln <= l + 1
    BY <2>1, <2>4 DEF One
  <2> HIDE DEF c, d, a, l, cn, dn, an, ln
  <2>6. Coming' <= Coming
    BY <1>5, <1>6, <2>3, <2>5
  <2> QED
    BY <1>3, <2>6 DEF Sooner
<1>9. CASE Head(events) \notin {"CONNECTED", "DISCONNECTED"}
  <2>1. dhcp' = dhcp /\ (lost_timer' <=> lost_timer)
    BY <1>9 DEF Dispatch
  <2>2. an = a /\ ln = l
    BY <2>1 DEF One
  <2> HIDE DEF c, d, a, l, cn, dn, an, ln
  <2>3. Coming' <= Coming
    BY <1>5, <1>6, <2>2
  <2> QED
    BY <1>3, <2>3 DEF Sooner
<1> QED
  BY <1>7, <1>8, <1>9

\* An address bit without a link is taken back after a bounded number of events
\* (wifi.c, handle_sta_disconnected, handle_sta_lost_ip): while it lasts, an event, a
\* handler or the timer is still due, and the driver, the netif and the reconnect
\* task can only bring the next event or the next link nearer.
THEOREM StaleEnds == Spec => StaleIsBrief
<1>1. ASSUME WifiInv, [Next]_vars, Stale
      PROVE  /\ Owed
             /\ Stale' => \/ (EventLoop \/ DhcpBinds \/ IpLost) /\ Sooner
                          \/ UNCHANGED <<handler, events, netif>>
  <2>1. Owed
    BY <1>1, StaleOwes
  <2>2. main = "done" /\ link = "idle"
    BY <1>1 DEF WifiInv, BootOk, Stale
  <2>3. ASSUME Stale'
        PROVE  (EventLoop /\ Sooner) \/ ((DhcpBinds \/ IpLost) /\ Sooner)
               \/ UNCHANGED <<handler, events, netif>>
    <3>1. CASE UNCHANGED vars
      BY <3>1 DEF vars
    <3>2. CASE WifiInit \/ ReconnectTask
      BY <2>2, <3>2 DEF WifiInit, CreateTask, SuspendAtStart, StartWifi, ReconnectTask,
         RetryDelay, DelayOver, Reconnect, Park
    <3>3. CASE EventLoop
      <4>1. Dispatch \/ HandleStart \/ HandleConnected \/ RetryReset \/ SuspendReconnect
            \/ HandleDisconnected \/ ResumeReconnect \/ ClearIpBits \/ HandleGotIp
            \/ HandleLostIp
        BY <3>3 DEF EventLoop
      <4>2. Sooner
        BY <1>1, <4>1, TakingShortens, HandlerShortens
      <4> QED
        BY <3>3, <4>2
    <3>4. CASE ConnectAnswered \/ LinkLost
      BY <2>2, <3>4 DEF ConnectAnswered, ConnectSucceeds, ConnectFails, LinkLost
    <3>5. CASE DhcpBinds \/ IpLost
      BY <1>1, <3>5, TimerShortens DEF Sooner
    <3> QED
      BY <1>1, <3>1, <3>2, <3>3, <3>4, <3>5 DEF Next
  <2> QED
    BY <2>1, <2>3
<1>2. ASSUME WifiInv, [Next]_vars
      PROVE  [Stale => /\ Owed
                       /\ Stale' => \/ (EventLoop \/ DhcpBinds \/ IpLost) /\ Sooner
                                    \/ UNCHANGED <<handler, events, netif>>]_vars
  BY <1>1, <1>2
<1> QED
  BY <1>2, AlwaysInv, PTL DEF Spec, StaleIsBrief
=============================================================================
