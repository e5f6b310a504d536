------------------------------ MODULE WifiSta ------------------------------
(***************************************************************************)
(* The Wi-Fi station (wifi.c, retry.c): the handlers that the default      *)
(* event loop task runs one after the other, and the reconnect task, which *)
(* the handlers stop and start with vTaskSuspend and vTaskResume.  The two *)
(* tasks run on different cores, so a suspend or a resume can meet the     *)
(* reconnect task anywhere in its loop.                                    *)
(*                                                                         *)
(* The Wi-Fi driver and the DHCP client are external: they answer          *)
(* esp_wifi_connect and post events, in order, to the event loop's queue.  *)
(***************************************************************************)
EXTENDS Integers, Sequences

CONSTANTS MaxEvents,     \* room in the event loop's queue
          AttemptsMod    \* attempts is a uint16_t (2^16)

ASSUME BoundsAssumption == /\ MaxEvents \in Nat \ {0}
                           /\ AttemptsMod \in Nat \ {0}

\* The parameters of the delays, as wifi_init gives them to retry_init.
ShortCount == 5
ShortDelay == 2000
MaxDelay   == 60000

VARIABLES
    main,           \* where app_main is in wifi_init
    task,           \* where the reconnect task is, or will go on when resumed
    suspended,      \* it is suspended
    attempts,       \* delay_handle->attempts
    wait,           \* the last delay retry_delay chose, 0 after a reset
    handler,        \* what the event loop task is doing
    sta_connected,  \* the status wifi_sta_status reports
    got_ip,         \* WIFI_STA_GOT_IPV4_BIT of wifi_event_group
    link,           \* external: the driver's station
    dhcp,           \* external: the netif's address
    lost_timer,     \* external: the netif's "IP lost" timer is armed
    events          \* external: the queue of the event loop

reconnect == <<task, suspended, attempts, wait>>
status    == <<sta_connected, got_ip>>
netif     == <<dhcp, lost_timer>>
vars      == <<main, reconnect, handler, status, link, netif, events>>

Event == {"START", "CONNECTED", "DISCONNECTED", "GOT_IP", "LOST_IP"}

\* The types of all variables; the delays of the reconnect task stay within the
\* max_delay that wifi_init asks for.
TypeOK ==
    /\ main \in {"create", "suspend", "start", "done"}
    /\ task \in {"none", "retry", "sleep", "connect", "park"}
    /\ suspended \in BOOLEAN
    /\ attempts \in 0..(AttemptsMod - 1)
    /\ wait \in 0..MaxDelay
    /\ handler \in Event \cup {"idle", "reset", "suspend", "resume", "clear"}
    /\ sta_connected \in BOOLEAN
    /\ got_ip \in BOOLEAN
    /\ link \in {"off", "idle", "connecting", "connected"}
    /\ dhcp \in {"off", "asking", "bound"}
    /\ lost_timer \in BOOLEAN
    /\ events \in Seq(Event)
    /\ Len(events) <= MaxEvents

Init == /\ main = "create"
        /\ task = "none"
        /\ suspended = FALSE
        /\ attempts = 0
        /\ wait = 0
        /\ handler = "idle"
        /\ sta_connected = FALSE
        /\ got_ip = FALSE
        /\ link = "off"
        /\ dhcp = "off"
        /\ lost_timer = FALSE
        /\ events = <<>>

Post(e) == /\ Len(events) < MaxEvents
           /\ events' = Append(events, e)

\* esp_wifi_connect: an attempt starts only from a started, unconnected station.
Connect == link' = IF link = "idle" THEN "connecting" ELSE link

-----------------------------------------------------------------------------
(* retry_init(true, 5, 2000, 60000) and retry_delay.                       *)

delays == <<1000, 2000, 5000, 10000, 15000, 30000, 45000, 60000, 90000,
            120000, 300000, 600000, 900000, 1800000, 2700000, 3600000>>

\* retry_init counts the entries that are shorter than the short delay.
delays_offset == CHOOSE k \in 0..Len(delays) :
                     /\ \A j \in 1..k : delays[j] < ShortDelay
                     /\ k = Len(delays) \/ delays[k + 1] >= ShortDelay

AtMost(a, b) == IF a <= b THEN a ELSE b

\* Mutation: the table is read from its first entry.
DelayFromFirstEntry(n) ==
    IF n = 0 THEN 0
    ELSE IF n < ShortCount THEN ShortDelay
    ELSE AtMost(delays[AtMost(n - ShortCount + 1, Len(delays))], MaxDelay)

\* Mutation: max_delay is not applied.
DelayUncapped(n) ==
    IF n = 0 THEN 0
    ELSE IF n < ShortCount THEN ShortDelay
    ELSE delays[AtMost(n - ShortCount + delays_offset + 1, Len(delays))]

Delay(n) ==
    IF n = 0 THEN 0
    ELSE IF n < ShortCount THEN ShortDelay
    ELSE AtMost(delays[AtMost(n - ShortCount + delays_offset + 1, Len(delays))],
                MaxDelay)

-----------------------------------------------------------------------------
(* The reconnect task: wifi_sta_reconnect_task.                            *)

Running == task # "none" /\ ~suspended

RetryDelay ==
    /\ Running
    /\ task = "retry"
    /\ wait' = Delay(attempts)
    /\ attempts' = (attempts + 1) % AttemptsMod
    /\ task' = IF wait' > 0 THEN "sleep" ELSE "connect"
    /\ UNCHANGED <<main, suspended, handler, status, link, netif, events>>

DelayOver ==
    /\ Running
    /\ task = "sleep"
    /\ task' = "connect"
    /\ UNCHANGED <<main, suspended, attempts, wait, handler, status, link,
                   netif, events>>

\* Mutation: the loop goes on instead of waiting for the next disconnect.
ReconnectWithoutParking ==
    /\ Running
    /\ task = "connect"
    /\ Connect
    /\ task' = "retry"
    /\ UNCHANGED <<main, suspended, attempts, wait, handler, status, netif, events>>

Reconnect ==
    /\ Running
    /\ task = "connect"
    /\ Connect
    /\ task' = "park"
    /\ UNCHANGED <<main, suspended, attempts, wait, handler, status, netif, events>>

\* vTaskSuspend(NULL), "Wait for next disconnect event".
Park ==
    /\ Running
    /\ task = "park"
    /\ suspended' = TRUE
    /\ task' = "retry"
    /\ UNCHANGED <<main, attempts, wait, handler, status, link, netif, events>>

ReconnectTask == RetryDelay \/ DelayOver \/ Reconnect \/ Park

-----------------------------------------------------------------------------
(* app_main in wifi_init.                                                  *)

CreateTask ==
    /\ main = "create"
    /\ main' = "suspend"
    /\ task' = "retry"
    /\ UNCHANGED <<suspended, attempts, wait, handler, status, link, netif, events>>

SuspendAtStart ==
    /\ main = "suspend"
    /\ main' = "start"
    /\ suspended' = TRUE
    /\ UNCHANGED <<task, attempts, wait, handler, status, link, netif, events>>

\* esp_wifi_start
StartWifi ==
    /\ main = "start"
    /\ main' = "done"
    /\ link' = "idle"
    /\ Post("START")
    /\ UNCHANGED <<reconnect, handler, status, netif>>

WifiInit == CreateTask \/ SuspendAtStart \/ StartWifi

-----------------------------------------------------------------------------
(* The event loop task.                                                    *)

\* The next event goes first to the netif's own handlers, which are older than
\* those of wifi_init: they start and stop DHCP and arm the timer.
Dispatch ==
    /\ handler = "idle"
    /\ events # <<>>
    /\ handler' = Head(events)
    /\ events' = Tail(events)
    /\ dhcp' = CASE Head(events) = "CONNECTED"    -> "asking"
                 [] Head(events) = "DISCONNECTED" -> "off"
                 [] OTHER                         -> dhcp
    /\ lost_timer' = (lost_timer \/ (Head(events) = "DISCONNECTED" /\ dhcp = "bound"))
    /\ UNCHANGED <<main, reconnect, status, link>>

HandleStart ==
    /\ handler = "START"
    /\ Connect
    /\ handler' = "idle"
    /\ UNCHANGED <<main, reconnect, status, netif, events>>

HandleConnected ==
    /\ handler = "CONNECTED"
    /\ sta_connected' = TRUE
    /\ handler' = "reset"
    /\ UNCHANGED <<main, reconnect, got_ip, link, netif, events>>

\* retry_reset
RetryReset ==
    /\ handler = "reset"
    /\ attempts' = 0
    /\ wait' = 0
    /\ handler' = "suspend"
    /\ UNCHANGED <<main, task, suspended, status, link, netif, events>>

\* "No longer attempting to reconnect"
SuspendReconnect ==
    /\ handler = "suspend"
    /\ suspended' = TRUE
    /\ handler' = "idle"
    /\ UNCHANGED <<main, task, attempts, wait, status, link, netif, events>>

\* Mutation: the status flag is left alone.
HandleDisconnectedKeepsStatus ==
    /\ handler = "DISCONNECTED"
    /\ handler' = "resume"
    /\ UNCHANGED <<main, reconnect, status, link, netif, events>>

HandleDisconnected ==
    /\ handler = "DISCONNECTED"
    /\ sta_connected' = FALSE
    /\ handler' = "resume"
    /\ UNCHANGED <<main, reconnect, got_ip, link, netif, events>>

\* "Attempting to reconnect".  vTaskResume does nothing to a task that is not
\* suspended; a task that was suspended in vTaskDelay returns from it at once.
ResumeReconnect ==
    /\ handler = "resume"
    /\ suspended' = FALSE
    /\ task' = IF suspended /\ task = "sleep" THEN "connect" ELSE task
    /\ handler' = "clear"
    /\ UNCHANGED <<main, attempts, wait, status, link, netif, events>>

ClearIpBits ==
    /\ handler = "clear"
    /\ got_ip' = FALSE
    /\ handler' = "idle"
    /\ UNCHANGED <<main, reconnect, sta_connected, link, netif, events>>

HandleGotIp ==
    /\ handler = "GOT_IP"
    /\ got_ip' = TRUE
    /\ handler' = "idle"
    /\ UNCHANGED <<main, reconnect, sta_connected, link, netif, events>>

\* Mutation: the loss of the address is only logged.
HandleLostIpIgnored ==
    /\ handler = "LOST_IP"
    /\ handler' = "idle"
    /\ UNCHANGED <<main, reconnect, status, link, netif, events>>

HandleLostIp ==
    /\ handler = "LOST_IP"
    /\ got_ip' = FALSE
    /\ handler' = "idle"
    /\ UNCHANGED <<main, reconnect, sta_connected, link, netif, events>>

EventLoop == \/ Dispatch
             \/ HandleStart
             \/ HandleConnected \/ RetryReset \/ SuspendReconnect
             \/ HandleDisconnected \/ ResumeReconnect \/ ClearIpBits
             \/ HandleGotIp \/ HandleLostIp

-----------------------------------------------------------------------------
(* External: the driver and the DHCP client.                               *)

ConnectSucceeds ==
    /\ link = "connecting"
    /\ link' = "connected"
    /\ Post("CONNECTED")
    /\ UNCHANGED <<main, reconnect, handler, status, netif>>

ConnectFails ==
    /\ link = "connecting"
    /\ link' = "idle"
    /\ Post("DISCONNECTED")
    /\ UNCHANGED <<main, reconnect, handler, status, netif>>

LinkLost ==
    /\ link = "connected"
    /\ link' = "idle"
    /\ Post("DISCONNECTED")
    /\ UNCHANGED <<main, reconnect, handler, status, netif>>

\* The answer of the DHCP server may still be under way when the link breaks.
DhcpBinds ==
    /\ dhcp = "asking"
    /\ dhcp' = "bound"
    /\ lost_timer' = FALSE
    /\ Post("GOT_IP")
    /\ UNCHANGED <<main, reconnect, handler, status, link>>

\* The timer expires without a new address.
IpLost ==
    /\ lost_timer
    /\ lost_timer' = FALSE
    /\ Post("LOST_IP")
    /\ UNCHANGED <<main, reconnect, handler, status, link, dhcp>>

ConnectAnswered == ConnectSucceeds \/ ConnectFails

-----------------------------------------------------------------------------

Next == \/ WifiInit \/ ReconnectTask \/ EventLoop
        \/ ConnectAnswered \/ LinkLost \/ DhcpBinds \/ IpLost

Spec == Init /\ [][Next]_vars

\* app_main, the event loop (priority 20) and the reconnect task are scheduled;
\* every attempt ends one way or the other; a timer that runs expires.  That
\* an attempt succeeds, that a link breaks or that DHCP answers is never assumed.
FairSpec == /\ Spec
            /\ WF_vars(WifiInit)
            /\ WF_vars(EventLoop)
            /\ WF_vars(ReconnectTask)
            /\ WF_vars(ConnectAnswered)
            /\ WF_vars(IpLost)

-----------------------------------------------------------------------------
(* Properties.                                                             *)

\* The reconnect task calls esp_wifi_connect only on a station that is neither
\* connected nor connecting, whatever the handlers did while it slept.
OnlyReconnectsWhenDown ==
    Running /\ task = "connect" => link \in {"off", "idle"}

\* When all events are handled and no timer runs, what the rest of the firmware
\* sees (sta_connected in the status page, the bit that wait_for_ip waits for)
\* is what the driver and the netif know.
Settled == events = <<>> /\ handler = "idle" /\ ~lost_timer
StatusAgrees == Settled => /\ sta_connected <=> link = "connected"
                           /\ got_ip <=> dhcp = "bound"

\* After a first attempt at once, the delay never gets shorter until the station
\* is connected or the 16-bit counter wraps: this is what delays_offset is for.
BackoffNeverShrinks ==
    [][attempts # 0 /\ attempts' = attempts + 1 => wait' >= wait]_vars

\* A GOT_IP that was queued behind the disconnect sets the bit although there is
\* no link; such a stale bit does not last (wait_for_ip would let the uplinks
\* through for ever).
StaleIpEnds == (got_ip /\ link = "idle") ~> (~got_ip \/ link # "idle")

\* "Attempting to reconnect" (wifi.c, handle_sta_disconnected): after a
\* disconnect there is a new attempt.
ReconnectsAfterLoss == (link = "idle") ~> (link # "idle")
=============================================================================
