----------------------------- MODULE Appliance -----------------------------
(***************************************************************************)
(* What survives a restart, and how the firmware comes up from it: the     *)
(* configuration in NVS (nvs_config.c), the two firmware slots and the web *)
(* image (the upload handlers of web_server.c), the start-up sequence of   *)
(* main.c, and the restarts.  One HTTP task serves one request at a time;  *)
(* the delayed restart, the button, a failed ESP_ERROR_CHECK or a loss of  *)
(* power can come between any two of its steps.                            *)
(*                                                                         *)
(* Of the configuration there are six items, for the ways they are         *)
(* converted and for what the start makes of them.  What was saved is not  *)
(* checked against what the drivers accept: one value each stands for all  *)
(* that the access point, the station and the UART refuse.  An image is a  *)
(* whole; what fails or is interrupted inside it leaves it partial.        *)
(***************************************************************************)
EXTENDS Integers, Sequences

CONSTANTS MaxRequests,   \* bound: requests to the web server
          MaxLosses      \* bound: losses of power and presses of the button

ASSUME BoundsAssumption == MaxRequests \in Nat /\ MaxLosses \in Nat

VARIABLES
    nvs,                 \* nvs[i]: the value of item i, as it is read
    may,                 \* external, may[i]: what a restart can leave of it
    image,               \* image[s]: what is in firmware slot s
    ota_state,           \* external, ota_state[s]: what otadata says of slot s
    active,              \* external: the slot to boot
    www,                 \* the web partition
    phase, running,      \* the next step of app_main, the slot it runs from
    gnss,                \* where task_gnss_reader is before its loop
    req,                 \* the request being handled
    restart_scheduled,
    promised,            \* history: the configuration last answered for
    requests, losses     \* bounds

config  == <<nvs, may>>
flash   == <<image, ota_state, active, www>>
boot    == <<phase, running, gnss>>
http    == <<req, restart_scheduled>>
bounds  == <<requests, losses>>
applianceVars == <<config, flash, boot, http, promised, bounds>>

Slots == {0, 1}
\* KEY_CONFIG_STATION_HOSTNAME, _UART_NUM, _WIFI_AP_ACTIVE, _AP_AUTH_MODE,
\* _AP_PASSWORD and _STA_ACTIVE, in the order of CONFIG_ITEMS: a string, a number,
\* a boolean, a number, a secret, a boolean.
Key   == <<"host", "uart", "ap", "auth", "pass", "sta">>
Items == {"host", "uart", "ap", "auth", "pass", "sta"}
Default == [host |-> "h0", uart |-> "0", ap |-> "1", auth |-> "0", pass |-> "p0",
            sta |-> "0"]

Phases == <<"nvs", "button", "wifi", "web", "buffer", "gnss", "services", "confirm",
            "up">>
Serving == phase \in {"buffer", "gnss", "services", "confirm", "up"}

NoPromise == [i \in Items |-> "none"]
Erased    == [i \in Items |-> "unset"]

\* before is history: the configuration when the request came, as long as the
\* document says of every item what was shown of it.
Idle == [kind |-> "none", step |-> "", k |-> 1, error |-> FALSE, whole |-> TRUE,
         before |-> NoPromise]

Values(i) == {"unset"} \union (IF i = "pass" THEN {"p0", "p1"}
                               ELSE IF i = "host" THEN {"h0", "h1"} ELSE {"0", "1"})

\* The types of all variables.
ApplianceTypeOK ==
    /\ \A i \in Items : nvs[i] \in Values(i)
    /\ \A i \in Items : may[i] \subseteq Values(i) /\ nvs[i] \in may[i]
    /\ image \in [Slots -> {"good", "faulty", "partial"}]
    /\ ota_state \in [Slots -> {"new", "pending", "valid", "aborted"}]
    /\ active \in Slots
    /\ www \in {"ok", "damaged"}
    /\ phase \in {"off"} \union {Phases[n] : n \in 1..9}
    /\ running \in Slots
    /\ gnss \in {"none", "created", "refused", "ready"}
    /\ req.kind \in {"none", "config", "restart", "ota restart", "reset",
                     "firmware", "www"}
    /\ req.step \in {"", "receive", "items", "answer", "erase", "begin", "write",
                     "set boot"}
    /\ req.k \in 1..7
    /\ {req.error, req.whole, restart_scheduled} \subseteq BOOLEAN
    /\ requests \in 0..MaxRequests
    /\ losses \in 0..MaxLosses

\* Delivered with one image and the default configuration, and switched off.
ApplianceInit ==
    /\ nvs = Default
    /\ may = [i \in Items |-> {Default[i]}]
    /\ image = [s \in Slots |-> IF s = 0 THEN "good" ELSE "partial"]
    /\ ota_state = [s \in Slots |-> "valid"]
    /\ active = 0
    /\ www = "ok"
    /\ phase = "off"
    /\ running = 0
    /\ gnss = "none"
    /\ req = Idle
    /\ restart_scheduled = FALSE
    /\ promised = NoPromise
    /\ requests = 0
    /\ losses = 0

-----------------------------------------------------------------------------
(* Restarts.  What nvs_set wrote and nvs_commit did not confirm may be     *)
(* there afterwards or not: InitNvs finds out.                             *)

Remains == [host : may["host"], uart : may["uart"], ap : may["ap"], auth : may["auth"],
            pass : may["pass"], sta : may["sta"]]

Settled(c) == nvs' = c /\ may' = [i \in Items |-> {c[i]}]

Down == /\ phase' = "off"
        /\ gnss' = "none"
        /\ req' = Idle
        /\ restart_scheduled' = FALSE
        /\ UNCHANGED <<flash, running>>

\* esp_restart, or abort after a failed ESP_ERROR_CHECK
Restart == /\ Down
           /\ UNCHANGED <<config, promised, bounds>>

PowerLoss ==
    /\ phase # "off"
    /\ losses < MaxLosses
    /\ losses' = losses + 1
    /\ Down
    /\ UNCHANGED <<config, promised, requests>>

\* Power is lost while nvs_flash_erase works: any part of it may be left.
EraseInterrupted ==
    /\ phase \notin {"off", "nvs", "button"}
    /\ losses < MaxLosses
    /\ losses' = losses + 1
    /\ Down
    /\ may' = [i \in Items |-> may[i] \union {"unset"}]
    /\ promised' = NoPromise
    /\ UNCHANGED <<nvs, requests>>

\* The button was held (cfg_reset_restart).
ButtonReset ==
    /\ phase \notin {"off", "nvs", "button"}
    /\ losses < MaxLosses
    /\ losses' = losses + 1
    /\ Down
    /\ Settled(Erased)
    /\ promised' = Default
    /\ UNCHANGED requests

\* delayed_restart_task
DelayedRestart == restart_scheduled /\ Restart

-----------------------------------------------------------------------------
(* External: the boot loader with rollback.                                *)

Other(s) == 1 - s

\* An image that was started and did not confirm itself is given up.
Picked == IF ota_state[active] # "pending" /\ image[active] # "partial"
          THEN active ELSE Other(active)

Boot ==
    /\ phase = "off"
    /\ image[Picked] # "partial"
    /\ ota_state[Picked] # "aborted"
    /\ ota_state' = [s \in Slots |->
          IF s = Picked /\ ota_state[s] = "new" THEN "pending"
          ELSE IF s # Picked /\ ota_state[s] = "pending" THEN "aborted"
          ELSE ota_state[s]]
    /\ active' = Picked
    /\ running' = Picked
    /\ phase' = "nvs"
    /\ UNCHANGED <<config, image, www, gnss, http, promised, bounds>>

-----------------------------------------------------------------------------
(* app_main                                                                *)

\* nvs_cfg_init gives the items that are missing their defaults.
InitNvs ==
    /\ phase = "nvs"
    /\ \E c \in Remains :
           Settled([i \in Items |-> IF c[i] = "unset" THEN Default[i] ELSE c[i]])
    /\ phase' = "button"
    /\ UNCHANGED <<flash, running, gnss, http, promised, bounds>>

\* wifi_read_startup_config: with neither network the access point is forced.
ApEnabled == nvs["ap"] # "0" \/ nvs["sta"] # "1"

\* The password of the access point is never read, and with an authentication
\* esp_wifi_set_config refuses it empty.
ApRefused == ApEnabled /\ nvs["auth"] = "1"

\* A station has a name that is too long, or else what net_init and wifi_init
\* cannot set.
StaRefused == nvs["sta"] = "1" /\ nvs["host"] = "h1"

\* A port or a pin that the chip does not have: any number up to 255 is stored.
UartRefused == nvs["uart"] = "1"

\* The services read the configuration when they start, which aborts after
\* nvs_flash_erase, and a faulty image does not come further.
Aborts == \/ phase = "wifi" /\ (ApRefused \/ StaRefused)
          \/ phase = "web" /\ www = "damaged"
          \/ phase = "services" /\ (nvs = Erased \/ image[running] = "faulty")

InitAborts == Aborts /\ Restart

\* The next call of app_main: reset_button_init, net_init and wifi_init,
\* web_server_init, the malloc of its buffer, gnss_uart_init, the other services.
InitNext ==
    /\ phase \in {"button", "wifi", "web", "buffer", "gnss", "services"}
    /\ ~Aborts
    /\ \E n \in 2..7 : phase = Phases[n] /\ phase' = Phases[n + 1]
    /\ gnss' = IF phase = "gnss" THEN "created" ELSE gnss
    /\ UNCHANGED <<config, flash, running, http, promised, bounds>>

\* ota_mark_running_app_valid
Confirm ==
    /\ phase = "confirm"
    /\ ota_state' = [ota_state EXCEPT ![running] = IF @ = "pending" THEN "valid" ELSE @]
    /\ phase' = "up"
    /\ UNCHANGED <<config, image, active, www, running, gnss, http, promised, bounds>>

StartUp == Boot \/ InitNvs \/ InitNext \/ InitAborts \/ Confirm

\* task_gnss_reader, on the other core, reads its settings once.  When they
\* cannot be read it goes on with what was in the variables.
GnssRead ==
    /\ gnss = "created"
    /\ \/ gnss' = "ready" /\ ~UartRefused
       \/ gnss' = "refused" /\ (UartRefused \/ nvs = Erased)
    /\ UNCHANGED <<config, flash, phase, running, http, promised, bounds>>

\* uart_param_config, uart_set_pin or uart_driver_install has failed.
GnssAborts == gnss = "refused" /\ Restart

GnssTask == GnssRead \/ GnssAborts

-----------------------------------------------------------------------------
(* Requests                                                                *)

FirstStep ==
    [kind \in {"config", "restart", "ota restart", "reset", "firmware", "www"} |->
        CASE kind = "config"                -> "receive"
          [] kind = "reset"                 -> "erase"
          [] kind \in {"firmware", "www"}   -> "begin"
          [] kind \in {"restart", "ota restart"} -> "answer"]

Request ==
    /\ Serving
    /\ req = Idle
    /\ requests < MaxRequests
    /\ requests' = requests + 1
    /\ \E kind \in DOMAIN FirstStep :
           req' = [Idle EXCEPT !.kind = kind, !.step = FirstStep[kind]]
    /\ UNCHANGED <<config, flash, boot, restart_scheduled, promised, losses>>

At(kind, step) == req.kind = kind /\ req.step = step
GoTo(step)     == req' = [req EXCEPT !.step = step]

\* Receiving fails, or the handler answers with an error of its own.
Fails ==
    /\ req.step \in {"receive", "erase", "begin", "write", "set boot"}
    /\ req' = Idle
    /\ UNCHANGED <<config, flash, boot, restart_scheduled, promised, bounds>>

\* The buffer is allocated after the server has started: until then a handler
\* that receives into it aborts.  So does one that opens NVS after its erasure.
RequestAborts ==
    /\ \/ phase = "buffer" /\ req.step = "receive"
       \/ nvs = Erased /\ At("config", "items")
    /\ Restart

\* schedule_restart: its task may not be created.
Schedules == restart_scheduled' \in {restart_scheduled, TRUE}

\* json_response succeeds: what was asked for is promised, and the restart that
\* makes it effective follows.
AnswerSent ==
    /\ req.step = "answer"
    /\ phase # "buffer"
    /\ req' = Idle
    /\ IF req.kind \in {"config", "restart", "ota restart", "reset"}
       THEN Schedules ELSE UNCHANGED restart_scheduled
    /\ promised' = IF req.kind = "config" THEN nvs
                   ELSE IF req.kind = "reset" THEN Default ELSE promised
    /\ UNCHANGED <<config, flash, boot, bounds>>

\* The client is gone, or without the buffer the answer is an error: of the
\* handlers only that of /ota/restart goes on.
AnswerLost ==
    /\ req.step = "answer"
    /\ req' = Idle
    /\ IF req.kind = "ota restart" THEN Schedules ELSE UNCHANGED restart_scheduled
    /\ UNCHANGED <<config, flash, boot, promised, bounds>>

-----------------------------------------------------------------------------
(* POST /config: JSON values and their conversion                          *)

Flag(v)   == [t |-> "bool", v |-> v]
Number(v) == [t |-> "number", v |-> v]
Digits(v) == [t |-> "digits", v |-> v]   \* a string that is a number
Text(v)   == [t |-> "text", v |-> v]     \* any other string
Absent    == [t |-> "absent", v |-> ""]
Unchanged == "CFG_VALUE_UNCHANGED"

Numbers == {"uart", "auth"}

\* What a document may say of an item; "2" is out of range.
Sayable(i) == {Absent, Flag("0")}
    \union CASE i = "pass" -> {Text("p1"), Text(Unchanged)}
             [] i = "host" -> {Text("h0"), Text("h1")}
             [] OTHER      -> {Flag("1"), Text("p1")}
                                \union {Number(v) : v \in {"0", "1", "2"}}
                                \union {Digits(v) : v \in {"0", "1", "2"}}

\* cfg_to_json never shows a secret.
ToJson(i) == CASE i = "pass"     -> Text(Unchanged)
               [] i = "host"     -> Text(nvs[i])
               [] i \in Numbers  -> Number(nvs[i])
               [] OTHER          -> Flag(nvs[i])

\* A form sends the value as it was shown, or as a string.
AsShown(i) == {ToJson(i)} \union (IF i \in {"pass", "host"} THEN {} ELSE {Digits(nvs[i])})

\* json_get_bool_compat, json_get_u32_compat, or any string.
Accepted(i, j) ==
    IF i \in {"pass", "host"} THEN j.t = "text"
    ELSE j.v \in {"0", "1"} /\ j.t \in {"number", "digits"}
                              \union (IF i \in Numbers THEN {} ELSE {"bool"})

\* httpd_req_recv is called once: what does not fit, or comes later, is missed.
\* A document that is cut cannot be parsed, and has no items then.
ReceiveConfig ==
    /\ At("config", "receive")
    /\ phase # "buffer"
    /\ \E whole \in BOOLEAN :
           req' = [req EXCEPT !.step = "items", !.whole = whole, !.before = nvs]
    /\ promised' = NoPromise
    /\ UNCHANGED <<config, flash, boot, restart_scheduled, bounds>>

Item == Key[req.k]

\* The item is not there, or the placeholder of a secret.
SkipItem ==
    /\ At("config", "items") /\ req.k \in DOMAIN Key /\ nvs # Erased
    /\ req' = [req EXCEPT !.k = @ + 1]
    /\ UNCHANGED <<config, flash, boot, restart_scheduled, promised, bounds>>

\* Mutation: the placeholder of a secret is stored like any other string.
StoreItemPlaceholder ==
    /\ At("config", "items") /\ req.k \in DOMAIN Key /\ nvs # Erased
    /\ req.whole
    /\ \E j \in Sayable(Item) \ {Absent} :
          /\ Accepted(Item, j)
          /\ nvs' = [nvs EXCEPT ![Item] = j.v]
          /\ may' = [may EXCEPT ![Item] = @ \union {j.v}]
          /\ req' = [req EXCEPT !.k = @ + 1,
                             !.before = IF j \in AsShown(Item) THEN @ ELSE NoPromise]
    /\ UNCHANGED <<flash, boot, restart_scheduled, promised, bounds>>

\* The value is converted and written (nvs_set).
StoreItem ==
    /\ At("config", "items") /\ req.k \in DOMAIN Key /\ nvs # Erased
    /\ req.whole
    /\ \E j \in Sayable(Item) \ {Absent} :
          /\ Accepted(Item, j)
          /\ j.v # Unchanged
          /\ nvs' = [nvs EXCEPT ![Item] = j.v]
          /\ may' = [may EXCEPT ![Item] = @ \union {j.v}]
          /\ req' = [req EXCEPT !.k = @ + 1,
                             !.before = IF j \in AsShown(Item) THEN @ ELSE NoPromise]
    /\ UNCHANGED <<flash, boot, restart_scheduled, promised, bounds>>

\* A value that cannot be converted, or nvs_set fails: the others go on.
ItemFails ==
    /\ At("config", "items") /\ req.k \in DOMAIN Key /\ nvs # Erased
    /\ req.whole
    /\ req' = [req EXCEPT !.k = @ + 1, !.error = TRUE]
    /\ UNCHANGED <<config, flash, boot, restart_scheduled, promised, bounds>>

\* Mutation: the answer does not wait for nvs_commit.
CommitLater ==
    /\ At("config", "items") /\ req.k \notin DOMAIN Key /\ ~req.error
    /\ GoTo("answer")
    /\ UNCHANGED <<config, flash, boot, restart_scheduled, promised, bounds>>

\* Without an error the values are committed.
Commit ==
    /\ At("config", "items") /\ req.k \notin DOMAIN Key /\ ~req.error
    /\ Settled(nvs)
    /\ GoTo("answer")
    /\ UNCHANGED <<flash, boot, restart_scheduled, promised, bounds>>

\* An error, or nvs_commit fails: what was written stays as it is.
CommitFails ==
    /\ At("config", "items") /\ req.k \notin DOMAIN Key
    /\ req' = Idle
    /\ UNCHANGED <<config, flash, boot, restart_scheduled, promised, bounds>>

PostConfig == \/ ReceiveConfig \/ SkipItem \/ StoreItem \/ ItemFails
              \/ Commit \/ CommitFails

-----------------------------------------------------------------------------
(* POST /admin/factory_reset, /ota/firmware, /ota/www                      *)

\* nvs_flash_erase also closes NVS: nothing can be read until the restart.
FactoryReset ==
    /\ At("reset", "erase")
    /\ Settled(Erased)
    /\ promised' = NoPromise
    /\ GoTo("answer")
    /\ UNCHANGED <<flash, boot, restart_scheduled, bounds>>

\* Mutation: the image goes to the slot that is not marked for the next boot.
TargetOfBoot == Other(active)

\* esp_ota_get_next_update_partition(NULL)
Target == Other(running)

\* esp_ota_begin, refused while the running image is not confirmed.
BeginFirmware ==
    /\ At("firmware", "begin")
    /\ ota_state[running] # "pending"
    /\ image' = [image EXCEPT ![Target] = "partial"]
    /\ GoTo("write")
    /\ UNCHANGED <<config, ota_state, active, www, boot, restart_scheduled, promised,
                   bounds>>

\* The whole image is written and esp_ota_end finds it intact.
EndFirmware ==
    /\ At("firmware", "write")
    /\ \E quality \in {"good", "faulty"} : image' = [image EXCEPT ![Target] = quality]
    /\ GoTo("set boot")
    /\ UNCHANGED <<config, ota_state, active, www, boot, restart_scheduled, promised,
                   bounds>>

\* esp_ota_set_boot_partition
SetBoot ==
    /\ At("firmware", "set boot")
    /\ ota_state' = [ota_state EXCEPT ![Target] = "new"]
    /\ active' = Target
    /\ GoTo("answer")
    /\ UNCHANGED <<config, image, www, boot, restart_scheduled, promised, bounds>>

BeginWww ==
    /\ At("www", "begin")
    /\ www' = "damaged"
    /\ GoTo("write")
    /\ UNCHANGED <<config, image, ota_state, active, boot, restart_scheduled, promised,
                   bounds>>

\* The whole image is written; nothing finds out whether it can be mounted.
EndWww ==
    /\ At("www", "write")
    /\ www' \in {"ok", "damaged"}
    /\ GoTo("answer")
    /\ UNCHANGED <<config, image, ota_state, active, boot, restart_scheduled, promised,
                   bounds>>

Upload == BeginFirmware \/ EndFirmware \/ SetBoot \/ BeginWww \/ EndWww

-----------------------------------------------------------------------------

Handler == Request \/ Fails \/ RequestAborts \/ PostConfig \/ FactoryReset \/ Upload
           \/ AnswerSent \/ AnswerLost

ApplianceNext == StartUp \/ GnssTask \/ DelayedRestart \/ PowerLoss \/ EraseInterrupted
                 \/ ButtonReset \/ Handler

ApplianceSpec == ApplianceInit /\ [][ApplianceNext]_applianceVars

\* Power stays on or comes back, and neither app_main nor the GNSS task, the
\* first of its core, is starved.  No request has to come.
ApplianceFairness == WF_applianceVars(StartUp) /\ WF_applianceVars(GnssTask)

-----------------------------------------------------------------------------
(* Properties.                                                             *)

\* A configuration that was answered for stays until the next request for
\* another, through restarts and losses of power, and so do the defaults after
\* a factory reset, on which the device may still run until it has restarted.
PromisedConfigKept ==
    (promised # NoPromise /\ phase \notin {"off", "nvs"} /\ nvs # Erased)
        => nvs = promised

\* A form that is sent back as it was shown changes nothing, not even the
\* secrets that it does not contain.
SameFormChangesNothing ==
    (At("config", "answer") /\ req.before # NoPromise) => nvs = req.before

\* Whatever was uploaded and wherever it stopped, an image that works will be
\* started: the one marked for the next boot, or the one behind it.
FallbackExists ==
    \/ image[active] = "good" /\ ota_state[active] \in {"valid", "new"}
    \/ image[Other(active)] = "good" /\ ota_state[Other(active)] = "valid"

\* After a restart the device comes up, at last with the image before, and reads
\* from the GNSS receiver, unless a start meets a damaged web partition or finds
\* that Wi-Fi or the UART refuses what was configured.
ComesUpUnlessDamaged ==
    (phase = "off") ~> \/ phase = "up" /\ gnss = "ready"
                       \/ phase = "web" /\ www = "damaged"
                       \/ phase = "wifi" /\ (ApRefused \/ StaRefused)
                       \/ gnss = "refused" /\ UartRefused

\* "The web server should still be accessible in AP mode" (main.c).
AccessibleInApMode == (phase = "off") ~> (Serving \/ www = "damaged")
=============================================================================
