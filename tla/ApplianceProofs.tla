-------------------------- MODULE ApplianceProofs --------------------------
(***************************************************************************)
(* Proofs about Appliance for any number of requests and losses of power:  *)
(* which image will start, which configuration is kept, what a form that   *)
(* is sent back as it was shown does, and the types of everything, here    *)
(* and next to WebText as the run has them.                                *)
(***************************************************************************)
EXTENDS MCAppliance, WebTextProofs

Texts == {"unset", "p0", "p1", "h0", "h1", "0", "1"}

\* What is remembered with a request of the configuration.
Befores == {NoPromise} \union [Items -> Texts]

Requests == [kind : {"none", "config", "restart", "ota restart", "reset", "firmware",
                     "www"},
             step : {"", "receive", "items", "answer", "erase", "begin", "write",
                     "set boot"},
             k : 1..7, error : BOOLEAN, whole : BOOLEAN, before : Befores]

\* Every step that ends in a restart.
LEMMA StopsAre ==
  Restart \/ PowerLoss \/ EraseInterrupted \/ ButtonReset \/ DelayedRestart
  \/ InitAborts \/ RequestAborts \/ GnssAborts => Down
  BY DEF Restart, PowerLoss, EraseInterrupted, ButtonReset, DelayedRestart, InitAborts,
         RequestAborts, GnssAborts

-----------------------------------------------------------------------------
(* The request being handled.                                              *)

LEMMA Two ==
  ASSUME NEW s \in Slots
  PROVE  /\ Other(s) \in Slots /\ Other(Other(s)) = s /\ Other(s) # s
         /\ \A t \in Slots : t = s \/ t = Other(s)
  BY DEF Slots, Other

LEMMA IdleType == Idle \in Requests /\ Idle.step = ""
  BY DEF Idle, Requests, Befores

\* Nothing that a start depends on changes.
LEMMA FirstSteps ==
  ASSUME NEW kind \in DOMAIN FirstStep
  PROVE  /\ kind \in {"config", "restart", "ota restart", "reset", "firmware", "www"}
         /\ FirstStep[kind] \in {"receive", "answer", "erase", "begin"}
         /\ kind \in {"config", "reset", "firmware"} => FirstStep[kind] # "answer"
  BY DEF FirstStep

LEMMA Keys == DOMAIN Key = 1..6 /\ \A n \in DOMAIN Key : Key[n] \in Items
  BY DEF Key, Items

\* A request goes on to step s, or to the next item.
LEMMA NextStep ==
  ASSUME req \in Requests,
         NEW s \in {"", "receive", "items", "answer", "erase", "begin", "write",
                    "set boot"}
  PROVE  /\ [req EXCEPT !.step = s] \in Requests
         /\ [req EXCEPT !.step = s].kind = req.kind
         /\ [req EXCEPT !.step = s].step = s
  BY DEF Requests

\* A request of the configuration has been received.
LEMMA ReceivedStep ==
  ASSUME req \in Requests, NEW w \in BOOLEAN, NEW b \in Befores
  PROVE  /\ [req EXCEPT !.step = "items", !.whole = w, !.before = b] \in Requests
         /\ [req EXCEPT !.step = "items", !.whole = w, !.before = b].kind = req.kind
         /\ [req EXCEPT !.step = "items", !.whole = w, !.before = b].step = "items"
  BY DEF Requests

LEMMA NextItem ==
  ASSUME req \in Requests, req.k \in DOMAIN Key, NEW b \in Befores
  PROVE  /\ [req EXCEPT !.k = @ + 1] \in Requests
         /\ [req EXCEPT !.k = @ + 1, !.before = b] \in Requests
         /\ [req EXCEPT !.k = @ + 1, !.error = TRUE] \in Requests
<1>1. req.k + 1 \in 1..7
  BY Keys
<1> QED
  BY <1>1 DEF Requests

LEMMA ItemRequest ==
  ASSUME req \in Requests, SkipItem \/ StoreItem \/ ItemFails
  PROVE  /\ req' \in Requests
         /\ req'.step = req.step /\ req'.kind = req.kind /\ req.kind = "config"
<1>1. req.k \in DOMAIN Key /\ req.kind = "config" /\ req.before \in Befores
  BY DEF SkipItem, StoreItem, ItemFails, At, Requests
<1>2. CASE SkipItem \/ ItemFails
  <2>1. req' \in Requests
    BY <1>1, <1>2, NextItem DEF SkipItem, ItemFails
  <2> QED
    BY <1>1, <1>2, <2>1 DEF SkipItem, ItemFails, Requests
<1>3. CASE StoreItem
  <2>1. PICK j : req' = [req EXCEPT !.k = @ + 1,
                                    !.before = IF j \in AsShown(Item) THEN @ ELSE NoPromise]
    BY <1>3 DEF StoreItem
  <2> DEFINE b == IF j \in AsShown(Item) THEN req.before ELSE NoPromise
  <2>2. b \in Befores
    BY <1>1 DEF Befores
  <2>3. req' = [req EXCEPT !.k = @ + 1, !.before = b]
    BY <2>1
  <2> HIDE DEF b
  <2>4. req' \in Requests
    BY <1>1, <2>2, <2>3, NextItem
  <2> QED
    BY <1>1, <2>3, <2>4 DEF Requests
<1> QED
  BY <1>2, <1>3
-----------------------------------------------------------------------------
(* The configuration.                                                      *)

Certain == \A i \in Items : may[i] = {nvs[i]}

LEMMA RemainsOne ==
  ASSUME nvs \in [Items -> Texts], Certain, NEW c \in Remains
  PROVE  c = nvs
<1>1. /\ c["host"] = nvs["host"] /\ c["uart"] = nvs["uart"] /\ c["ap"] = nvs["ap"]
      /\ c["auth"] = nvs["auth"] /\ c["pass"] = nvs["pass"] /\ c["sta"] = nvs["sta"]
  BY DEF Remains, Certain, Items
<1>2. DOMAIN c = Items
  BY DEF Remains, Items
<1>3. c = [i \in DOMAIN c |-> c[i]]
  BY DEF Remains
<1> QED
  BY <1>1, <1>2, <1>3 DEF Items

LEMMA RemainsType ==
  ASSUME may \in [Items -> SUBSET Texts], NEW c \in Remains
  PROVE  c \in [Items -> Texts]
<1>1. /\ c["host"] \in Texts /\ c["uart"] \in Texts /\ c["ap"] \in Texts
      /\ c["auth"] \in Texts /\ c["pass"] \in Texts /\ c["sta"] \in Texts
  BY DEF Remains, Items
<1>2. DOMAIN c = Items
  BY DEF Remains, Items
<1>3. c = [i \in DOMAIN c |-> c[i]]
  BY DEF Remains
<1> QED
  BY <1>1, <1>2, <1>3 DEF Items

LEMMA DefaultType ==
  /\ Default \in [Items -> Texts] /\ Erased \in [Items -> Texts]
  /\ \A i \in Items : Default[i] # "unset" /\ Default[i] # "none"
  /\ \A i \in Items : Erased[i] = "unset" /\ NoPromise[i] = "none"
  /\ Default # Erased /\ Default # NoPromise /\ Erased # NoPromise
<1>1. /\ Default["host"] = "h0" /\ Default["uart"] = "0" /\ Default["ap"] = "1"
      /\ Default["auth"] = "0" /\ Default["pass"] = "p0" /\ Default["sta"] = "0"
  BY DEF Default
<1>2. DOMAIN Default = Items
  BY DEF Default, Items
<1>3. Default = [i \in DOMAIN Default |-> Default[i]]
  BY DEF Default
<1>4. Default \in [Items -> Texts] /\ \A i \in Items : Default[i] # "unset" /\ Default[i] # "none"
  BY <1>1, <1>2, <1>3 DEF Items, Texts
<1>5. /\ Erased \in [Items -> Texts]
      /\ \A i \in Items : Erased[i] = "unset" /\ NoPromise[i] = "none"
  BY DEF Erased, NoPromise, Texts
<1>6. "ap" \in Items
  BY DEF Items
<1> QED
  BY <1>4, <1>5, <1>6
Complete(c) == \A i \in Items : c[i] # "unset"

\* A promise is what NVS holds for certain, or the defaults while NVS is erased.
PromiseInv ==
    /\ promised # NoPromise =>
          /\ Certain
          /\ \/ nvs = promised /\ Complete(nvs)
             \/ nvs = Erased /\ promised = Default
    /\ At("config", "items") => promised = NoPromise /\ (nvs = Erased => req.k = 1)
    /\ At("config", "answer") => Certain /\ nvs # Erased
    /\ At("reset", "answer") => Certain /\ nvs = Erased

\* A form that said nothing but what was shown has changed nothing so far.
FormInv ==
    req.kind = "config" /\ req.step \in {"items", "answer"} /\ req.before # NoPromise
        => nvs = req.before

ConfigInv ==
    /\ nvs \in [Items -> Texts]
    /\ may \in [Items -> SUBSET Texts]
    /\ req \in Requests
    /\ phase \notin {"off", "nvs"} => nvs = Erased \/ Complete(nvs)
    /\ req.step # "" => phase \notin {"off", "nvs"}
    /\ req.step = "receive" => req.k = 1
    /\ PromiseInv
    /\ FormInv

LEMMA NotErased == \A c : Complete(c) => c # Erased
  BY DefaultType DEF Complete, Items

LEMMA SettledOk ==
  ASSUME NEW c \in [Items -> Texts], Settled(c)
  PROVE  nvs' = c /\ nvs' \in [Items -> Texts] /\ may' \in [Items -> SUBSET Texts]
         /\ Certain'
  BY DEF Settled, Certain

\* The configuration and what is known of it stay, and so does what the steps of
\* the two requests that change it say.
LEMMA QuietConfig ==
  ASSUME ConfigInv, UNCHANGED <<nvs, may, promised>>,
         phase' \in {"off", "nvs"} => phase \in {"off", "nvs"} /\ req'.step = "",
         phase \in {"off", "nvs"} => phase' \in {"off", "nvs"},
         req' \in Requests,
         \/ req' = req
         \/ /\ req'.step # "" => phase \notin {"off", "nvs"}
            /\ req'.step = "receive" => req'.k = 1
            /\ ~(req'.kind \in {"config", "reset"} /\ req'.step \in {"items", "answer"})
  PROVE  ConfigInv'
<1>1. PromiseInv' /\ FormInv'
  BY DEF ConfigInv, PromiseInv, FormInv, Certain, Complete, At, NoPromise
<1> QED
  BY <1>1 DEF ConfigInv, Complete

\* What is said of NVS in an idle state.
LEMMA IdleConfig ==
  ASSUME req' = Idle, nvs' \in [Items -> Texts], may' \in [Items -> SUBSET Texts],
         phase' \notin {"off", "nvs"} => nvs' = Erased \/ Complete(nvs'),
         promised' # NoPromise => /\ Certain'
                                  /\ \/ nvs' = promised' /\ Complete(nvs')
                                     \/ nvs' = Erased /\ promised' = Default
  PROVE  ConfigInv'
<1>1. req'.kind = "none" /\ req'.step = "" /\ req' \in Requests
  BY IdleType DEF Idle
<1>2. PromiseInv' /\ FormInv'
  BY <1>1 DEF PromiseInv, FormInv, At
<1> QED
  BY <1>1, <1>2 DEF ConfigInv, Complete

LEMMA StopsKeepConfig ==
  ASSUME ConfigInv,
         Restart \/ PowerLoss \/ EraseInterrupted \/ ButtonReset
  PROVE  ConfigInv'
<1>1. req' = Idle /\ phase' = "off"
  BY DEF Restart, PowerLoss, EraseInterrupted, ButtonReset, Down
<1>2. CASE Restart \/ PowerLoss
  <2>1. UNCHANGED <<nvs, may, promised>>
    BY <1>2 DEF Restart, PowerLoss, config
  <2> QED
    BY <1>1, <2>1, IdleConfig DEF ConfigInv, PromiseInv, Certain
<1>3. CASE EraseInterrupted
  <2>1. nvs' = nvs /\ may' = [i \in Items |-> may[i] \union {"unset"}]
        /\ promised' = NoPromise
    BY <1>3 DEF EraseInterrupted
  <2>2. nvs' \in [Items -> Texts] /\ may' \in [Items -> SUBSET Texts]
    BY <2>1 DEF ConfigInv, Texts
  <2>3. NoPromise' = NoPromise
    BY DEF NoPromise
  <2> QED
    BY <1>1, <2>1, <2>2, <2>3, IdleConfig
<1>4. CASE ButtonReset
  <2>1. nvs' = Erased /\ promised' = Default /\ nvs' \in [Items -> Texts]
        /\ may' \in [Items -> SUBSET Texts] /\ Certain'
    BY <1>4, DefaultType, SettledOk DEF ButtonReset
  <2> QED
    BY <1>1, <2>1, IdleConfig DEF Erased, Default
<1> QED
  BY <1>2, <1>3, <1>4

LEMMA StartKeepsConfig ==
  ASSUME ConfigInv, Boot \/ InitNvs \/ InitNext \/ Confirm
  PROVE  ConfigInv'
<1>1. CASE InitNvs
  <2>1. PICK d \in Remains :
           Settled([i \in Items |-> IF d[i] = "unset" THEN Default[i] ELSE d[i]])
    BY <1>1 DEF InitNvs
  <2> DEFINE c == [i \in Items |-> IF d[i] = "unset" THEN Default[i] ELSE d[i]]
  <2>2. d \in [Items -> Texts] /\ (Certain => d = nvs)
    BY RemainsType, RemainsOne DEF ConfigInv
  <2>3. c \in [Items -> Texts] /\ Complete(c)
    BY <2>2, DefaultType DEF Complete
  <2>4. Settled(c) /\ promised' = promised /\ req' = req /\ phase' = "button"
        /\ req.step = ""
    BY <1>1, <2>1 DEF InitNvs, ConfigInv, http
  <2>5. Certain => (Complete(nvs) => c = nvs) /\ (nvs = Erased => c = Default)
    BY <2>2, DefaultType DEF ConfigInv, Complete
  <2> HIDE DEF c
  <2>6. nvs' = c /\ nvs' \in [Items -> Texts] /\ may' \in [Items -> SUBSET Texts]
        /\ Certain'
    BY <2>3, <2>4, SettledOk
  <2>7. promised # NoPromise => nvs' = promised /\ Complete(nvs')
    BY <2>3, <2>5, <2>6 DEF ConfigInv, PromiseInv
  <2>8. PromiseInv' /\ FormInv'
    BY <2>4, <2>6, <2>7 DEF PromiseInv, FormInv, At, NoPromise
  <2> QED
    BY <2>3, <2>4, <2>6, <2>8 DEF ConfigInv, Complete
<1>2. CASE Boot \/ InitNext \/ Confirm
  <2>1. UNCHANGED <<nvs, may, promised, req>>
    BY <1>2 DEF Boot, InitNext, Confirm, config, http
  <2>2. CASE Boot
    <3>1. phase = "off" /\ phase' = "nvs" /\ req.step = ""
      BY <2>2 DEF Boot, ConfigInv
    <3> QED
      BY <2>1, <3>1, QuietConfig DEF ConfigInv
  <2>3. CASE InitNext
    <3>1. phase \notin {"off", "nvs"} /\ phase' \notin {"off", "nvs"}
      BY <2>3 DEF InitNext, Phases
    <3> QED
      BY <2>1, <3>1, QuietConfig DEF ConfigInv
  <2>4. CASE Confirm
    <3>1. phase \notin {"off", "nvs"} /\ phase' \notin {"off", "nvs"}
      BY <2>4 DEF Confirm
    <3> QED
      BY <2>1, <3>1, QuietConfig DEF ConfigInv
  <2> QED
    BY <1>2, <2>2, <2>3, <2>4
<1> QED
  BY <1>1, <1>2
\* What is stored of a value, and what of one that was sent as it was shown.
LEMMA StoredValue ==
  ASSUME NEW i \in Items, NEW j \in Sayable(i), Accepted(i, j), j.v # Unchanged
  PROVE  /\ j.v \in Texts /\ j.v # "unset"
         /\ j \in AsShown(i) => j.v = nvs[i]
<1>1. CASE i = "pass"
  <2>1. j \in {Absent, Flag("0"), Text("p1"), Text(Unchanged)} /\ j.t = "text"
    BY <1>1 DEF Sayable, Accepted
  <2>2. j.v = "p1"
    <3>1. Absent.t = "absent" /\ Flag("0").t = "bool" /\ Text("p1").v = "p1"
          /\ Text(Unchanged).v = Unchanged
      BY DEF Absent, Flag, Text
    <3> QED
      BY <2>1, <3>1
  <2>3. j \in AsShown(i) => j = Text(Unchanged)
    BY <1>1 DEF AsShown, ToJson, Numbers
  <2>4. j \notin AsShown(i)
    BY <2>3 DEF Text
  <2> QED
    BY <2>2, <2>4 DEF Texts
<1>2. CASE i = "host"
  <2>1. j \in {Absent, Flag("0"), Text("h0"), Text("h1")} /\ j.t = "text"
    BY <1>2 DEF Sayable, Accepted
  <2>2. j.v \in {"h0", "h1"}
    <3>1. Absent.t = "absent" /\ Flag("0").t = "bool" /\ Text("h0").v = "h0"
          /\ Text("h1").v = "h1"
      BY DEF Absent, Flag, Text
    <3> QED
      BY <2>1, <3>1
  <2>3. j \in AsShown(i) => j = Text(nvs[i])
    BY <1>2 DEF AsShown, ToJson, Numbers
  <2>4. j \in AsShown(i) => j.v = nvs[i]
    BY <2>3 DEF Text
  <2> QED
    BY <2>2, <2>4 DEF Texts
<1>3. CASE i \notin {"pass", "host"}
  <2>1. j.v \in {"0", "1"}
    BY <1>3 DEF Accepted
  <2>2. j \in AsShown(i) => j \in {Number(nvs[i]), Flag(nvs[i]), Digits(nvs[i])}
    BY <1>3 DEF AsShown, ToJson, Numbers
  <2>3. j \in AsShown(i) => j.v = nvs[i]
    BY <2>2 DEF Number, Flag, Digits
  <2> QED
    BY <2>1, <2>3 DEF Texts
<1> QED
  BY <1>1, <1>2, <1>3

LEMMA ItemKeepsConfig ==
  ASSUME ConfigInv, SkipItem \/ StoreItem \/ ItemFails
  PROVE  ConfigInv'
<1>1. /\ req \in Requests /\ req.kind = "config" /\ req.step = "items"
      /\ req.k \in DOMAIN Key /\ nvs # Erased
      /\ UNCHANGED <<phase, promised>>
  BY DEF ConfigInv, SkipItem, StoreItem, ItemFails, At, boot
<1>2. promised = NoPromise /\ Complete(nvs)
      /\ (req.before # NoPromise => nvs = req.before)
      /\ phase \notin {"off", "nvs"} /\ nvs \in [Items -> Texts]
      /\ may \in [Items -> SUBSET Texts]
  BY <1>1 DEF ConfigInv, PromiseInv, FormInv, At
<1>3. req' \in Requests /\ req'.kind = "config" /\ req'.step = "items"
  BY <1>1, ItemRequest
<1>4. ASSUME NEW c \in [Items -> Texts], nvs' = c, Complete(c),
             req'.before # NoPromise => c = req'.before,
             may' \in [Items -> SUBSET Texts]
      PROVE  ConfigInv'
  <2>1. c # Erased
    BY <1>4, NotErased
  <2>2. PromiseInv' /\ FormInv'
    BY <1>1, <1>2, <1>3, <1>4, <2>1 DEF PromiseInv, FormInv, At, NoPromise, Erased
  <2> QED
    BY <1>1, <1>2, <1>3, <1>4, <2>2 DEF ConfigInv, Complete
<1>5. CASE SkipItem \/ ItemFails
  <2>1. req'.before = req.before
    BY <1>1, <1>5 DEF SkipItem, ItemFails, Requests
  <2>2. nvs' = nvs /\ may' = may
    BY <1>1, <1>5 DEF SkipItem, ItemFails, config
  <2> QED
    BY <1>2, <1>4, <2>1, <2>2
<1>6. CASE StoreItem
  <2> DEFINE i == Key[req.k]
  <2>1. i \in Items /\ Item = i
    BY <1>1, Keys DEF Item
  <2>2. PICK j \in Sayable(i) :
           /\ Accepted(i, j) /\ j.v # Unchanged
           /\ nvs' = [nvs EXCEPT ![i] = j.v]
           /\ may' = [may EXCEPT ![i] = @ \union {j.v}]
           /\ req' = [req EXCEPT !.k = @ + 1,
                                 !.before = IF j \in AsShown(i) THEN @ ELSE NoPromise]
    BY <1>6, <2>1 DEF StoreItem
  <2> HIDE DEF i
  <2>3. j.v \in Texts /\ j.v # "unset" /\ (j \in AsShown(i) => j.v = nvs[i])
    BY <2>1, <2>2, StoredValue
  <2>4. req'.before = IF j \in AsShown(i) THEN req.before ELSE NoPromise
    BY <1>1, <2>2 DEF Requests
  <2>5. req'.before # NoPromise => nvs' = req'.before
    BY <1>2, <2>1, <2>2, <2>3, <2>4
  <2>6. nvs' \in [Items -> Texts] /\ Complete(nvs') /\ may' \in [Items -> SUBSET Texts]
    BY <1>2, <2>1, <2>2, <2>3 DEF Complete
  <2> QED
    BY <1>4, <2>5, <2>6
<1> QED
  BY <1>5, <1>6

LEMMA ConfigKeepsConfig ==
  ASSUME ConfigInv, ReceiveConfig \/ Commit \/ FactoryReset
  PROVE  ConfigInv'
<1>1. req \in Requests /\ phase' = phase /\ phase \notin {"off", "nvs"}
  BY DEF ConfigInv, ReceiveConfig, Commit, FactoryReset, At, boot
<1>2. CASE ReceiveConfig
  <2>1. PICK w \in BOOLEAN :
           req' = [req EXCEPT !.step = "items", !.whole = w, !.before = nvs]
    BY <1>2 DEF ReceiveConfig
  <2>2. /\ req' \in Requests /\ req'.kind = "config" /\ req'.step = "items"
    <3>1. nvs \in Befores
      BY DEF ConfigInv, Befores
    <3> QED
      BY <1>1, <1>2, <2>1, <3>1, ReceivedStep DEF ReceiveConfig, At
  <2>3. req'.k = 1
    BY <1>1, <1>2, <2>1 DEF ReceiveConfig, At, ConfigInv, Requests
  <2>4. UNCHANGED <<nvs, may>> /\ req'.before = nvs /\ promised' = NoPromise
    BY <1>1, <1>2, <2>1 DEF ReceiveConfig, config, Requests
  <2>5. PromiseInv' /\ FormInv'
    BY <2>2, <2>3, <2>4 DEF PromiseInv, FormInv, At, NoPromise
  <2> QED
    BY <1>1, <2>2, <2>4, <2>5 DEF ConfigInv, Complete
<1>3. CASE Commit
  <2>1. req' \in Requests /\ req'.kind = "config" /\ req'.step = "answer"
    BY <1>1, <1>3, NextStep DEF Commit, GoTo, At
  <2>2. req'.before = req.before
    BY <1>1, <1>3 DEF Commit, GoTo, Requests
  <2>3. promised = NoPromise /\ nvs # Erased /\ (req.before # NoPromise => nvs = req.before)
    BY <1>3, Keys DEF Commit, At, ConfigInv, PromiseInv, FormInv
  <2>4. promised' = promised
    BY <1>3 DEF Commit
  <2>5. nvs' = nvs /\ nvs' \in [Items -> Texts] /\ may' \in [Items -> SUBSET Texts]
        /\ Certain'
    BY <1>3, SettledOk DEF Commit, ConfigInv
  <2>6. PromiseInv' /\ FormInv'
    BY <2>1, <2>2, <2>3, <2>4, <2>5 DEF PromiseInv, FormInv, At, NoPromise, Erased
  <2> QED
    BY <1>1, <2>1, <2>5, <2>6 DEF ConfigInv, Complete
<1>4. CASE FactoryReset
  <2>1. req' \in Requests /\ req'.kind = "reset" /\ req'.step = "answer"
    BY <1>1, <1>4, NextStep DEF FactoryReset, GoTo, At
  <2>2. nvs' = Erased /\ nvs' \in [Items -> Texts] /\ may' \in [Items -> SUBSET Texts]
        /\ Certain' /\ promised' = NoPromise
    BY <1>4, DefaultType, SettledOk DEF FactoryReset
  <2>3. PromiseInv' /\ FormInv'
    BY <2>1, <2>2 DEF PromiseInv, FormInv, At, NoPromise, Erased
  <2> QED
    BY <1>1, <2>1, <2>2, <2>3 DEF ConfigInv, Erased
<1> QED
  BY <1>2, <1>3, <1>4

LEMMA AnswerKeepsConfig ==
  ASSUME ConfigInv, AnswerSent \/ AnswerLost
  PROVE  ConfigInv'
<1>1. /\ req' = Idle /\ UNCHANGED <<nvs, may, phase>> /\ req.step = "answer"
      /\ phase \notin {"off", "nvs"}
  BY DEF AnswerSent, AnswerLost, config, boot, ConfigInv
<1>2. \/ promised' = promised
      \/ promised' = nvs /\ Certain /\ nvs # Erased
      \/ promised' = Default /\ Certain /\ nvs = Erased
  BY <1>1 DEF AnswerSent, AnswerLost, ConfigInv, PromiseInv, At
<1>3. promised' # NoPromise => /\ Certain
                               /\ \/ nvs = promised' /\ Complete(nvs)
                                  \/ nvs = Erased /\ promised' = Default
  BY <1>1, <1>2 DEF ConfigInv, PromiseInv
<1> QED
  BY <1>1, <1>3, IdleConfig DEF ConfigInv, Certain, Complete, NoPromise, Erased, Default

\* The other requests do not touch NVS.
LEMMA OthersKeepConfig ==
  ASSUME ConfigInv, Request \/ Fails \/ CommitFails \/ Upload
  PROVE  ConfigInv'
<1>1. UNCHANGED <<nvs, may, promised, phase>> /\ req \in Requests
  BY DEF Request, Fails, CommitFails, Upload, BeginFirmware, EndFirmware, SetBoot,
         BeginWww, EndWww, config, boot, ConfigInv
<1>2. CASE Fails \/ CommitFails
  <2>1. req' = Idle
    BY <1>2 DEF Fails, CommitFails
  <2> QED
    BY <1>1, <2>1, IdleType, QuietConfig DEF ConfigInv
<1>3. CASE Upload
  <2>1. PICK s \in {"write", "set boot", "answer"} :
           GoTo(s) /\ req.kind \in {"firmware", "www"} /\ req.step # ""
    <3>1. /\ GoTo("write") \/ GoTo("set boot") \/ GoTo("answer")
          /\ req.kind \in {"firmware", "www"} /\ req.step # ""
      BY <1>3 DEF Upload, BeginFirmware, EndFirmware, SetBoot, BeginWww, EndWww, At
    <3> QED
      BY <3>1
  <2>2. req' \in Requests /\ req'.kind \in {"firmware", "www"} /\ req'.step = s
    <3>1. req' = [req EXCEPT !.step = s] /\ req.kind \in {"firmware", "www"}
      BY <2>1 DEF GoTo
    <3>2. s \in {"", "receive", "items", "answer", "erase", "begin", "write", "set boot"}
      BY <2>1
    <3> QED
      BY <1>1, <3>1, <3>2, NextStep
  <2>3. phase \notin {"off", "nvs"}
    BY <2>1 DEF ConfigInv
  <2> QED
    BY <1>1, <2>2, <2>3, QuietConfig
<1>4. CASE Request
  <2>1. PICK kind \in DOMAIN FirstStep :
           req' = [Idle EXCEPT !.kind = kind, !.step = FirstStep[kind]]
    BY <1>4 DEF Request
  <2> DEFINE s == FirstStep[kind]
  <2>2. /\ kind \in {"config", "restart", "ota restart", "reset", "firmware", "www"}
        /\ s \in {"receive", "answer", "erase", "begin"}
        /\ kind \in {"config", "reset"} => s # "answer"
    BY FirstSteps
  <2>3. phase \notin {"off", "nvs"}
    BY <1>4 DEF Request, Serving
  <2> HIDE DEF s
  <2>4. [Idle EXCEPT !.kind = kind, !.step = s] \in Requests
    BY <2>2, IdleType DEF Requests
  <2>5. /\ [Idle EXCEPT !.kind = kind, !.step = s].kind = kind
        /\ [Idle EXCEPT !.kind = kind, !.step = s].step = s
        /\ [Idle EXCEPT !.kind = kind, !.step = s].k = 1
    BY DEF Idle
  <2>6. req' \in Requests /\ req'.kind = kind /\ req'.step = s /\ req'.k = 1
    BY <2>1, <2>4, <2>5 DEF s
  <2> QED
    BY <1>1, <2>2, <2>3, <2>6, QuietConfig
<1> QED
  BY <1>2, <1>3, <1>4

LEMMA ConfigStep == ConfigInv /\ [ApplianceNext]_applianceVars => ConfigInv'
<1> SUFFICES ASSUME ConfigInv, [ApplianceNext]_applianceVars PROVE ConfigInv'
  OBVIOUS
<1>1. CASE UNCHANGED applianceVars
  <2>1. UNCHANGED <<nvs, may, promised, phase, req>>
    BY <1>1 DEF applianceVars, config, boot, http
  <2> QED
    BY <2>1, QuietConfig DEF ConfigInv
<1>2. CASE StartUp
  BY <1>2, StartKeepsConfig, StopsKeepConfig DEF StartUp, InitAborts
<1>3. CASE DelayedRestart \/ PowerLoss \/ EraseInterrupted \/ ButtonReset
  BY <1>3, StopsKeepConfig DEF DelayedRestart
<1>4. CASE GnssRead
  <2>1. UNCHANGED <<nvs, may, promised, phase, req>>
    BY <1>4 DEF GnssRead, config, http
  <2> QED
    BY <2>1, QuietConfig DEF ConfigInv
<1>5. CASE GnssAborts
  BY <1>5, StopsKeepConfig DEF GnssAborts
<1>6. CASE Handler
  BY <1>6, StopsKeepConfig, ItemKeepsConfig, ConfigKeepsConfig, AnswerKeepsConfig,
     OthersKeepConfig DEF Handler, PostConfig, RequestAborts
<1> QED
  BY <1>1, <1>2, <1>3, <1>4, <1>5, <1>6 DEF ApplianceNext, GnssTask

LEMMA ConfigInit == ApplianceInit => ConfigInv
<1> SUFFICES ASSUME ApplianceInit PROVE ConfigInv
  OBVIOUS
<1>1. nvs = Default /\ nvs \in [Items -> Texts] /\ may \in [Items -> SUBSET Texts]
  BY DefaultType DEF ApplianceInit
<1>2. req = Idle /\ req.kind = "none" /\ req.step = "" /\ req \in Requests
      /\ promised = NoPromise /\ phase = "off"
  BY IdleType DEF ApplianceInit, Idle
<1>3. PromiseInv /\ FormInv
  BY <1>2 DEF PromiseInv, FormInv, At
<1> QED
  BY <1>1, <1>2, <1>3 DEF ConfigInv

\* A configuration that was answered for, and the defaults after a factory
\* reset, are what the device runs on until the next request for another,
\* however often it restarts or loses power in between.
THEOREM PromiseCorrect == ApplianceSpec => []PromisedConfigKept
<1>1. ConfigInv => PromisedConfigKept
  BY DEF ConfigInv, PromiseInv, PromisedConfigKept
<1> QED
  BY <1>1, ConfigInit, ConfigStep, PTL DEF ApplianceSpec

\* A form sent back as it was shown, with the placeholders of its secrets and
\* its numbers as digits or not, leaves every item as it was.
THEOREM FormCorrect == ApplianceSpec => []SameFormChangesNothing
<1>1. ConfigInv => SameFormChangesNothing
  BY DEF ConfigInv, FormInv, SameFormChangesNothing, At
<1> QED
  BY <1>1, ConfigInit, ConfigStep, PTL DEF ApplianceSpec
-----------------------------------------------------------------------------
(* The two firmware slots.                                                 *)

Works(s)  == image[s] = "good" /\ ota_state[s] = "valid"
Uploading == req.kind = "firmware" /\ req.step \in {"write", "set boot"}

\* The image to boot works, or it was not confirmed yet and the other one works.
Bootable == \/ Works(active)
            \/ ota_state[active] \in {"new", "pending"} /\ Works(Other(active))

\* The same, seen from the image that runs.
RunsFrom ==
    /\ \/ running = active /\ Works(active)
       \/ running = active /\ ota_state[active] = "pending" /\ Works(Other(active))
       \/ running = Other(active) /\ ota_state[active] = "new" /\ Works(running)
    /\ image[running] # "partial"
    /\ phase \in {"confirm", "up"} => image[running] = "good"

BootInv ==
    /\ active \in Slots
    /\ image \in [Slots -> {"good", "faulty", "partial"}]
    /\ ota_state \in [Slots -> {"new", "pending", "valid", "aborted"}]
    /\ req \in Requests
    /\ Bootable
    /\ phase # "off" => RunsFrom
    /\ Uploading => ota_state[running] # "pending"
    /\ req.step # "" => phase # "off"

LEMMA QuietBoot ==
  ASSUME BootInv, UNCHANGED <<image, ota_state, active, phase, running>>,
         req' \in Requests, Uploading' => Uploading,
         req'.step # "" => phase # "off"
  PROVE  BootInv'
  BY DEF BootInv, Bootable, RunsFrom, Works

LEMMA StopsKeepBoot == BootInv /\ Down => BootInv'
  BY IdleType DEF BootInv, Bootable, RunsFrom, Works, Uploading, Down, flash

LEMMA BootKeepsBoot == BootInv /\ Boot => BootInv'
<1> SUFFICES ASSUME BootInv, Boot PROVE BootInv'
  OBVIOUS
<1>1. PICK p \in Slots : p = Picked
  BY Two DEF BootInv, Picked
<1>2. /\ image[p] # "partial" /\ ota_state[p] # "aborted"
      /\ active' = p /\ running' = p /\ phase' = "nvs" /\ image' = image /\ req' = req
      /\ ota_state' = [s \in Slots |->
            IF s = p /\ ota_state[s] = "new" THEN "pending"
            ELSE IF s # p /\ ota_state[s] = "pending" THEN "aborted"
            ELSE ota_state[s]]
  BY <1>1 DEF Boot, http
<1>3. req.step = ""
  BY DEF BootInv, Boot
<1>4. \/ p = active /\ ota_state[active] # "pending"
      \/ p = Other(active) /\ (ota_state[active] = "pending" \/ image[active] = "partial")
  BY <1>1 DEF Picked
<1>5. ota_state' \in [Slots -> {"new", "pending", "valid", "aborted"}]
  BY <1>2 DEF BootInv
<1>6. ota_state'[p] = (IF ota_state[p] = "new" THEN "pending" ELSE ota_state[p])
  BY <1>1, <1>2
<1>7. Works(Other(p)) /\ Other(p) \in Slots => Works(Other(p))'
  BY <1>1, <1>2, Two DEF Works, Other
<1>8. Works(p) => Works(p)'
  BY <1>1, <1>2, <1>6 DEF Works
<1>9. /\ Bootable'
      /\ \/ Works(p)'
         \/ ota_state'[p] = "pending" /\ Works(Other(p))'
  <2>1. CASE Works(p)
    BY <1>2, <1>8, <2>1 DEF Bootable, Works
  <2>2. CASE ~Works(p)
    <3>1. p = active
      BY <1>4, <2>2 DEF BootInv, Bootable, Works
    <3>2. ota_state[p] = "new" /\ Works(Other(p)) /\ Other(p) \in Slots
      BY <1>1, <1>4, <2>2, <3>1, Two DEF BootInv, Bootable
    <3> QED
      BY <1>2, <1>6, <1>7, <3>2 DEF Bootable, Works, Other
  <2> QED
    BY <2>1, <2>2
<1>10. RunsFrom'
  BY <1>2, <1>9 DEF RunsFrom, Works, Other
<1> QED
  BY <1>1, <1>2, <1>3, <1>5, <1>9, <1>10 DEF BootInv, Uploading
\* Any step of a request that leaves the slots alone.
LEMMA HandlerKeepsBoot ==
  ASSUME BootInv, ConfigInv,
         Request \/ Fails \/ PostConfig \/ FactoryReset \/ AnswerSent \/ AnswerLost
         \/ BeginWww \/ EndWww
  PROVE  BootInv'
<1>1. UNCHANGED <<image, ota_state, active, phase, running>>
  BY DEF Request, Fails, PostConfig, ReceiveConfig, SkipItem, StoreItem, ItemFails,
         Commit, CommitFails, FactoryReset, AnswerSent, AnswerLost, BeginWww, EndWww,
         flash, boot
<1>2. req \in Requests /\ (req.step # "" => phase # "off")
  BY DEF BootInv
<1>3. req' \in Requests /\ (Uploading' => Uploading) /\ (req'.step # "" => phase # "off")
  <2>1. CASE Request
    <3>1. PICK kind \in DOMAIN FirstStep :
             req' = [Idle EXCEPT !.kind = kind, !.step = FirstStep[kind]]
      BY <2>1 DEF Request
    <3>2. req' \in Requests /\ req'.kind = kind /\ req'.step = FirstStep[kind]
      <4> DEFINE s == FirstStep[kind]
      <4>1. /\ kind \in {"config", "restart", "ota restart", "reset", "firmware", "www"}
            /\ s \in {"receive", "answer", "erase", "begin"}
        BY FirstSteps
      <4> HIDE DEF s
      <4>2. [Idle EXCEPT !.kind = kind, !.step = s] \in Requests
        BY <4>1, IdleType DEF Requests
      <4>3. [Idle EXCEPT !.kind = kind, !.step = s].kind = kind
            /\ [Idle EXCEPT !.kind = kind, !.step = s].step = s
        BY <4>1, IdleType DEF Requests
      <4> QED
        BY <3>1, <4>2, <4>3 DEF s
    <3>3. phase # "off"
      BY <2>1 DEF Request, Serving
    <3> QED
      BY <3>2, <3>3, FirstSteps DEF Uploading
  <2>2. CASE Fails \/ AnswerSent \/ AnswerLost \/ CommitFails
    <3>1. req' = Idle
      BY <2>2 DEF Fails, AnswerSent, AnswerLost, CommitFails
    <3> QED
      BY <3>1, IdleType DEF Uploading
  <2>3. CASE ReceiveConfig
    <3>1. PICK w \in BOOLEAN :
             req' = [req EXCEPT !.step = "items", !.whole = w, !.before = nvs]
      BY <2>3 DEF ReceiveConfig
    <3>2. nvs \in Befores
      BY DEF ConfigInv, Befores
    <3>3. req' \in Requests /\ req'.step = "items" /\ req.step = "receive"
      BY <1>2, <2>3, <3>1, <3>2, ReceivedStep DEF ReceiveConfig, At
    <3> QED
      BY <1>2, <3>3 DEF Uploading
  <2>4. CASE Commit \/ FactoryReset \/ BeginWww \/ EndWww
    <3>1. req.kind \in {"config", "reset", "www"}
      BY <2>4 DEF Commit, FactoryReset, BeginWww, EndWww, At
    <3>2. \E s \in {"answer", "write"} : req' = [req EXCEPT !.step = s]
      BY <2>4 DEF Commit, FactoryReset, BeginWww, EndWww, GoTo
    <3>3. PICK s \in {"answer", "write"} : req' = [req EXCEPT !.step = s]
      BY <3>2
    <3>4. req' \in Requests /\ req'.kind = req.kind
      <4>1. req \in Requests /\ s \in {"", "receive", "items", "answer", "erase", "begin",
                                     "write", "set boot"}
        BY <1>2
      <4>2. [req EXCEPT !.step = s] \in Requests /\ [req EXCEPT !.step = s].kind = req.kind
        BY <4>1 DEF Requests
      <4> QED
        BY <3>3, <4>2
    <3>5. ~Uploading'
      BY <3>1, <3>4 DEF Uploading
    <3>6. phase # "off"
      <4>1. req.step \in {"items", "erase", "begin", "write"}
        BY <2>4 DEF Commit, FactoryReset, BeginWww, EndWww, At
      <4> QED
        BY <1>2, <4>1
    <3> QED
      BY <3>4, <3>5, <3>6
  <2>5. CASE SkipItem \/ StoreItem \/ ItemFails
    <3>1. req' \in Requests
      BY <1>2, <2>5, ItemRequest
    <3>2. req'.step = req.step /\ req'.kind = req.kind /\ req.kind = "config"
      BY <1>2, <2>5, ItemRequest
    <3> QED
      BY <1>2, <3>1, <3>2 DEF Uploading
  <2> QED
    BY <2>1, <2>2, <2>3, <2>4, <2>5 DEF PostConfig
<1> QED
  BY <1>1, <1>3, QuietBoot

\* The upload of firmware.
LEMMA FirmwareKeepsBoot ==
  ASSUME BootInv, BeginFirmware \/ EndFirmware \/ SetBoot
  PROVE  BootInv'
<1>1. req \in Requests /\ phase # "off" /\ RunsFrom /\ active \in Slots
      /\ image \in [Slots -> {"good", "faulty", "partial"}]
      /\ ota_state \in [Slots -> {"new", "pending", "valid", "aborted"}]
  BY DEF BootInv, BeginFirmware, EndFirmware, SetBoot, At
<1>2. ota_state[running] # "pending"
  BY DEF BootInv, BeginFirmware, EndFirmware, SetBoot, At, Uploading
<1>3. running \in Slots /\ Target \in Slots /\ Target # running /\ Works(running)
      /\ Target = Other(running) /\ running = Other(Target)
  BY <1>1, <1>2, Two DEF RunsFrom, Target
<1>4. PICK s \in {"write", "set boot", "answer"} : GoTo(s)
  BY DEF BeginFirmware, EndFirmware, SetBoot
<1>5. req' \in Requests /\ req'.step # ""
  BY <1>1, <1>4, NextStep DEF GoTo
<1>6. CASE BeginFirmware \/ EndFirmware
  <2>1. PICK q \in {"good", "faulty", "partial"} : image' = [image EXCEPT ![Target] = q]
    BY <1>6 DEF BeginFirmware, EndFirmware
  <2>2. UNCHANGED <<ota_state, active, phase, running>>
    BY <1>6 DEF BeginFirmware, EndFirmware, boot
  <2>3. image' \in [Slots -> {"good", "faulty", "partial"}] /\ image'[running] = image[running]
    BY <1>1, <1>3, <2>1
  <2>4. running = active \/ (running = Other(active) /\ ota_state[active] = "new")
    BY <1>1, <1>2 DEF RunsFrom
  <2>5. Bootable' /\ RunsFrom'
    BY <1>1, <1>3, <2>2, <2>3, <2>4 DEF Bootable, RunsFrom, Works, Other
  <2> QED
    BY <1>1, <1>2, <1>5, <2>2, <2>3, <2>5 DEF BootInv
<1>7. CASE SetBoot
  <2>1. /\ ota_state' = [ota_state EXCEPT ![Target] = "new"] /\ active' = Target
        /\ UNCHANGED <<image, phase, running>>
    BY <1>7 DEF SetBoot, boot
  <2>2. /\ ota_state' \in [Slots -> {"new", "pending", "valid", "aborted"}]
        /\ ota_state'[running] = ota_state[running] /\ ota_state'[Target] = "new"
    BY <1>1, <1>3, <2>1
  <2>3. Target' = Target
    BY <2>1 DEF Target, Other
  <2>4. Bootable' /\ RunsFrom'
    BY <1>1, <1>3, <2>1, <2>2 DEF Bootable, RunsFrom, Works, Other
  <2> QED
    BY <1>1, <1>2, <1>3, <1>5, <2>1, <2>2, <2>4 DEF BootInv
<1> QED
  BY <1>6, <1>7

LEMMA StartKeepsBoot ==
  ASSUME BootInv, InitNvs \/ InitNext \/ Confirm
  PROVE  BootInv'
<1>1. CASE InitNvs
  BY <1>1 DEF InitNvs, BootInv, Bootable, RunsFrom, Works, Uploading, flash, http
<1>2. CASE InitNext
  <2>1. phase' = "confirm" => phase = "services"
    BY <1>2 DEF InitNext, Phases
  <2>2. phase # "off" /\ phase' \notin {"off", "up"}
    BY <1>2 DEF InitNext, Phases
  <2>3. UNCHANGED <<image, ota_state, active, running, req>>
    BY <1>2 DEF InitNext, flash, http
  <2>4. RunsFrom /\ (phase' = "confirm" => image[running] # "faulty")
    BY <1>2, <2>1, <2>2 DEF InitNext, Aborts, BootInv
  <2>5. image[running] \in {"good", "faulty", "partial"}
    <3>1. active \in Slots /\ Other(active) \in Slots
          /\ image \in [Slots -> {"good", "faulty", "partial"}]
      BY Two DEF BootInv
    <3>2. running \in {active, Other(active)}
      BY <2>4 DEF RunsFrom
    <3> QED
      BY <3>1, <3>2
  <2>6. RunsFrom'
    BY <2>2, <2>3, <2>4, <2>5 DEF RunsFrom, Works
  <2> QED
    BY <2>2, <2>3, <2>6 DEF BootInv, Bootable, Works, Uploading
<1>3. CASE Confirm
  <2>1. /\ ota_state' = [ota_state EXCEPT ![running] = IF @ = "pending" THEN "valid" ELSE @]
        /\ phase = "confirm" /\ phase' = "up"
        /\ UNCHANGED <<image, active, running, req>>
    BY <1>3 DEF Confirm, http
  <2>2. RunsFrom /\ image[running] = "good" /\ running \in Slots
        /\ active \in Slots /\ ota_state \in [Slots -> {"new", "pending", "valid", "aborted"}]
    BY <2>1, Two DEF BootInv, RunsFrom
  <2>3. /\ ota_state' \in [Slots -> {"new", "pending", "valid", "aborted"}]
        /\ ota_state[running] = "pending" => ota_state'[running] = "valid"
        /\ ota_state[running] # "pending" => ota_state' = ota_state
    BY <2>1, <2>2
  <2>4. Bootable' /\ RunsFrom'
    <3>1. CASE ota_state[running] = "pending"
      BY <2>1, <2>2, <2>3, <3>1 DEF Bootable, RunsFrom, Works, BootInv
    <3>2. CASE ota_state[running] # "pending"
      BY <2>1, <2>2, <2>3, <3>2 DEF Bootable, RunsFrom, Works, BootInv
    <3> QED
      BY <3>1, <3>2
  <2>5. ota_state'[running] # "pending"
    BY <2>3
  <2> QED
    BY <2>1, <2>3, <2>4, <2>5 DEF BootInv, Uploading
<1> QED
  BY <1>1, <1>2, <1>3

LEMMA BootStep == BootInv /\ ConfigInv /\ [ApplianceNext]_applianceVars => BootInv'
<1> SUFFICES ASSUME BootInv, ConfigInv, [ApplianceNext]_applianceVars PROVE BootInv'
  OBVIOUS
<1>1. CASE UNCHANGED applianceVars
  BY <1>1 DEF applianceVars, flash, boot, http, BootInv, Bootable, RunsFrom, Works,
              Uploading
<1>2. CASE StartUp
  BY <1>2, BootKeepsBoot, StartKeepsBoot, StopsAre, StopsKeepBoot DEF StartUp
<1>3. CASE DelayedRestart \/ PowerLoss \/ EraseInterrupted \/ ButtonReset
  BY <1>3, StopsAre, StopsKeepBoot
<1>4. CASE GnssRead
  <2>1. UNCHANGED <<image, ota_state, active, phase, running, req>>
    BY <1>4 DEF GnssRead, flash, http
  <2> QED
    BY <2>1, QuietBoot DEF Uploading, BootInv
<1>5. CASE GnssAborts
  BY <1>5, StopsAre, StopsKeepBoot
<1>6. CASE Handler
  BY <1>6, StopsAre, StopsKeepBoot, HandlerKeepsBoot, FirmwareKeepsBoot
     DEF Handler, Upload
<1> QED
  BY <1>1, <1>2, <1>3, <1>4, <1>5, <1>6 DEF ApplianceNext, GnssTask

\* Whatever was uploaded, wherever an upload stopped and however often power was
\* lost, one of the two images works and will be started.
THEOREM FallbackCorrect == ApplianceSpec => []FallbackExists
<1>1. ApplianceInit => BootInv
  BY IdleType DEF ApplianceInit, BootInv, Bootable, Works, Uploading, Slots, Idle
<1>2. BootInv => FallbackExists
  BY DEF BootInv, Bootable, Works, FallbackExists
<1> QED
  BY <1>1, <1>2, BootStep, ConfigInit, ConfigStep, PTL DEF ApplianceSpec
-----------------------------------------------------------------------------
(* Types.                                                                  *)

\* An item holds a value of its own kind, and so does all that a restart can
\* leave of it.
ValuesOk == \A i \in Items : nvs[i] \in Values(i) /\ may[i] \subseteq Values(i)
                             /\ nvs[i] \in may[i]

RestOk ==
    /\ www \in {"ok", "damaged"}
    /\ phase \in {"off"} \union {Phases[n] : n \in 1..9}
    /\ running \in Slots
    /\ gnss \in {"none", "created", "refused", "ready"}
    /\ restart_scheduled \in BOOLEAN
    /\ requests \in 0..MaxRequests
    /\ losses \in 0..MaxLosses

TypesInv == BootInv /\ ConfigInv /\ ValuesOk /\ RestOk

EachOwn(c) == \A i \in Items : c[i] \in Values(i)

LEMMA SettledValues ==
  ASSUME NEW c, Settled(c), EachOwn(c) PROVE ValuesOk'
<1>1. nvs' = c /\ \A i \in Items : may'[i] = {c[i]}
  BY DEF Settled
<1> QED
  BY <1>1 DEF ValuesOk, EachOwn, Values

LEMMA FixedValues == EachOwn(Default) /\ EachOwn(Erased)
<1>1. /\ Default["host"] = "h0" /\ Default["uart"] = "0" /\ Default["ap"] = "1"
      /\ Default["auth"] = "0" /\ Default["pass"] = "p0" /\ Default["sta"] = "0"
  BY DEF Default
<1>2. \A i \in Items : Erased[i] = "unset"
  BY DEF Erased
<1> QED
  BY <1>1, <1>2 DEF EachOwn, Values, Items

LEMMA RemainsValues ==
  ASSUME ValuesOk, NEW c \in Remains PROVE EachOwn(c)
<1>1. /\ c["host"] \in may["host"] /\ c["uart"] \in may["uart"] /\ c["ap"] \in may["ap"]
      /\ c["auth"] \in may["auth"] /\ c["pass"] \in may["pass"] /\ c["sta"] \in may["sta"]
  BY DEF Remains
<1> QED
  BY <1>1 DEF ValuesOk, EachOwn, Items

\* What is stored of a value is one of the item's.
LEMMA StoredKind ==
  ASSUME NEW i \in Items, NEW j \in Sayable(i), Accepted(i, j), j.v # Unchanged
  PROVE  j.v \in Values(i)
<1>1. CASE i = "pass"
  <2>1. j \in {Absent, Flag("0"), Text("p1"), Text(Unchanged)} /\ j.t = "text"
    BY <1>1 DEF Sayable, Accepted
  <2>2. Absent.t = "absent" /\ Flag("0").t = "bool" /\ Text("p1").v = "p1"
        /\ Text(Unchanged).v = Unchanged
    BY DEF Absent, Flag, Text
  <2> QED
    BY <1>1, <2>1, <2>2 DEF Values
<1>2. CASE i = "host"
  <2>1. j \in {Absent, Flag("0"), Text("h0"), Text("h1")} /\ j.t = "text"
    BY <1>2 DEF Sayable, Accepted
  <2>2. Absent.t = "absent" /\ Flag("0").t = "bool" /\ Text("h0").v = "h0"
        /\ Text("h1").v = "h1"
    BY DEF Absent, Flag, Text
  <2> QED
    BY <1>2, <2>1, <2>2 DEF Values
<1>3. CASE i \notin {"pass", "host"}
  BY <1>3 DEF Accepted, Values
<1> QED
  BY <1>1, <1>2, <1>3

LEMMA StopsKeepValues ==
  ASSUME ValuesOk, Restart \/ PowerLoss \/ EraseInterrupted \/ ButtonReset
  PROVE  ValuesOk'
<1>1. CASE Restart \/ PowerLoss
  BY <1>1 DEF Restart, PowerLoss, config, ValuesOk
<1>2. CASE EraseInterrupted
  <2>1. nvs' = nvs /\ may' = [i \in Items |-> may[i] \union {"unset"}]
    BY <1>2 DEF EraseInterrupted
  <2>2. ASSUME NEW i \in Items
        PROVE  nvs'[i] \in Values(i) /\ may'[i] \subseteq Values(i) /\ nvs'[i] \in may'[i]
    <3>1. nvs[i] \in Values(i) /\ may[i] \subseteq Values(i) /\ nvs[i] \in may[i]
      BY DEF ValuesOk
    <3>2. may'[i] = may[i] \union {"unset"} /\ "unset" \in Values(i)
      BY <2>1 DEF Values
    <3> QED
      BY <2>1, <3>1, <3>2
  <2> QED
    BY <2>2 DEF ValuesOk
<1>3. CASE ButtonReset
  BY <1>3, FixedValues, SettledValues DEF ButtonReset
<1> QED
  BY <1>1, <1>2, <1>3

LEMMA StoreKeepsValues ==
  ASSUME ConfigInv, ValuesOk, StoreItem PROVE ValuesOk'
<1>1. req.k \in DOMAIN Key
  BY DEF StoreItem
<1> DEFINE i == Item
<1>2. i \in Items
  BY <1>1, Keys DEF Item
<1>3. PICK j \in Sayable(i) : /\ Accepted(i, j) /\ j.v # Unchanged
                              /\ nvs' = [nvs EXCEPT ![i] = j.v]
                              /\ may' = [may EXCEPT ![i] = @ \union {j.v}]
  BY DEF StoreItem
<1> HIDE DEF i
<1>4. j.v \in Values(i)
  BY <1>2, <1>3, StoredKind
<1>5. nvs \in [Items -> Texts] /\ may \in [Items -> SUBSET Texts]
  BY DEF ConfigInv
<1>6. ASSUME NEW h \in Items
      PROVE  nvs'[h] \in Values(h) /\ may'[h] \subseteq Values(h) /\ nvs'[h] \in may'[h]
  <2>1. nvs[h] \in Values(h) /\ may[h] \subseteq Values(h) /\ nvs[h] \in may[h]
    BY <1>6 DEF ValuesOk
  <2>2. CASE h = i
    <3>1. nvs'[h] = j.v /\ may'[h] = may[h] \union {j.v}
      BY <1>3, <1>5, <1>6, <2>2
    <3> QED
      BY <1>4, <2>1, <2>2, <3>1
  <2>3. CASE h # i
    <3>1. nvs'[h] = nvs[h] /\ may'[h] = may[h]
      BY <1>3, <1>5, <1>6, <2>3
    <3> QED
      BY <2>1, <3>1
  <2> QED
    BY <2>2, <2>3
<1> QED
  BY <1>6 DEF ValuesOk

LEMMA ValuesStep ==
  ASSUME ConfigInv, ValuesOk, [ApplianceNext]_applianceVars PROVE ValuesOk'
<1>1. CASE UNCHANGED config
  BY <1>1 DEF config, ValuesOk
<1>2. CASE UNCHANGED applianceVars
  BY <1>1, <1>2 DEF applianceVars
<1>3. CASE StartUp
  <2>1. CASE InitNvs
    <3>1. PICK d \in Remains :
             Settled([i \in Items |-> IF d[i] = "unset" THEN Default[i] ELSE d[i]])
      BY <2>1 DEF InitNvs
    <3> DEFINE c == [i \in Items |-> IF d[i] = "unset" THEN Default[i] ELSE d[i]]
    <3>2. EachOwn(c)
      BY FixedValues, RemainsValues DEF EachOwn
    <3> HIDE DEF c
    <3>3. Settled(c)
      BY <3>1 DEF c
    <3> QED
      BY <3>2, <3>3, SettledValues
  <2>2. CASE Boot \/ InitNext \/ Confirm
    BY <1>1, <2>2 DEF Boot, InitNext, Confirm
  <2> QED
    BY <1>3, <2>1, <2>2, StopsKeepValues DEF StartUp, InitAborts
<1>4. CASE \/ DelayedRestart \/ PowerLoss \/ EraseInterrupted \/ ButtonReset
           \/ RequestAborts \/ GnssAborts
  BY <1>4, StopsKeepValues DEF DelayedRestart, RequestAborts, GnssAborts
<1>5. CASE StoreItem
  BY <1>5, StoreKeepsValues
<1>6. CASE Commit
  <2>1. Settled(nvs)
    BY <1>6 DEF Commit
  <2>2. EachOwn(nvs)
    BY DEF ValuesOk, EachOwn
  <2> QED
    BY <2>1, <2>2, SettledValues
<1>7. CASE FactoryReset
  BY <1>7, FixedValues, SettledValues DEF FactoryReset
<1>8. CASE \/ Request \/ Fails \/ ReceiveConfig \/ SkipItem \/ ItemFails \/ CommitFails
           \/ Upload \/ AnswerSent \/ AnswerLost \/ GnssRead
  BY <1>1, <1>8 DEF GnssRead, Request, Fails, ReceiveConfig, SkipItem, ItemFails, CommitFails, Upload,
     BeginFirmware, EndFirmware, SetBoot, BeginWww, EndWww, AnswerSent, AnswerLost
<1> QED
  BY <1>2, <1>3, <1>4, <1>5, <1>6, <1>7, <1>8
     DEF ApplianceNext, Handler, PostConfig, GnssTask

LEMMA PhaseNames ==
  /\ {Phases[n] : n \in 1..9} = {"nvs", "button", "wifi", "web", "buffer", "gnss",
                                 "services", "confirm", "up"}
  /\ Phases[3] = "wifi" /\ Phases[4] = "web" /\ Phases[5] = "buffer"
  /\ Phases[6] = "gnss" /\ Phases[7] = "services" /\ Phases[8] = "confirm"
<1>1. /\ Phases[1] = "nvs" /\ Phases[2] = "button" /\ Phases[3] = "wifi"
      /\ Phases[4] = "web" /\ Phases[5] = "buffer" /\ Phases[6] = "gnss"
      /\ Phases[7] = "services" /\ Phases[8] = "confirm" /\ Phases[9] = "up"
  BY DEF Phases
<1>2. 1..9 = {1, 2, 3, 4, 5, 6, 7, 8, 9}
  OBVIOUS
<1> QED
  BY <1>1, <1>2

LEMMA RestStep ==
  ASSUME BootInv, RestOk, [ApplianceNext]_applianceVars PROVE RestOk'
<1> USE BoundsAssumption
<1>1. CASE UNCHANGED <<www, phase, running, gnss, restart_scheduled, bounds>>
  BY <1>1 DEF RestOk, bounds
<1>2. CASE UNCHANGED applianceVars
  BY <1>1, <1>2 DEF applianceVars, flash, boot, http
<1>3. CASE Restart \/ PowerLoss \/ EraseInterrupted \/ ButtonReset
  <2>1. /\ phase' = "off" /\ gnss' = "none" /\ restart_scheduled' = FALSE
        /\ UNCHANGED <<www, running>>
    BY <1>3 DEF Restart, PowerLoss, EraseInterrupted, ButtonReset, Down, flash
  <2>2. /\ requests' = requests
        /\ \/ losses' = losses
           \/ losses < MaxLosses /\ losses' = losses + 1
    <3>1. CASE Restart
      BY <3>1 DEF Restart, bounds
    <3>2. CASE PowerLoss
      BY <3>2 DEF PowerLoss
    <3>3. CASE EraseInterrupted \/ ButtonReset
      BY <3>3 DEF EraseInterrupted, ButtonReset
    <3> QED
      BY <1>3, <3>1, <3>2, <3>3
  <2>3. requests' \in 0..MaxRequests /\ losses' \in 0..MaxLosses
    BY <2>2 DEF RestOk
  <2>4. phase' \in {"off"} \union {Phases[n] : n \in 1..9}
    BY <2>1
  <2>5. restart_scheduled' \in BOOLEAN
    BY <2>1
  <2> QED
    BY <2>1, <2>3, <2>4, <2>5 DEF RestOk
<1>4. CASE Boot
  <2>1. /\ phase' = "nvs" /\ running' = Picked
        /\ UNCHANGED <<www, gnss, restart_scheduled, requests, losses>>
    BY <1>4 DEF Boot, http, bounds
  <2>2. Picked \in Slots
    BY Two DEF BootInv, Picked
  <2> QED
    BY <2>1, <2>2, PhaseNames DEF RestOk
<1>5. CASE InitNvs \/ InitNext \/ Confirm
  <2>1. phase' \in {"button", "wifi", "web", "buffer", "gnss", "services", "confirm", "up"}
    <3>1. \A n \in 2..7 : n \in {2, 3, 4, 5, 6, 7} /\ n + 1 \in {3, 4, 5, 6, 7, 8}
      OBVIOUS
    <3> QED
      BY <1>5, <3>1, PhaseNames DEF InitNvs, InitNext, Confirm
  <2>2. UNCHANGED <<www, running, restart_scheduled, requests, losses>>
        /\ gnss' \in {gnss, "created"}
    BY <1>5 DEF InitNvs, InitNext, Confirm, flash, http, bounds
  <2> QED
    BY <2>1, <2>2, PhaseNames DEF RestOk
<1>6. CASE Request
  BY <1>6 DEF Request, RestOk, flash, boot
<1>7. CASE AnswerSent \/ AnswerLost
  <2>1. UNCHANGED <<www, phase, running, gnss, requests, losses>>
    BY <1>7 DEF AnswerSent, AnswerLost, flash, boot, bounds
  <2>2. restart_scheduled' \in {restart_scheduled, TRUE}
    BY <1>7 DEF AnswerSent, AnswerLost, Schedules
  <2>3. restart_scheduled' \in BOOLEAN
    BY <2>2 DEF RestOk
  <2> QED
    BY <2>1, <2>3 DEF RestOk
<1>8. CASE BeginWww \/ EndWww
  BY <1>8 DEF BeginWww, EndWww, RestOk, boot, bounds
<1>9. CASE \/ Fails \/ PostConfig \/ FactoryReset
           \/ BeginFirmware \/ EndFirmware \/ SetBoot
  BY <1>1, <1>9 DEF Fails, PostConfig, ReceiveConfig, SkipItem, StoreItem, ItemFails,
     Commit, CommitFails, FactoryReset, BeginFirmware, EndFirmware, SetBoot, flash, boot
<1>10. CASE GnssRead
  BY <1>10 DEF GnssRead, RestOk, flash, http, bounds
<1> QED
  BY <1>2, <1>3, <1>4, <1>5, <1>6, <1>7, <1>8, <1>9, <1>10
     DEF ApplianceNext, StartUp, GnssTask, Handler, Upload, InitAborts, DelayedRestart,
         PowerLoss, EraseInterrupted, ButtonReset, RequestAborts, GnssAborts, Restart

LEMMA TypesInitially == ApplianceInit => TypesInv
<1> SUFFICES ASSUME ApplianceInit PROVE TypesInv
  OBVIOUS
<1>1. BootInv
  BY IdleType DEF ApplianceInit, BootInv, Bootable, Works, Uploading, Slots, Idle
<1>2. ValuesOk
  <2>1. nvs = Default /\ \A i \in Items : may[i] = {Default[i]}
    BY DEF ApplianceInit
  <2> QED
    BY <2>1, FixedValues DEF ValuesOk, EachOwn
<1>3. RestOk
  <2>1. requests \in 0..MaxRequests /\ losses \in 0..MaxLosses
    BY BoundsAssumption DEF ApplianceInit
  <2>2. phase \in {"off"} \union {Phases[n] : n \in 1..9}
    BY DEF ApplianceInit
  <2>3. restart_scheduled \in BOOLEAN
    BY DEF ApplianceInit
  <2>4. running \in Slots /\ www \in {"ok", "damaged"} /\ gnss = "none"
    BY DEF ApplianceInit, Slots
  <2> QED
    BY <2>1, <2>2, <2>3, <2>4 DEF RestOk
<1> QED
  BY <1>1, <1>2, <1>3, ConfigInit DEF TypesInv

LEMMA TypesStep == TypesInv /\ [ApplianceNext]_applianceVars => TypesInv'
  BY BootStep, ConfigStep, ValuesStep, RestStep DEF TypesInv

LEMMA AllTypes == TypesInv => ApplianceTypeOK
<1> SUFFICES ASSUME TypesInv PROVE ApplianceTypeOK
  OBVIOUS
<1>1. /\ req.kind \in {"none", "config", "restart", "ota restart", "reset", "firmware",
                       "www"}
      /\ req.step \in {"", "receive", "items", "answer", "erase", "begin", "write",
                       "set boot"}
      /\ req.k \in 1..7
  BY DEF TypesInv, BootInv, Requests
<1>2. {req.error, req.whole, restart_scheduled} \subseteq BOOLEAN
  BY DEF TypesInv, BootInv, Requests, RestOk
<1> QED
  BY <1>1, <1>2 DEF TypesInv, BootInv, ValuesOk, RestOk, ApplianceTypeOK

\* Every item of the configuration keeps a value of its own kind through partial
\* writes, restarts and erasures, and slots, requests and start-up keep their
\* states (nvs_config.c, web_server.c, main.c).
THEOREM ApplianceTypeCorrect == ApplianceSpec => []ApplianceTypeOK
  BY TypesInitially, TypesStep, AllTypes, PTL DEF ApplianceSpec

\* The same and the types of WebText in the specification the runs check, where
\* a behaviour goes on with one of the two.
THEOREM TypeCorrect == MCSpec => []TypeOK
<1> DEFINE Both == TypesInv /\ TextInv /\ MoreTypes
<1>1. MCInit => Both
  BY TypesInitially, TextInitially, MoreTypesInitially DEF MCInit
<1>2. ASSUME Both, [MCNext]_mcVars PROVE Both'
  <2>1. [ApplianceNext]_applianceVars /\ [TextNext]_textVars
    BY <1>2 DEF MCNext, ApplianceMoves, TextMoves, mcVars
  <2> QED
    BY <1>2, <2>1, TypesStep, MoreTypesStep
<1>3. Both => TypeOK
  BY AllTypes, AllTextTypes DEF TypeOK
<1> QED
  BY <1>1, <1>2, <1>3, PTL DEF MCSpec

-----------------------------------------------------------------------------
(* The start.  With a fair boot loader, app_main and GNSS task this is why *)
(* the device comes up.                                                    *)

\* The slot this start is from, or the next one will be from.
ToRun == IF phase = "off" THEN Picked ELSE running

\* What stops this start, but not the next: what a factory reset left, and what
\* the UART has refused meanwhile.
Spoilt == (nvs = Erased /\ phase \notin {"off", "nvs"}) \/ gnss = "refused"

\* The starts that may still fail before one succeeds: this one for being spoilt,
\* and this one or the next for a faulty image.
Tries == (IF Spoilt THEN 2 ELSE 0) + (IF image[ToRun] = "faulty" THEN 1 ELSE 0)

\* What app_main and the GNSS task have still to do.
PhasesLeft ==
    CASE phase = "off"      -> 9
      [] phase = "nvs"      -> 8
      [] phase = "button"   -> 7
      [] phase = "wifi"     -> 6
      [] phase = "web"      -> 5
      [] phase = "buffer"   -> 4
      [] phase = "gnss"     -> 3
      [] phase = "services" -> 2
      [] phase = "confirm"  -> 1
      [] OTHER              -> 0

TaskLeft == CASE gnss = "none" -> 2 [] gnss = "created" -> 1 [] OTHER -> 0

StepsLeft == PhasesLeft + TaskLeft

\* When the device is off, the boot loader finds an image to start.  From there
\* each step of the start brings it nearer to its end, or gives up one of the
\* tries, unless the web partition is damaged or what was configured is refused.
StartProgress ==
    [][/\ phase = "off" => image[Picked] # "partial" /\ ota_state[Picked] # "aborted"
       /\ {Tries, StepsLeft} \subseteq Nat
       /\ StartUp \/ GnssTask =>
             \/ Tries' < Tries
             \/ Tries' = Tries /\ StepsLeft' < StepsLeft
             \/ phase = "web" /\ www = "damaged"
             \/ phase = "wifi" /\ (ApRefused \/ StaRefused)
             \/ gnss' = "refused" /\ UartRefused]_applianceVars

\* The boot loader always has something to start from.
LEMMA SomethingToBoot ==
  ASSUME BootInv
  PROVE  /\ image[Picked] # "partial" /\ ota_state[Picked] # "aborted"
         /\ image[Picked] = "faulty" => Picked = active /\ ota_state[active] = "new"
  BY Two DEF BootInv, Bootable, Works, Picked

LEMMA StepNumbers == {Tries, PhasesLeft, TaskLeft, StepsLeft} \subseteq Nat
<1>1. Tries \in Nat
  BY DEF Tries
<1>2. PhasesLeft \in Nat
  BY DEF PhasesLeft
<1>3. TaskLeft \in Nat
  BY DEF TaskLeft
<1> QED
  BY <1>1, <1>2, <1>3 DEF StepsLeft

\* A step onward from the same image, which is spoilt as it was.
LEMMA OnwardIsNearer ==
  ASSUME image'[ToRun'] = image[ToRun], StepsLeft' < StepsLeft, Spoilt' <=> Spoilt
  PROVE  Tries' = Tries /\ StepsLeft' < StepsLeft
  BY DEF Tries

\* One phase less, while the GNSS task stays where it is or is created.
LEMMA FewerPhases ==
  ASSUME PhasesLeft' < PhasesLeft,
         \/ gnss' = gnss
         \/ gnss = "none" /\ gnss' = "created"
  PROVE  StepsLeft' < StepsLeft
<1>1. {PhasesLeft, PhasesLeft', TaskLeft, TaskLeft'} \subseteq Nat
  <2>1. PhasesLeft \in Nat /\ PhasesLeft' \in Nat
    BY DEF PhasesLeft
  <2>2. TaskLeft \in Nat /\ TaskLeft' \in Nat
    BY DEF TaskLeft
  <2> QED
    BY <2>1, <2>2
<1>2. TaskLeft' = TaskLeft \/ (TaskLeft = 2 /\ TaskLeft' = 1)
  <2>1. CASE gnss' = gnss
    BY <2>1 DEF TaskLeft
  <2>2. CASE gnss = "none" /\ gnss' = "created"
    <3>1. TaskLeft = 2 /\ TaskLeft' = 1
      BY <2>2 DEF TaskLeft
    <3> QED
      BY <3>1
  <2> QED
    BY <2>1, <2>2
<1> QED
  BY <1>1, <1>2 DEF StepsLeft

LEMMA NextPhases ==
  ASSUME InitNext
  PROVE  /\ PhasesLeft' < PhasesLeft
         /\ phase \notin {"off", "nvs"} /\ phase' \notin {"off", "nvs"}
<1>1. \/ phase = "button" /\ phase' = "wifi"
      \/ phase = "wifi" /\ phase' = "web"
      \/ phase = "web" /\ phase' = "buffer"
      \/ phase = "buffer" /\ phase' = "gnss"
      \/ phase = "gnss" /\ phase' = "services"
      \/ phase = "services" /\ phase' = "confirm"
  <2>1. PICK n \in {2, 3, 4, 5, 6, 7} : phase = Phases[n] /\ phase' = Phases[n + 1]
    BY DEF InitNext
  <2> QED
    BY <2>1 DEF Phases
<1>2. CASE phase = "button" /\ phase' = "wifi"
  <2>1. PhasesLeft = 7 /\ PhasesLeft' = 6
    BY <1>2 DEF PhasesLeft
  <2> QED
    BY <1>2, <2>1
<1>3. CASE phase = "wifi" /\ phase' = "web"
  <2>1. PhasesLeft = 6 /\ PhasesLeft' = 5
    BY <1>3 DEF PhasesLeft
  <2> QED
    BY <1>3, <2>1
<1>4. CASE phase = "web" /\ phase' = "buffer"
  <2>1. PhasesLeft = 5 /\ PhasesLeft' = 4
    BY <1>4 DEF PhasesLeft
  <2> QED
    BY <1>4, <2>1
<1>5. CASE phase = "buffer" /\ phase' = "gnss"
  <2>1. PhasesLeft = 4 /\ PhasesLeft' = 3
    BY <1>5 DEF PhasesLeft
  <2> QED
    BY <1>5, <2>1
<1>6. CASE phase = "gnss" /\ phase' = "services"
  <2>1. PhasesLeft = 3 /\ PhasesLeft' = 2
    BY <1>6 DEF PhasesLeft
  <2> QED
    BY <1>6, <2>1
<1>7. CASE phase = "services" /\ phase' = "confirm"
  <2>1. PhasesLeft = 2 /\ PhasesLeft' = 1
    BY <1>7 DEF PhasesLeft
  <2> QED
    BY <1>7, <2>1
<1> QED
  BY <1>1, <1>2, <1>3, <1>4, <1>5, <1>6, <1>7

\* Before app_main comes to gnss_uart_init there is no GNSS task.
TaskInv == phase \in {"off", "nvs", "button", "wifi", "web", "buffer", "gnss"} => gnss = "none"

LEMMA TaskStep == TaskInv /\ [ApplianceNext]_applianceVars => TaskInv'
<1> SUFFICES ASSUME TaskInv, [ApplianceNext]_applianceVars PROVE TaskInv'
  OBVIOUS
<1>1. CASE UNCHANGED <<phase, gnss>>
  BY <1>1 DEF TaskInv
<1>2. CASE Down
  BY <1>2 DEF Down, TaskInv
<1>3. CASE Boot \/ InitNvs \/ Confirm
  BY <1>3 DEF Boot, InitNvs, Confirm, TaskInv
<1>4. CASE InitNext
  <2>1. PICK n \in {2, 3, 4, 5, 6, 7} : phase = Phases[n] /\ phase' = Phases[n + 1]
    BY <1>4 DEF InitNext
  <2>2. \/ phase = "gnss" /\ phase' = "services"
        \/ phase = "services" /\ phase' = "confirm"
        \/ phase \in {"button", "wifi", "web", "buffer"} /\ phase # "gnss"
    BY <2>1 DEF Phases
  <2> QED
    BY <1>4, <2>2 DEF InitNext, TaskInv
<1>5. CASE GnssRead
  BY <1>5 DEF GnssRead, TaskInv
<1>6. CASE UNCHANGED applianceVars
  BY <1>1, <1>6 DEF applianceVars, boot
<1>7. CASE \/ Request \/ Fails \/ PostConfig \/ FactoryReset \/ Upload
           \/ AnswerSent \/ AnswerLost
  BY <1>1, <1>7 DEF Request, Fails, PostConfig, ReceiveConfig, SkipItem, StoreItem, ItemFails,
     Commit, CommitFails, FactoryReset, Upload, BeginFirmware, EndFirmware, SetBoot, BeginWww,
     EndWww, AnswerSent, AnswerLost, boot
<1> QED
  BY <1>2, <1>3, <1>4, <1>5, <1>6, <1>7, StopsAre
     DEF ApplianceNext, StartUp, GnssTask, Handler

\* A start that is given up for its image, for NVS or for the UART leaves less to
\* try.
LEMMA AbortIsATry ==
  ASSUME BootInv, Restart, Spoilt \/ image[running] = "faulty", phase # "off"
  PROVE  Tries' < Tries
<1>1. phase' = "off" /\ gnss' = "none" /\ UNCHANGED <<image, ota_state, active, running>>
  BY DEF Restart, Down, flash
<1>2. Picked' = Picked /\ ToRun' = Picked /\ ToRun = running
  BY <1>1 DEF Picked, ToRun
<1>3. Tries' = IF image[Picked] = "faulty" THEN 1 ELSE 0
  <2>1. ~Spoilt'
    BY <1>1 DEF Spoilt
  <2>2. image'[ToRun'] = image[Picked]
    BY <1>1, <1>2
  <2> QED
    BY <2>1, <2>2 DEF Tries
<1>4. CASE Spoilt
  <2>1. Tries = 2 + (IF image[running] = "faulty" THEN 1 ELSE 0)
    BY <1>2, <1>4 DEF Tries
  <2> QED
    BY <1>3, <2>1
<1>5. CASE ~Spoilt
  <2>1. image[running] = "faulty" /\ RunsFrom
    BY <1>5 DEF BootInv
  <2>2. ota_state[active] = "pending"
    BY <2>1 DEF RunsFrom, Works
  <2>3. image[Picked] # "faulty"
    BY <2>2, SomethingToBoot
  <2>4. Tries = 1 /\ Tries' = 0
    BY <1>2, <1>3, <1>5, <2>1, <2>3 DEF Tries
  <2> QED
    BY <2>4
<1> QED
  BY <1>4, <1>5

LEMMA StartStep ==
  ASSUME BootInv, ConfigInv, TaskInv, StartUp \/ GnssTask
  PROVE  \/ Tries' < Tries
         \/ Tries' = Tries /\ StepsLeft' < StepsLeft
         \/ phase = "web" /\ www = "damaged"
         \/ phase = "wifi" /\ (ApRefused \/ StaRefused)
         \/ gnss' = "refused" /\ UartRefused
<1>1. CASE Boot
  <2>1. /\ phase = "off" /\ phase' = "nvs" /\ running' = Picked /\ image' = image
        /\ gnss' = gnss
    BY <1>1 DEF Boot
  <2>2. ToRun' = running' /\ ToRun = Picked
    BY <2>1 DEF ToRun
  <2>3. PhasesLeft = 9 /\ PhasesLeft' = 8
    BY <2>1 DEF PhasesLeft
  <2>4. PhasesLeft' < PhasesLeft
    BY <2>3
  <2>5. StepsLeft' < StepsLeft
    BY <2>1, <2>4, FewerPhases
  <2>6. Spoilt' <=> Spoilt
    BY <2>1 DEF Spoilt
  <2> QED
    BY <2>1, <2>2, <2>5, <2>6, OnwardIsNearer
<1>2. CASE InitNvs
  <2>1. /\ phase = "nvs" /\ phase' = "button" /\ running' = running /\ image' = image
        /\ gnss' = gnss
    BY <1>2 DEF InitNvs, flash
  <2>2. ToRun' = running /\ ToRun = running
    BY <2>1 DEF ToRun
  <2>3. nvs' # Erased
    <3>1. PICK c \in Remains :
             nvs' = [i \in Items |-> IF c[i] = "unset" THEN Default[i] ELSE c[i]]
      BY <1>2 DEF InitNvs, Settled
    <3>2. \A i \in Items : nvs'[i] # "unset"
      BY <3>1, DefaultType
    <3> QED
      BY <3>2, NotErased DEF Complete
  <2>4. PhasesLeft = 8 /\ PhasesLeft' = 7
    BY <2>1 DEF PhasesLeft
  <2>5. PhasesLeft' < PhasesLeft
    BY <2>4
  <2>6. StepsLeft' < StepsLeft
    BY <2>1, <2>5, FewerPhases
  <2>7. Spoilt' <=> Spoilt
    BY <2>1, <2>3 DEF Spoilt, Erased
  <2> QED
    BY <2>1, <2>2, <2>6, <2>7, OnwardIsNearer
<1>3. CASE InitNext
  <2>1. UNCHANGED <<nvs, image, running>>
        /\ gnss' = IF phase = "gnss" THEN "created" ELSE gnss
    BY <1>3 DEF InitNext, config, flash
  <2>2. ToRun' = running /\ ToRun = running
    BY <1>3, <2>1, NextPhases DEF ToRun
  <2>3. gnss' = gnss \/ (gnss = "none" /\ gnss' = "created")
    BY <2>1 DEF TaskInv
  <2>4. StepsLeft' < StepsLeft
    BY <1>3, <2>3, NextPhases, FewerPhases
  <2>5. Spoilt' <=> Spoilt
    BY <1>3, <2>1, <2>3, NextPhases DEF Spoilt, Erased
  <2> QED
    BY <1>3, <2>1, <2>2, <2>4, <2>5, OnwardIsNearer
<1>4. CASE InitAborts
  <2>1. Aborts /\ Restart
    BY <1>4 DEF InitAborts
  <2>2. CASE phase = "services" /\ (nvs = Erased \/ image[running] = "faulty")
    BY <2>1, <2>2, AbortIsATry DEF Spoilt
  <2> QED
    BY <2>1, <2>2 DEF Aborts
<1>5. CASE Confirm
  <2>1. /\ phase = "confirm" /\ phase' = "up" /\ gnss' = gnss
        /\ UNCHANGED <<nvs, image, running>>
    BY <1>5 DEF Confirm, config
  <2>2. ToRun' = running /\ ToRun = running
    BY <2>1 DEF ToRun
  <2>3. PhasesLeft = 1 /\ PhasesLeft' = 0
    BY <2>1 DEF PhasesLeft
  <2>4. PhasesLeft' < PhasesLeft
    BY <2>3
  <2>5. StepsLeft' < StepsLeft
    BY <2>1, <2>4, FewerPhases
  <2>6. Spoilt' <=> Spoilt
    BY <2>1 DEF Spoilt, Erased
  <2> QED
    BY <2>1, <2>2, <2>5, <2>6, OnwardIsNearer
<1>6. CASE GnssRead
  <2>1. /\ gnss = "created" /\ gnss' \in {"ready", "refused"}
        /\ UNCHANGED <<nvs, image, running, phase>>
        /\ gnss' = "refused" => UartRefused \/ nvs = Erased
    BY <1>6 DEF GnssRead, config, flash
  <2>2. phase \notin {"off", "nvs"}
    BY <2>1 DEF TaskInv
  <2>3. ToRun' = running /\ ToRun = running
    BY <2>1, <2>2 DEF ToRun
  <2>4. StepsLeft' < StepsLeft
    <3>1. TaskLeft = 1 /\ TaskLeft' = 0
      BY <2>1 DEF TaskLeft
    <3>2. PhasesLeft' = PhasesLeft /\ PhasesLeft \in Nat
      BY <2>1 DEF PhasesLeft
    <3> QED
      BY <3>1, <3>2 DEF StepsLeft
  <2>5. CASE ~UartRefused \/ gnss' # "refused"
    <3>1. gnss' = "refused" => nvs = Erased
      BY <2>1, <2>5
    <3>2. Spoilt' <=> Spoilt
      BY <2>1, <2>2, <3>1 DEF Spoilt, Erased
    <3> QED
      BY <2>1, <2>3, <2>4, <3>2, OnwardIsNearer
  <2> QED
    BY <2>5
<1>7. CASE GnssAborts
  <2>1. Restart /\ gnss = "refused" /\ phase # "off"
    BY <1>7 DEF GnssAborts, TaskInv
  <2> QED
    BY <2>1, AbortIsATry DEF Spoilt
<1> QED
  BY <1>1, <1>2, <1>3, <1>4, <1>5, <1>6, <1>7 DEF StartUp, GnssTask

\* The device is never without an image to start, and a start is tried again at
\* most once for a faulty image and once after a factory reset (main.c,
\* web_server.c): it comes up and reads from the receiver unless the web image is
\* damaged or Wi-Fi or the UART (wifi.c, gnss_uart.c) refuses what was configured,
\* for any requests and losses of power before.
THEOREM StartsSucceed == ApplianceSpec => StartProgress
<1>1. ApplianceInit => BootInv /\ TaskInv
  BY IdleType DEF ApplianceInit, BootInv, TaskInv, Bootable, Works, Uploading, Slots, Idle
<1>2. BootInv /\ ConfigInv /\ TaskInv /\ [ApplianceNext]_applianceVars =>
        [/\ phase = "off" => image[Picked] # "partial" /\ ota_state[Picked] # "aborted"
         /\ {Tries, StepsLeft} \subseteq Nat
         /\ StartUp \/ GnssTask =>
               \/ Tries' < Tries
               \/ Tries' = Tries /\ StepsLeft' < StepsLeft
               \/ phase = "web" /\ www = "damaged"
               \/ phase = "wifi" /\ (ApRefused \/ StaRefused)
               \/ gnss' = "refused" /\ UartRefused]_applianceVars
  BY SomethingToBoot, StepNumbers, StartStep
<1> QED
  BY <1>1, <1>2, BootStep, ConfigInit, ConfigStep, TaskStep, PTL
     DEF ApplianceSpec, StartProgress
=============================================================================
