---------------------------- MODULE NtripProofs ----------------------------
(***************************************************************************)
(* Proofs about the two NTRIP components, for any number of uplinks and    *)
(* rovers, passwords, queue depths, pieces per frame, patience and         *)
(* clients: NtripUplink first, then NtripCaster, and the two side by side  *)
(* as the runs have them.                                                  *)
(***************************************************************************)
EXTENDS MCNtrip, TLAPS

Record == [step : Steps, sock : BOOLEAN, f : 0..MaxFrames, sent : 0..Parts,
           retries : 0..RetryLimit, mask : SUBSET Uplinks]

Link   == [unread : BOOLEAN, answer : {"none", "success", "refusal"},
           peer : {"none", "open", "fin", "reset"}]
Piece  == [f : 0..MaxFrames, part : 0..Parts]

\* The locals of the task of u after a step of it.
Becomes(u, s, k, x, n, t, m) ==
    up' = [up EXCEPT ![u] = [step |-> s, sock |-> k, f |-> x, sent |-> n,
                             retries |-> t, mask |-> m]]

\* Only the step, and perhaps the socket, changes.
Turns(u, s, k) == Becomes(u, s, k, up[u].f, up[u].sent, up[u].retries, up[u].mask)

\* Whether a task has a connection follows from its step, and so does how far
\* it has come with a frame.
StepOk(r) ==
    /\ r.step \in {"set", "set store", "receive", "send", "peek"} => r.sock
    /\ r.step \in {"v2", "v2 reply", "v1", "v1 reply", "wait", "clear",
                   "clear store"} => ~r.sock
    /\ r.step = "send" => r.sent < Parts /\ r.f # 0
    /\ r.step \in {"v2", "v2 reply", "v1", "v1 reply", "wait", "set", "set store",
                   "receive", "peek"} => r.f = 0

StepInv == \A u \in Uplinks : StepOk(up[u])

IInv == UplinkTypeOK /\ StepInv

LEMMA UplinkSizes ==
  /\ QueueDepth \in Nat /\ QueueDepth > 0 /\ Parts \in Nat /\ Parts > 0
  /\ RetryLimit \in Nat /\ MaxFrames \in Nat /\ MaxConns \in Nat
  BY UplinkAssumption

-----------------------------------------------------------------------------
(* What the steps of a task do to its locals.                              *)

LEMMA WithStep ==
  ASSUME NEW r \in Record, NEW s, NEW k, NEW q,
         q = [r EXCEPT !.step = s, !.sock = k]
  PROVE  q = [step |-> s, sock |-> k, f |-> r.f, sent |-> r.sent,
              retries |-> r.retries, mask |-> r.mask]
  BY DEF Record

LEMMA WithMask ==
  ASSUME NEW r \in Record, NEW s, NEW m, NEW q,
         q = [r EXCEPT !.mask = m, !.step = s]
  PROVE  q = [step |-> s, sock |-> r.sock, f |-> r.f, sent |-> r.sent,
              retries |-> r.retries, mask |-> m]
  BY DEF Record

LEMMA WithFrame ==
  ASSUME NEW r \in Record, NEW s, NEW x, NEW q,
         q = [r EXCEPT !.f = x, !.sent = 0, !.retries = 0, !.step = s]
  PROVE  q = [step |-> s, sock |-> r.sock, f |-> x, sent |-> 0,
              retries |-> 0, mask |-> r.mask]
  BY DEF Record

LEMMA WithPart ==
  ASSUME NEW r \in Record, NEW s, NEW n, NEW q,
         q = [r EXCEPT !.sent = n, !.retries = 0, !.step = s]
  PROVE  q = [step |-> s, sock |-> r.sock, f |-> r.f, sent |-> n,
              retries |-> 0, mask |-> r.mask]
  BY DEF Record

LEMMA WithRetries ==
  ASSUME NEW r \in Record, NEW t, NEW q, q = [r EXCEPT !.retries = t]
  PROVE  q = [step |-> r.step, sock |-> r.sock, f |-> r.f, sent |-> r.sent,
              retries |-> t, mask |-> r.mask]
  BY DEF Record

LEMMA UpType == ASSUME UplinkTypeOK PROVE up \in [Uplinks -> Record]
  BY DEF UplinkTypeOK, Record

LEMMA Going ==
  ASSUME UplinkTypeOK, NEW u \in Uplinks, NEW s, GoTo(u, s)
  PROVE  Turns(u, s, up[u].sock)
<1> DEFINE q == [up[u] EXCEPT !.step = s, !.sock = up[u].sock]
<1>1. up[u] \in Record
  BY UpType
<1>2. up[u].sock = up[u].sock /\ [up[u] EXCEPT !.step = s] = q
  BY <1>1 DEF Record
<1>3. up' = [up EXCEPT ![u] = q]
  BY <1>2 DEF GoTo
<1> HIDE DEF q
<1>4. q = [step |-> s, sock |-> up[u].sock, f |-> up[u].f, sent |-> up[u].sent,
           retries |-> up[u].retries, mask |-> up[u].mask]
  BY <1>1, WithStep DEF q
<1> QED
  BY <1>3, <1>4 DEF Turns, Becomes

LEMMA Locals ==
  ASSUME UplinkTypeOK, NEW u \in Uplinks
  PROVE  /\ Open(u) => Turns(u, IF At(u, "v2") THEN "v2 reply" ELSE "v1 reply", up[u].sock)
         /\ OpenFails(u) \/ NotAccepted(u) => Turns(u, Otherwise(u), up[u].sock)
         /\ Accepted(u) => Turns(u, "set", TRUE)
         /\ Wait(u) => Turns(u, "v2", up[u].sock)
         /\ LoadMask(u) => Becomes(u, IF At(u, "set") THEN "set store" ELSE "clear store",
                              up[u].sock, up[u].f, up[u].sent, up[u].retries, connected_mask)
         /\ StoreMask(u) => Becomes(u, IF At(u, "set store") THEN "receive"
                                       ELSE IF up[u].f # 0 THEN "release" ELSE "v2",
                              up[u].sock, up[u].f, up[u].sent, up[u].retries, {})
         /\ Take(u) => Becomes(u, "send", up[u].sock, Head(queue[u]), 0, 0, up[u].mask)
         /\ TakeNothing(u) => Turns(u, "peek", up[u].sock)
         /\ SendPart(u) => Becomes(u, IF up[u].sent + 1 = Parts THEN "release" ELSE "send",
                              up[u].sock, up[u].f, up[u].sent + 1, 0, up[u].mask)
         /\ SendAgain(u) => Becomes(u, up[u].step, up[u].sock, up[u].f, up[u].sent,
                              up[u].retries + 1, up[u].mask)
         /\ Close(u) => Turns(u, "clear", FALSE)
         /\ Release(u) => Becomes(u, IF up[u].sock THEN "peek" ELSE "v2", up[u].sock,
                              0, 0, 0, up[u].mask)
<1>1. up[u] \in Record
  BY UpType
<1>2. Open(u) => Turns(u, IF At(u, "v2") THEN "v2 reply" ELSE "v1 reply", up[u].sock)
  BY Going DEF Open
<1>3. OpenFails(u) \/ NotAccepted(u) => Turns(u, Otherwise(u), up[u].sock)
  BY Going DEF OpenFails, NotAccepted
<1>4. Accepted(u) => Turns(u, "set", TRUE)
  <2> SUFFICES ASSUME Accepted(u) PROVE Turns(u, "set", TRUE)
    OBVIOUS
  <2> DEFINE q == [up[u] EXCEPT !.step = "set", !.sock = TRUE]
  <2>1. up' = [up EXCEPT ![u] = q]
    BY DEF Accepted
  <2> HIDE DEF q
  <2> QED
    BY <1>1, <2>1, WithStep DEF q, Turns, Becomes
<1>5. Wait(u) => Turns(u, "v2", up[u].sock)
  BY Going DEF Wait
<1>6. LoadMask(u) => Becomes(u, IF At(u, "set") THEN "set store" ELSE "clear store",
                       up[u].sock, up[u].f, up[u].sent, up[u].retries, connected_mask)
  <2> SUFFICES ASSUME LoadMask(u)
               PROVE  Becomes(u, IF At(u, "set") THEN "set store" ELSE "clear store",
                       up[u].sock, up[u].f, up[u].sent, up[u].retries, connected_mask)
    OBVIOUS
  <2> DEFINE s == IF At(u, "set") THEN "set store" ELSE "clear store"
             q == [up[u] EXCEPT !.mask = connected_mask, !.step = s]
  <2>1. up' = [up EXCEPT ![u] = q]
    BY DEF LoadMask
  <2> HIDE DEF q, s
  <2>2. Becomes(u, s, up[u].sock, up[u].f, up[u].sent, up[u].retries, connected_mask)
    BY <1>1, <2>1, WithMask DEF q, Becomes
  <2> QED
    BY <2>2 DEF s
<1>7. StoreMask(u) => Becomes(u, IF At(u, "set store") THEN "receive"
                                 ELSE IF up[u].f # 0 THEN "release" ELSE "v2",
                       up[u].sock, up[u].f, up[u].sent, up[u].retries, {})
  <2> DEFINE s == IF At(u, "set store") THEN "receive"
                  ELSE IF up[u].f # 0 THEN "release" ELSE "v2"
             q == [up[u] EXCEPT !.mask = {}, !.step = s]
  <2> SUFFICES ASSUME StoreMask(u)
               PROVE  Becomes(u, s, up[u].sock, up[u].f, up[u].sent, up[u].retries, {})
    OBVIOUS
  <2>1. up' = [up EXCEPT ![u] = q]
    BY DEF StoreMask
  <2> HIDE DEF q, s
  <2> QED
    BY <1>1, <2>1, WithMask DEF q, Becomes
<1>8. Take(u) => Becomes(u, "send", up[u].sock, Head(queue[u]), 0, 0, up[u].mask)
  <2> SUFFICES ASSUME Take(u)
               PROVE  Becomes(u, "send", up[u].sock, Head(queue[u]), 0, 0, up[u].mask)
    OBVIOUS
  <2> DEFINE x == Head(queue[u])
             q == [up[u] EXCEPT !.f = x, !.sent = 0, !.retries = 0, !.step = "send"]
  <2>1. up' = [up EXCEPT ![u] = q]
    BY DEF Take
  <2> HIDE DEF q, x
  <2>2. Becomes(u, "send", up[u].sock, x, 0, 0, up[u].mask)
    BY <1>1, <2>1, WithFrame DEF q, Becomes
  <2> QED
    BY <2>2 DEF x
<1>9. TakeNothing(u) => Turns(u, "peek", up[u].sock)
  BY Going DEF TakeNothing
<1>10. SendPart(u) => Becomes(u, IF up[u].sent + 1 = Parts THEN "release" ELSE "send",
                        up[u].sock, up[u].f, up[u].sent + 1, 0, up[u].mask)
  <2> DEFINE s == IF up[u].sent + 1 = Parts THEN "release" ELSE "send"
             n == up[u].sent + 1
             q == [up[u] EXCEPT !.sent = n, !.retries = 0, !.step = s]
  <2> SUFFICES ASSUME SendPart(u)
               PROVE  Becomes(u, s, up[u].sock, up[u].f, n, 0, up[u].mask)
    OBVIOUS
  <2>1. up' = [up EXCEPT ![u] = q]
    BY DEF SendPart
  <2> HIDE DEF q, s, n
  <2> QED
    BY <1>1, <2>1, WithPart DEF q, Becomes
<1>11. SendAgain(u) => Becomes(u, up[u].step, up[u].sock, up[u].f, up[u].sent,
                         up[u].retries + 1, up[u].mask)
  <2> DEFINE n == up[u].retries + 1
             q == [up[u] EXCEPT !.retries = n]
  <2> SUFFICES ASSUME SendAgain(u)
               PROVE  Becomes(u, up[u].step, up[u].sock, up[u].f, up[u].sent, n, up[u].mask)
    OBVIOUS
  <2>1. up' = [up EXCEPT ![u] = q]
    BY DEF SendAgain
  <2> HIDE DEF q, n
  <2> QED
    BY <1>1, <2>1, WithRetries DEF q, Becomes
<1>12. Close(u) => Turns(u, "clear", FALSE)
  <2> SUFFICES ASSUME Close(u) PROVE Turns(u, "clear", FALSE)
    OBVIOUS
  <2> DEFINE q == [up[u] EXCEPT !.sock = FALSE, !.step = "clear"]
  <2>1. up' = [up EXCEPT ![u] = q]
    BY DEF Close
  <2>2. q = [up[u] EXCEPT !.step = "clear", !.sock = FALSE]
    BY <1>1 DEF Record
  <2> HIDE DEF q
  <2> QED
    BY <1>1, <2>1, <2>2, WithStep DEF Turns, Becomes
<1>13. Release(u) => Becomes(u, IF up[u].sock THEN "peek" ELSE "v2", up[u].sock,
                       0, 0, 0, up[u].mask)
  <2> DEFINE s == IF up[u].sock THEN "peek" ELSE "v2"
             q == [up[u] EXCEPT !.f = 0, !.sent = 0, !.retries = 0, !.step = s]
  <2> SUFFICES ASSUME Release(u) PROVE Becomes(u, s, up[u].sock, 0, 0, 0, up[u].mask)
    OBVIOUS
  <2>1. up' = [up EXCEPT ![u] = q]
    BY DEF Release
  <2> HIDE DEF q, s
  <2> QED
    BY <1>1, <2>1, WithFrame DEF q, Becomes
<1> QED
  BY <1>2, <1>3, <1>4, <1>5, <1>6, <1>7, <1>8, <1>9, <1>10, <1>11, <1>12, <1>13

\* What Becomes says of each field and of the other tasks.
LEMMA Changed ==
  ASSUME UplinkTypeOK, NEW u \in Uplinks, NEW s \in Steps, NEW k \in BOOLEAN,
         NEW x \in 0..MaxFrames, NEW n \in 0..Parts, NEW t \in 0..RetryLimit,
         NEW m \in SUBSET Uplinks, Becomes(u, s, k, x, n, t, m)
  PROVE  /\ up' \in [Uplinks -> Record]
         /\ up'[u].step = s /\ up'[u].sock = k /\ up'[u].f = x
         /\ up'[u].sent = n /\ up'[u].retries = t /\ up'[u].mask = m
         /\ \A v \in Uplinks : v # u => up'[v] = up[v]
  BY DEF UplinkTypeOK, Becomes, Record

\* What the steps leave in the fields that the invariants are about.
Moves(u, s, k, x, n) ==
    /\ up'[u].step = s /\ up'[u].sock = k /\ up'[u].f = x /\ up'[u].sent = n
    /\ \A v \in Uplinks : v # u => up'[v] = up[v]

LEMMA Fields ==
  ASSUME UplinkTypeOK, NEW u \in Uplinks, NEW s, NEW k, NEW x, NEW n, NEW t, NEW m,
         Becomes(u, s, k, x, n, t, m)
  PROVE  Moves(u, s, k, x, n) /\ up'[u].mask = m
<1>1. up \in [Uplinks -> Record]
  BY UpType
<1> QED
  BY <1>1 DEF Becomes, Moves

LEMMA FieldsOfTurn ==
  ASSUME UplinkTypeOK, NEW u \in Uplinks, NEW s, NEW k, Turns(u, s, k)
  PROVE  Moves(u, s, k, up[u].f, up[u].sent)
  BY Fields DEF Turns

LEMMA AfterStep ==
  ASSUME UplinkTypeOK, NEW u \in Uplinks
  PROVE  /\ Open(u) => Moves(u, IF At(u, "v2") THEN "v2 reply" ELSE "v1 reply",
                             up[u].sock, up[u].f, up[u].sent)
         /\ OpenFails(u) \/ NotAccepted(u) =>
                Moves(u, Otherwise(u), up[u].sock, up[u].f, up[u].sent)
         /\ Accepted(u) => Moves(u, "set", TRUE, up[u].f, up[u].sent)
         /\ Wait(u) => Moves(u, "v2", up[u].sock, up[u].f, up[u].sent)
         /\ LoadMask(u) => /\ Moves(u, IF At(u, "set") THEN "set store" ELSE "clear store",
                                    up[u].sock, up[u].f, up[u].sent)
                           /\ up'[u].mask = connected_mask
         /\ StoreMask(u) => Moves(u, IF At(u, "set store") THEN "receive"
                                     ELSE IF up[u].f # 0 THEN "release" ELSE "v2",
                                  up[u].sock, up[u].f, up[u].sent)
         /\ Take(u) => Moves(u, "send", up[u].sock, Head(queue[u]), 0)
         /\ TakeNothing(u) => Moves(u, "peek", up[u].sock, up[u].f, up[u].sent)
         /\ SendPart(u) => Moves(u, IF up[u].sent + 1 = Parts THEN "release" ELSE "send",
                                 up[u].sock, up[u].f, up[u].sent + 1)
         /\ SendAgain(u) => Moves(u, up[u].step, up[u].sock, up[u].f, up[u].sent)
         /\ Close(u) => Moves(u, "clear", FALSE, up[u].f, up[u].sent)
         /\ Release(u) => Moves(u, IF up[u].sock THEN "peek" ELSE "v2", up[u].sock, 0, 0)
<1> DEFINE open  == IF At(u, "v2") THEN "v2 reply" ELSE "v1 reply"
           load  == IF At(u, "set") THEN "set store" ELSE "clear store"
           store == IF At(u, "set store") THEN "receive"
                    ELSE IF up[u].f # 0 THEN "release" ELSE "v2"
           send  == IF up[u].sent + 1 = Parts THEN "release" ELSE "send"
           give  == IF up[u].sock THEN "peek" ELSE "v2"
<1>1. /\ Open(u) => Turns(u, open, up[u].sock)
      /\ OpenFails(u) \/ NotAccepted(u) => Turns(u, Otherwise(u), up[u].sock)
      /\ Accepted(u) => Turns(u, "set", TRUE)
      /\ Wait(u) => Turns(u, "v2", up[u].sock)
      /\ TakeNothing(u) => Turns(u, "peek", up[u].sock)
      /\ Close(u) => Turns(u, "clear", FALSE)
  BY Locals
<1>2. /\ LoadMask(u) => Becomes(u, load, up[u].sock, up[u].f, up[u].sent,
                                up[u].retries, connected_mask)
      /\ StoreMask(u) => Becomes(u, store, up[u].sock, up[u].f, up[u].sent,
                                 up[u].retries, {})
      /\ Take(u) => Becomes(u, "send", up[u].sock, Head(queue[u]), 0, 0, up[u].mask)
      /\ SendPart(u) => Becomes(u, send, up[u].sock, up[u].f, up[u].sent + 1, 0, up[u].mask)
      /\ SendAgain(u) => Becomes(u, up[u].step, up[u].sock, up[u].f, up[u].sent,
                                 up[u].retries + 1, up[u].mask)
      /\ Release(u) => Becomes(u, give, up[u].sock, 0, 0, 0, up[u].mask)
  BY Locals
<1> HIDE DEF open, load, store, send, give
<1>3. /\ Open(u) => Moves(u, open, up[u].sock, up[u].f, up[u].sent)
      /\ OpenFails(u) \/ NotAccepted(u) =>
             Moves(u, Otherwise(u), up[u].sock, up[u].f, up[u].sent)
      /\ Accepted(u) => Moves(u, "set", TRUE, up[u].f, up[u].sent)
      /\ Wait(u) => Moves(u, "v2", up[u].sock, up[u].f, up[u].sent)
      /\ TakeNothing(u) => Moves(u, "peek", up[u].sock, up[u].f, up[u].sent)
      /\ Close(u) => Moves(u, "clear", FALSE, up[u].f, up[u].sent)
  BY <1>1, FieldsOfTurn
<1>4. /\ LoadMask(u) => /\ Moves(u, load, up[u].sock, up[u].f, up[u].sent)
                        /\ up'[u].mask = connected_mask
      /\ StoreMask(u) => Moves(u, store, up[u].sock, up[u].f, up[u].sent)
      /\ Take(u) => Moves(u, "send", up[u].sock, Head(queue[u]), 0)
      /\ SendPart(u) => Moves(u, send, up[u].sock, up[u].f, up[u].sent + 1)
      /\ SendAgain(u) => Moves(u, up[u].step, up[u].sock, up[u].f, up[u].sent)
      /\ Release(u) => Moves(u, give, up[u].sock, 0, 0)
  BY <1>2, Fields
<1> QED
  BY <1>3, <1>4 DEF open, load, store, send, give

LEMMA AfterGoTo ==
  ASSUME UplinkTypeOK, NEW u \in Uplinks, NEW s, GoTo(u, s)
  PROVE  Moves(u, s, up[u].sock, up[u].f, up[u].sent)
  BY Going, FieldsOfTurn
-----------------------------------------------------------------------------
(* Types.                                                                  *)

LEMMA InitType == UplinkInit => IInv
<1> SUFFICES ASSUME UplinkInit PROVE IInv
  OBVIOUS
<1> USE UplinkSizes
<1>1. queue \in [Uplinks -> Seq(1..MaxFrames)]
  <2>1. <<>> \in Seq(1..MaxFrames)
    OBVIOUS
  <2> QED
    BY <2>1 DEF UplinkInit
<1>2. up \in [Uplinks -> Record]
  BY DEF UplinkInit, Record, Steps
<1>3. link \in [Uplinks -> [unread : BOOLEAN, answer : {"none", "success", "refusal"},
                            peer : {"none", "open", "fin", "reset"}]]
  BY DEF UplinkInit, NoLink
<1>4. out \in [Uplinks -> [f : 0..MaxFrames, part : 0..Parts]]
  BY DEF UplinkInit
<1>5. StepInv
  BY DEF UplinkInit, StepInv, StepOk
<1>6. published \in 0..MaxFrames /\ opened \in 0..MaxConns /\ raced \subseteq Uplinks
      /\ connected_mask \subseteq Uplinks
  BY DEF UplinkInit
<1> QED
  BY <1>1, <1>2, <1>3, <1>4, <1>5, <1>6 DEF IInv, UplinkTypeOK, Record

\* All but the locals.
RestType ==
    /\ published \in 0..MaxFrames
    /\ queue \in [Uplinks -> Seq(1..MaxFrames)]
    /\ connected_mask \subseteq Uplinks
    /\ opened \in 0..MaxConns
    /\ link \in [Uplinks -> Link]
    /\ out \in [Uplinks -> Piece]
    /\ raced \subseteq Uplinks

LEMMA TwoParts == UplinkTypeOK <=> RestType /\ up \in [Uplinks -> Record]
  BY DEF UplinkTypeOK, RestType, Record, Link, Piece

\* A step of u keeps IInv if its own locals are well-formed after it.
LEMMA OneChanges ==
  ASSUME IInv, RestType', NEW u \in Uplinks, NEW s \in Steps, NEW k \in BOOLEAN,
         NEW x \in 0..MaxFrames, NEW n \in 0..Parts, NEW t \in 0..RetryLimit,
         NEW m \in SUBSET Uplinks, Becomes(u, s, k, x, n, t, m),
         StepOk([step |-> s, sock |-> k, f |-> x, sent |-> n, retries |-> t,
                 mask |-> m])
  PROVE  IInv'
<1>1. /\ up' \in [Uplinks -> Record]
      /\ \A v \in Uplinks : v # u => up'[v] = up[v]
  BY Changed DEF IInv
<1>2. up'[u] = [step |-> s, sock |-> k, f |-> x, sent |-> n, retries |-> t,
                mask |-> m]
  BY DEF Becomes, IInv, UplinkTypeOK
<1>3. StepInv'
  BY <1>1, <1>2 DEF IInv, StepInv
<1>4. UplinkTypeOK'
  BY <1>1 DEF RestType, UplinkTypeOK, Record, Link, Piece
<1> QED
  BY <1>3, <1>4 DEF IInv

\* The fields of the locals.
LEMMA FieldTypes ==
  ASSUME UplinkTypeOK, NEW u \in Uplinks
  PROVE  /\ up[u].step \in Steps /\ up[u].sock \in BOOLEAN /\ up[u].f \in 0..MaxFrames
         /\ up[u].sent \in 0..Parts /\ up[u].retries \in 0..RetryLimit
         /\ up[u].mask \in SUBSET Uplinks
  BY DEF UplinkTypeOK

\* The step was all that counted.
LEMMA OneTurns ==
  ASSUME IInv, RestType', NEW u \in Uplinks, NEW s \in Steps, NEW k \in BOOLEAN,
         Turns(u, s, k),
         s \in {"set", "set store", "receive", "peek"} => k /\ up[u].f = 0,
         s \in {"v2", "v2 reply", "v1", "v1 reply", "wait"} => ~k /\ up[u].f = 0,
         s \in {"clear", "clear store"} => ~k,
         s # "send"
  PROVE  IInv'
<1>1. StepOk([step |-> s, sock |-> k, f |-> up[u].f, sent |-> up[u].sent,
              retries |-> up[u].retries, mask |-> up[u].mask])
  BY DEF StepOk
<1> QED
  BY <1>1, FieldTypes, OneChanges DEF Turns, IInv

LEMMA LinkTypes ==
  ASSUME UplinkTypeOK, NEW u \in Uplinks
  PROVE  /\ [link EXCEPT ![u] = NoLink] \in [Uplinks -> Link]
         /\ [link EXCEPT ![u] = [NoLink EXCEPT !.peer = "open"]] \in [Uplinks -> Link]
         /\ [link EXCEPT ![u].answer = "none"] \in [Uplinks -> Link]
         /\ [out EXCEPT ![u].part = 0] \in [Uplinks -> Piece]
<1>1. link \in [Uplinks -> Link] /\ out \in [Uplinks -> Piece]
  BY DEF UplinkTypeOK, Link, Piece
<1>2. NoLink \in Link /\ [NoLink EXCEPT !.peer = "open"] \in Link
  BY DEF NoLink, Link
<1>3. [link[u] EXCEPT !.answer = "none"] \in Link
  BY <1>1 DEF Link
<1>4. [out[u] EXCEPT !.part = 0] \in Piece
  BY <1>1, UplinkSizes DEF Piece
<1> QED
  BY <1>1, <1>2, <1>3, <1>4

LEMMA ConnectType ==
  ASSUME IInv, NEW u \in Uplinks,
         \/ Open(u) \/ OpenFails(u) \/ Accepted(u) \/ NotAccepted(u) \/ Wait(u)
  PROVE  IInv'
<1>1. StepOk(up[u]) /\ UplinkTypeOK /\ RestType
  BY TwoParts DEF IInv, StepInv
<1>2. CASE Open(u)
  <2>1. Turns(u, IF At(u, "v2") THEN "v2 reply" ELSE "v1 reply", up[u].sock)
    BY <1>1, <1>2, Locals
  <2>2. opened' \in 0..MaxConns
    <3>1. opened \in 0..MaxConns /\ opened < MaxConns /\ opened' = opened + 1
      BY <1>1, <1>2 DEF Open, RestType
    <3> QED
      BY <3>1, UplinkSizes
  <2>3. ~up[u].sock /\ up[u].f = 0
    BY <1>1, <1>2 DEF Open, StepOk
  <2>4. RestType'
    BY <1>1, <1>2, <2>2, LinkTypes DEF Open, RestType
  <2> QED
    BY <1>1, <2>1, <2>3, <2>4, OneTurns, FieldTypes DEF Steps
<1>3. CASE OpenFails(u)
  <2>1. Turns(u, Otherwise(u), up[u].sock) /\ Otherwise(u) \in {"v1", "wait"}
    BY <1>1, <1>3, Locals DEF Otherwise
  <2>2. ~up[u].sock /\ up[u].f = 0
    BY <1>1, <1>3 DEF OpenFails, StepOk
  <2>3. RestType'
    BY <1>1, <1>3 DEF OpenFails, RestType
  <2> QED
    BY <1>1, <2>1, <2>2, <2>3, OneTurns, FieldTypes DEF Steps
<1>4. CASE Accepted(u)
  <2>1. Turns(u, "set", TRUE)
    BY <1>1, <1>4, Locals
  <2>2. up[u].f = 0
    BY <1>1, <1>4 DEF Accepted, StepOk
  <2>3. RestType'
    BY <1>1, <1>4, LinkTypes DEF Accepted, RestType
  <2> QED
    BY <2>1, <2>2, <2>3, OneTurns DEF Steps
<1>5. CASE NotAccepted(u)
  <2>1. Turns(u, Otherwise(u), up[u].sock) /\ Otherwise(u) \in {"v1", "wait"}
    BY <1>1, <1>5, Locals DEF Otherwise
  <2>2. ~up[u].sock /\ up[u].f = 0
    BY <1>1, <1>5 DEF NotAccepted, StepOk
  <2>3. RestType'
    BY <1>1, <1>5, LinkTypes DEF NotAccepted, HangUp, RestType
  <2> QED
    BY <1>1, <2>1, <2>2, <2>3, OneTurns, FieldTypes DEF Steps
<1>6. CASE Wait(u)
  <2>1. Turns(u, "v2", up[u].sock)
    BY <1>1, <1>6, Locals
  <2>2. ~up[u].sock /\ up[u].f = 0
    BY <1>1, <1>6 DEF Wait, At, StepOk
  <2>3. RestType'
    BY <1>1, <1>6 DEF Wait, RestType
  <2> QED
    BY <1>1, <2>1, <2>2, <2>3, OneTurns, FieldTypes DEF Steps
<1> QED
  BY <1>2, <1>3, <1>4, <1>5, <1>6

LEMMA PublishType == ASSUME IInv, Publish PROVE IInv'
<1>1. published' \in 1..MaxFrames
  BY UplinkSizes DEF IInv, UplinkTypeOK, Publish
<1>2. queue' \in [Uplinks -> Seq(1..MaxFrames)]
  <2>1. \A u \in Uplinks : queue[u] \in Seq(1..MaxFrames)
    BY DEF IInv, UplinkTypeOK
  <2>2. \A u \in Uplinks : Append(queue[u], published') \in Seq(1..MaxFrames)
    BY <1>1, <2>1
  <2> QED
    BY <2>1, <2>2 DEF Publish
<1>3. UNCHANGED <<connected_mask, up, opened, link, out, raced>>
  BY DEF Publish
<1> QED
  BY <1>1, <1>2, <1>3 DEF IInv, UplinkTypeOK, StepInv
LEMMA MaskType ==
  ASSUME IInv, NEW u \in Uplinks, LoadMask(u) \/ StoreMask(u)
  PROVE  IInv'
<1>1. StepOk(up[u]) /\ UplinkTypeOK /\ RestType
  BY TwoParts DEF IInv, StepInv
<1>2. CASE LoadMask(u)
  <2> DEFINE s == IF At(u, "set") THEN "set store" ELSE "clear store"
  <2>1. Becomes(u, s, up[u].sock, up[u].f, up[u].sent, up[u].retries, connected_mask)
    BY <1>1, <1>2, Locals
  <2>2. /\ s \in {"set store", "clear store"}
        /\ s = "set store" => up[u].sock /\ up[u].f = 0
        /\ s = "clear store" => ~up[u].sock
    BY <1>1, <1>2 DEF LoadMask, StepOk, At
  <2>3. RestType'
    BY <1>1, <1>2 DEF LoadMask, RestType
  <2> HIDE DEF s
  <2>4. StepOk([step |-> s, sock |-> up[u].sock, f |-> up[u].f, sent |-> up[u].sent,
                retries |-> up[u].retries, mask |-> connected_mask])
    BY <2>2 DEF StepOk
  <2>5. s \in Steps /\ connected_mask \in SUBSET Uplinks
    BY <1>1, <2>2 DEF Steps, RestType
  <2> QED
    BY <1>1, <2>1, <2>3, <2>4, <2>5, OneChanges, FieldTypes
<1>3. CASE StoreMask(u)
  <2> DEFINE s == IF At(u, "set store") THEN "receive"
                  ELSE IF up[u].f # 0 THEN "release" ELSE "v2"
  <2>1. Becomes(u, s, up[u].sock, up[u].f, up[u].sent, up[u].retries, {})
    BY <1>1, <1>3, Locals
  <2>2. /\ s \in {"receive", "release", "v2"}
        /\ s = "receive" => up[u].sock /\ up[u].f = 0
        /\ s = "v2" => ~up[u].sock /\ up[u].f = 0
    BY <1>1, <1>3 DEF StoreMask, Changing, StepOk, At
  <2>3. RestType'
    BY <1>1, <1>3, FieldTypes DEF StoreMask, RestType
  <2> HIDE DEF s
  <2>4. StepOk([step |-> s, sock |-> up[u].sock, f |-> up[u].f, sent |-> up[u].sent,
                retries |-> up[u].retries, mask |-> {}])
    BY <2>2 DEF StepOk
  <2>5. s \in Steps /\ {} \in SUBSET Uplinks
    BY <2>2 DEF Steps
  <2> QED
    BY <1>1, <2>1, <2>3, <2>4, <2>5, OneChanges, FieldTypes
<1> QED
  BY <1>2, <1>3

\* uplink_close_socket, from where a connection is.
LEMMA CloseType ==
  ASSUME IInv, NEW u \in Uplinks, Close(u)
  PROVE  IInv'
<1>1. UplinkTypeOK /\ RestType
  BY TwoParts DEF IInv
<1>2. Turns(u, "clear", FALSE)
  BY <1>1, Locals
<1>3. RestType'
  BY <1>1, LinkTypes DEF Close, HangUp, RestType
<1> QED
  BY <1>2, <1>3, OneTurns DEF Steps

\* The first element of a sequence and the rest.
LEMMA Split ==
  ASSUME NEW S, NEW q \in Seq(S), q # <<>>
  PROVE  /\ Head(q) \in S /\ Head(q) = q[1]
         /\ Tail(q) \in Seq(S) /\ Len(Tail(q)) = Len(q) - 1
         /\ Len(q) \in Nat /\ Len(q) > 0
         /\ \A j \in 1..Len(Tail(q)) : Tail(q)[j] = q[j + 1]
<1>1. Len(q) \in Nat /\ Len(q) > 0
  OBVIOUS
<1>2. q[1] \in S /\ Head(q) = q[1]
  BY <1>1
<1>3. Tail(q) \in Seq(S)
  BY <1>1
<1>4. Len(Tail(q)) = Len(q) - 1 /\ \A j \in 1..Len(Tail(q)) : Tail(q)[j] = q[j + 1]
  BY <1>1
<1> QED
  BY <1>1, <1>2, <1>3, <1>4

LEMMA SendType ==
  ASSUME IInv, NEW u \in Uplinks,
         \/ Take(u) \/ TakeNothing(u) \/ SendPart(u) \/ SendAgain(u)
         \/ SendFails(u) \/ Release(u) \/ Peek(u)
  PROVE  IInv'
<1>1. StepOk(up[u]) /\ UplinkTypeOK /\ RestType
  BY TwoParts DEF IInv, StepInv
<1>2. CASE Take(u)
  <2>1. queue[u] \in Seq(1..MaxFrames) /\ queue[u] # <<>> /\ queue \in [Uplinks -> Seq(1..MaxFrames)]
    BY <1>1, <1>2 DEF Take, RestType
  <2>2. Head(queue[u]) \in 1..MaxFrames /\ Tail(queue[u]) \in Seq(1..MaxFrames)
    BY <2>1, Split
  <2> DEFINE x == Head(queue[u])
  <2>3. Becomes(u, "send", up[u].sock, x, 0, 0, up[u].mask)
    BY <1>1, <1>2, Locals
  <2>4. RestType'
    BY <1>1, <1>2, <2>1, <2>2 DEF Take, RestType
  <2>5. x \in 0..MaxFrames /\ x # 0
    BY <2>2
  <2> HIDE DEF x
  <2>6. StepOk([step |-> "send", sock |-> up[u].sock, f |-> x, sent |-> 0,
                retries |-> 0, mask |-> up[u].mask])
    BY <1>1, <1>2, <2>5, UplinkSizes DEF Take, At, StepOk
  <2>7. 0 \in 0..Parts /\ 0 \in 0..RetryLimit /\ "send" \in Steps
    BY UplinkSizes DEF Steps
  <2> QED
    BY <1>1, <2>3, <2>4, <2>5, <2>6, <2>7, OneChanges, FieldTypes
<1>3. CASE TakeNothing(u)
  <2>1. Turns(u, "peek", up[u].sock)
    BY <1>1, <1>3, Locals
  <2>2. up[u].sock /\ up[u].f = 0
    BY <1>1, <1>3 DEF TakeNothing, At, StepOk
  <2>3. RestType'
    BY <1>1, <1>3 DEF TakeNothing, RestType
  <2> QED
    BY <1>1, <2>1, <2>2, <2>3, OneTurns, FieldTypes DEF Steps
<1>4. CASE SendPart(u)
  <2> DEFINE n == up[u].sent + 1
             s == IF n = Parts THEN "release" ELSE "send"
  <2>1. Becomes(u, s, up[u].sock, up[u].f, n, 0, up[u].mask)
    BY <1>1, <1>4, Locals
  <2>2. up[u].sock /\ up[u].f # 0 /\ up[u].sent < Parts
    BY <1>1, <1>4 DEF SendPart, At, StepOk
  <2>3. /\ n \in 0..Parts
        /\ s \in {"send", "release"}
        /\ s = "send" => n < Parts
    BY <1>1, <2>2, FieldTypes, UplinkSizes
  <2>4. RestType'
    <3>1. [f |-> up[u].f, part |-> n] \in Piece
      BY <1>1, <2>3, FieldTypes DEF Piece
    <3> QED
      BY <1>1, <1>4, <3>1 DEF SendPart, RestType
  <2> HIDE DEF n, s
  <2>5. StepOk([step |-> s, sock |-> up[u].sock, f |-> up[u].f, sent |-> n,
                retries |-> 0, mask |-> up[u].mask])
    BY <2>2, <2>3 DEF StepOk
  <2>6. s \in Steps
    BY <2>3 DEF Steps
  <2>7. 0 \in 0..RetryLimit
    BY UplinkSizes
  <2> QED
    BY <1>1, <2>1, <2>3, <2>4, <2>5, <2>6, <2>7, OneChanges, FieldTypes
<1>5. CASE SendAgain(u)
  <2> DEFINE t == up[u].retries + 1
  <2>1. Becomes(u, up[u].step, up[u].sock, up[u].f, up[u].sent, t, up[u].mask)
    BY <1>1, <1>5, Locals
  <2>2. t \in 0..RetryLimit
    BY <1>1, <1>5, FieldTypes, UplinkSizes DEF SendAgain
  <2>3. RestType'
    BY <1>1, <1>5 DEF SendAgain, RestType
  <2> HIDE DEF t
  <2>4. StepOk([step |-> up[u].step, sock |-> up[u].sock, f |-> up[u].f,
                sent |-> up[u].sent, retries |-> t, mask |-> up[u].mask])
    BY <1>1 DEF StepOk
  <2> QED
    BY <1>1, <2>1, <2>2, <2>3, <2>4, OneChanges, FieldTypes
<1>6. CASE SendFails(u)
  BY <1>6, CloseType DEF SendFails
<1>7. CASE Release(u)
  <2> DEFINE s == IF up[u].sock THEN "peek" ELSE "v2"
  <2>1. Becomes(u, s, up[u].sock, 0, 0, 0, up[u].mask)
    BY <1>1, <1>7, Locals
  <2>2. RestType'
    BY <1>1, <1>7 DEF Release, RestType
  <2>3. StepOk([step |-> s, sock |-> up[u].sock, f |-> 0, sent |-> 0,
                retries |-> 0, mask |-> up[u].mask])
    BY DEF StepOk
  <2>4. s \in Steps /\ 0 \in 0..MaxFrames /\ 0 \in 0..Parts /\ 0 \in 0..RetryLimit
    BY UplinkSizes DEF Steps
  <2> HIDE DEF s
  <2> QED
    BY <1>1, <2>1, <2>2, <2>3, <2>4, OneChanges, FieldTypes
<1>8. CASE Peek(u)
  <2>1. CASE Close(u)
    BY <2>1, CloseType
  <2>2. CASE /\ GoTo(u, "receive")
             /\ UNCHANGED <<published, queue, connected_mask, opened, link, out, raced>>
    <3>1. Turns(u, "receive", up[u].sock)
      BY <1>1, <2>2, Going
    <3>2. up[u].sock /\ up[u].f = 0
      BY <1>1, <1>8 DEF Peek, At, StepOk
    <3>3. RestType'
      BY <1>1, <2>2 DEF RestType
    <3> QED
      BY <1>1, <3>1, <3>2, <3>3, OneTurns, FieldTypes DEF Steps
  <2> QED
    BY <1>8, <2>1, <2>2 DEF Peek
<1> QED
  BY <1>2, <1>3, <1>4, <1>5, <1>6, <1>7, <1>8

LEMMA PeerType ==
  ASSUME IInv, NEW u \in Uplinks, PeerAnswers(u) \/ PeerSends(u) \/ PeerEnds(u)
  PROVE  IInv'
<1>1. link \in [Uplinks -> Link]
  BY DEF IInv, UplinkTypeOK, Link
<1>2. link' \in [Uplinks -> Link]
  <2>1. \A a \in {"success", "refusal"} : [link[u] EXCEPT !.answer = a] \in Link
    BY <1>1 DEF Link
  <2>2. [link[u] EXCEPT !.unread = TRUE] \in Link
    BY <1>1 DEF Link
  <2>3. \A p \in {"fin", "reset"} : [link[u] EXCEPT !.peer = p] \in Link
    BY <1>1 DEF Link
  <2>4. \/ \E a \in {"success", "refusal"} :
              link' = [link EXCEPT ![u] = [link[u] EXCEPT !.answer = a]]
        \/ link' = [link EXCEPT ![u] = [link[u] EXCEPT !.unread = TRUE]]
        \/ \E p \in {"fin", "reset"} :
              link' = [link EXCEPT ![u] = [link[u] EXCEPT !.peer = p]]
    BY DEF PeerAnswers, PeerSends, PeerEnds
  <2> QED
    BY <1>1, <2>1, <2>2, <2>3, <2>4
<1>3. UNCHANGED <<published, queue, connected_mask, up, opened, out, raced>>
  BY DEF PeerAnswers, PeerSends, PeerEnds
<1> QED
  BY <1>2, <1>3 DEF IInv, UplinkTypeOK, StepInv, Link

LEMMA TypeStep == IInv /\ [UplinkNext]_uplinkVars => IInv'
<1>1. IInv /\ UNCHANGED uplinkVars => IInv'
  BY DEF uplinkVars, IInv, UplinkTypeOK, StepInv
<1> QED
  BY <1>1, PublishType, ConnectType, MaskType, SendType, PeerType
     DEF UplinkNext, UplinkTask

\* The locals of the tasks, the queues and the connections keep their types:
\* no task counts its retries or the pieces of a frame beyond their limits.
THEOREM UplinkTypeCorrect == UplinkSpec => []UplinkTypeOK
<1>1. IInv => UplinkTypeOK
  BY DEF IInv
<1> QED
  BY InitType, TypeStep, <1>1, PTL DEF UplinkSpec
-----------------------------------------------------------------------------
(* The mask.                                                               *)

Unsettled == {"set", "set store", "clear", "clear store"}

\* Of two changes that overlap both are on record, and what a change loaded is
\* stale about no uplink whose last change did not overlap another.
MaskInv ==
    /\ \A u, v \in Uplinks : u # v /\ Changing(u) /\ Changing(v) => u \in raced
    /\ \A u \in Uplinks \ raced, v \in Uplinks :
          u # v /\ Changing(v) => (u \in up[v].mask <=> u \in connected_mask)
    /\ MaskExactWithoutRace

\* No task changes the mask, and one that moves is before or after a change.
QuietStep ==
    /\ UNCHANGED <<connected_mask, raced>>
    /\ \A v \in Uplinks :
          \/ up'[v] = up[v]
          \/ up'[v].step \in {"set", "clear"}
          \/ /\ up'[v].sock = up[v].sock
             /\ up[v].step \notin Unsettled /\ up'[v].step \notin Unsettled

LEMMA QuietKeepsMask == MaskInv /\ QuietStep => MaskInv'
<1> SUFFICES ASSUME MaskInv, QuietStep PROVE MaskInv'
  OBVIOUS
<1>1. \A v \in Uplinks : Changing(v)' => Changing(v) /\ up'[v] = up[v]
  BY DEF QuietStep, Changing, Unsettled
<1>2. MaskExactWithoutRace'
  BY DEF QuietStep, MaskInv, MaskExactWithoutRace, Unsettled
<1> QED
  BY <1>1, <1>2 DEF QuietStep, MaskInv

LEMMA TaskIsQuiet ==
  ASSUME IInv, NEW u \in Uplinks, UplinkTask(u), ~LoadMask(u), ~StoreMask(u)
  PROVE  QuietStep
<1>1. UplinkTypeOK /\ StepOk(up[u])
  BY DEF IInv, StepInv
<1>2. UNCHANGED <<connected_mask, raced>>
  BY DEF UplinkTask, Open, OpenFails, Accepted, NotAccepted, Wait, Take,
         TakeNothing, SendPart, SendAgain, SendFails, Release, Peek, Close
<1>3. /\ \A v \in Uplinks : v # u => up'[v] = up[v]
      /\ \/ up'[u].step \in {"set", "clear"}
         \/ /\ up'[u].sock = up[u].sock
            /\ up[u].step \notin Unsettled /\ up'[u].step \notin Unsettled
  <2>1. CASE Open(u)
    BY <1>1, <2>1, AfterStep DEF Moves, Open, Unsettled
  <2>2. CASE OpenFails(u)
    BY <1>1, <2>2, AfterStep DEF Moves, OpenFails, Otherwise, Unsettled
  <2>3. CASE Accepted(u)
    BY <1>1, <2>3, AfterStep DEF Moves
  <2>4. CASE NotAccepted(u)
    BY <1>1, <2>4, AfterStep DEF Moves, NotAccepted, Otherwise, Unsettled
  <2>5. CASE Wait(u)
    BY <1>1, <2>5, AfterStep DEF Moves, Wait, At, Unsettled
  <2>6. CASE Take(u)
    BY <1>1, <2>6, AfterStep DEF Moves, Take, At, Unsettled
  <2>7. CASE TakeNothing(u)
    BY <1>1, <2>7, AfterStep DEF Moves, TakeNothing, At, Unsettled
  <2>8. CASE SendPart(u)
    <3>1. up[u].step = "send" /\ up'[u].step \in {"release", "send"}
          /\ up'[u].sock = up[u].sock /\ \A v \in Uplinks : v # u => up'[v] = up[v]
      <4>1. up[u].step = "send"
        BY <2>8 DEF SendPart, At
      <4> QED
        BY <1>1, <2>8, <4>1, AfterStep DEF Moves
    <3> QED
      BY <3>1 DEF Unsettled
  <2>9. CASE SendAgain(u)
    BY <1>1, <2>9, AfterStep DEF Moves, SendAgain, At, Unsettled
  <2>10. CASE Close(u)
    BY <1>1, <2>10, AfterStep DEF Moves
  <2>11. CASE Release(u)
    <3>1. up[u].step = "release" /\ up'[u].step \in {"peek", "v2"}
          /\ up'[u].sock = up[u].sock /\ \A v \in Uplinks : v # u => up'[v] = up[v]
      <4>1. up[u].step = "release"
        BY <2>11 DEF Release, At
      <4> QED
        BY <1>1, <2>11, <4>1, AfterStep DEF Moves
    <3> QED
      BY <3>1 DEF Unsettled
  <2>12. CASE At(u, "peek") /\ GoTo(u, "receive")
    <3>1. Moves(u, "receive", up[u].sock, up[u].f, up[u].sent)
      BY <1>1, <2>12, AfterGoTo
    <3>2. up[u].step = "peek"
      BY <2>12 DEF At
    <3> QED
      BY <3>1, <3>2 DEF Moves, Unsettled
  <2> QED
    BY <2>1, <2>2, <2>3, <2>4, <2>5, <2>6, <2>7, <2>8, <2>9, <2>10, <2>11, <2>12
       DEF UplinkTask, SendFails, Peek
<1> QED
  BY <1>2, <1>3 DEF QuietStep

LEMMA LoadKeepsMask ==
  ASSUME IInv, MaskInv, NEW u \in Uplinks, LoadMask(u)
  PROVE  MaskInv'
<1> DEFINE others == {v \in Uplinks \ {u} : Changing(v)}
<1>1. /\ up'[u].step \in {"set store", "clear store"}
      /\ up'[u].mask = connected_mask
      /\ \A v \in Uplinks : v # u => up'[v] = up[v]
  BY AfterStep DEF Moves, IInv
<1>2. /\ connected_mask' = connected_mask
      /\ raced' = IF others = {} THEN raced \ {u} ELSE raced \union others \union {u}
      /\ ~Changing(u)
  BY DEF LoadMask, Changing
<1>3. \A v \in Uplinks : Changing(v)' <=> v = u \/ Changing(v)
  BY <1>1 DEF Changing
<1>4. ASSUME NEW v \in Uplinks, NEW w \in Uplinks, v # w, Changing(v)', Changing(w)'
      PROVE  v \in raced'
  BY <1>2, <1>3, <1>4 DEF MaskInv
<1>5. ASSUME NEW v \in Uplinks \ raced', NEW w \in Uplinks, v # w, Changing(w)'
      PROVE  v \in up'[w].mask <=> v \in connected_mask'
  <2>1. CASE w = u
    BY <1>1, <1>2, <2>1
  <2>2. CASE w # u
    <3>1. w \in others
      BY <1>3, <1>5, <2>2
    <3>2. v \notin raced
      BY <1>2, <3>1
    <3> QED
      BY <1>1, <1>2, <1>3, <1>5, <2>2, <3>2 DEF MaskInv
  <2> QED
    BY <2>1, <2>2
<1>6. MaskExactWithoutRace'
  <2> SUFFICES ASSUME NEW v \in Uplinks \ raced', up'[v].step \notin Unsettled
               PROVE  v \in connected_mask' <=> up'[v].sock
    BY DEF MaskExactWithoutRace, Unsettled
  <2>1. v # u
    BY <1>1 DEF Unsettled
  <2>2. v \notin raced
    BY <1>2, <2>1
  <2> QED
    BY <1>1, <1>2, <2>1, <2>2 DEF MaskInv, MaskExactWithoutRace, Unsettled
<1> QED
  BY <1>4, <1>5, <1>6 DEF MaskInv

LEMMA StoreKeepsMask ==
  ASSUME IInv, MaskInv, NEW u \in Uplinks, StoreMask(u)
  PROVE  MaskInv'
<1>1. /\ up'[u].step \in {"receive", "release", "v2"}
      /\ up'[u].sock = up[u].sock
      /\ \A v \in Uplinks : v # u => up'[v] = up[v]
  BY AfterStep DEF Moves, IInv
<1>2. /\ raced' = raced /\ Changing(u)
      /\ \A v \in Uplinks : v # u => (v \in connected_mask' <=> v \in up[u].mask)
      /\ u \in connected_mask' <=> up[u].step = "set store"
  BY DEF StoreMask, At
<1>3. up[u].sock <=> up[u].step = "set store"
  BY <1>2 DEF IInv, StepInv, StepOk, Changing
<1>4. \A v \in Uplinks : Changing(v)' => v # u /\ Changing(v)
  BY <1>1 DEF Changing
<1>5. \A v \in Uplinks \ raced :
         v # u => (v \in connected_mask' <=> v \in connected_mask)
  BY <1>2 DEF MaskInv
<1>6. ASSUME NEW v \in Uplinks \ raced, NEW w \in Uplinks, v # w, Changing(w)'
      PROVE  v \in up'[w].mask <=> v \in connected_mask'
  <2>1. w # u /\ Changing(w)
    BY <1>4, <1>6
  <2>2. v # u
    BY <1>2, <2>1 DEF MaskInv
  <2> QED
    BY <1>1, <1>5, <1>6, <2>1, <2>2 DEF MaskInv
<1>7. MaskExactWithoutRace'
  <2> SUFFICES ASSUME NEW v \in Uplinks \ raced, up'[v].step \notin Unsettled
               PROVE  v \in connected_mask' <=> up'[v].sock
    BY <1>2 DEF MaskExactWithoutRace, Unsettled
  <2>1. CASE v = u
    BY <1>1, <1>2, <1>3, <2>1
  <2>2. CASE v # u
    BY <1>1, <1>5, <2>2 DEF MaskInv, MaskExactWithoutRace, Unsettled
  <2> QED
    BY <2>1, <2>2
<1> QED
  BY <1>2, <1>4, <1>6, <1>7 DEF MaskInv

LEMMA MaskStep == IInv /\ MaskInv /\ [UplinkNext]_uplinkVars => MaskInv'
<1> SUFFICES ASSUME IInv, MaskInv, [UplinkNext]_uplinkVars PROVE MaskInv'
  OBVIOUS
<1>1. CASE Publish
  BY <1>1, QuietKeepsMask DEF Publish, QuietStep
<1>2. ASSUME NEW u \in Uplinks, UplinkTask(u) PROVE MaskInv'
  BY <1>2, TaskIsQuiet, QuietKeepsMask, LoadKeepsMask, StoreKeepsMask
<1>3. ASSUME NEW u \in Uplinks, PeerAnswers(u) \/ PeerSends(u) \/ PeerEnds(u)
      PROVE  MaskInv'
  BY <1>3, QuietKeepsMask DEF PeerAnswers, PeerSends, PeerEnds, QuietStep
<1>4. CASE UNCHANGED uplinkVars
  BY <1>4, QuietKeepsMask DEF uplinkVars, QuietStep
<1> QED
  BY <1>1, <1>2, <1>3, <1>4 DEF UplinkNext

\* The status shown for an uplink is wrong only if its last change of the mask
\* overlapped that of another uplink, however many uplinks change it.
THEOREM MaskCorrect == UplinkSpec => []MaskExactWithoutRace
<1>1. UplinkInit => MaskInv
  <2> SUFFICES ASSUME UplinkInit PROVE MaskInv
    OBVIOUS
  <2>1. \A u \in Uplinks : up[u].step = "v2" /\ ~up[u].sock
    BY DEF UplinkInit
  <2>2. connected_mask = {}
    BY DEF UplinkInit
  <2> QED
    BY <2>1, <2>2 DEF MaskInv, MaskExactWithoutRace, Changing
<1>2. MaskInv => MaskExactWithoutRace
  BY DEF MaskInv
<1> QED
  BY <1>1, <1>2, InitType, TypeStep, MaskStep, PTL DEF UplinkSpec
-----------------------------------------------------------------------------
(* The stream.                                                             *)

\* How the locals r of a task, the last piece o it sent and its queue q hang
\* together while p frames are published: frames come in the order of their
\* publication, and outside the loop that sends no frame is half sent.
QueueOk(r, o, q, p) ==
    /\ \A g \in 1..Len(q) : q[g] <= p /\ q[g] > r.f /\ q[g] > o.f
    /\ \A g, j \in 1..Len(q) : g < j => q[g] < q[j]
    /\ r.f <= p /\ o.f <= p

PieceOk(r, o) ==
    /\ r.step = "send" /\ r.sent = 0 => o.part \in {0, Parts} /\ o.f < r.f
    /\ r.step = "send" /\ r.sent # 0 => o.f = r.f /\ o.part = r.sent
    /\ r.step # "send" => o.part \in {0, Parts}

UplinkStreamInv == \A u \in Uplinks : /\ QueueOk(up[u], out[u], queue[u], published)
                                /\ PieceOk(up[u], out[u])

LEMMA PublishKeepsQueue ==
  ASSUME NEW p \in Nat, NEW q \in Seq(Nat), NEW r, NEW o,
         r.f \in Nat, o.f \in Nat, QueueOk(r, o, q, p)
  PROVE  QueueOk(r, o, q, p + 1) /\ QueueOk(r, o, Append(q, p + 1), p + 1)
<1> DEFINE q1 == Append(q, p + 1)
<1>1. Len(q) \in Nat /\ \A g \in 1..Len(q) : q[g] \in Nat
  OBVIOUS
<1>2. Len(q1) = Len(q) + 1 /\ q1[Len(q) + 1] = p + 1
      /\ \A g \in 1..Len(q) : q1[g] = q[g]
  OBVIOUS
<1> HIDE DEF q1
<1>3. \A g \in 1..Len(q1) : g \in 1..Len(q) \/ g = Len(q) + 1
  BY <1>1, <1>2
<1>4. QueueOk(r, o, q, p + 1)
  BY <1>1 DEF QueueOk
<1>5. r.f <= p /\ o.f <= p /\ \A g \in 1..Len(q) : q[g] <= p /\ q[g] > r.f /\ q[g] > o.f
  BY DEF QueueOk
<1>6. ASSUME NEW g \in 1..Len(q1) PROVE q1[g] <= p + 1 /\ q1[g] > r.f /\ q1[g] > o.f
  <2>1. CASE g \in 1..Len(q)
    <3>1. q1[g] = q[g] /\ q[g] \in Nat /\ q[g] <= p /\ q[g] > r.f /\ q[g] > o.f
      BY <1>1, <1>2, <1>5, <2>1
    <3> QED
      BY <3>1
  <2>2. CASE g = Len(q) + 1
    BY <1>2, <1>5, <2>2
  <2> QED
    BY <1>3, <2>1, <2>2
<1>7. ASSUME NEW g \in 1..Len(q1), NEW j \in 1..Len(q1), g < j PROVE q1[g] < q1[j]
  <2>1. g \in 1..Len(q)
    BY <1>1, <1>2, <1>7
  <2>2. CASE j \in 1..Len(q)
    <3>1. \A m, n \in 1..Len(q) : m < n => q[m] < q[n]
      BY DEF QueueOk
    <3> QED
      BY <1>2, <1>7, <2>1, <2>2, <3>1
  <2>3. CASE j = Len(q) + 1
    <3>1. q1[j] = p + 1 /\ q1[g] = q[g] /\ q[g] \in Nat /\ q[g] <= p
      BY <1>1, <1>2, <1>5, <2>1, <2>3
    <3> QED
      BY <3>1
  <2> QED
    BY <1>3, <2>2, <2>3
<1>8. r.f <= p + 1 /\ o.f <= p + 1
  BY <1>5
<1> QED
  BY <1>4, <1>6, <1>7, <1>8 DEF QueueOk, q1

LEMMA TakeKeepsQueue ==
  ASSUME NEW p \in Nat, NEW q \in Seq(Nat), NEW r, NEW o, NEW r1, q # <<>>,
         r1.f = Head(q), o.f \in Nat, QueueOk(r, o, q, p)
  PROVE  QueueOk(r1, o, Tail(q), p) /\ o.f < r1.f
<1> DEFINE q1 == Tail(q)
<1>1. /\ r1.f = q[1] /\ Len(q1) = Len(q) - 1 /\ Len(q) \in Nat /\ Len(q) > 0
      /\ \A g \in 1..Len(q1) : q1[g] = q[g + 1]
  BY Split
<1> HIDE DEF q1
<1>2. \A g \in 1..Len(q1) : g + 1 \in 1..Len(q) /\ 1 < g + 1
  BY <1>1
<1>3. 1 \in 1..Len(q) /\ r1.f <= p /\ r1.f > o.f /\ q[1] \in Nat
  BY <1>1 DEF QueueOk
<1>4. ASSUME NEW g \in 1..Len(q1) PROVE q1[g] <= p /\ q1[g] > r1.f /\ q1[g] > o.f
  <2>1. g + 1 \in 1..Len(q) /\ 1 < g + 1 /\ q1[g] = q[g + 1]
    BY <1>1, <1>2
  <2>2. q[g + 1] <= p /\ q[1] < q[g + 1] /\ q[g + 1] > o.f
    BY <1>3, <2>1 DEF QueueOk
  <2> QED
    BY <1>1, <2>1, <2>2
<1>5. ASSUME NEW g \in 1..Len(q1), NEW j \in 1..Len(q1), g < j PROVE q1[g] < q1[j]
  <2>1. g + 1 \in 1..Len(q) /\ j + 1 \in 1..Len(q) /\ g + 1 < j + 1
    BY <1>2, <1>5
  <2>2. q[g + 1] < q[j + 1]
    BY <2>1 DEF QueueOk
  <2> QED
    BY <1>1, <2>2
<1>6. o.f <= p
  BY DEF QueueOk
<1> QED
  BY <1>3, <1>4, <1>5, <1>6 DEF QueueOk, q1

\* What the stream needs of the types.
LEMMA StreamTypes ==
  ASSUME UplinkTypeOK, NEW u \in Uplinks
  PROVE  /\ published \in Nat /\ queue[u] \in Seq(Nat) /\ up[u].f \in Nat
         /\ up[u].sent \in Nat /\ out[u].f \in Nat /\ out[u].part \in Nat
         /\ up[u] \in Record /\ out[u] \in Piece
<1>1. queue[u] \in Seq(1..MaxFrames) /\ up[u] \in Record /\ out[u] \in Piece
  BY DEF UplinkTypeOK, Record, Piece
<1>2. queue[u] \in Seq(Nat)
  <2>1. \A j \in 1..Len(queue[u]) : queue[u][j] \in Nat
    BY <1>1, UplinkSizes
  <2> QED
    BY <1>1, <2>1
<1>3. published \in 0..MaxFrames /\ up[u].f \in 0..MaxFrames /\ up[u].sent \in 0..Parts
      /\ out[u].f \in 0..MaxFrames /\ out[u].part \in 0..Parts
  BY <1>1 DEF UplinkTypeOK, Record, Piece
<1> QED
  BY <1>1, <1>2, <1>3, UplinkSizes

\* One task moves; the others keep their part of the invariant.
LEMMA OneStreams ==
  ASSUME UplinkStreamInv, NEW u \in Uplinks, published' = published,
         \A v \in Uplinks : v # u => /\ up'[v] = up[v] /\ out'[v] = out[v]
                                     /\ queue'[v] = queue[v],
         QueueOk(up'[u], out'[u], queue'[u], published), PieceOk(up'[u], out'[u])
  PROVE  UplinkStreamInv'
<1> SUFFICES ASSUME NEW v \in Uplinks
             PROVE  /\ QueueOk(up'[v], out'[v], queue'[v], published')
                    /\ PieceOk(up'[v], out'[v])
  BY DEF UplinkStreamInv, QueueOk, PieceOk
<1>1. CASE v = u
  BY <1>1
<1>2. CASE v # u
  BY <1>2 DEF UplinkStreamInv
<1> QED
  BY <1>1, <1>2

\* A step outside the loop that sends: the frame in hand stays or is given back.
LEMMA StillStreams ==
  ASSUME IInv, UplinkStreamInv, NEW u \in Uplinks, published' = published, queue' = queue,
         \A v \in Uplinks : v # u => up'[v] = up[v] /\ out'[v] = out[v],
         up'[u].f \in {0, up[u].f},
         out'[u].f = out[u].f,
         \/ out'[u].part = 0
         \/ out'[u].part = out[u].part /\ up[u].step # "send",
         up'[u].step # "send"
  PROVE  UplinkStreamInv'
<1>1. QueueOk(up[u], out[u], queue[u], published) /\ PieceOk(up[u], out[u])
  BY DEF UplinkStreamInv
<1>2. PieceOk(up'[u], out'[u])
  BY <1>1 DEF PieceOk
<1>3. /\ published \in Nat /\ up[u].f \in Nat
      /\ \A j \in 1..Len(queue[u]) : queue[u][j] \in Nat
  BY StreamTypes DEF IInv
<1>4. QueueOk(up'[u], out'[u], queue[u], published)
  BY <1>1, <1>3 DEF QueueOk
<1> QED
  BY <1>2, <1>4, OneStreams

LEMMA TaskStreams ==
  ASSUME IInv, UplinkStreamInv, NEW u \in Uplinks, UplinkTask(u)
  PROVE  UplinkStreamInv'
<1>0. UplinkTypeOK
  BY DEF IInv
<1>1. UplinkTypeOK /\ StepOk(up[u]) /\ up \in [Uplinks -> Record]
      /\ out \in [Uplinks -> Piece] /\ queue \in [Uplinks -> Seq(1..MaxFrames)]
  BY UpType DEF IInv, StepInv, UplinkTypeOK, Piece
<1>2. QueueOk(up[u], out[u], queue[u], published) /\ PieceOk(up[u], out[u])
  BY DEF UplinkStreamInv
<1>3. CASE Take(u)
  <2>1. /\ up'[u].f = Head(queue[u]) /\ up'[u].sent = 0 /\ up'[u].step = "send"
        /\ out' = out /\ published' = published /\ queue'[u] = Tail(queue[u])
        /\ queue[u] # <<>> /\ up[u].step = "receive"
        /\ \A v \in Uplinks : v # u => up'[v] = up[v] /\ queue'[v] = queue[v]
    <3>1. /\ up'[u].f = Head(queue[u]) /\ up'[u].sent = 0 /\ up'[u].step = "send"
          /\ \A v \in Uplinks : v # u => up'[v] = up[v]
      BY <1>0, <1>3, AfterStep DEF Moves
    <3>2. /\ out' = out /\ published' = published /\ queue[u] # <<>>
          /\ up[u].step = "receive" /\ queue' = [queue EXCEPT ![u] = Tail(@)]
      BY <1>3 DEF Take, At
    <3>3. queue'[u] = Tail(queue[u]) /\ \A v \in Uplinks : v # u => queue'[v] = queue[v]
      BY <1>1, <3>2
    <3> QED
      BY <3>1, <3>2, <3>3
  <2>2. QueueOk(up'[u], out[u], Tail(queue[u]), published) /\ out[u].f < up'[u].f
    BY <1>1, <1>2, <2>1, TakeKeepsQueue, StreamTypes
  <2>3. PieceOk(up'[u], out[u])
    BY <1>2, <2>1, <2>2 DEF PieceOk
  <2> QED
    BY <2>1, <2>2, <2>3, OneStreams
<1>4. CASE SendPart(u)
  <2>1. /\ up'[u].f = up[u].f /\ up'[u].sent = up[u].sent + 1
        /\ up'[u].step = IF up[u].sent + 1 = Parts THEN "release" ELSE "send"
        /\ out'[u] = [f |-> up[u].f, part |-> up[u].sent + 1]
        /\ published' = published /\ queue' = queue
        /\ \A v \in Uplinks : v # u => up'[v] = up[v] /\ out'[v] = out[v]
    <3>1. /\ up'[u].f = up[u].f /\ up'[u].sent = up[u].sent + 1
          /\ up'[u].step = IF up[u].sent + 1 = Parts THEN "release" ELSE "send"
          /\ \A v \in Uplinks : v # u => up'[v] = up[v]
      BY <1>0, <1>4, AfterStep DEF Moves
    <3> QED
      BY <1>1, <1>4, <3>1 DEF SendPart, Piece
  <2>2. PieceOk(up'[u], out'[u])
    BY <1>1, <2>1, StreamTypes DEF PieceOk
  <2>3. QueueOk(up'[u], out'[u], queue[u], published)
    BY <1>2, <2>1 DEF QueueOk
  <2> QED
    BY <2>1, <2>2, <2>3, OneStreams
<1>5. CASE SendAgain(u)
  <2>1. /\ up'[u].f = up[u].f /\ up'[u].sent = up[u].sent
        /\ up'[u].step = up[u].step /\ out' = out
        /\ published' = published /\ queue' = queue
        /\ \A v \in Uplinks : v # u => up'[v] = up[v]
    BY <1>1, <1>5, AfterStep DEF Moves, SendAgain
  <2>2. PieceOk(up'[u], out'[u]) /\ QueueOk(up'[u], out'[u], queue[u], published)
    BY <1>2, <2>1 DEF PieceOk, QueueOk
  <2> QED
    BY <2>1, <2>2, OneStreams
<1>6. CASE Close(u)
  <2>1. /\ up'[u].f = up[u].f /\ up'[u].step = "clear" /\ out'[u].f = out[u].f
        /\ out'[u].part = 0 /\ published' = published /\ queue' = queue
        /\ \A v \in Uplinks : v # u => up'[v] = up[v] /\ out'[v] = out[v]
    <3>1. /\ up'[u].f = up[u].f /\ up'[u].step = "clear"
          /\ \A v \in Uplinks : v # u => up'[v] = up[v]
      BY <1>0, <1>6, AfterStep DEF Moves
    <3> QED
      BY <1>1, <1>6, <3>1 DEF Close, HangUp, Piece
  <2> QED
    BY <2>1, StillStreams
<1>7. CASE NotAccepted(u)
  <2>0. Otherwise(u) \in {"v1", "wait"}
    BY DEF Otherwise
  <2>1. /\ up'[u].f = up[u].f /\ up'[u].step \in {"v1", "wait"} /\ out'[u].f = out[u].f
        /\ out'[u].part = 0 /\ published' = published /\ queue' = queue
        /\ \A v \in Uplinks : v # u => up'[v] = up[v] /\ out'[v] = out[v]
    <3>1. /\ up'[u].f = up[u].f /\ up'[u].step \in {"v1", "wait"}
          /\ \A v \in Uplinks : v # u => up'[v] = up[v]
      BY <1>0, <1>7, <2>0, AfterStep DEF Moves
    <3>2. /\ out'[u].f = out[u].f /\ out'[u].part = 0
          /\ \A v \in Uplinks : v # u => out'[v] = out[v]
      BY <1>1, <1>7 DEF NotAccepted, HangUp, Piece
    <3> QED
      BY <1>7, <3>1, <3>2 DEF NotAccepted
  <2> QED
    BY <2>1, StillStreams
<1>8. CASE \/ Open(u) \/ OpenFails(u) \/ Accepted(u) \/ Wait(u) \/ LoadMask(u)
           \/ StoreMask(u) \/ TakeNothing(u) \/ Release(u)
           \/ (At(u, "peek") /\ GoTo(u, "receive")
               /\ UNCHANGED <<published, queue, out>>)
  <2>1. /\ out' = out /\ published' = published /\ queue' = queue
        /\ up[u].step # "send"
    BY <1>8 DEF Open, OpenFails, Accepted, Wait, LoadMask, StoreMask, TakeNothing,
                Release, At, Changing
  <2>2. \A v \in Uplinks : v # u => up'[v] = up[v]
    BY <1>1, <1>8 DEF Open, OpenFails, Accepted, Wait, LoadMask, StoreMask,
                TakeNothing, Release, GoTo
  <2>3. up'[u].f \in {0, up[u].f} /\ up'[u].step # "send"
    <3>0. Otherwise(u) \in {"v1", "wait"}
      BY DEF Otherwise
    <3>1. CASE \/ Open(u) \/ OpenFails(u) \/ Wait(u)
               \/ TakeNothing(u) \/ GoTo(u, "receive")
      <4>1. PICK s \in {"v2 reply", "v1 reply", "v1", "wait", "v2", "peek", "receive"} :
                 GoTo(u, s)
        <5>1. /\ Open(u) => GoTo(u, "v2 reply") \/ GoTo(u, "v1 reply")
              /\ OpenFails(u) => GoTo(u, "v1") \/ GoTo(u, "wait")
              /\ Wait(u) => GoTo(u, "v2")
              /\ TakeNothing(u) => GoTo(u, "peek")
          BY <3>0 DEF Open, OpenFails, Wait, TakeNothing
        <5> QED
          BY <3>1, <5>1
      <4>2. up'[u].f = up[u].f
        BY <1>0, <4>1, AfterGoTo DEF Moves
      <4>3. up'[u].step = s
        BY <1>0, <4>1, AfterGoTo DEF Moves
      <4> QED
        BY <4>1, <4>2, <4>3
    <3>2. CASE LoadMask(u)
      <4>1. up'[u].f = up[u].f
        BY <1>0, <3>2, AfterStep DEF Moves
      <4>2. up'[u].step \in {"set store", "clear store"}
        BY <1>0, <3>2, AfterStep DEF Moves
      <4> QED
        BY <4>1, <4>2
    <3>3. CASE StoreMask(u)
      <4>1. up'[u].f = up[u].f
        BY <1>0, <3>3, AfterStep DEF Moves
      <4>2. up'[u].step \in {"receive", "release", "v2"}
        BY <1>0, <3>3, AfterStep DEF Moves
      <4> QED
        BY <4>1, <4>2
    <3>5. CASE Accepted(u)
      <4>1. up'[u].f = up[u].f
        BY <1>0, <3>5, AfterStep DEF Moves
      <4>2. up'[u].step = "set"
        BY <1>0, <3>5, AfterStep DEF Moves
      <4> QED
        BY <4>1, <4>2
    <3>4. CASE Release(u)
      BY <1>0, <3>4, AfterStep DEF Moves
    <3> QED
      BY <1>8, <3>1, <3>2, <3>3, <3>4, <3>5
  <2> QED
    BY <2>1, <2>2, <2>3, StillStreams
<1> QED
  BY <1>3, <1>4, <1>5, <1>6, <1>7, <1>8 DEF UplinkTask, SendFails, Peek

LEMMA UplinkStreamStep == IInv /\ UplinkStreamInv /\ [UplinkNext]_uplinkVars => UplinkStreamInv'
<1> SUFFICES ASSUME IInv, UplinkStreamInv, [UplinkNext]_uplinkVars PROVE UplinkStreamInv'
  OBVIOUS
<1>1. CASE Publish
  <2>1. /\ published' = published + 1 /\ UNCHANGED <<up, out>>
        /\ \A u \in Uplinks : queue'[u] \in {queue[u], Append(queue[u], published + 1)}
    BY <1>1 DEF Publish
  <2>2. ASSUME NEW u \in Uplinks
        PROVE  QueueOk(up[u], out[u], queue'[u], published + 1) /\ PieceOk(up[u], out[u])
    <3>1. QueueOk(up[u], out[u], queue[u], published) /\ PieceOk(up[u], out[u])
      BY DEF UplinkStreamInv
    <3> QED
      BY <2>1, <3>1, PublishKeepsQueue, StreamTypes DEF IInv
  <2> QED
    BY <2>1, <2>2 DEF UplinkStreamInv, QueueOk, PieceOk
<1>2. ASSUME NEW u \in Uplinks, UplinkTask(u) PROVE UplinkStreamInv'
  BY <1>2, TaskStreams
<1>3. CASE UNCHANGED <<published, queue, up, out>>
  BY <1>3 DEF UplinkStreamInv, QueueOk, PieceOk
<1> QED
  BY <1>1, <1>2, <1>3 DEF UplinkNext, uplinkVars, PeerAnswers, PeerSends, PeerEnds

\* What a step may do to the last piece.
LEMMA StreamAction ==
  ASSUME IInv, UplinkStreamInv, [UplinkNext]_uplinkVars, NEW u \in Uplinks,
         out'[u] # out[u], out'[u].part # 0
  PROVE  \/ out'[u] = [out[u] EXCEPT !.part = @ + 1] /\ out[u].part > 0
         \/ /\ out'[u].part = 1
            /\ out'[u].f > out[u].f
            /\ out[u].part \in {0, Parts}
<1>1. UplinkTypeOK /\ StepOk(up[u]) /\ out[u] \in Piece /\ PieceOk(up[u], out[u])
      /\ out \in [Uplinks -> Piece]
  BY DEF IInv, StepInv, UplinkStreamInv, UplinkTypeOK, Piece
<1>2. SendPart(u)
  <2>1. \A v \in Uplinks : NotAccepted(v) \/ Close(v) =>
           out'[u] = out[u] \/ out'[u].part = 0
    <3> SUFFICES ASSUME NEW v \in Uplinks, HangUp(v)
                 PROVE  out'[u] = out[u] \/ out'[u].part = 0
      BY DEF NotAccepted, Close
    <3>1. CASE v = u
      BY <1>1, <3>1 DEF HangUp, Piece
    <3>2. CASE v # u
      BY <1>1, <3>2 DEF HangUp
    <3> QED
      BY <3>1, <3>2
  <2>2. \A v \in Uplinks : SendPart(v) => v = u \/ out'[u] = out[u]
    BY <1>1 DEF SendPart
  <2>3. ASSUME NEW v \in Uplinks, UplinkTask(v)
        PROVE  NotAccepted(v) \/ Close(v) \/ SendPart(v) \/ out' = out
    BY <2>3 DEF UplinkTask, Open, OpenFails, Accepted, Wait, LoadMask, StoreMask, Take,
                TakeNothing, SendAgain, SendFails, Release, Peek
  <2>4. Publish \/ UNCHANGED uplinkVars => out' = out
    BY DEF Publish, uplinkVars
  <2>5. \A v \in Uplinks : PeerAnswers(v) \/ PeerSends(v) \/ PeerEnds(v) => out' = out
    BY DEF PeerAnswers, PeerSends, PeerEnds
  <2> QED
    BY <2>1, <2>2, <2>3, <2>4, <2>5 DEF UplinkNext
<1>3. out'[u] = [f |-> up[u].f, part |-> up[u].sent + 1] /\ up[u].step = "send"
  BY <1>1, <1>2 DEF SendPart, At
<1>4. up[u].f \in Nat /\ up[u].sent \in Nat /\ out[u].f \in Nat /\ out[u].part \in Nat
  BY <1>1, StreamTypes
<1>5. CASE up[u].sent = 0
  BY <1>1, <1>3, <1>4, <1>5 DEF PieceOk
<1>6. CASE up[u].sent # 0
  <2>1. out[u].f = up[u].f /\ out[u].part = up[u].sent /\ out[u].part > 0
    BY <1>1, <1>3, <1>4, <1>6 DEF PieceOk
  <2> QED
    BY <1>1, <1>3, <2>1 DEF Piece
<1> QED
  BY <1>5, <1>6

\* What a caster gets is a sequence of whole frames, each newer than the last,
\* on every connection and across connections.
THEOREM StreamCorrect == UplinkSpec => UplinkStream
<1>1. UplinkInit => UplinkStreamInv
  <2> SUFFICES ASSUME UplinkInit, NEW u \in Uplinks
               PROVE  /\ QueueOk(up[u], out[u], queue[u], published)
                      /\ PieceOk(up[u], out[u])
    BY DEF UplinkStreamInv
  <2>1. /\ up[u].f = 0 /\ up[u].step = "v2" /\ out[u].f = 0 /\ out[u].part = 0
        /\ queue[u] = <<>> /\ published = 0
    BY DEF UplinkInit
  <2> QED
    BY <2>1 DEF QueueOk, PieceOk
<1>2. IInv /\ UplinkStreamInv /\ [UplinkNext]_uplinkVars =>
        [\A u \in Uplinks : out'[u] # out[u] /\ out'[u].part # 0 =>
           \/ out'[u] = [out[u] EXCEPT !.part = @ + 1] /\ out[u].part > 0
           \/ /\ out'[u].part = 1
              /\ out'[u].f > out[u].f
              /\ out[u].part \in {0, Parts}]_uplinkVars
  BY StreamAction
<1> QED
  BY <1>1, <1>2, InitType, TypeStep, UplinkStreamStep, PTL DEF UplinkSpec, UplinkStream

-----------------------------------------------------------------------------
(***************************************************************************)
(* The local caster.                                                       *)
(***************************************************************************)

Places   == {"select", "accept", "service", "receive", "send", "give"}
RoverRec == [state : {"EMPTY", "HANDSHAKE", "STREAMING"},
             pending : 0..MaxRtcm, pos : 0..(Pieces - 1)]
PeerRec  == [conn : {"none", "open", "fin", "reset"}, data : {"none", "some", "request"}]
ToldRec  == [f : -1..MaxRtcm, piece : 0..Pieces]

LEMMA CasterSizes ==
  /\ Rovers \in Nat /\ Rovers > 0 /\ Pieces \in Nat /\ Pieces > 0
  /\ MaxRtcm \in Nat /\ MaxClients \in Nat /\ CasterDepth \in Nat
  BY CasterAssumption

-----------------------------------------------------------------------------
(* Types.                                                                  *)

TaskType == /\ at \in Places
            /\ i \in Slots
            /\ readable \subseteq 0..Rovers
            /\ f \in 0..MaxRtcm
            /\ offset \in 0..(Pieces - 1)

QueueType == rtcm \in 0..MaxRtcm /\ waiting \in Seq(1..MaxRtcm)

RoverType == /\ rover \in [Slots -> RoverRec]
             /\ told \in [Slots -> ToldRec]
             /\ blocked \subseteq Slots

\* What select saw waiting waits until it is taken.
OutsideType == /\ clients \in 0..MaxClients
               /\ backlog \in 0..1
               /\ peer \in [Slots -> PeerRec]
               /\ 0 \in readable => backlog = 1

TypeInv == TaskType /\ QueueType /\ RoverType /\ OutsideType

LEMMA TypeParts == TypeInv => CasterTypeOK
  BY DEF TypeInv, TaskType, QueueType, RoverType, OutsideType, CasterTypeOK, Places,
         RoverRec, PeerRec, ToldRec

LEMMA Records ==
  /\ Empty \in RoverRec /\ [Empty EXCEPT !.state = "HANDSHAKE"] \in RoverRec
  /\ [Empty EXCEPT !.state = "STREAMING"] \in RoverRec
  /\ NoPeer \in PeerRec /\ Nothing \in ToldRec
  /\ Nothing.f = -1 /\ Empty.state = "EMPTY" /\ Empty.pending = 0
<1>1. /\ Empty \in RoverRec /\ [Empty EXCEPT !.state = "HANDSHAKE"] \in RoverRec
      /\ [Empty EXCEPT !.state = "STREAMING"] \in RoverRec
  BY CasterSizes DEF Empty, RoverRec
<1>2. NoPeer \in PeerRec
  BY DEF NoPeer, PeerRec
<1>3. Nothing \in ToldRec /\ Nothing.f = -1
  BY CasterSizes DEF Nothing, ToldRec
<1>4. Empty.state = "EMPTY" /\ Empty.pending = 0
  BY DEF Empty
<1> QED
  BY <1>1, <1>2, <1>3, <1>4

LEMMA InitialTypes == CasterInit => TypeInv
<1> SUFFICES ASSUME CasterInit PROVE TypeInv
  OBVIOUS
<1>1. TaskType
  BY CasterSizes DEF CasterInit, TaskType, Places, Slots
<1>2. QueueType
  <2>1. <<>> \in Seq(1..MaxRtcm)
    OBVIOUS
  <2> QED
    BY <2>1, CasterSizes DEF CasterInit, QueueType
<1>3. RoverType
  BY Records DEF CasterInit, RoverType
<1>4. OutsideType
  BY Records, CasterSizes DEF CasterInit, OutsideType
<1> QED
  BY <1>1, <1>2, <1>3, <1>4 DEF TypeInv

\* The next slot of the service, and of the forwarding.
LEMMA SlotTypes ==
  ASSUME TaskType, UNCHANGED <<f, offset>>, NextSlot
  PROVE  TaskType'
<1>1. i \in 1..Rovers /\ (i = Rovers \/ i + 1 \in 1..Rovers)
  BY CasterSizes DEF TaskType, Slots
<1>2. i' \in Slots /\ at' \in Places
  BY <1>1, CasterSizes DEF NextSlot, Slots, TaskType, Places
<1> QED
  BY <1>2 DEF NextSlot, TaskType

LEMMA OnwardTypes == ASSUME TaskType, Onward PROVE TaskType'
<1>1. i \in 1..Rovers /\ (i = Rovers \/ i + 1 \in 1..Rovers)
  BY CasterSizes DEF TaskType, Slots
<1>2. i' \in Slots /\ at' \in Places
  BY <1>1, CasterSizes DEF Onward, Slots, TaskType, Places
<1> QED
  BY <1>2, CasterSizes DEF Onward, TaskType

\* The first waiting frame and the rest.
LEMMA FirstAndRest ==
  ASSUME NEW S, NEW q \in Seq(S), q # <<>>
  PROVE  /\ Head(q) = q[1] /\ Head(q) \in S /\ Tail(q) \in Seq(S)
         /\ Len(q) \in Nat \ {0} /\ Len(Tail(q)) = Len(q) - 1
         /\ \A k \in 1..Len(Tail(q)) : Tail(q)[k] = q[k + 1]
<1>1. Len(q) \in Nat \ {0}
  OBVIOUS
<1>2. Head(q) = q[1] /\ q[1] \in S
  BY <1>1
<1>3. Tail(q) \in Seq(S) /\ Len(Tail(q)) = Len(q) - 1
  BY <1>1
<1>4. \A k \in 1..Len(Tail(q)) : Tail(q)[k] = q[k + 1]
  BY <1>1
<1> QED
  BY <1>1, <1>2, <1>3, <1>4

LEMMA TaskTypes == ASSUME TypeInv, CasterNext PROVE TaskType'
<1>0. TaskType
  BY DEF TypeInv
<1>1. CASE UNCHANGED task
  BY <1>0, <1>1 DEF task, TaskType
<1>2. CASE Select
  BY <1>0, <1>2, CasterSizes DEF Select, TaskType, Places, Slots
<1>3. CASE Accept \/ Refuse \/ AcceptNone
  BY <1>0, <1>3 DEF Accept, Refuse, AcceptNone, ToService, TaskType, Places
<1>4. CASE Service
  <2>1. NextSlot /\ UNCHANGED <<f, offset>>
    BY <1>4 DEF Service, ServiceNone, ServiceData, AcceptRequest, RejectRequest, ServiceEnd
  <2> QED
    BY <1>0, <2>1, SlotTypes
<1>5. CASE TakeFrame
  <2>0. waiting \in Seq(1..MaxRtcm) /\ waiting # <<>>
    BY <1>5 DEF TakeFrame, TypeInv, QueueType
  <2>1. Head(waiting) \in 1..MaxRtcm
    BY <2>0, FirstAndRest
  <2>2. f' \in 0..MaxRtcm /\ at' \in Places
    BY <1>5, <2>1, CasterSizes DEF TakeFrame, Places
  <2> QED
    BY <1>0, <1>5, <2>2 DEF TakeFrame, TaskType
<1>6. CASE EndRound \/ GiveFrame
  <2>1. f' \in {f, 0} /\ at' \in {"select", "receive"} /\ UNCHANGED <<i, readable, offset>>
    BY <1>6 DEF EndRound, GiveFrame
  <2> QED
    BY <1>0, <2>1, CasterSizes DEF TaskType, Places
<1>7. CASE SkipRover \/ FlushBlocked \/ SendBlocked \/ SendError
  <2>1. Onward
    BY <1>7 DEF SkipRover, FlushBlocked, SendBlocked, SendError
  <2> QED
    BY <1>0, <2>1, OnwardTypes
<1>8. CASE SendPiece
  <2>1. CASE offset + 1 = Pieces
    BY <1>0, <1>8, <2>1, OnwardTypes DEF SendPiece
  <2>2. CASE offset + 1 # Pieces
    <3>1. offset' = offset + 1 /\ UNCHANGED <<at, i, readable, f>>
      BY <1>8, <2>2 DEF SendPiece
    <3>2. offset + 1 \in 0..(Pieces - 1)
      BY <1>0, <2>2, CasterSizes DEF TaskType
    <3> QED
      BY <1>0, <3>1, <3>2 DEF TaskType
  <2> QED
    BY <2>1, <2>2
<1>9. CASE PublishRtcm \/ FlushPiece \/ ClientConnects
           \/ \E s \in Slots : ClientSends(s) \/ ClientLeaves(s)
  BY <1>1, <1>9 DEF PublishRtcm, FlushPiece, ClientConnects, ClientSends, ClientLeaves
<1> QED
  BY <1>2, <1>3, <1>4, <1>5, <1>6, <1>7, <1>8, <1>9 DEF CasterNext, CasterTask, Forward

LEMMA QueueTypes == ASSUME TypeInv, CasterNext PROVE QueueType'
<1>0. QueueType
  BY DEF TypeInv
<1>1. CASE PublishRtcm
  <2>1. rtcm + 1 \in 1..MaxRtcm /\ rtcm' = rtcm + 1 /\ waiting' \in {waiting, Append(waiting, rtcm + 1)}
    BY <1>0, <1>1, CasterSizes DEF PublishRtcm, QueueType
  <2>2. Append(waiting, rtcm + 1) \in Seq(1..MaxRtcm)
    BY <1>0, <2>1 DEF QueueType
  <2>3. waiting' \in Seq(1..MaxRtcm)
    BY <1>0, <2>1, <2>2 DEF QueueType
  <2> QED
    BY <2>1, <2>3, CasterSizes DEF QueueType
<1>2. CASE TakeFrame
  <2>1. Tail(waiting) \in Seq(1..MaxRtcm)
    BY <1>0, <1>2 DEF TakeFrame, QueueType
  <2> QED
    BY <1>0, <1>2, <2>1 DEF TakeFrame, QueueType
<1>3. CASE UNCHANGED <<rtcm, waiting>>
  BY <1>0, <1>3 DEF QueueType
<1>4. CASE Select \/ Accept \/ Refuse \/ AcceptNone \/ Service
  BY <1>3, <1>4 DEF Select, Accept, Refuse, AcceptNone, Service, ServiceNone, ServiceData,
                    AcceptRequest, RejectRequest, ServiceEnd
<1>5. CASE \/ EndRound \/ SkipRover \/ FlushPiece \/ FlushBlocked \/ SendPiece
           \/ SendBlocked \/ SendError \/ GiveFrame
  BY <1>3, <1>5 DEF EndRound, SkipRover, FlushPiece, FlushBlocked, SendPiece, SendBlocked,
                    SendError, GiveFrame
<1>6. CASE ClientConnects \/ \E s \in Slots : ClientSends(s) \/ ClientLeaves(s)
  BY <1>3, <1>6 DEF ClientConnects, ClientSends, ClientLeaves
<1> QED
  BY <1>1, <1>2, <1>4, <1>5, <1>6 DEF CasterNext, CasterTask, Forward

\* What a step of the task says about slot s: nothing, or one of these.
LEMMA ClosedFields ==
  ASSUME TypeInv, CloseRover
  PROVE  /\ rover' \in [Slots -> RoverRec] /\ told' \in [Slots -> ToldRec]
         /\ peer' \in [Slots -> PeerRec] /\ blocked' \subseteq Slots
         /\ rover'[i].state = "EMPTY" /\ rover'[i].pending = 0
         /\ told'[i] = Nothing /\ peer'[i].data = "none" /\ i \notin blocked'
         /\ \A s \in Slots : s # i =>
              /\ rover'[s] = rover[s] /\ told'[s] = told[s]
              /\ peer'[s] = peer[s] /\ (s \in blocked' <=> s \in blocked)
<1>1. i \in Slots /\ RoverType /\ peer \in [Slots -> PeerRec]
  BY DEF TypeInv, TaskType, OutsideType
<1>2. rover' \in [Slots -> RoverRec] /\ rover'[i] = Empty
      /\ \A s \in Slots : s # i => rover'[s] = rover[s]
  BY <1>1, Records DEF CloseRover, RoverType
<1>3. told' \in [Slots -> ToldRec] /\ told'[i] = Nothing
      /\ \A s \in Slots : s # i => told'[s] = told[s]
  BY <1>1, Records DEF CloseRover, RoverType
<1>4. peer' \in [Slots -> PeerRec] /\ peer'[i] = NoPeer
      /\ \A s \in Slots : s # i => peer'[s] = peer[s]
  BY <1>1, Records DEF CloseRover
<1>5. blocked' \subseteq Slots /\ i \notin blocked'
      /\ \A s \in Slots : s # i => (s \in blocked' <=> s \in blocked)
  BY <1>1 DEF CloseRover, RoverType
<1>6. NoPeer.data = "none"
  BY DEF NoPeer
<1> QED
  BY <1>2, <1>3, <1>4, <1>5, <1>6, Records

LEMMA RoverTypes == ASSUME TypeInv, CasterNext PROVE RoverType'
<1>0. RoverType /\ i \in Slots /\ f \in 0..MaxRtcm /\ offset \in 0..(Pieces - 1)
  BY DEF TypeInv, TaskType
<1>1. CASE UNCHANGED <<rover, told, blocked>>
  BY <1>0, <1>1 DEF RoverType
<1>2. CASE Accept
  BY <1>0, <1>2, Records DEF Accept, RoverType
<1>3. CASE AcceptRequest
  <2>1. [f |-> 0, piece |-> Pieces] \in ToldRec
    BY CasterSizes DEF ToldRec
  <2>2. told' \in [Slots -> ToldRec]
    BY <1>0, <1>3, <2>1 DEF AcceptRequest, RoverType
  <2>3. rover' \in [Slots -> RoverRec]
    BY <1>0, <1>3 DEF AcceptRequest, RoverType, RoverRec
  <2> QED
    BY <1>0, <1>3, <2>2, <2>3 DEF AcceptRequest, RoverType
<1>4. CASE RejectRequest \/ ServiceEnd \/ SendError
  <2>1. CloseRover
    BY <1>4 DEF RejectRequest, ServiceEnd, SendError
  <2> QED
    BY <2>1, ClosedFields DEF RoverType
<1>5. CASE FlushPiece
  <2> DEFINE sent == rover[i].pos + 1
             r    == IF sent = Pieces THEN [Empty EXCEPT !.state = "STREAMING"]
                                      ELSE [rover[i] EXCEPT !.pos = sent]
  <2>1. rover[i].pos \in 0..(Pieces - 1) /\ rover[i].pending \in 0..MaxRtcm /\ rover[i] \in RoverRec
    BY <1>0 DEF RoverType, RoverRec
  <2>2. [f |-> rover[i].pending, piece |-> sent] \in ToldRec
    BY <2>1, CasterSizes DEF ToldRec
  <2>3. r \in RoverRec
    <3>1. CASE sent = Pieces
      BY <3>1, Records
    <3>2. CASE sent # Pieces
      <4>1. sent \in 0..(Pieces - 1)
        BY <2>1, <3>2, CasterSizes
      <4> QED
        BY <2>1, <3>2, <4>1 DEF RoverRec
    <3> QED
      BY <3>1, <3>2
  <2>4. told' = [told EXCEPT ![i] = [f |-> rover[i].pending, piece |-> sent]]
        /\ rover' = [rover EXCEPT ![i] = r]
    BY <1>5 DEF FlushPiece
  <2> QED
    BY <1>0, <1>5, <2>2, <2>3, <2>4 DEF FlushPiece, RoverType
<1>6. CASE FlushBlocked
  BY <1>0, <1>6 DEF FlushBlocked, RoverType
<1>7. CASE SendPiece
  <2>1. [f |-> f, piece |-> offset + 1] \in ToldRec
    BY <1>0, CasterSizes DEF ToldRec
  <2> QED
    BY <1>0, <1>7, <2>1 DEF SendPiece, RoverType
<1>8. CASE SendBlocked
  <2>1. rover' \in [Slots -> RoverRec]
    BY <1>0, <1>8 DEF SendBlocked, RoverType, RoverRec
  <2> QED
    BY <1>0, <1>8, <2>1 DEF SendBlocked, RoverType
<1>9. CASE \/ PublishRtcm \/ Select \/ Refuse \/ AcceptNone \/ ServiceNone \/ ServiceData
           \/ TakeFrame \/ EndRound \/ SkipRover \/ GiveFrame \/ ClientConnects
           \/ \E s \in Slots : ClientSends(s) \/ ClientLeaves(s)
  BY <1>1, <1>9 DEF PublishRtcm, Select, Refuse, AcceptNone, ServiceNone, ServiceData,
     TakeFrame, EndRound, SkipRover, GiveFrame, ClientConnects, ClientSends, ClientLeaves
<1> QED
  BY <1>2, <1>3, <1>4, <1>5, <1>6, <1>7, <1>8, <1>9
     DEF CasterNext, CasterTask, Forward, Service

LEMMA OutsideTypes == ASSUME TypeInv, CasterNext PROVE OutsideType'
<1>0. OutsideType /\ i \in Slots /\ readable \subseteq 0..Rovers
  BY DEF TypeInv, TaskType
<1>1. CASE UNCHANGED outside /\ readable' \subseteq readable
  BY <1>0, <1>1 DEF OutsideType, outside
<1>2. CASE PublishRtcm \/ AcceptNone \/ ServiceNone \/ TakeFrame \/ EndRound \/ GiveFrame
  BY <1>1, <1>2 DEF PublishRtcm, AcceptNone, ToService, ServiceNone, NextSlot, TakeFrame,
                    EndRound, GiveFrame, task
<1>3. CASE SkipRover \/ FlushPiece \/ FlushBlocked \/ SendPiece \/ SendBlocked
  BY <1>1, <1>3 DEF SkipRover, FlushPiece, FlushBlocked, SendPiece, SendBlocked, Onward, task
<1>4. CASE Select
  <2>1. backlog \in 0..1 /\ (0 \in readable' => backlog > 0)
    BY <1>0, <1>4, CasterSizes DEF Select, OutsideType, Slots
  <2>2. 0 \in readable' => backlog = 1
    BY <2>1
  <2> QED
    BY <1>0, <1>4, <2>2 DEF Select, OutsideType, outside
<1>5. CASE Accept \/ Refuse
  <2>1. backlog = 1 /\ backlog' = 0 /\ 0 \notin readable' /\ clients' = clients
    BY <1>0, <1>5 DEF Accept, Refuse, ToService, OutsideType
  <2>2. peer' \in [Slots -> PeerRec]
    <3>1. CASE Refuse
      BY <1>0, <3>1 DEF Refuse, OutsideType
    <3>2. CASE Accept
      <4>1. PICK s \in Free : peer' = [peer EXCEPT ![s].conn = "open"]
        BY <3>2 DEF Accept
      <4> QED
        BY <1>0, <4>1 DEF OutsideType, PeerRec
    <3> QED
      BY <1>5, <3>1, <3>2
  <2> QED
    BY <1>0, <2>1, <2>2 DEF OutsideType
<1>6. CASE ServiceData \/ AcceptRequest
  <2>1. peer' = [peer EXCEPT ![i].data = "none"] /\ readable' \subseteq readable
        /\ UNCHANGED <<clients, backlog>>
    BY <1>6 DEF ServiceData, AcceptRequest, NextSlot
  <2>2. peer' \in [Slots -> PeerRec]
    BY <1>0, <2>1 DEF OutsideType, PeerRec
  <2> QED
    BY <1>0, <2>1, <2>2 DEF OutsideType
<1>7. CASE RejectRequest \/ ServiceEnd \/ SendError
  <2>1. CloseRover /\ readable' \subseteq readable /\ UNCHANGED <<clients, backlog>>
    BY <1>7 DEF RejectRequest, ServiceEnd, SendError, NextSlot, Onward
  <2>2. peer' \in [Slots -> PeerRec]
    BY <2>1, ClosedFields
  <2> QED
    BY <1>0, <2>1, <2>2 DEF OutsideType
<1>8. CASE ClientConnects
  <2>1. clients + 1 \in 0..MaxClients /\ backlog' = 1 /\ clients' = clients + 1
        /\ UNCHANGED <<peer, readable>>
    BY <1>0, <1>8, CasterSizes DEF ClientConnects, OutsideType, task
  <2> QED
    BY <1>0, <2>1 DEF OutsideType
<1>9. CASE \E s \in Slots : ClientSends(s) \/ ClientLeaves(s)
  <2>1. PICK s \in Slots : ClientSends(s) \/ ClientLeaves(s)
    BY <1>9
  <2>2. UNCHANGED <<clients, backlog, readable>>
    BY <2>1 DEF ClientSends, ClientLeaves, task
  <2>3. peer' \in [Slots -> PeerRec]
    <3>1. CASE ClientSends(s)
      <4>1. PICK d \in {"some", "request"} : peer' = [peer EXCEPT ![s].data = d]
        BY <3>1 DEF ClientSends
      <4> QED
        BY <1>0, <4>1 DEF OutsideType, PeerRec
    <3>2. CASE ClientLeaves(s)
      <4>1. PICK c \in {"fin", "reset"} : peer' = [peer EXCEPT ![s].conn = c]
        BY <3>2 DEF ClientLeaves
      <4> QED
        BY <1>0, <4>1 DEF OutsideType, PeerRec
    <3> QED
      BY <2>1, <3>1, <3>2
  <2> QED
    BY <1>0, <2>2, <2>3 DEF OutsideType
<1> QED
  BY <1>2, <1>3, <1>4, <1>5, <1>6, <1>7, <1>8, <1>9
     DEF CasterNext, CasterTask, Forward, Service

LEMMA KeepsTypes == ASSUME TypeInv, [CasterNext]_casterVars PROVE TypeInv'
<1>1. CASE CasterNext
  BY <1>1, TaskTypes, QueueTypes, RoverTypes, OutsideTypes DEF TypeInv
<1>2. CASE UNCHANGED casterVars
  BY <1>2 DEF casterVars, TypeInv, TaskType, QueueType, RoverType, OutsideType
<1> QED
  BY <1>1, <1>2

\* Every variable keeps its type: the counters and the queue stay in bounds,
\* and a connection is accepted only while one waits (ntrip_caster.c).
THEOREM CasterTypeCorrect == CasterSpec => []CasterTypeOK
<1>1. CasterSpec => []TypeInv
  BY InitialTypes, KeepsTypes, PTL DEF CasterSpec
<1> QED
  BY <1>1, TypeParts, PTL

-----------------------------------------------------------------------------
(* The stream: what a rover got, next to what is left for it.              *)

\* Outside its two loops the task stands at the first slot, and at the start
\* of a frame outside the forwarding of one.
PlaceOk == /\ at \notin {"service", "send"} => i = 1
           /\ at # "send" => offset = 0
           /\ at \in {"send", "give"} => f # 0

\* Frames wait in the order of their publication.
OrderOk == /\ f <= rtcm
           /\ \A k \in 1..Len(waiting) : f < waiting[k] /\ waiting[k] <= rtcm
           /\ \A j, k \in 1..Len(waiting) : j < k => waiting[j] < waiting[k]

\* What rover s got is older than what waits, and older than the frame in
\* hand until its turn.
OlderOk(s) ==
    /\ told[s].f <= rtcm
    /\ \A k \in 1..Len(waiting) : told[s].f < waiting[k]
    /\ at \in {"send", "give"} => told[s].f <= f
    /\ at = "send" /\ (i < s \/ (i = s /\ offset = 0)) => told[s].f < f

\* The task is inside the frame of rover s.
Inside(s) == at = "send" /\ i = s /\ offset # 0

\* The last piece a rover got is the end of a frame, or the piece before the
\* one the task will send, or before the one the pending tail begins with.
TailOk(s) ==
    /\ ~Streaming(s) => told[s] = Nothing /\ rover[s].pending = 0 /\ ~Inside(s)
    /\ Streaming(s) => told[s].f >= 0 /\ peer[s].data # "request"
    /\ rover[s].pending # 0 =>
         /\ told[s].f = rover[s].pending /\ told[s].piece = rover[s].pos
         /\ s \in blocked /\ ~Inside(s)
    /\ Inside(s) => told[s].f = f /\ told[s].piece = offset
    /\ Streaming(s) /\ rover[s].pending = 0 /\ ~Inside(s) => told[s].piece = Pieces

\* The frame in hand is through with rover s.
Past(s) == at = "give" \/ (at = "send" /\ s < i)

ReachedOk(s) == Past(s) /\ Streaming(s) /\ s \notin blocked =>
                  told[s].f = f /\ told[s].piece = Pieces

RoverOk(s) == OlderOk(s) /\ TailOk(s) /\ ReachedOk(s)

RoverStreamInv == TypeInv /\ PlaceOk /\ OrderOk /\ \A s \in Slots : RoverOk(s)

LEMMA Elements ==
  ASSUME NEW S, NEW q \in Seq(S)
  PROVE  Len(q) \in Nat /\ \A k \in 1..Len(q) : q[k] \in S
  OBVIOUS

LEMMA SlotFacts ==
  ASSUME TypeInv
  PROVE  /\ i \in 1..Rovers /\ offset \in 0..(Pieces - 1) /\ f \in 0..MaxRtcm
         /\ rtcm \in 0..MaxRtcm /\ waiting \in Seq(1..MaxRtcm) /\ Len(waiting) \in Nat
         /\ \A k \in 1..Len(waiting) : waiting[k] \in 1..MaxRtcm
         /\ \A s \in Slots :
              /\ s \in 1..Rovers
              /\ rover[s] \in RoverRec /\ rover[s].pending \in 0..MaxRtcm
              /\ rover[s].pos \in 0..(Pieces - 1)
              /\ told[s] \in ToldRec /\ told[s].f \in -1..MaxRtcm
              /\ told[s].piece \in 0..Pieces
<1>1. waiting \in Seq(1..MaxRtcm)
  BY DEF TypeInv, QueueType
<1>2. Len(waiting) \in Nat /\ \A k \in 1..Len(waiting) : waiting[k] \in 1..MaxRtcm
  BY <1>1, Elements
<1>3. i \in 1..Rovers /\ offset \in 0..(Pieces - 1) /\ f \in 0..MaxRtcm /\ rtcm \in 0..MaxRtcm
  BY DEF TypeInv, TaskType, QueueType, Slots
<1>4. ASSUME NEW s \in Slots
      PROVE  /\ s \in 1..Rovers
             /\ rover[s] \in RoverRec /\ rover[s].pending \in 0..MaxRtcm
             /\ rover[s].pos \in 0..(Pieces - 1)
             /\ told[s] \in ToldRec /\ told[s].f \in -1..MaxRtcm
             /\ told[s].piece \in 0..Pieces
  <2>1. rover[s] \in RoverRec /\ told[s] \in ToldRec /\ s \in 1..Rovers
    BY DEF TypeInv, RoverType, Slots
  <2> QED
    BY <2>1 DEF RoverRec, ToldRec
<1> QED
  BY <1>1, <1>2, <1>3, <1>4

LEMMA InitialStream == CasterInit => RoverStreamInv
<1> SUFFICES ASSUME CasterInit PROVE RoverStreamInv
  OBVIOUS
<1>1. TypeInv
  BY InitialTypes
<1>2. PlaceOk
  BY DEF CasterInit, PlaceOk
<1>3. Len(waiting) = 0
  BY DEF CasterInit
<1>4. OrderOk
  BY <1>3 DEF CasterInit, OrderOk
<1>5. ASSUME NEW s \in Slots PROVE RoverOk(s)
  <2>1. rover[s] = Empty /\ told[s] = Nothing
    BY DEF CasterInit
  <2>2. rtcm = 0 /\ at = "select"
    BY DEF CasterInit
  <2>3. rover[s].state = "EMPTY" /\ rover[s].pending = 0 /\ told[s].f = -1
    BY <2>1, Records
  <2>4. ~Streaming(s) /\ ~Inside(s) /\ ~Past(s)
    BY <2>2, <2>3 DEF Streaming, Inside, Past
  <2>5. OlderOk(s)
    BY <1>3, <2>2, <2>3 DEF OlderOk
  <2>6. TailOk(s)
    BY <2>1, <2>3, <2>4 DEF TailOk
  <2>7. ReachedOk(s)
    BY <2>4 DEF ReachedOk
  <2> QED
    BY <2>5, <2>6, <2>7 DEF RoverOk
<1> QED
  BY <1>1, <1>2, <1>4, <1>5 DEF RoverStreamInv

\* A slot nothing happens to.
Untouched(s) == /\ rover'[s] = rover[s] /\ told'[s] = told[s]
                /\ s \in blocked' <=> s \in blocked
                /\ peer'[s].data = peer[s].data \/ ~Streaming(s) \/ peer'[s].data # "request"

\* Outside the forwarding
LEMMA QuietSlot ==
  ASSUME RoverStreamInv, NEW s \in Slots, Untouched(s), UNCHANGED <<rtcm, waiting>>,
         at \notin {"send", "give"}, at' \notin {"send", "give"}
  PROVE  RoverOk(s)'
<1>1. RoverOk(s)
  BY DEF RoverStreamInv
<1>2. OlderOk(s)'
  BY <1>1 DEF RoverOk, OlderOk, Untouched
<1>3. TailOk(s)'
  BY <1>1 DEF RoverOk, TailOk, Inside, Streaming, Untouched
<1>4. ReachedOk(s)'
  BY DEF ReachedOk, Past
<1> QED
  BY <1>2, <1>3, <1>4 DEF RoverOk

\* Within the forwarding, while another slot has its turn
LEMMA OtherSlot ==
  ASSUME RoverStreamInv, NEW s \in Slots, Untouched(s), UNCHANGED <<rtcm, waiting, f>>,
         at = "send", s # i, Onward \/ UNCHANGED <<at, i>>
  PROVE  RoverOk(s)'
<1>1. RoverOk(s) /\ TypeInv
  BY DEF RoverStreamInv
<1>2. s \in 1..Rovers /\ i \in 1..Rovers
  BY <1>1, SlotFacts
<1>3. /\ at' \in {"send", "give"}
      /\ at' = "send" /\ i' <= s => i < s
      /\ Past(s)' => Past(s)
      /\ ~Inside(s) /\ ~Inside(s)'
  BY <1>2, CasterSizes DEF Onward, Past, Inside
<1>4. OlderOk(s)'
  <2>1. at' = "send" /\ (i' < s \/ (i' = s /\ offset' = 0)) => at = "send" /\ i < s
    BY <1>2, <1>3, CasterSizes DEF Onward
  <2> QED
    BY <1>1, <1>3, <2>1 DEF RoverOk, OlderOk, Untouched
<1>5. TailOk(s)'
  BY <1>1, <1>3 DEF RoverOk, TailOk, Streaming, Untouched
<1>6. ReachedOk(s)'
  BY <1>1, <1>3 DEF RoverOk, ReachedOk, Streaming, Untouched
<1> QED
  BY <1>4, <1>5, <1>6 DEF RoverOk

\* A slot that becomes, or stays, without a streaming rover
LEMMA IdleSlot ==
  ASSUME RoverStreamInv, NEW s \in Slots, ~Streaming(s)', told'[s] = Nothing,
         rover'[s].pending = 0, ~Inside(s)', rtcm' \in Nat,
         \A k \in 1..Len(waiting') : waiting'[k] \in Nat,
         at' = "send" \/ at' = "give" => f' \in Nat
  PROVE  RoverOk(s)'
<1>1. told'[s].f = -1
  BY Records
<1>2. OlderOk(s)'
  BY <1>1 DEF OlderOk
<1>3. TailOk(s)'
  BY DEF TailOk
<1>4. ReachedOk(s)'
  BY DEF ReachedOk
<1> QED
  BY <1>2, <1>3, <1>4 DEF RoverOk

\* Every step leaves the place and the order as they should be.
LEMMA KeepsPlace == ASSUME RoverStreamInv, CasterNext PROVE PlaceOk'
<1>0. PlaceOk /\ TypeInv
  BY DEF RoverStreamInv
<1>1. CASE UNCHANGED task
  BY <1>0, <1>1 DEF PlaceOk, task
<1>2. CASE Select \/ Accept \/ Refuse \/ AcceptNone \/ EndRound \/ GiveFrame
  BY <1>0, <1>2 DEF Select, Accept, Refuse, AcceptNone, ToService, EndRound, GiveFrame, PlaceOk
<1>3. CASE Service
  <2>1. at = "service" /\ NextSlot /\ UNCHANGED offset
    BY <1>3 DEF Service, ServiceNone, ServiceData, AcceptRequest, RejectRequest, ServiceEnd
  <2> QED
    BY <1>0, <2>1 DEF NextSlot, PlaceOk
<1>4. CASE TakeFrame
  <2>1. waiting \in Seq(1..MaxRtcm) /\ waiting # <<>>
    BY <1>0, <1>4 DEF TakeFrame, TypeInv, QueueType
  <2>2. Head(waiting) \in 1..MaxRtcm
    BY <2>1, FirstAndRest
  <2>3. f' # 0
    BY <1>4, <2>2, CasterSizes DEF TakeFrame
  <2> QED
    BY <1>0, <1>4, <2>3 DEF TakeFrame, PlaceOk
<1>5. CASE Onward /\ at = "send"
  BY <1>0, <1>5 DEF Onward, PlaceOk
<1>6. CASE SkipRover \/ FlushBlocked \/ SendBlocked \/ SendError
  BY <1>5, <1>6 DEF SkipRover, FlushBlocked, SendBlocked, SendError, Flushing, Sending
<1>7. CASE SendPiece
  <2>1. at = "send" /\ (Onward \/ UNCHANGED <<at, i, f>>)
    BY <1>7 DEF SendPiece, Sending
  <2> QED
    BY <1>0, <1>5, <2>1 DEF PlaceOk
<1>8. CASE PublishRtcm \/ FlushPiece \/ ClientConnects
           \/ \E s \in Slots : ClientSends(s) \/ ClientLeaves(s)
  BY <1>1, <1>8 DEF PublishRtcm, FlushPiece, ClientConnects, ClientSends, ClientLeaves
<1> QED
  BY <1>2, <1>3, <1>4, <1>6, <1>7, <1>8 DEF CasterNext, CasterTask, Forward

\* A frame is published with the next number, and taken first of what waits.
LEMMA Appended ==
  ASSUME NEW S, NEW q \in Seq(S), NEW x \in S
  PROVE  /\ Len(q) \in Nat /\ Len(Append(q, x)) = Len(q) + 1
         /\ \A k \in 1..Len(q) : Append(q, x)[k] = q[k]
         /\ Append(q, x)[Len(q) + 1] = x
  OBVIOUS

LEMMA KeepsOrder == ASSUME RoverStreamInv, CasterNext PROVE OrderOk'
<1>0. OrderOk /\ TypeInv
  BY DEF RoverStreamInv
<1>1. CASE UNCHANGED <<rtcm, waiting, f>>
  BY <1>0, <1>1 DEF OrderOk
<1>2. CASE PublishRtcm
  <2>1. rtcm \in Nat /\ rtcm + 1 \in 1..MaxRtcm /\ f \in Nat /\ Len(waiting) \in Nat
        /\ waiting \in Seq(1..MaxRtcm) /\ \A k \in 1..Len(waiting) : waiting[k] \in Nat
    <3>1. rtcm \in 0..MaxRtcm /\ f \in 0..MaxRtcm /\ rtcm < MaxRtcm
      BY <1>0, <1>2, SlotFacts DEF PublishRtcm
    <3>2. waiting \in Seq(1..MaxRtcm) /\ Len(waiting) \in Nat
          /\ \A k \in 1..Len(waiting) : waiting[k] \in 1..MaxRtcm
      BY <1>0, SlotFacts
    <3>3. rtcm \in Nat /\ rtcm + 1 \in 1..MaxRtcm /\ f \in Nat
      BY <3>1, CasterSizes
    <3> QED
      BY <3>2, <3>3
  <2>2. rtcm' = rtcm + 1 /\ f' = f
    BY <1>2 DEF PublishRtcm, task
  <2>3. CASE waiting' = waiting
    BY <1>0, <2>1, <2>2, <2>3 DEF OrderOk
  <2>4. CASE waiting' = Append(waiting, rtcm + 1)
    <3>1. /\ Len(waiting') = Len(waiting) + 1
          /\ \A k \in 1..Len(waiting) : waiting'[k] = waiting[k]
          /\ waiting'[Len(waiting) + 1] = rtcm + 1
      BY <2>1, <2>4, Appended
    <3>2. \A k \in 1..Len(waiting') : k \in 1..Len(waiting) \/ k = Len(waiting) + 1
      BY <2>1, <3>1
    <3>3. \A k \in 1..Len(waiting') : f' < waiting'[k] /\ waiting'[k] <= rtcm'
      BY <1>0, <2>1, <2>2, <3>1, <3>2 DEF OrderOk
    <3>4. ASSUME NEW j \in 1..Len(waiting'), NEW k \in 1..Len(waiting'), j < k
          PROVE  waiting'[j] < waiting'[k]
      <4>1. j \in 1..Len(waiting) /\ waiting'[j] = waiting[j] /\ waiting[j] <= rtcm
        BY <1>0, <2>1, <3>1, <3>2, <3>4 DEF OrderOk
      <4>2. CASE k = Len(waiting) + 1
        BY <2>1, <3>1, <4>1, <4>2
      <4>3. CASE k \in 1..Len(waiting)
        BY <1>0, <3>1, <3>4, <4>1, <4>3 DEF OrderOk
      <4> QED
        BY <3>2, <4>2, <4>3
    <3>5. f' <= rtcm'
      BY <1>0, <2>1, <2>2 DEF OrderOk
    <3> QED
      BY <3>3, <3>4, <3>5 DEF OrderOk
  <2> QED
    BY <1>2, <2>2, <2>3, <2>4 DEF PublishRtcm
<1>3. CASE TakeFrame
  <2>1. waiting \in Seq(1..MaxRtcm) /\ waiting # <<>>
    BY <1>0, <1>3 DEF TakeFrame, TypeInv, QueueType
  <2>2. /\ f' = waiting[1] /\ rtcm' = rtcm
        /\ Len(waiting) \in Nat \ {0} /\ Len(waiting') = Len(waiting) - 1
        /\ \A k \in 1..Len(waiting') : waiting'[k] = waiting[k + 1]
    BY <1>3, <2>1, FirstAndRest DEF TakeFrame
  <2>3. \A k \in 1..Len(waiting') : k + 1 \in 1..Len(waiting) /\ 1 < k + 1
    BY <2>2
  <2>4. 1 \in 1..Len(waiting)
    BY <2>2
  <2>5. f' <= rtcm'
    BY <1>0, <2>2, <2>4 DEF OrderOk
  <2>6. \A k \in 1..Len(waiting') : f' < waiting'[k] /\ waiting'[k] <= rtcm'
    BY <1>0, <2>2, <2>3, <2>4 DEF OrderOk
  <2>7. ASSUME NEW j \in 1..Len(waiting'), NEW k \in 1..Len(waiting'), j < k
        PROVE  waiting'[j] < waiting'[k]
    <3>1. j + 1 \in 1..Len(waiting) /\ k + 1 \in 1..Len(waiting) /\ j + 1 < k + 1
      BY <2>2, <2>3, <2>7
    <3> QED
      BY <1>0, <2>2, <3>1 DEF OrderOk
  <2> QED
    BY <2>5, <2>6, <2>7 DEF OrderOk
<1>4. CASE GiveFrame
  <2>1. f' = 0 /\ UNCHANGED <<rtcm, waiting>>
    BY <1>4 DEF GiveFrame
  <2>2. rtcm \in Nat /\ \A k \in 1..Len(waiting) : waiting[k] \in 1..MaxRtcm
    BY <1>0, SlotFacts, CasterSizes
  <2> QED
    BY <1>0, <2>1, <2>2, CasterSizes DEF OrderOk
<1>5. CASE Select \/ Accept \/ Refuse \/ AcceptNone \/ Service
  BY <1>1, <1>5 DEF Select, Accept, Refuse, AcceptNone, Service, ServiceNone, ServiceData,
                    AcceptRequest, RejectRequest, ServiceEnd
<1>6. CASE \/ EndRound \/ SkipRover \/ FlushPiece \/ FlushBlocked \/ SendPiece
           \/ SendBlocked \/ SendError
  BY <1>1, <1>6 DEF EndRound, SkipRover, FlushPiece, FlushBlocked, SendPiece, SendBlocked,
                    SendError, Onward, task
<1>7. CASE ClientConnects \/ \E s \in Slots : ClientSends(s) \/ ClientLeaves(s)
  BY <1>1, <1>7 DEF ClientConnects, ClientSends, ClientLeaves, task
<1> QED
  BY <1>2, <1>3, <1>4, <1>5, <1>6, <1>7 DEF CasterNext, CasterTask, Forward

\* The turn of slot s ends.
LEMMA TurnOver ==
  ASSUME RoverStreamInv, NEW s \in Slots, s = i, at = "send", Onward, UNCHANGED <<rtcm, waiting>>,
         told'[s].f \in {told[s].f, f}
  PROVE  /\ OlderOk(s)' /\ ~Inside(s)' /\ f' = f /\ f # 0
<1>1. TypeInv /\ OrderOk /\ PlaceOk /\ RoverOk(s)
  BY DEF RoverStreamInv
<1>2. /\ i \in 1..Rovers /\ f \in Nat /\ told[s].f \in Int /\ f # 0 /\ rtcm \in Int
      /\ \A k \in 1..Len(waiting) : waiting[k] \in Int
  BY <1>1, SlotFacts, CasterSizes DEF PlaceOk
<1>3. ~(at' = "send" /\ i' <= i) /\ f' = f
  BY <1>2 DEF Onward
<1>4. told[s].f <= f /\ told[s].f <= rtcm /\ f <= rtcm
      /\ \A k \in 1..Len(waiting) : told[s].f < waiting[k] /\ f < waiting[k]
  BY <1>1 DEF RoverOk, OlderOk, OrderOk
<1>5. told'[s].f <= f' /\ told'[s].f <= rtcm'
      /\ \A k \in 1..Len(waiting') : told'[s].f < waiting'[k]
  BY <1>2, <1>3, <1>4
<1>6. ~(at' = "send" /\ (i' < s \/ (i' = s /\ offset' = 0))) /\ ~Inside(s)'
  BY <1>2, <1>3, CasterSizes DEF Onward, Inside
<1> QED
  BY <1>2, <1>3, <1>5, <1>6 DEF OlderOk

\* What a step of the forwarding does to the other slots
LEMMA OtherTurns ==
  ASSUME RoverStreamInv, NEW s \in Slots, s # i,
         SkipRover \/ FlushPiece \/ FlushBlocked \/ SendPiece \/ SendBlocked \/ SendError
  PROVE  RoverOk(s)'
<1>1. TypeInv
  BY DEF RoverStreamInv
<1>2. i \in Slots /\ RoverType
  BY <1>1 DEF TypeInv, TaskType
<1>3. CASE SkipRover \/ FlushBlocked \/ SendBlocked
  <2>1. Untouched(s) /\ UNCHANGED <<rtcm, waiting, f>> /\ at = "send" /\ Onward
    BY <1>2, <1>3 DEF SkipRover, FlushBlocked, SendBlocked, Flushing, Sending, Onward,
                      Untouched, RoverType, outside
  <2> QED
    BY <2>1, OtherSlot
<1>4. CASE FlushPiece
  <2>1. UNCHANGED <<rtcm, waiting, f, at, i, peer, blocked>> /\ at = "send"
    BY <1>4 DEF FlushPiece, Flushing, task, outside
  <2>2. rover'[s] = rover[s] /\ told'[s] = told[s]
    BY <1>2, <1>4 DEF FlushPiece, RoverType
  <2> QED
    BY <2>1, <2>2, OtherSlot DEF Untouched
<1>5. CASE SendPiece
  <2>1. UNCHANGED <<rtcm, waiting, f, rover, peer, blocked>> /\ at = "send"
        /\ (Onward \/ UNCHANGED <<at, i>>)
    BY <1>5 DEF SendPiece, Sending, Onward, outside
  <2>2. told'[s] = told[s]
    BY <1>2, <1>5 DEF SendPiece, RoverType
  <2> QED
    BY <2>1, <2>2, OtherSlot DEF Untouched
<1>6. CASE SendError
  <2>1. UNCHANGED <<rtcm, waiting, f>> /\ at = "send" /\ Onward /\ CloseRover
    BY <1>6 DEF SendError, Flushing, Sending, Onward
  <2> QED
    BY <1>1, <2>1, ClosedFields, OtherSlot DEF Untouched
<1> QED
  BY <1>3, <1>4, <1>5, <1>6

\* What the socket takes of the tail and of the frame of slot i
LEMMA FlushFields ==
  ASSUME RoverStreamInv, FlushPiece
  PROVE  /\ told'[i].f = told[i].f /\ told'[i].f = rover[i].pending
         /\ told'[i].piece = told[i].piece + 1
         /\ told[i].f \in Nat \ {0} /\ told[i].piece \in 0..(Pieces - 1)
         /\ rover[i].state = "STREAMING" /\ rover'[i].state = "STREAMING"
         /\ IF told'[i].piece = Pieces THEN rover'[i].pending = 0
            ELSE rover'[i].pending = told'[i].f /\ rover'[i].pos = told'[i].piece
         /\ i \in blocked /\ ~Inside(i)
<1>1. TypeInv /\ RoverOk(i) /\ i \in Slots
  BY DEF RoverStreamInv, TypeInv, TaskType
<1>2. /\ rover[i].pending # 0 /\ rover[i].state = "STREAMING"
      /\ told[i].f = rover[i].pending /\ told[i].piece = rover[i].pos
      /\ i \in blocked /\ ~Inside(i)
  BY <1>1 DEF FlushPiece, Flushing, Streaming, RoverOk, TailOk
<1>3. rover[i].pending \in 0..MaxRtcm /\ rover[i].pos \in 0..(Pieces - 1)
      /\ rover[i] \in RoverRec
  BY <1>1, SlotFacts
<1>4. told'[i] = [f |-> rover[i].pending, piece |-> rover[i].pos + 1]
  BY <1>1 DEF FlushPiece, TypeInv, RoverType
<1>5. told'[i].f = rover[i].pending /\ told'[i].piece = rover[i].pos + 1
  BY <1>4
<1>6. CASE rover[i].pos + 1 = Pieces
  <2>1. rover'[i] = [Empty EXCEPT !.state = "STREAMING"]
    BY <1>1, <1>6 DEF FlushPiece, TypeInv, RoverType
  <2>2. rover'[i].state = "STREAMING" /\ rover'[i].pending = 0
    BY <2>1 DEF Empty
  <2> QED
    BY <1>2, <1>3, <1>5, <1>6, <2>2, CasterSizes
<1>7. CASE rover[i].pos + 1 # Pieces
  <2>1. rover'[i] = [rover[i] EXCEPT !.pos = rover[i].pos + 1]
    BY <1>1, <1>7 DEF FlushPiece, TypeInv, RoverType
  <2>2. /\ rover'[i].state = rover[i].state /\ rover'[i].pending = rover[i].pending
        /\ rover'[i].pos = rover[i].pos + 1
    BY <1>3, <2>1 DEF RoverRec
  <2> QED
    BY <1>2, <1>3, <1>5, <1>7, <2>2, CasterSizes
<1> QED
  BY <1>6, <1>7

LEMMA SendFields ==
  ASSUME RoverStreamInv, SendPiece
  PROVE  /\ told'[i].f = f /\ told'[i].piece = offset + 1 /\ f \in Nat \ {0}
         /\ IF offset = 0 THEN told[i].f < f /\ told[i].piece = Pieces
                          ELSE told[i].f = f /\ told[i].piece = offset
         /\ Streaming(i) /\ rover[i].pending = 0 /\ rover' = rover
<1>1. TypeInv /\ RoverOk(i) /\ i \in Slots /\ PlaceOk
  BY DEF RoverStreamInv, TypeInv, TaskType
<1>2. at = "send" /\ Streaming(i) /\ rover[i].pending = 0 /\ rover' = rover
  BY DEF SendPiece, Sending
<1>3. told'[i] = [f |-> f, piece |-> offset + 1]
  BY <1>1 DEF SendPiece, TypeInv, RoverType
<1>4. f \in Nat \ {0}
  BY <1>1, <1>2, SlotFacts, CasterSizes DEF PlaceOk
<1>5. IF offset = 0 THEN told[i].f < f /\ told[i].piece = Pieces
                    ELSE told[i].f = f /\ told[i].piece = offset
  BY <1>1, <1>2 DEF RoverOk, OlderOk, TailOk, Inside
<1> QED
  BY <1>2, <1>3, <1>4, <1>5

\* What a step of the forwarding does to the slot whose turn it is
LEMMA OwnTurn ==
  ASSUME RoverStreamInv, NEW s \in Slots, s = i, rtcm' \in Nat,
         \A k \in 1..Len(waiting') : waiting'[k] \in Nat, f' \in Nat,
         SkipRover \/ FlushPiece \/ FlushBlocked \/ SendPiece \/ SendBlocked \/ SendError
  PROVE  RoverOk(s)'
<1>1. TypeInv /\ RoverOk(s) /\ i \in 1..Rovers
  BY SlotFacts DEF RoverStreamInv
<1>2. CASE SkipRover
  <2>1. at = "send" /\ ~Streaming(s) /\ Onward /\ UNCHANGED <<rtcm, waiting, told, rover>>
    BY <1>2 DEF SkipRover
  <2>2. ~Inside(s)'
    BY <2>1, TurnOver
  <2>3. told[s] = Nothing /\ rover[s].pending = 0
    BY <1>1, <2>1 DEF RoverOk, TailOk
  <2> QED
    BY <2>1, <2>2, <2>3, IdleSlot DEF Streaming
<1>3. CASE FlushBlocked
  <2>1. /\ at = "send" /\ Streaming(s) /\ rover[s].pending # 0 /\ Onward /\ s \in blocked'
        /\ UNCHANGED <<rtcm, waiting, told, rover, peer>>
    BY <1>3 DEF FlushBlocked, Flushing, outside
  <2>2. OlderOk(s)' /\ ~Inside(s)'
    BY <2>1, TurnOver
  <2>3. TailOk(s)'
    BY <1>1, <2>1, <2>2 DEF RoverOk, TailOk, Streaming
  <2> QED
    BY <2>1, <2>2, <2>3 DEF RoverOk, ReachedOk
<1>4. CASE FlushPiece
  <2>1. UNCHANGED <<rtcm, waiting, at, i, f, offset, peer, blocked>>
    BY <1>4 DEF FlushPiece, task, outside
  <2>2. /\ told'[s].f = told[s].f /\ told'[s].f = rover[s].pending
        /\ told[s].f \in Nat \ {0}
        /\ rover[s].state = "STREAMING" /\ rover'[s].state = "STREAMING"
        /\ IF told'[s].piece = Pieces THEN rover'[s].pending = 0
           ELSE rover'[s].pending = told'[s].f /\ rover'[s].pos = told'[s].piece
        /\ s \in blocked /\ ~Inside(s)
    BY <1>4, FlushFields
  <2>3. OlderOk(s)'
    BY <1>1, <2>1, <2>2 DEF RoverOk, OlderOk
  <2>4. TailOk(s)'
    <3>1. Streaming(s) /\ Streaming(s)' /\ ~Inside(s)' /\ s \in blocked'
      BY <2>1, <2>2 DEF Streaming, Inside
    <3>2. told'[s].f >= 0 /\ peer'[s].data # "request"
      BY <1>1, <2>1, <2>2, <3>1 DEF RoverOk, TailOk
    <3>3. rover'[s].pending # 0 => told'[s].f = rover'[s].pending /\ told'[s].piece = rover'[s].pos
      BY <2>2
    <3>4. rover'[s].pending = 0 => told'[s].piece = Pieces
      BY <2>2
    <3> QED
      BY <3>1, <3>2, <3>3, <3>4 DEF TailOk
  <2>5. ReachedOk(s)'
    BY <2>1, <2>2 DEF ReachedOk
  <2> QED
    BY <2>3, <2>4, <2>5 DEF RoverOk
<1>5. CASE SendPiece
  <2>1. UNCHANGED <<rtcm, waiting, peer, rover, blocked>> /\ at = "send"
    BY <1>5 DEF SendPiece, Sending, outside
  <2>2. told'[s].f = f /\ told'[s].piece = offset + 1 /\ Streaming(s) /\ rover[s].pending = 0
        /\ f \in Nat \ {0}
    BY <1>5, SendFields
  <2>3. Streaming(s)' /\ rover'[s].pending = 0 /\ peer'[s].data # "request"
    BY <1>1, <2>1, <2>2 DEF Streaming, RoverOk, TailOk
  <2>4. CASE offset + 1 = Pieces
    <3>1. Onward
      BY <1>5, <2>4 DEF SendPiece
    <3>2. OlderOk(s)' /\ ~Inside(s)' /\ f' = f
      BY <2>1, <2>2, <3>1, TurnOver
    <3>3. TailOk(s)'
      BY <2>2, <2>3, <2>4, <3>2 DEF TailOk
    <3>4. ReachedOk(s)'
      BY <2>2, <2>4, <3>2 DEF ReachedOk
    <3> QED
      BY <3>2, <3>3, <3>4 DEF RoverOk
  <2>5. CASE offset + 1 # Pieces
    <3>1. offset' = offset + 1 /\ UNCHANGED <<at, i, f>> /\ offset \in Nat
      BY <1>1, <1>5, <2>5, SlotFacts, CasterSizes DEF SendPiece
    <3>2. Inside(s)' /\ ~Past(s)' /\ ~(i' < s) /\ offset' # 0
      BY <1>1, <2>1, <3>1 DEF Inside, Past
    <3>3. OlderOk(s)'
      <4>1. OrderOk
        BY DEF RoverStreamInv
      <4> QED
        BY <2>1, <2>2, <3>1, <3>2, <4>1 DEF OlderOk, OrderOk
    <3>4. TailOk(s)'
      BY <2>2, <2>3, <3>1, <3>2 DEF TailOk
    <3> QED
      BY <3>2, <3>3, <3>4 DEF RoverOk, ReachedOk
  <2> QED
    BY <2>4, <2>5
<1>6. CASE SendBlocked
  <2>1. /\ at = "send" /\ Streaming(s) /\ rover[s].pending = 0 /\ Onward /\ s \in blocked'
        /\ UNCHANGED <<rtcm, waiting, told, peer>>
    BY <1>6 DEF SendBlocked, Sending, outside
  <2>2. OlderOk(s)' /\ ~Inside(s)' /\ f # 0
    BY <2>1, TurnOver
  <2>3. rover \in [Slots -> RoverRec] /\ rover[s] \in RoverRec
    BY <1>1 DEF TypeInv, RoverType
  <2>4. /\ rover'[s].state = "STREAMING"
        /\ IF offset = 0 THEN rover'[s].pending = 0
           ELSE rover'[s].pending = f /\ rover'[s].pos = offset
    <3>1. CASE offset = 0
      BY <1>6, <2>1, <3>1 DEF SendBlocked, Streaming
    <3>2. CASE offset # 0
      <4>1. rover'[s] = [rover[s] EXCEPT !.pending = f, !.pos = offset]
        BY <1>6, <2>3, <3>2 DEF SendBlocked
      <4> QED
        BY <2>1, <2>3, <3>2, <4>1 DEF RoverRec, Streaming
    <3> QED
      BY <3>1, <3>2
  <2>5. IF offset = 0 THEN told[s].piece = Pieces
        ELSE told[s].f = f /\ told[s].piece = offset
    BY <1>1, <2>1 DEF RoverOk, TailOk, Inside
  <2>6. told[s].f >= 0 /\ peer[s].data # "request"
    BY <1>1, <2>1 DEF RoverOk, TailOk
  <2>7. TailOk(s)'
    BY <2>1, <2>2, <2>4, <2>5, <2>6 DEF TailOk, Streaming
  <2> QED
    BY <2>1, <2>2, <2>7 DEF RoverOk, ReachedOk
<1>7. CASE SendError
  <2>1. CloseRover /\ at = "send" /\ Onward
    BY <1>7 DEF SendError, Flushing, Sending
  <2>2. ~Inside(s)'
    BY <2>1, <1>1, CasterSizes DEF Onward, Inside
  <2>3. rover'[s].state = "EMPTY" /\ rover'[s].pending = 0 /\ told'[s] = Nothing
    BY <1>1, <2>1, ClosedFields
  <2> QED
    BY <2>2, <2>3, IdleSlot DEF Streaming
<1> QED
  BY <1>2, <1>3, <1>4, <1>5, <1>6, <1>7

\* What a step outside the forwarding does to a slot
LEMMA OtherPlaces ==
  ASSUME RoverStreamInv, NEW s \in Slots, Select \/ Accept \/ Refuse \/ AcceptNone \/ Service \/ EndRound,
         rtcm' \in Nat, \A k \in 1..Len(waiting') : waiting'[k] \in Nat, f' \in Nat
  PROVE  RoverOk(s)'
<1>1. TypeInv /\ RoverOk(s) /\ i \in Slots /\ RoverType /\ OutsideType
  BY DEF RoverStreamInv, TypeInv, TaskType
<1>2. /\ at \notin {"send", "give"} /\ at' \notin {"send", "give"}
      /\ UNCHANGED <<rtcm, waiting>> /\ ~Inside(s)'
  BY DEF Select, Accept, Refuse, AcceptNone, ToService, Service, ServiceNone, ServiceData,
         AcceptRequest, RejectRequest, ServiceEnd, NextSlot, EndRound, Inside
<1>3. CASE Untouched(s)
  BY <1>2, <1>3, QuietSlot
<1>4. CASE Select \/ Refuse \/ AcceptNone \/ ServiceNone \/ EndRound
  BY <1>3, <1>4 DEF Select, Refuse, AcceptNone, ServiceNone, EndRound, outside, Untouched
<1>5. CASE ServiceData
  <2>1. peer'[s].data \in {peer[s].data, "none"}
    BY <1>1, <1>5 DEF ServiceData, OutsideType, PeerRec
  <2> QED
    BY <1>3, <1>5, <2>1 DEF ServiceData, Untouched
<1>6. CASE Accept
  <2>1. PICK c \in Free : /\ rover' = [rover EXCEPT ![c] = [Empty EXCEPT !.state = "HANDSHAKE"]]
                          /\ peer' = [peer EXCEPT ![c].conn = "open"]
    BY <1>6 DEF Accept
  <2>2. UNCHANGED <<told, blocked>> /\ c \in Slots /\ ~Streaming(c)
    BY <1>6 DEF Accept, Free, Streaming
  <2>3. CASE s = c
    <3>1. rover'[s] = [Empty EXCEPT !.state = "HANDSHAKE"] /\ told[s] = Nothing
      BY <1>1, <2>1, <2>2, <2>3 DEF RoverType, RoverOk, TailOk
    <3>2. rover'[s].state = "HANDSHAKE" /\ rover'[s].pending = 0
      BY <3>1 DEF Empty
    <3> QED
      BY <1>2, <2>2, <3>1, <3>2, IdleSlot DEF Streaming
  <2>4. CASE s # c
    <3>1. rover'[s] = rover[s] /\ peer'[s] = peer[s]
      BY <1>1, <2>1, <2>4 DEF RoverType, OutsideType
    <3> QED
      BY <1>3, <2>2, <3>1 DEF Untouched
  <2> QED
    BY <2>3, <2>4
<1>7. CASE AcceptRequest
  <2>1. CASE s # i
    <3>1. rover'[s] = rover[s] /\ peer'[s] = peer[s] /\ told'[s] = told[s] /\ blocked' = blocked
      BY <1>1, <1>7, <2>1 DEF AcceptRequest, RoverType, OutsideType
    <3> QED
      BY <1>3, <3>1 DEF Untouched
  <2>2. CASE s = i
    <3>1. ~Streaming(s) /\ rover[s].pending = 0
      BY <1>1, <1>7, <2>2 DEF AcceptRequest, RoverOk, TailOk
    <3>2. told'[s] = [f |-> 0, piece |-> Pieces]
      BY <1>1, <1>7, <2>2 DEF AcceptRequest, RoverType
    <3>3. told'[s].f = 0 /\ told'[s].piece = Pieces
      BY <3>2
    <3>4. rover'[s].state = "STREAMING" /\ rover'[s].pending = 0
      BY <1>1, <1>7, <2>2, <3>1 DEF AcceptRequest, RoverType, RoverRec
    <3>5. peer'[s].data = "none"
      BY <1>1, <1>7, <2>2 DEF AcceptRequest, OutsideType, PeerRec
    <3>6. \A k \in 1..Len(waiting') : 0 < waiting'[k]
      <4>1. \A k \in 1..Len(waiting) : waiting[k] \in 1..MaxRtcm
        BY <1>1, SlotFacts
      <4> QED
        BY <1>2, <4>1, CasterSizes
    <3>7. OlderOk(s)'
      BY <1>2, <3>3, <3>6 DEF OlderOk
    <3>8. TailOk(s)'
      BY <1>2, <3>3, <3>4, <3>5 DEF TailOk, Streaming
    <3> QED
      BY <1>2, <3>7, <3>8 DEF RoverOk, ReachedOk, Past
  <2> QED
    BY <2>1, <2>2
<1>8. CASE RejectRequest \/ ServiceEnd
  <2>1. CloseRover
    BY <1>8 DEF RejectRequest, ServiceEnd
  <2>2. CASE s # i
    BY <1>1, <1>3, <2>1, <2>2, ClosedFields DEF Untouched
  <2>3. CASE s = i
    <3>1. rover'[s].state = "EMPTY" /\ rover'[s].pending = 0 /\ told'[s] = Nothing
      BY <1>1, <2>1, <2>3, ClosedFields
    <3> QED
      BY <1>2, <3>1, IdleSlot DEF Streaming
  <2> QED
    BY <2>2, <2>3
<1> QED
  BY <1>4, <1>5, <1>6, <1>7, <1>8 DEF Service

LEMMA KeepsRovers == ASSUME RoverStreamInv, CasterNext, NEW s \in Slots PROVE RoverOk(s)'
<1>1. TypeInv /\ RoverOk(s) /\ OrderOk /\ PlaceOk /\ OutsideType
  BY DEF RoverStreamInv, TypeInv
<1>2. rtcm' \in Nat /\ f' \in Nat /\ \A k \in 1..Len(waiting') : waiting'[k] \in Nat
  <2>1. QueueType' /\ TaskType'
    BY <1>1, QueueTypes, TaskTypes
  <2>2. waiting' \in Seq(1..MaxRtcm)
    BY <2>1 DEF QueueType
  <2>3. \A k \in 1..Len(waiting') : waiting'[k] \in 1..MaxRtcm
    BY <2>2, Elements
  <2> QED
    BY <2>1, <2>3, CasterSizes DEF QueueType, TaskType
<1>3. CASE Select \/ Accept \/ Refuse \/ AcceptNone \/ Service \/ EndRound
  BY <1>2, <1>3, OtherPlaces
<1>4. CASE SkipRover \/ FlushPiece \/ FlushBlocked \/ SendPiece \/ SendBlocked \/ SendError
  BY <1>2, <1>4, OtherTurns, OwnTurn
<1>5. CASE PublishRtcm
  <2>1. UNCHANGED <<at, i, f, offset, rover, told, blocked, peer>>
    BY <1>5 DEF PublishRtcm, task, outside
  <2>2. OrderOk' /\ rtcm' = rtcm + 1 /\ rtcm \in Nat /\ told[s].f \in Int /\ Len(waiting) \in Nat
    BY <1>1, <1>5, KeepsOrder, SlotFacts, CasterSizes DEF PublishRtcm, CasterNext
  <2>3. \A k \in 1..Len(waiting') : told[s].f < waiting'[k]
    <3>1. CASE waiting' = waiting
      BY <1>1, <3>1 DEF RoverOk, OlderOk
    <3>2. CASE waiting' = Append(waiting, rtcm + 1)
      <4>1. waiting \in Seq(1..MaxRtcm) /\ rtcm + 1 \in 1..MaxRtcm
        BY <1>1, <1>5, SlotFacts, CasterSizes DEF PublishRtcm
      <4>2. /\ Len(waiting') = Len(waiting) + 1
            /\ \A k \in 1..Len(waiting) : waiting'[k] = waiting[k]
            /\ waiting'[Len(waiting) + 1] = rtcm + 1
        BY <3>2, <4>1, Appended
      <4>3. \A k \in 1..Len(waiting') : k \in 1..Len(waiting) \/ k = Len(waiting) + 1
        BY <2>2, <4>2
      <4> QED
        BY <1>1, <2>2, <4>2, <4>3 DEF RoverOk, OlderOk
    <3> QED
      BY <1>5, <2>2, <3>1, <3>2 DEF PublishRtcm
  <2>4. OlderOk(s)'
    BY <1>1, <2>1, <2>2, <2>3 DEF RoverOk, OlderOk
  <2>5. TailOk(s)' /\ ReachedOk(s)'
    BY <1>1, <2>1 DEF RoverOk, TailOk, ReachedOk, Inside, Past, Streaming
  <2> QED
    BY <2>4, <2>5 DEF RoverOk
<1>6. CASE TakeFrame
  <2>1. waiting \in Seq(1..MaxRtcm) /\ waiting # <<>>
    BY <1>1, <1>6 DEF TakeFrame, TypeInv, QueueType
  <2>2. /\ f' = waiting[1] /\ Len(waiting) \in Nat \ {0}
        /\ Len(waiting') = Len(waiting) - 1
        /\ \A k \in 1..Len(waiting') : waiting'[k] = waiting[k + 1]
    BY <1>6, <2>1, FirstAndRest DEF TakeFrame
  <2>3. /\ at = "receive" /\ at' = "send" /\ i = 1 /\ i' = 1 /\ offset = 0 /\ offset' = 0
        /\ UNCHANGED <<rtcm, rover, peer, told, blocked>>
    BY <1>1, <1>6 DEF TakeFrame, PlaceOk, outside
  <2>4. \A k \in 1..Len(waiting') : k + 1 \in 1..Len(waiting)
    BY <2>2
  <2>5. 1 \in 1..Len(waiting) /\ told[s].f \in Int /\ s \in 1..Rovers
    BY <1>1, <2>2, SlotFacts
  <2>6. told[s].f < f' /\ \A k \in 1..Len(waiting') : told[s].f < waiting'[k]
    BY <1>1, <2>2, <2>4, <2>5 DEF RoverOk, OlderOk
  <2>7. OlderOk(s)'
    BY <1>1, <1>2, <2>3, <2>5, <2>6 DEF RoverOk, OlderOk
  <2>8. ~Inside(s) /\ ~Inside(s)' /\ ~Past(s)'
    BY <2>3, <2>5 DEF Inside, Past
  <2>9. TailOk(s)' /\ ReachedOk(s)'
    BY <1>1, <2>3, <2>8 DEF RoverOk, TailOk, ReachedOk, Streaming
  <2> QED
    BY <2>7, <2>9 DEF RoverOk
<1>7. CASE GiveFrame
  <2>1. /\ at = "give" /\ at' = "receive"
        /\ UNCHANGED <<rtcm, waiting, rover, peer, told, blocked>>
    BY <1>7 DEF GiveFrame, outside
  <2>2. ~Inside(s) /\ ~Inside(s)' /\ ~Past(s)'
    BY <2>1 DEF Inside, Past
  <2>3. OlderOk(s)'
    BY <1>1, <2>1 DEF RoverOk, OlderOk
  <2>4. TailOk(s)' /\ ReachedOk(s)'
    BY <1>1, <2>1, <2>2 DEF RoverOk, TailOk, ReachedOk, Streaming
  <2> QED
    BY <2>3, <2>4 DEF RoverOk
<1>8. CASE ClientConnects \/ \E c \in Slots : ClientSends(c) \/ ClientLeaves(c)
  <2>1. UNCHANGED <<rtcm, waiting, at, i, f, offset, rover, told, blocked>>
    BY <1>8 DEF ClientConnects, ClientSends, ClientLeaves, task
  <2>2. Streaming(s) => peer'[s].data # "request"
    <3>1. Streaming(s) => peer[s].data # "request"
      BY <1>1 DEF RoverOk, TailOk
    <3>2. CASE ClientConnects
      BY <3>1, <3>2 DEF ClientConnects
    <3>3. ASSUME NEW c \in Slots, ClientLeaves(c) PROVE peer'[s].data = peer[s].data
      <4>1. PICK x \in {"fin", "reset"} : peer' = [peer EXCEPT ![c].conn = x]
        BY <3>3 DEF ClientLeaves
      <4> QED
        BY <1>1, <4>1 DEF OutsideType, PeerRec
    <3>4. ASSUME NEW c \in Slots, ClientSends(c), Streaming(s) PROVE peer'[s].data # "request"
      <4>1. PICK d \in {"some"} \union (IF Streaming(c) THEN {} ELSE {"request"}) :
               peer' = [peer EXCEPT ![c].data = d]
        BY <3>4 DEF ClientSends
      <4>2. CASE c = s
        <5>1. d = "some"
          BY <3>4, <4>1, <4>2
        <5> QED
          BY <1>1, <4>1, <4>2, <5>1 DEF OutsideType, PeerRec
      <4>3. CASE c # s
        BY <1>1, <3>1, <3>4, <4>1, <4>3 DEF OutsideType, PeerRec
      <4> QED
        BY <4>2, <4>3
    <3> QED
      BY <1>8, <3>1, <3>2, <3>3, <3>4
  <2>3. OlderOk(s)'
    BY <1>1, <2>1 DEF RoverOk, OlderOk
  <2>4. TailOk(s)' /\ ReachedOk(s)'
    BY <1>1, <2>1, <2>2 DEF RoverOk, TailOk, ReachedOk, Inside, Past, Streaming
  <2> QED
    BY <2>3, <2>4 DEF RoverOk
<1> QED
  BY <1>3, <1>4, <1>5, <1>6, <1>7, <1>8 DEF CasterNext, CasterTask, Forward

LEMMA KeepsStream == ASSUME RoverStreamInv, [CasterNext]_casterVars PROVE RoverStreamInv'
<1>1. CASE CasterNext
  <2>1. TypeInv' /\ PlaceOk' /\ OrderOk'
    BY <1>1, KeepsTypes, KeepsPlace, KeepsOrder DEF RoverStreamInv
  <2>2. \A s \in Slots : RoverOk(s)'
    BY <1>1, KeepsRovers
  <2> QED
    BY <2>1, <2>2 DEF RoverStreamInv
<1>2. CASE UNCHANGED casterVars
  <2>1. TypeInv'
    BY <1>2, KeepsTypes DEF RoverStreamInv
  <2>2. PlaceOk' /\ OrderOk'
    BY <1>2 DEF RoverStreamInv, PlaceOk, OrderOk, casterVars
  <2>3. \A s \in Slots : RoverOk(s)'
    BY <1>2 DEF RoverStreamInv, RoverOk, OlderOk, TailOk, ReachedOk, Inside, Past, Streaming, casterVars
  <2> QED
    BY <2>1, <2>2, <2>3 DEF RoverStreamInv
<1> QED
  BY <1>1, <1>2

LEMMA AlwaysStream == CasterSpec => []RoverStreamInv
  BY InitialStream, KeepsStream, PTL DEF CasterSpec

\* What the socket of a rover takes comes from one of three steps.
LEMMA ToldChanges ==
  ASSUME RoverStreamInv, CasterNext, NEW s \in Slots, told'[s] \notin {told[s], Nothing}
  PROVE  s = i /\ (AcceptRequest \/ FlushPiece \/ SendPiece)
<1>1. TypeInv /\ told \in [Slots -> ToldRec] /\ i \in Slots
  BY DEF RoverStreamInv, TypeInv, RoverType, TaskType
<1>2. ~UNCHANGED told
  OBVIOUS
<1>3. CASE RejectRequest \/ ServiceEnd \/ SendError
  <2>1. CloseRover
    BY <1>3 DEF RejectRequest, ServiceEnd, SendError
  <2> QED
    BY <1>1, <2>1, ClosedFields
<1>4. CASE AcceptRequest \/ FlushPiece \/ SendPiece
  <2>1. s = i
    BY <1>1, <1>4 DEF AcceptRequest, FlushPiece, SendPiece
  <2> QED
    BY <1>4, <2>1
<1>5. CASE \/ PublishRtcm \/ Select \/ Accept \/ Refuse \/ AcceptNone \/ ServiceNone
           \/ ServiceData \/ TakeFrame \/ EndRound \/ SkipRover \/ FlushBlocked
           \/ SendBlocked \/ GiveFrame \/ ClientConnects
           \/ \E c \in Slots : ClientSends(c) \/ ClientLeaves(c)
  BY <1>2, <1>5 DEF PublishRtcm, Select, Accept, Refuse, AcceptNone, ServiceNone, ServiceData,
     TakeFrame, EndRound, SkipRover, FlushBlocked, SendBlocked, GiveFrame, ClientConnects,
     ClientSends, ClientLeaves
<1> QED
  BY <1>3, <1>4, <1>5 DEF CasterNext, CasterTask, Forward, Service

LEMMA RoverStreamStep ==
  ASSUME RoverStreamInv, CasterNext, NEW s \in Slots, told'[s] \notin {told[s], Nothing}
  PROVE  \/ told[s] = Nothing /\ told'[s].f = 0
         \/ told'[s] = [told[s] EXCEPT !.piece = @ + 1] /\ told[s].f > 0
         \/ /\ told'[s].piece = 1
            /\ told'[s].f > told[s].f
            /\ told[s].piece = Pieces
<1>1. /\ TypeInv /\ RoverOk(s) /\ told[s] \in ToldRec /\ offset \in Nat /\ Pieces \in Nat
      /\ told[s].f \in Int /\ told \in [Slots -> ToldRec]
  BY SlotFacts, CasterSizes DEF RoverStreamInv, TypeInv, RoverType
<1>2. s = i /\ (AcceptRequest \/ FlushPiece \/ SendPiece)
  BY ToldChanges
<1>3. CASE AcceptRequest
  <2>1. told[s] = Nothing
    BY <1>1, <1>2, <1>3 DEF AcceptRequest, RoverOk, TailOk
  <2>2. told'[s] = [f |-> 0, piece |-> Pieces]
    BY <1>1, <1>2, <1>3 DEF AcceptRequest
  <2> QED
    BY <2>1, <2>2
<1>4. ASSUME told'[s] \in ToldRec, told'[s].f = told[s].f, told'[s].piece = told[s].piece + 1
      PROVE  told'[s] = [told[s] EXCEPT !.piece = @ + 1]
  BY <1>1, <1>4 DEF ToldRec
<1>5. told'[s] \in ToldRec
  <2>1. RoverType'
    BY <1>1, RoverTypes
  <2> QED
    BY <2>1 DEF RoverType
<1>6. CASE FlushPiece
  BY <1>2, <1>4, <1>5, <1>6, FlushFields
<1>7. CASE SendPiece
  <2>1. /\ told'[s].f = f /\ told'[s].piece = offset + 1 /\ f \in Nat \ {0}
        /\ IF offset = 0 THEN told[s].f < f /\ told[s].piece = Pieces
                         ELSE told[s].f = f /\ told[s].piece = offset
    BY <1>2, <1>7, SendFields
  <2>2. CASE offset = 0
    BY <1>1, <2>1, <2>2
  <2>3. CASE offset # 0
    <3>1. told'[s] = [told[s] EXCEPT !.piece = @ + 1]
      BY <1>4, <1>5, <2>1, <2>3
    <3> QED
      BY <2>1, <2>3, <3>1
  <2> QED
    BY <2>2, <2>3
<1> QED
  BY <1>2, <1>3, <1>6, <1>7

\* Whatever is blocked, deferred, dropped or closed, a rover gets an answer
\* and then newer and newer frames, each whole before the next begins: a tail
\* that pends is what follows the last piece that was sent, and what waits is
\* newer than all a rover got (ntrip_caster.c, send_frame_to_rover).
THEOREM RoversCorrect == CasterSpec => RoverStream
<1>1. ASSUME RoverStreamInv, [CasterNext]_casterVars
      PROVE  [\A s \in Slots : told'[s] \notin {told[s], Nothing} =>
                \/ told[s] = Nothing /\ told'[s].f = 0
                \/ told'[s] = [told[s] EXCEPT !.piece = @ + 1] /\ told[s].f > 0
                \/ /\ told'[s].piece = 1
                   /\ told'[s].f > told[s].f
                   /\ told[s].piece = Pieces]_casterVars
  BY <1>1, RoverStreamStep
<1> QED
  BY <1>1, AlwaysStream, PTL DEF CasterSpec, RoverStream

\* A rover whose socket was never blocked has the whole of a frame when the
\* task gives it back, however the other rovers are doing (ntrip_caster.c).
THEOREM FastRoversCorrect == CasterSpec => []FastRoverMissesNothing
<1>1. ASSUME RoverStreamInv PROVE FastRoverMissesNothing
  <2> SUFFICES ASSUME at = "give", NEW s \in Slots \ blocked, Streaming(s)
               PROVE  told[s] = [f |-> f, piece |-> Pieces]
    BY DEF FastRoverMissesNothing
  <2>1. told[s] \in ToldRec /\ RoverOk(s)
    BY <1>1, SlotFacts DEF RoverStreamInv
  <2>2. told[s].f = f /\ told[s].piece = Pieces
    BY <2>1 DEF RoverOk, ReachedOk, Past
  <2>3. told[s] = [f |-> told[s].f, piece |-> told[s].piece]
    BY <2>1 DEF ToldRec
  <2> QED
    BY <2>2, <2>3
<1> QED
  BY <1>1, AlwaysStream, PTL

-----------------------------------------------------------------------------
(* Side by side.                                                           *)

\* A step of one component leaves the variables of the other alone, so the
\* types of both last in the specification that the runs check, in which
\* either may be the one that moves (ntrip_client.c, ntrip_caster.c).
THEOREM BothTypesCorrect == MCSpec => []TypeOK
<1> DEFINE Both == IInv /\ TypeInv
<1>1. MCInit => Both
  BY InitType, InitialTypes DEF MCInit
<1>2. ASSUME Both, [MCNext]_mcVars PROVE Both'
  <2>1. [UplinkNext]_uplinkVars /\ [CasterNext]_casterVars
    BY <1>2 DEF MCNext, UplinkMoves, CasterMoves, mcVars
  <2> QED
    BY <1>2, <2>1, TypeStep, KeepsTypes
<1>3. Both => TypeOK
  BY TypeParts DEF IInv, TypeOK
<1> QED
  BY <1>1, <1>2, <1>3, PTL DEF MCSpec

-----------------------------------------------------------------------------
(* The work with a frame in hand.  Its sending ends whatever the remote     *)
(* caster does, with all of it sent or with the connection closed.          *)

Phase(r) == CASE r.step = "send"        -> 3
              [] r.step = "clear"       -> 2
              [] r.step = "clear store" -> 1
              [] OTHER                  -> 0
PartsLeft(r) == Parts - r.sent
TriesLeft(r) == RetryLimit - r.retries

\* Of the locals r of a task, t is left: the phase, then the pieces, then the
\* patience with the piece.
Nearer(t, r) ==
    \/ Phase(t) < Phase(r)
    \/ Phase(t) = Phase(r) /\ PartsLeft(t) < PartsLeft(r)
    \/ Phase(t) = Phase(r) /\ PartsLeft(t) = PartsLeft(r) /\ TriesLeft(t) < TriesLeft(r)

FramesComeToAnEnd ==
    [][\A u \in Uplinks : up[u].f # 0 /\ up'[u].f # 0 /\ up'[u] # up[u] =>
         /\ up'[u].f = up[u].f
         /\ {Phase(up[u]), PartsLeft(up[u]), TriesLeft(up[u])} \subseteq Nat
         /\ Nearer(up'[u], up[u])]_uplinkVars

\* A later phase is nearer.
LEMMA PhaseNearer ==
  ASSUME NEW r, NEW t
  PROVE  /\ Phase(r) \in Nat
         /\ r.step = "send" /\ t.step = "clear" => Nearer(t, r)
         /\ r.step = "clear" /\ t.step = "clear store" => Nearer(t, r)
         /\ r.step = "clear store" /\ t.step = "release" => Nearer(t, r)
         /\ r.step = "send" /\ t.step = "release" => Nearer(t, r)
         /\ r.step = t.step => Phase(r) = Phase(t)
<1>1. /\ r.step = "send" => Phase(r) = 3
      /\ r.step = "clear" => Phase(r) = 2
      /\ r.step = "clear store" => Phase(r) = 1
      /\ Phase(r) \in Nat
  BY DEF Phase
<1>2. /\ t.step = "clear" => Phase(t) = 2
      /\ t.step = "clear store" => Phase(t) = 1
      /\ t.step = "release" => Phase(t) = 0
  BY DEF Phase
<1>3. r.step = t.step => Phase(r) = Phase(t)
  BY DEF Phase
<1>4. Phase(t) < Phase(r) => Nearer(t, r)
  BY DEF Nearer
<1>5. ASSUME r.step = "send", t.step = "clear" PROVE Nearer(t, r)
  <2>1. Phase(r) = 3
    BY <1>1, <1>5
  <2>2. Phase(t) = 2
    BY <1>2, <1>5
  <2>3. Phase(t) < Phase(r)
    BY <2>1, <2>2
  <2> QED
    BY <1>4, <2>3
<1>6. ASSUME r.step = "clear", t.step = "clear store" PROVE Nearer(t, r)
  <2>1. Phase(r) = 2
    BY <1>1, <1>6
  <2>2. Phase(t) = 1
    BY <1>2, <1>6
  <2>3. Phase(t) < Phase(r)
    BY <2>1, <2>2
  <2> QED
    BY <1>4, <2>3
<1>7. ASSUME r.step = "clear store", t.step = "release" PROVE Nearer(t, r)
  <2>1. Phase(r) = 1
    BY <1>1, <1>7
  <2>2. Phase(t) = 0
    BY <1>2, <1>7
  <2>3. Phase(t) < Phase(r)
    BY <2>1, <2>2
  <2> QED
    BY <1>4, <2>3
<1>8. ASSUME r.step = "send", t.step = "release" PROVE Nearer(t, r)
  <2>1. Phase(r) = 3
    BY <1>1, <1>8
  <2>2. Phase(t) = 0
    BY <1>2, <1>8
  <2>3. Phase(t) < Phase(r)
    BY <2>1, <2>2
  <2> QED
    BY <1>4, <2>3
<1> QED
  BY <1>1, <1>3, <1>5, <1>6, <1>7, <1>8

LEMMA WorkNumbers ==
  ASSUME IInv, NEW u \in Uplinks
  PROVE  {Phase(up[u]), PartsLeft(up[u]), TriesLeft(up[u])} \subseteq Nat
<1>1. up[u].sent \in 0..Parts /\ up[u].retries \in 0..RetryLimit
  BY FieldTypes DEF IInv
<1>2. PartsLeft(up[u]) \in Nat /\ TriesLeft(up[u]) \in Nat
  BY <1>1, UplinkSizes DEF PartsLeft, TriesLeft
<1>3. Phase(up[u]) \in Nat
  BY PhaseNearer
<1> QED
  BY <1>2, <1>3

\* Every step with a frame in hand, but the last.
LEMMA FrameStep ==
  ASSUME IInv, NEW u \in Uplinks, UplinkTask(u), up[u].f # 0, up'[u].f # 0
  PROVE  up'[u].f = up[u].f /\ Nearer(up'[u], up[u])
<1> DEFINE r == up[u]
           t == up'[u]
<1>1. /\ UplinkTypeOK /\ up \in [Uplinks -> Record] /\ StepOk(r)
      /\ r.sent \in 0..Parts /\ r.retries \in 0..RetryLimit
  BY UpType, FieldTypes DEF IInv, StepInv
<1>2. r.step \in {"send", "clear", "clear store", "release"}
  BY <1>1 DEF StepOk, Record, Steps
<1>3. ASSUME NEW s, NEW k, NEW x, NEW n, NEW m, NEW c, Becomes(u, s, k, x, n, m, c)
      PROVE  t.step = s /\ t.f = x /\ t.sent = n /\ t.retries = m
  <2>1. t = [step |-> s, sock |-> k, f |-> x, sent |-> n, retries |-> m, mask |-> c]
    BY <1>1, <1>3 DEF Becomes
  <2> QED
    BY <2>1
<1>4. ASSUME NEW s, NEW k, Turns(u, s, k)
      PROVE  t.step = s /\ t.f = r.f /\ t.sent = r.sent /\ t.retries = r.retries
  BY <1>3, <1>4 DEF Turns
<1> HIDE DEF t
<1>5. CASE LoadMask(u)
  <2>1. r.step = "clear"
    BY <1>2, <1>5 DEF LoadMask
  <2>2. Becomes(u, IF At(u, "set") THEN "set store" ELSE "clear store",
                up[u].sock, up[u].f, up[u].sent, up[u].retries, connected_mask)
    BY <1>1, <1>5, Locals
  <2>3. Becomes(u, "clear store", up[u].sock, up[u].f, up[u].sent, up[u].retries, connected_mask)
    BY <2>1, <2>2 DEF At
  <2>4. t = [step |-> "clear store", sock |-> r.sock, f |-> r.f, sent |-> r.sent,
             retries |-> r.retries, mask |-> connected_mask]
    BY <1>1, <2>3 DEF Becomes, t
  <2>5. t.step = "clear store" /\ t.f = r.f
    BY <2>4
  <2> QED
    BY <2>1, <2>5, PhaseNearer DEF t
<1>6. CASE StoreMask(u)
  <2>1. r.step = "clear store"
    BY <1>2, <1>6 DEF StoreMask, Changing
  <2>2. Becomes(u, IF At(u, "set store") THEN "receive"
                   ELSE IF up[u].f # 0 THEN "release" ELSE "v2",
                up[u].sock, up[u].f, up[u].sent, up[u].retries, {})
    BY <1>1, <1>6, Locals
  <2>3. Becomes(u, "release", up[u].sock, up[u].f, up[u].sent, up[u].retries, {})
    BY <2>1, <2>2 DEF At
  <2>4. t.step = "release" /\ t.f = r.f
    BY <1>3, <2>3
  <2> QED
    BY <2>1, <2>4, PhaseNearer DEF t
<1>7. CASE SendPart(u)
  <2>1. r.step = "send"
    BY <1>7 DEF SendPart, At
  <2>2. Becomes(u, IF up[u].sent + 1 = Parts THEN "release" ELSE "send",
                up[u].sock, up[u].f, up[u].sent + 1, 0, up[u].mask)
    BY <1>1, <1>7, Locals
  <2>3. t.step \in {"send", "release"} /\ t.f = r.f /\ t.sent = r.sent + 1
    BY <1>3, <2>2
  <2>4. CASE t.step = "release"
    BY <2>1, <2>3, <2>4, PhaseNearer DEF t
  <2>5. CASE t.step = "send"
    <3>1. Phase(t) = Phase(r)
      BY <2>1, <2>5, PhaseNearer
    <3>2. PartsLeft(t) < PartsLeft(r)
      BY <1>1, <2>3, UplinkSizes DEF PartsLeft
    <3> QED
      BY <2>3, <3>1, <3>2 DEF Nearer, t
  <2> QED
    BY <2>3, <2>4, <2>5
<1>8. CASE SendAgain(u)
  <2>1. Becomes(u, up[u].step, up[u].sock, up[u].f, up[u].sent, up[u].retries + 1, up[u].mask)
    BY <1>1, <1>8, Locals
  <2>2. /\ t.step = r.step /\ t.f = r.f /\ t.sent = r.sent
        /\ t.retries = r.retries + 1
    BY <1>3, <2>1
  <2>3. TriesLeft(t) < TriesLeft(r)
    BY <1>1, <2>2, UplinkSizes DEF TriesLeft
  <2>4. Phase(t) = Phase(r) /\ PartsLeft(t) = PartsLeft(r)
    BY <2>2, PhaseNearer DEF PartsLeft
  <2> QED
    BY <2>2, <2>3, <2>4 DEF Nearer, t
<1>9. CASE SendFails(u)
  <2>1. r.step = "send"
    BY <1>9 DEF SendFails, At
  <2>2. Turns(u, "clear", FALSE)
    BY <1>1, <1>9, Locals DEF SendFails
  <2>3. t.step = "clear" /\ t.f = r.f
    BY <1>4, <2>2
  <2> QED
    BY <2>1, <2>3, PhaseNearer DEF t
<1>10. CASE Release(u)
  <2>1. Becomes(u, IF up[u].sock THEN "peek" ELSE "v2", up[u].sock, 0, 0, 0, up[u].mask)
    BY <1>1, <1>10, Locals
  <2>2. t.f = 0
    BY <1>3, <2>1
  <2> QED
    BY <2>2 DEF t
<1>11. ~Open(u) /\ ~OpenFails(u) /\ ~Accepted(u) /\ ~NotAccepted(u) /\ ~Wait(u)
  BY <1>2 DEF Open, OpenFails, Accepted, NotAccepted, Wait, At
<1>12. ~Take(u) /\ ~TakeNothing(u) /\ ~Peek(u)
  BY <1>2 DEF Take, TakeNothing, Peek, At
<1> QED
  BY <1>5, <1>6, <1>7, <1>8, <1>9, <1>10, <1>11, <1>12 DEF UplinkTask

\* The tasks of other uplinks, the casters and the reader leave it alone.
LEMMA OthersLeaveIt ==
  ASSUME IInv, [UplinkNext]_uplinkVars, NEW u \in Uplinks
  PROVE  UplinkTask(u) \/ up'[u] = up[u]
<1>1. UplinkTypeOK /\ up \in [Uplinks -> Record]
  BY UpType DEF IInv
<1>2. ASSUME NEW v \in Uplinks, UplinkTask(v), v # u PROVE up'[u] = up[u]
  <2>1. \/ Open(v) \/ OpenFails(v) \/ NotAccepted(v) \/ Accepted(v) \/ Wait(v) \/ LoadMask(v)
        \/ StoreMask(v) \/ Take(v) \/ TakeNothing(v) \/ SendPart(v) \/ SendAgain(v)
        \/ Close(v) \/ Release(v) \/ GoTo(v, "receive")
    BY <1>2 DEF UplinkTask, SendFails, Peek
  <2>2. \E s, k, x, n, m, c : Becomes(v, s, k, x, n, m, c)
    BY <1>1, <2>1, Locals, Going DEF Turns
  <2> QED
    BY <1>1, <1>2, <2>2 DEF Becomes
<1>3. ASSUME NEW v \in Uplinks, PeerAnswers(v) \/ PeerSends(v) \/ PeerEnds(v)
      PROVE  up'[u] = up[u]
  BY <1>3 DEF PeerAnswers, PeerSends, PeerEnds
<1>4. Publish \/ UNCHANGED uplinkVars => up'[u] = up[u]
  BY DEF Publish, uplinkVars
<1> QED
  BY <1>2, <1>3, <1>4 DEF UplinkNext

\* The inner loop of task_ntrip_uplink (ntrip_client.c:354-384) gives a frame back
\* after a number of steps of its own that only the pieces and the limit of
\* retries determine, for any casters and any other tasks.
THEOREM FramesAreGivenBack == UplinkSpec => FramesComeToAnEnd
<1>1. IInv /\ [UplinkNext]_uplinkVars =>
        [\A u \in Uplinks : up[u].f # 0 /\ up'[u].f # 0 /\ up'[u] # up[u] =>
           /\ up'[u].f = up[u].f
           /\ {Phase(up[u]), PartsLeft(up[u]), TriesLeft(up[u])} \subseteq Nat
           /\ Nearer(up'[u], up[u])]_uplinkVars
  BY WorkNumbers, FrameStep, OthersLeaveIt
<1> QED
  BY <1>1, InitType, TypeStep, PTL DEF UplinkSpec, FramesComeToAnEnd

-----------------------------------------------------------------------------
(* The end of a connection.  What the peer left unread hides it; otherwise *)
(* the task comes to its next look at the socket.                           *)

Ended(u) == up[u].sock /\ link[u].peer # "open" /\ ~link[u].unread

Stage(r) == CASE r.step = "set"       -> 5
              [] r.step = "set store" -> 4
              [] r.step = "receive"   -> 3
              [] r.step = "send"      -> 2
              [] r.step = "release"   -> 1
              [] OTHER                -> 0

\* With the locals t the look at the socket is closer than with r.
Closer(t, r) ==
    \/ Stage(t) < Stage(r)
    \/ Stage(t) = Stage(r) /\ PartsLeft(t) < PartsLeft(r)
    \/ Stage(t) = Stage(r) /\ PartsLeft(t) = PartsLeft(r) /\ TriesLeft(t) < TriesLeft(r)

EndIsNoticed ==
    [][\A u \in Uplinks : Ended(u) =>
         /\ {Stage(up[u]), PartsLeft(up[u]), TriesLeft(up[u])} \subseteq Nat
         /\ Ended(u)' \/ ~up'[u].sock
         /\ UplinkTask(u) => ~up'[u].sock \/ Closer(up'[u], up[u])]_uplinkVars

\* A task that has a socket, or waits for an answer on one, has a peer.
HasPeer(u) == up[u].sock \/ up[u].step \in {"v2 reply", "v1 reply"} => link[u].peer # "none"
PeerInv    == \A u \in Uplinks : HasPeer(u)

LEMMA StageFalls ==
  ASSUME NEW r, NEW t
  PROVE  /\ Stage(r) \in Nat
         /\ r.step = "set" /\ t.step = "set store" => Closer(t, r)
         /\ r.step = "set store" /\ t.step = "receive" => Closer(t, r)
         /\ r.step = "receive" /\ t.step \in {"send", "peek"} => Closer(t, r)
         /\ r.step = "send" /\ t.step = "release" => Closer(t, r)
         /\ r.step = "release" /\ t.step = "peek" => Closer(t, r)
         /\ r.step = t.step => Stage(r) = Stage(t)
<1>1. /\ Stage(r) \in Nat
      /\ r.step = t.step => Stage(r) = Stage(t)
  BY DEF Stage
<1>2. Stage(t) < Stage(r) => Closer(t, r)
  BY DEF Closer
<1>3. ASSUME r.step = "set", t.step = "set store" PROVE Closer(t, r)
  <2>1. Stage(r) = 5 /\ Stage(t) = 4
    BY <1>3 DEF Stage
  <2>2. Stage(t) < Stage(r)
    BY <2>1
  <2> QED
    BY <1>2, <2>2
<1>4. ASSUME r.step = "set store", t.step = "receive" PROVE Closer(t, r)
  <2>1. Stage(r) = 4 /\ Stage(t) = 3
    BY <1>4 DEF Stage
  <2>2. Stage(t) < Stage(r)
    BY <2>1
  <2> QED
    BY <1>2, <2>2
<1>5. ASSUME r.step = "receive", t.step = "send" PROVE Closer(t, r)
  <2>1. Stage(r) = 3 /\ Stage(t) = 2
    BY <1>5 DEF Stage
  <2>2. Stage(t) < Stage(r)
    BY <2>1
  <2> QED
    BY <1>2, <2>2
<1>6. ASSUME r.step = "receive", t.step = "peek" PROVE Closer(t, r)
  <2>1. Stage(r) = 3 /\ Stage(t) = 0
    BY <1>6 DEF Stage
  <2>2. Stage(t) < Stage(r)
    BY <2>1
  <2> QED
    BY <1>2, <2>2
<1>7. ASSUME r.step = "send", t.step = "release" PROVE Closer(t, r)
  <2>1. Stage(r) = 2 /\ Stage(t) = 1
    BY <1>7 DEF Stage
  <2>2. Stage(t) < Stage(r)
    BY <2>1
  <2> QED
    BY <1>2, <2>2
<1>8. ASSUME r.step = "release", t.step = "peek" PROVE Closer(t, r)
  <2>1. Stage(r) = 1 /\ Stage(t) = 0
    BY <1>8 DEF Stage
  <2>2. Stage(t) < Stage(r)
    BY <2>1
  <2> QED
    BY <1>2, <2>2
<1> QED
  BY <1>1, <1>3, <1>4, <1>5, <1>6, <1>7, <1>8

LEMMA LinkRecord ==
  ASSUME UplinkTypeOK, NEW u \in Uplinks
  PROVE  link \in [Uplinks -> Link] /\ link[u] \in Link
  BY DEF UplinkTypeOK, Link

\* The fields of the locals that count here
Gets(u, s, k, n, t) ==
    up'[u].step = s /\ up'[u].sock = k /\ up'[u].sent = n /\ up'[u].retries = t
TurnsTo(u, s) == Gets(u, s, up[u].sock, up[u].sent, up[u].retries)

LEMMA GetsThem ==
  ASSUME UplinkTypeOK, NEW u \in Uplinks, NEW s, NEW k, NEW x, NEW n, NEW t, NEW m,
         Becomes(u, s, k, x, n, t, m)
  PROVE  Gets(u, s, k, n, t)
<1>1. up \in [Uplinks -> Record]
  BY UpType
<1> QED
  BY <1>1 DEF Becomes, Gets

LEMMA LocalsGet ==
  ASSUME UplinkTypeOK, NEW u \in Uplinks
  PROVE  /\ LoadMask(u) => TurnsTo(u, IF At(u, "set") THEN "set store" ELSE "clear store")
         /\ StoreMask(u) => TurnsTo(u, IF At(u, "set store") THEN "receive"
                     ELSE IF up[u].f # 0 THEN "release" ELSE "v2")
         /\ Take(u) => Gets(u, "send", up[u].sock, 0, 0)
         /\ TakeNothing(u) => TurnsTo(u, "peek")
         /\ SendPart(u) =>
            Gets(u, IF up[u].sent + 1 = Parts THEN "release" ELSE "send", up[u].sock,
                 up[u].sent + 1, 0)
         /\ SendAgain(u) => Gets(u, up[u].step, up[u].sock, up[u].sent, up[u].retries + 1)
         /\ Release(u) => Gets(u, IF up[u].sock THEN "peek" ELSE "v2", up[u].sock, 0, 0)
         /\ Close(u) => Gets(u, "clear", FALSE, up[u].sent, up[u].retries)
         /\ OpenFails(u) \/ NotAccepted(u) => TurnsTo(u, Otherwise(u))
         /\ Wait(u) => TurnsTo(u, "v2")
         /\ GoTo(u, "receive") => TurnsTo(u, "receive")
<1>1. LoadMask(u) => TurnsTo(u, IF At(u, "set") THEN "set store" ELSE "clear store")
  BY Locals, GetsThem DEF TurnsTo
<1>2. StoreMask(u) => TurnsTo(u, IF At(u, "set store") THEN "receive"
                     ELSE IF up[u].f # 0 THEN "release" ELSE "v2")
  BY Locals, GetsThem DEF TurnsTo
<1>3. Take(u) => Gets(u, "send", up[u].sock, 0, 0)
  BY Locals, GetsThem
<1>4. TakeNothing(u) => TurnsTo(u, "peek")
  BY Locals, GetsThem DEF Turns, TurnsTo
<1>5. SendPart(u) =>
            Gets(u, IF up[u].sent + 1 = Parts THEN "release" ELSE "send", up[u].sock,
                 up[u].sent + 1, 0)
  BY Locals, GetsThem
<1>6. SendAgain(u) => Gets(u, up[u].step, up[u].sock, up[u].sent, up[u].retries + 1)
  BY Locals, GetsThem
<1>7. Release(u) => Gets(u, IF up[u].sock THEN "peek" ELSE "v2", up[u].sock, 0, 0)
  BY Locals, GetsThem
<1>8. Close(u) => Gets(u, "clear", FALSE, up[u].sent, up[u].retries)
  BY Locals, GetsThem DEF Turns
<1>9. OpenFails(u) \/ NotAccepted(u) => TurnsTo(u, Otherwise(u))
  BY Locals, GetsThem DEF Turns, TurnsTo
<1>10. Wait(u) => TurnsTo(u, "v2")
  BY Locals, GetsThem DEF Turns, TurnsTo
<1>11. GoTo(u, "receive") => TurnsTo(u, "receive")
  BY Going, GetsThem DEF Turns, TurnsTo
<1> QED
  BY <1>1, <1>2, <1>3, <1>4, <1>5, <1>6, <1>7, <1>8, <1>9, <1>10, <1>11

\* Its own steps keep the peer of a connection, and those of others too.
LEMMA KeepsPeer ==
  ASSUME IInv, [UplinkNext]_uplinkVars, NEW u \in Uplinks, HasPeer(u)
  PROVE  HasPeer(u)'
<1>0. /\ UplinkTypeOK /\ link \in [Uplinks -> Link] /\ link[u] \in Link
      /\ up[u].step \in Steps /\ StepOk(up[u])
  BY LinkRecord, FieldTypes DEF IInv, StepInv
<1>1. CASE up'[u] = up[u] /\ link'[u] = link[u]
  BY <1>1 DEF HasPeer
<1>2. CASE up'[u] = up[u] /\ (link'[u].peer = "none" => link[u].peer = "none")
  BY <1>2 DEF HasPeer
<1>3. CASE \E v \in Uplinks : PeerAnswers(v) \/ PeerSends(v) \/ PeerEnds(v)
  <2>1. PICK v \in Uplinks : PeerAnswers(v) \/ PeerSends(v) \/ PeerEnds(v)
    BY <1>3
  <2>2. up' = up
    BY <2>1 DEF PeerAnswers, PeerSends, PeerEnds
  <2>3. link'[u].peer = "none" => link[u].peer = "none"
    <3>1. CASE v # u
      BY <1>0, <2>1, <3>1 DEF PeerAnswers, PeerSends, PeerEnds
    <3>2. CASE v = u
      <4>1. \/ \E a \in {"success", "refusal"} : link' = [link EXCEPT ![u].answer = a]
            \/ link' = [link EXCEPT ![u].unread = TRUE]
            \/ \E p \in {"fin", "reset"} : link' = [link EXCEPT ![u].peer = p]
        BY <2>1, <3>2 DEF PeerAnswers, PeerSends, PeerEnds
      <4> QED
        BY <1>0, <4>1 DEF Link
    <3> QED
      BY <3>1, <3>2
  <2> QED
    BY <1>2, <2>2, <2>3
<1>4. CASE Publish \/ UNCHANGED uplinkVars
  BY <1>1, <1>4 DEF Publish, uplinkVars
<1>5. ASSUME NEW v \in Uplinks, UplinkTask(v), v # u
      PROVE  up'[u] = up[u] /\ link'[u] = link[u]
  <2>1. \/ Open(v) \/ OpenFails(v) \/ NotAccepted(v) \/ Accepted(v) \/ Wait(v) \/ LoadMask(v)
        \/ StoreMask(v) \/ Take(v) \/ TakeNothing(v) \/ SendPart(v) \/ SendAgain(v)
        \/ Close(v) \/ Release(v) \/ GoTo(v, "receive")
    BY <1>5 DEF UplinkTask, SendFails, Peek
  <2>2. \E s, k, x, n, m, c : Becomes(v, s, k, x, n, m, c)
    BY <1>0, <2>1, Locals, Going DEF Turns
  <2>3. up'[u] = up[u]
    <3>1. up \in [Uplinks -> Record]
      BY <1>0, UpType
    <3> QED
      BY <1>5, <2>2, <3>1 DEF Becomes
  <2>4. link'[u] = link[u]
    BY <1>0, <1>5 DEF UplinkTask, Open, OpenFails, NotAccepted, Accepted, Wait, LoadMask,
       StoreMask, Take, TakeNothing, SendPart, SendAgain, SendFails, Release, Peek, Close, HangUp
  <2> QED
    BY <2>3, <2>4
<1>6. CASE UplinkTask(u)
  <2>1. CASE Open(u)
    <3>1. link'[u].peer = "open"
      BY <1>0, <2>1 DEF Open, NoLink
    <3> QED
      BY <3>1 DEF HasPeer
  <2>2. CASE OpenFails(u) \/ NotAccepted(u)
    <3>2. up'[u].step = Otherwise(u) /\ up'[u].sock = up[u].sock
      BY <1>0, <2>2, LocalsGet DEF Gets, TurnsTo
    <3>3. ~up[u].sock
      BY <1>0, <2>2 DEF OpenFails, NotAccepted, StepOk
    <3>4. Otherwise(u) \in {"v1", "wait"}
      BY DEF Otherwise
    <3> QED
      BY <3>2, <3>3, <3>4 DEF HasPeer
  <2>3. CASE Accepted(u)
    <3>1. link[u].peer # "none" /\ link' = [link EXCEPT ![u].answer = "none"]
      BY <2>3 DEF Accepted, HasPeer
    <3>2. link'[u].peer # "none"
      BY <1>0, <3>1 DEF Link
    <3> QED
      BY <3>2 DEF HasPeer
  <2>4. CASE Wait(u)
    <3>1. up'[u].step = "v2" /\ up'[u].sock = up[u].sock /\ link' = link
      BY <1>0, <2>4, LocalsGet DEF Gets, TurnsTo, Wait
    <3> QED
      BY <3>1 DEF HasPeer
  <2>5. CASE LoadMask(u) \/ StoreMask(u) \/ Take(u) \/ TakeNothing(u) \/ SendPart(u) \/ SendAgain(u)
             \/ Release(u) \/ (GoTo(u, "receive") /\ UNCHANGED link)
    <3>1. link' = link
      BY <2>5 DEF LoadMask, StoreMask, Take, TakeNothing, SendPart, SendAgain, Release
    <3>2. /\ up'[u].sock = up[u].sock
          /\ up'[u].step = up[u].step \/ up'[u].step \notin {"v2 reply", "v1 reply"}
      <4>1. CASE LoadMask(u)
        BY <1>0, <4>1, LocalsGet DEF Gets, TurnsTo, At
      <4>2. CASE StoreMask(u)
        BY <1>0, <4>2, LocalsGet DEF Gets, TurnsTo
      <4>3. CASE Take(u)
        BY <1>0, <4>3, LocalsGet DEF Gets, TurnsTo
      <4>4. CASE TakeNothing(u)
        BY <1>0, <4>4, LocalsGet DEF Gets, TurnsTo
      <4>5. CASE SendPart(u)
        BY <1>0, <4>5, LocalsGet DEF Gets, TurnsTo
      <4>6. CASE SendAgain(u)
        BY <1>0, <4>6, LocalsGet DEF Gets, TurnsTo
      <4>7. CASE Release(u)
        BY <1>0, <4>7, LocalsGet DEF Gets, TurnsTo
      <4>8. CASE GoTo(u, "receive")
        BY <1>0, <4>8, LocalsGet DEF Gets, TurnsTo
      <4> QED
        BY <2>5, <4>1, <4>2, <4>3, <4>4, <4>5, <4>6, <4>7, <4>8
    <3> QED
      BY <3>1, <3>2 DEF HasPeer
  <2>6. CASE Close(u)
    <3>1. up'[u].step = "clear" /\ up'[u].sock = FALSE
      BY <1>0, <2>6, LocalsGet DEF Gets, TurnsTo
    <3> QED
      BY <3>1 DEF HasPeer
  <2>7. SendFails(u) \/ Peek(u) => Close(u) \/ (GoTo(u, "receive") /\ UNCHANGED link)
    BY DEF SendFails, Peek
  <2> QED
    BY <1>6, <2>1, <2>2, <2>3, <2>4, <2>5, <2>6, <2>7 DEF UplinkTask
<1> QED
  BY <1>1, <1>3, <1>4, <1>5, <1>6 DEF UplinkNext

\* The end of a connection stays until the socket is closed.
LEMMA EndStays ==
  ASSUME IInv, PeerInv, UplinkNext, NEW u \in Uplinks, Ended(u)
  PROVE  Ended(u)' \/ ~up'[u].sock
<1>0. /\ UplinkTypeOK /\ link \in [Uplinks -> Link] /\ link[u] \in Link /\ HasPeer(u)
      /\ link[u].peer \in {"fin", "reset"} /\ StepOk(up[u])
  <2>1. link[u] \in Link /\ HasPeer(u)
    BY LinkRecord DEF IInv, PeerInv
  <2>2. link[u].peer \in {"fin", "reset"}
    BY <2>1 DEF Link, HasPeer, Ended
  <2> QED
    BY <2>1, <2>2, LinkRecord DEF IInv, StepInv
<1>1. CASE link'[u] = link[u]
  BY <1>1 DEF Ended
<1>2. CASE \E v \in Uplinks : PeerAnswers(v) \/ PeerSends(v) \/ PeerEnds(v)
  <2>1. PICK v \in Uplinks : PeerAnswers(v) \/ PeerSends(v) \/ PeerEnds(v)
    BY <1>2
  <2>2. CASE v # u
    BY <1>0, <1>1, <2>1, <2>2 DEF PeerAnswers, PeerSends, PeerEnds
  <2>3. CASE v = u
    <3>1. up' = up /\ up[u].step \notin {"v2 reply", "v1 reply"}
      BY <1>0, <2>1, <2>3 DEF PeerAnswers, PeerSends, PeerEnds, Ended, StepOk
    <3>2. link' = [link EXCEPT ![u].peer = "reset"]
      BY <1>0, <2>1, <2>3, <3>1 DEF PeerAnswers, PeerSends, PeerEnds
    <3>3. link'[u].peer = "reset" /\ link'[u].unread = link[u].unread
      BY <1>0, <3>2 DEF Link
    <3> QED
      BY <3>1, <3>3 DEF Ended
  <2> QED
    BY <2>2, <2>3
<1>3. CASE Publish
  BY <1>1, <1>3 DEF Publish
<1>4. ASSUME NEW v \in Uplinks, UplinkTask(v), v # u
      PROVE  link'[u] = link[u]
  BY <1>0, <1>4 DEF UplinkTask, Open, OpenFails, NotAccepted, Accepted, Wait, LoadMask,
     StoreMask, Take, TakeNothing, SendPart, SendAgain, SendFails, Release, Peek, Close, HangUp
<1>5. CASE UplinkTask(u)
  <2>1. up[u].step \notin {"v2", "v2 reply", "v1", "v1 reply", "wait"}
    BY <1>0 DEF Ended, StepOk
  <2>2. CASE Close(u)
    <3>1. up'[u].sock = FALSE
      BY <1>0, <2>2, LocalsGet DEF Gets, TurnsTo
    <3> QED
      BY <3>1
  <2>3. CASE ~Close(u)
    <3>1. link' = link
      BY <1>5, <2>1, <2>3 DEF UplinkTask, Open, OpenFails, NotAccepted, Accepted, Wait, LoadMask,
         StoreMask, Take, TakeNothing, SendPart, SendAgain, SendFails, Release, Peek, At
    <3> QED
      BY <1>1, <3>1
  <2> QED
    BY <2>2, <2>3
<1>6. PICK v \in Uplinks : \/ Publish \/ UplinkTask(v)
                           \/ PeerAnswers(v) \/ PeerSends(v) \/ PeerEnds(v)
  BY DEF UplinkNext
<1> QED
  BY <1>1, <1>2, <1>3, <1>4, <1>5, <1>6

\* Each step of its task brings the next look at the socket closer; that look
\* closes it.
LEMMA LookIsCloser ==
  ASSUME IInv, PeerInv, NEW u \in Uplinks, Ended(u), UplinkTask(u)
  PROVE  ~up'[u].sock \/ Closer(up'[u], up[u])
<1> DEFINE r == up[u]
           t == up'[u]
<1>1. /\ UplinkTypeOK /\ StepOk(r) /\ r.sock /\ HasPeer(u) /\ link[u] \in Link
      /\ r.step \in Steps /\ r.sent \in 0..Parts /\ r.retries \in 0..RetryLimit
  BY FieldTypes, LinkRecord DEF IInv, StepInv, PeerInv, Ended
<1>2. r.step \in {"set", "set store", "receive", "send", "release", "peek"}
  BY <1>1 DEF StepOk, Steps
<1>3. link[u].peer \in {"fin", "reset"} /\ ~link[u].unread
  BY <1>1 DEF HasPeer, Ended, Link
<1>4. CASE LoadMask(u)
  <2>1. r.step = "set"
    BY <1>2, <1>4 DEF LoadMask
  <2>2. t.step = "set store"
    BY <1>1, <1>4, <2>1, LocalsGet DEF Gets, TurnsTo, At
  <2> QED
    BY <2>1, <2>2, StageFalls
<1>5. CASE StoreMask(u)
  <2>1. r.step = "set store"
    BY <1>2, <1>5 DEF StoreMask, Changing
  <2>2. t.step = "receive"
    BY <1>1, <1>5, <2>1, LocalsGet DEF Gets, TurnsTo, At
  <2> QED
    BY <2>1, <2>2, StageFalls
<1>6. CASE Take(u)
  <2>1. r.step = "receive" /\ t.step = "send"
    BY <1>1, <1>6, LocalsGet DEF Gets, TurnsTo, Take, At
  <2> QED
    BY <2>1, StageFalls
<1>7. CASE TakeNothing(u)
  <2>1. r.step = "receive" /\ t.step = "peek"
    BY <1>1, <1>7, LocalsGet DEF Gets, TurnsTo, TakeNothing, At
  <2> QED
    BY <2>1, StageFalls
<1>8. CASE SendPart(u)
  <2>1. r.step = "send" /\ t.sent = r.sent + 1 /\ t.step \in {"send", "release"}
    BY <1>1, <1>8, LocalsGet DEF Gets, TurnsTo, SendPart, At
  <2>2. CASE t.step = "release"
    BY <2>1, <2>2, StageFalls
  <2>3. CASE t.step = "send"
    <3>1. Stage(r) = Stage(t)
      BY <2>1, <2>3, StageFalls
    <3>2. PartsLeft(t) < PartsLeft(r)
      BY <1>1, <2>1, UplinkSizes DEF PartsLeft
    <3> QED
      BY <3>1, <3>2 DEF Closer
  <2> QED
    BY <2>1, <2>2, <2>3
<1>9. CASE SendAgain(u)
  <2>1. t.step = r.step /\ t.sent = r.sent /\ t.retries = r.retries + 1
    BY <1>1, <1>9, LocalsGet DEF Gets, TurnsTo
  <2>2. Stage(r) = Stage(t)
    BY <2>1, StageFalls
  <2>3. PartsLeft(t) = PartsLeft(r)
    BY <2>1 DEF PartsLeft
  <2>4. TriesLeft(t) < TriesLeft(r)
    BY <1>1, <2>1, UplinkSizes DEF TriesLeft
  <2> QED
    BY <2>2, <2>3, <2>4 DEF Closer
<1>10. CASE Release(u)
  <2>1. r.step = "release" /\ t.step = "peek"
    BY <1>1, <1>10, LocalsGet DEF Gets, TurnsTo, Release, At
  <2> QED
    BY <2>1, StageFalls
<1>11. CASE SendFails(u) \/ Peek(u)
  <2>1. Close(u)
    BY <1>3, <1>11 DEF SendFails, Peek
  <2>2. t.sock = FALSE
    BY <1>1, <2>1, LocalsGet DEF Gets, TurnsTo
  <2> QED
    BY <2>2
<1>12. ~Open(u) /\ ~OpenFails(u) /\ ~Accepted(u) /\ ~NotAccepted(u) /\ ~Wait(u)
  BY <1>2 DEF Open, OpenFails, Accepted, NotAccepted, Wait, At
<1> QED
  BY <1>4, <1>5, <1>6, <1>7, <1>8, <1>9, <1>10, <1>11, <1>12 DEF UplinkTask

\* A connection whose peer has ended it, with nothing left unread, is closed
\* after a number of steps of its task that only the pieces and the limit of
\* retries determine, with or without frames to send: the peek of
\* task_ntrip_uplink (ntrip_client.c:391) is never far.
THEOREM EndsAreNoticed == UplinkSpec => EndIsNoticed
<1>1. UplinkInit => PeerInv
  <2> SUFFICES ASSUME UplinkInit, NEW u \in Uplinks PROVE HasPeer(u)
    BY DEF PeerInv
  <2>1. up[u].sock = FALSE /\ up[u].step = "v2"
    BY DEF UplinkInit
  <2> QED
    BY <2>1 DEF HasPeer
<1>2. IInv /\ PeerInv /\ [UplinkNext]_uplinkVars => PeerInv'
  BY KeepsPeer DEF PeerInv
<1>3. IInv /\ PeerInv /\ [UplinkNext]_uplinkVars =>
        [\A u \in Uplinks : Ended(u) =>
           /\ {Stage(up[u]), PartsLeft(up[u]), TriesLeft(up[u])} \subseteq Nat
           /\ Ended(u)' \/ ~up'[u].sock
           /\ UplinkTask(u) => ~up'[u].sock \/ Closer(up'[u], up[u])]_uplinkVars
  <2> SUFFICES ASSUME IInv, PeerInv, UplinkNext, NEW u \in Uplinks, Ended(u)
               PROVE  /\ {Stage(up[u]), PartsLeft(up[u]), TriesLeft(up[u])} \subseteq Nat
                      /\ Ended(u)' \/ ~up'[u].sock
                      /\ UplinkTask(u) => ~up'[u].sock \/ Closer(up'[u], up[u])
    OBVIOUS
  <2>1. {Stage(up[u]), PartsLeft(up[u]), TriesLeft(up[u])} \subseteq Nat
    <3>1. Stage(up[u]) \in Nat
      BY StageFalls
    <3> QED
      BY <3>1, WorkNumbers
  <2> QED
    BY <2>1, EndStays, LookIsCloser
<1> QED
  BY <1>1, <1>2, <1>3, InitType, TypeStep, PTL DEF UplinkSpec, EndIsNoticed

-----------------------------------------------------------------------------
(* The rounds of the caster.  With a fair task they are why rovers are     *)
(* served.                                                                 *)

\* What is left of a round: the slots until the forwarding, and for the frame in
\* hand the turns and the pieces of the rover whose turn it is.
SlotsLeft ==
    CASE at = "select"  -> Rovers + 2
      [] at = "accept"  -> Rovers + 1
      [] at = "service" -> Rovers + 1 - i
      [] OTHER          -> 0
TurnsLeft ==
    CASE at = "send" -> Rovers + 2 - i
      [] at = "give" -> 1
      [] OTHER       -> 0
InTurn == IF at # "send" THEN 0
          ELSE IF rover[i].pending # 0 THEN 2 * Pieces - rover[i].pos ELSE Pieces - offset

\* The round is nearer to its end.
NearerEnd ==
    \/ SlotsLeft' < SlotsLeft
    \/ SlotsLeft' = SlotsLeft /\ Len(waiting') < Len(waiting)
    \/ SlotsLeft' = SlotsLeft /\ Len(waiting') = Len(waiting) /\ TurnsLeft' < TurnsLeft
    \/ /\ SlotsLeft' = SlotsLeft /\ Len(waiting') = Len(waiting) /\ TurnsLeft' = TurnsLeft
       /\ InTurn' < InTurn

\* What the client in slot s still wants of the task: what it wrote is to be read,
\* and its end, which comes once, is to be noticed.
Demand(s) == (IF peer[s].data = "none" THEN 0 ELSE 1)
             + (CASE peer[s].conn = "open" -> 2
                  [] peer[s].conn \in {"fin", "reset"} -> 1
                  [] OTHER -> 0)

\* select sees every rover that waits, its turn comes before the next select and
\* takes something from what it wants, and nothing adds to that while it waits.
WaitingIsServed ==
    [][/\ CasterTask => NearerEnd \/ at' = "select"
       /\ ~CasterTask => /\ UNCHANGED <<SlotsLeft, TurnsLeft, InTurn>>
                         /\ \/ Len(waiting') <= Len(waiting)
                            \/ rtcm' = rtcm + 1 /\ Len(waiting') = Len(waiting) + 1
       /\ {SlotsLeft, TurnsLeft, InTurn, Len(waiting)} \subseteq Nat
       /\ at' = "select" => readable' = {}
       /\ \A s \in Slots : Waits(s) =>
            /\ {Demand(s), Demand(s)'} \subseteq Nat
            /\ Demand(s)' <= Demand(s)
            /\ at = "select" /\ at' # "select" => s \in readable'
            /\ s \in readable /\ s \notin readable' => Demand(s)' < Demand(s)]_casterVars

\* A slot without a rover has no client, and select's answer is used up slot by
\* slot.
PeerOk(s)  == rover[s].state = "EMPTY" => peer[s].conn = "none" /\ peer[s].data = "none"
ReadableOk == /\ at \notin {"accept", "service"} => readable = {}
              /\ at = "service" => \A s \in readable : i <= s
ServiceInv == ReadableOk /\ \A s \in Slots : PeerOk(s)

LEMMA InitialService == CasterInit => ServiceInv
  BY DEF CasterInit, ServiceInv, ReadableOk, PeerOk, NoPeer

LEMMA KeepsReadable == ASSUME RoverStreamInv, ReadableOk, CasterNext PROVE ReadableOk'
<1>0. PlaceOk /\ TypeInv /\ i \in 1..Rovers /\ readable \subseteq 0..Rovers
  BY SlotFacts DEF RoverStreamInv, TypeInv, TaskType
<1>1. CASE UNCHANGED task
  BY <1>1 DEF ReadableOk, task
<1>2. CASE Select
  BY <1>2 DEF Select, ReadableOk
<1>3. CASE Accept \/ Refuse \/ AcceptNone
  <2>1. at = "accept" /\ at' = "service" /\ i' = i /\ readable' = readable \ {0}
    BY <1>3 DEF Accept, Refuse, AcceptNone, ToService
  <2>2. i = 1
    BY <1>0, <2>1 DEF PlaceOk
  <2>3. \A s \in readable' : i' <= s
    BY <1>0, <2>1, <2>2
  <2> QED
    BY <2>1, <2>3 DEF ReadableOk
<1>4. CASE Service
  <2>1. at = "service" /\ NextSlot
    BY <1>4 DEF Service, ServiceNone, ServiceData, AcceptRequest, RejectRequest, ServiceEnd
  <2>2. \A s \in readable' : i < s
    BY <1>0, <2>1 DEF NextSlot, ReadableOk
  <2>3. CASE i = Rovers
    <3>1. readable' = {}
      <4>1. readable' \subseteq 0..Rovers
        BY <1>0, <2>1 DEF NextSlot
      <4> QED
        BY <1>0, <2>2, <2>3, <4>1
    <3> QED
      BY <3>1 DEF ReadableOk
  <2>4. CASE i # Rovers
    <3>1. i' = i + 1 /\ at' = "service"
      BY <2>1, <2>4 DEF NextSlot
    <3>2. \A s \in readable' : i' <= s
      <4>1. readable' \subseteq 0..Rovers
        BY <1>0, <2>1 DEF NextSlot
      <4> QED
        BY <1>0, <2>2, <3>1, <4>1, CasterSizes
    <3> QED
      BY <3>1, <3>2 DEF ReadableOk
  <2> QED
    BY <2>3, <2>4
<1>5. CASE at \in {"receive", "send", "give"} /\ readable' = readable
           /\ at' \in {"select", "receive", "send", "give"}
  BY <1>5 DEF ReadableOk
<1>6. CASE SkipRover \/ FlushBlocked \/ SendPiece \/ SendBlocked \/ SendError
  BY <1>5, <1>6 DEF SkipRover, FlushBlocked, SendPiece, SendBlocked, SendError, Onward, Flushing, Sending
<1>7. CASE TakeFrame \/ EndRound \/ GiveFrame
  BY <1>5, <1>7 DEF TakeFrame, EndRound, GiveFrame
<1>8. CASE PublishRtcm \/ FlushPiece \/ ClientConnects
           \/ \E s \in Slots : ClientSends(s) \/ ClientLeaves(s)
  BY <1>1, <1>8 DEF PublishRtcm, FlushPiece, ClientConnects, ClientSends, ClientLeaves
<1> QED
  BY <1>2, <1>3, <1>4, <1>6, <1>7, <1>8 DEF CasterNext, CasterTask, Forward

LEMMA KeepsPeers ==
  ASSUME RoverStreamInv, CasterNext, NEW s \in Slots, PeerOk(s)
  PROVE  PeerOk(s)'
<1>0. /\ TypeInv /\ i \in Slots /\ rover \in [Slots -> RoverRec] /\ peer \in [Slots -> PeerRec]
      /\ rover[s] \in RoverRec /\ peer[s] \in PeerRec /\ rover[i] \in RoverRec
  BY DEF RoverStreamInv, TypeInv, TaskType, RoverType, OutsideType
<1>1. CASE rover'[s].state = rover[s].state /\ peer'[s] = peer[s]
  BY <1>1 DEF PeerOk
<1>2. CASE UNCHANGED <<rover, peer>>
  BY <1>1, <1>2
<1>3. CASE Accept
  <2>1. PICK r \in Free : /\ rover' = [rover EXCEPT ![r] = [Empty EXCEPT !.state = "HANDSHAKE"]]
                          /\ peer' = [peer EXCEPT ![r].conn = "open"]
    BY <1>3 DEF Accept
  <2>2. CASE r = s
    <3>1. rover'[s] = [Empty EXCEPT !.state = "HANDSHAKE"]
      BY <1>0, <2>1, <2>2
    <3>2. rover'[s].state = "HANDSHAKE"
      BY <3>1 DEF Empty
    <3> QED
      BY <3>2 DEF PeerOk
  <2>3. CASE r # s
    BY <1>0, <1>1, <2>1, <2>3
  <2> QED
    BY <2>2, <2>3
<1>4. CASE RejectRequest \/ ServiceEnd \/ SendError
  <2>1. CloseRover
    BY <1>4 DEF RejectRequest, ServiceEnd, SendError
  <2>2. rover' = [rover EXCEPT ![i] = Empty] /\ peer' = [peer EXCEPT ![i] = NoPeer]
    BY <2>1 DEF CloseRover
  <2>3. CASE s = i
    <3>1. peer'[s] = NoPeer
      BY <1>0, <2>2, <2>3
    <3> QED
      BY <3>1 DEF PeerOk, NoPeer
  <2>4. CASE s # i
    BY <1>0, <1>1, <2>2, <2>4
  <2> QED
    BY <2>3, <2>4
<1>5. CASE ServiceData \/ AcceptRequest
  <2>1. /\ rover[i].state # "EMPTY" /\ peer' = [peer EXCEPT ![i].data = "none"]
        /\ rover' = rover \/ rover' = [rover EXCEPT ![i].state = "STREAMING"]
    BY <1>5 DEF ServiceData, AcceptRequest, Serviced
  <2>2. CASE s = i
    <3>1. rover'[s].state # "EMPTY"
      BY <1>0, <2>1, <2>2 DEF RoverRec
    <3> QED
      BY <3>1 DEF PeerOk
  <2>3. CASE s # i
    <3>1. rover'[s] = rover[s] /\ peer'[s] = peer[s]
      BY <1>0, <2>1, <2>3
    <3> QED
      BY <1>1, <3>1
  <2> QED
    BY <2>2, <2>3
<1>6. CASE FlushPiece
  <2>1. PICK r : rover' = [rover EXCEPT ![i] = r] /\ peer' = peer /\ Streaming(i)
                 /\ r.state = "STREAMING"
    <3>1. Streaming(i) /\ peer' = peer
      BY <1>6 DEF FlushPiece, Flushing, outside
    <3>2. [Empty EXCEPT !.state = "STREAMING"].state = "STREAMING"
      BY DEF Empty
    <3>3. [rover[i] EXCEPT !.pos = rover[i].pos + 1].state = "STREAMING"
      BY <1>0, <3>1 DEF Streaming, RoverRec
    <3> QED
      BY <1>6, <3>1, <3>2, <3>3 DEF FlushPiece
  <2>2. rover'[s].state = rover[s].state
    BY <1>0, <2>1 DEF Streaming
  <2> QED
    BY <1>1, <2>1, <2>2
<1>7. CASE SendBlocked
  <2>1. peer' = peer /\ (rover' = rover \/ rover' = [rover EXCEPT ![i].pending = f, ![i].pos = offset])
    BY <1>7 DEF SendBlocked, outside
  <2>2. rover'[s].state = rover[s].state
    BY <1>0, <2>1 DEF RoverRec
  <2> QED
    BY <1>1, <2>1, <2>2
<1>8. CASE \E r \in Slots : ClientSends(r) \/ ClientLeaves(r)
  <2>1. PICK r \in Slots : ClientSends(r) \/ ClientLeaves(r)
    BY <1>8
  <2>2. rover' = rover /\ peer[r].conn = "open"
    BY <2>1 DEF ClientSends, ClientLeaves
  <2>3. r # s => peer'[s] = peer[s]
    BY <1>0, <2>1 DEF ClientSends, ClientLeaves
  <2>4. CASE r = s
    BY <2>2, <2>4 DEF PeerOk
  <2>5. CASE r # s
    BY <1>1, <2>2, <2>3, <2>5
  <2> QED
    BY <2>4, <2>5
<1>9. CASE \/ PublishRtcm \/ Select \/ Refuse \/ AcceptNone \/ ServiceNone \/ TakeFrame \/ EndRound
           \/ SkipRover \/ FlushBlocked \/ SendPiece \/ GiveFrame \/ ClientConnects
  BY <1>2, <1>9 DEF PublishRtcm, Select, Refuse, AcceptNone, ServiceNone, TakeFrame, EndRound,
     SkipRover, FlushBlocked, SendPiece, GiveFrame, ClientConnects, outside
<1> QED
  BY <1>3, <1>4, <1>5, <1>6, <1>7, <1>8, <1>9 DEF CasterNext, CasterTask, Forward, Service

LEMMA KeepsService ==
  ASSUME RoverStreamInv, ServiceInv, [CasterNext]_casterVars PROVE ServiceInv'
<1>1. CASE CasterNext
  <2>1. ReadableOk'
    BY <1>1, KeepsReadable DEF ServiceInv
  <2>2. \A s \in Slots : PeerOk(s)'
    BY <1>1, KeepsPeers DEF ServiceInv
  <2> QED
    BY <2>1, <2>2 DEF ServiceInv
<1>2. CASE UNCHANGED casterVars
  BY <1>2 DEF casterVars, ServiceInv, ReadableOk, PeerOk
<1> QED
  BY <1>1, <1>2

\* The numbers at each place.
LEMMA RoundNumbers ==
  ASSUME TypeInv
  PROVE  /\ SlotsLeft \in Nat /\ TurnsLeft \in Nat /\ InTurn \in Nat /\ Len(waiting) \in Nat
         /\ i \in 1..Rovers
<1>1. i \in 1..Rovers /\ offset \in 0..(Pieces - 1) /\ Len(waiting) \in Nat
  BY SlotFacts
<1>2. rover[i].pos \in 0..(Pieces - 1)
  BY <1>1, SlotFacts DEF Slots
<1>3. SlotsLeft \in Nat /\ TurnsLeft \in Nat
  BY <1>1, CasterSizes DEF SlotsLeft, TurnsLeft
<1>4. InTurn \in Nat
  BY <1>1, <1>2, CasterSizes DEF InTurn
<1> QED
  BY <1>1, <1>3, <1>4

\* On to the forwarding
LEMMA UpToForwarding ==
  ASSUME TypeInv, Select \/ Accept \/ Refuse \/ AcceptNone \/ Service
  PROVE  SlotsLeft' < SlotsLeft
<1>0. i \in 1..Rovers /\ Rovers \in Nat
  BY RoundNumbers, CasterSizes
<1>1. CASE Select
  <2>1. at = "select" /\ at' = "accept"
    BY <1>1 DEF Select
  <2>2. SlotsLeft = Rovers + 2 /\ SlotsLeft' = Rovers + 1
    BY <2>1 DEF SlotsLeft
  <2> QED
    BY <1>0, <2>2
<1>2. CASE Accept \/ Refuse \/ AcceptNone
  <2>1. at = "accept" /\ at' = "service" /\ i' = i
    BY <1>2 DEF Accept, Refuse, AcceptNone, ToService
  <2>2. SlotsLeft = Rovers + 1 /\ SlotsLeft' = Rovers + 1 - i
    BY <2>1 DEF SlotsLeft
  <2> QED
    BY <1>0, <2>2
<1>3. CASE Service
  <2>1. at = "service" /\ NextSlot
    BY <1>3 DEF Service, ServiceNone, ServiceData, AcceptRequest, RejectRequest, ServiceEnd
  <2>2. SlotsLeft = Rovers + 1 - i
    BY <2>1 DEF SlotsLeft
  <2>3. CASE i = Rovers
    <3>1. at' = "receive"
      BY <2>1, <2>3 DEF NextSlot
    <3>2. SlotsLeft' = 0
      BY <3>1 DEF SlotsLeft
    <3> QED
      BY <1>0, <2>2, <3>2
  <2>4. CASE i # Rovers
    <3>1. at' = "service" /\ i' = i + 1
      BY <2>1, <2>4 DEF NextSlot
    <3>2. SlotsLeft' = Rovers + 1 - (i + 1)
      BY <3>1 DEF SlotsLeft
    <3> QED
      BY <1>0, <2>2, <3>2
  <2> QED
    BY <2>3, <2>4
<1> QED
  BY <1>1, <1>2, <1>3

\* The turn goes to the next rover.
LEMMA OnwardNearer ==
  ASSUME TypeInv, at = "send", Onward, waiting' = waiting
  PROVE  NearerEnd
<1>0. i \in 1..Rovers /\ Rovers \in Nat
  BY RoundNumbers, CasterSizes
<1>1. at' \in {"send", "give"}
  BY DEF Onward
<1>2. SlotsLeft = 0 /\ SlotsLeft' = 0 /\ Len(waiting') = Len(waiting)
  BY <1>1 DEF SlotsLeft
<1>3. TurnsLeft = Rovers + 2 - i
  BY DEF TurnsLeft
<1>4. CASE i = Rovers
  <2>1. at' = "give"
    BY <1>4 DEF Onward
  <2>2. TurnsLeft' = 1
    BY <2>1 DEF TurnsLeft
  <2>3. TurnsLeft' < TurnsLeft
    BY <1>0, <1>3, <1>4, <2>2
  <2> QED
    BY <1>2, <2>3 DEF NearerEnd
<1>5. CASE i # Rovers
  <2>1. at' = "send" /\ i' = i + 1
    BY <1>5 DEF Onward
  <2>2. TurnsLeft' = Rovers + 2 - (i + 1)
    BY <2>1 DEF TurnsLeft
  <2>3. TurnsLeft' < TurnsLeft
    BY <1>0, <1>3, <2>2
  <2> QED
    BY <1>2, <2>3 DEF NearerEnd
<1> QED
  BY <1>4, <1>5

\* A piece more for the rover whose turn it is
LEMMA PieceNearer ==
  ASSUME at = "send", UNCHANGED <<at, i, waiting>>, InTurn' < InTurn
  PROVE  NearerEnd
<1>1. SlotsLeft' = SlotsLeft /\ TurnsLeft' = TurnsLeft /\ Len(waiting') = Len(waiting)
  BY DEF SlotsLeft, TurnsLeft
<1> QED
  BY <1>1 DEF NearerEnd

LEMMA TaskNearer ==
  ASSUME TypeInv, CasterTask
  PROVE  NearerEnd \/ at' = "select"
<1>0. /\ i \in Slots /\ Pieces \in Nat /\ offset \in 0..(Pieces - 1)
      /\ rover \in [Slots -> RoverRec] /\ rover[i] \in RoverRec /\ rover[i].pos \in 0..(Pieces - 1)
  BY CasterSizes, SlotFacts DEF TypeInv, TaskType, RoverType
<1>1. CASE Select \/ Accept \/ Refuse \/ AcceptNone \/ Service
  BY <1>1, UpToForwarding DEF NearerEnd
<1>2. CASE TakeFrame
  <2>1. at = "receive" /\ at' = "send" /\ waiting # <<>> /\ waiting' = Tail(waiting)
    BY <1>2 DEF TakeFrame
  <2>2. waiting \in Seq(1..MaxRtcm)
    BY DEF TypeInv, QueueType
  <2>3. Len(waiting) \in Nat /\ Len(Tail(waiting)) = Len(waiting) - 1
    BY <2>1, <2>2, FirstAndRest
  <2>4. Len(waiting') = Len(waiting) - 1
    BY <2>1, <2>3
  <2>5. Len(waiting') < Len(waiting)
    BY <2>3, <2>4
  <2>6. SlotsLeft = 0 /\ SlotsLeft' = 0
    BY <2>1 DEF SlotsLeft
  <2> QED
    BY <2>5, <2>6 DEF NearerEnd
<1>3. CASE EndRound
  BY <1>3 DEF EndRound
<1>4. CASE SkipRover \/ FlushBlocked \/ SendBlocked \/ SendError
  <2>1. at = "send" /\ Onward /\ waiting' = waiting
    BY <1>4 DEF SkipRover, FlushBlocked, SendBlocked, SendError, Flushing, Sending
  <2> QED
    BY <2>1, OnwardNearer
<1>5. CASE FlushPiece
  <2>1. /\ at = "send" /\ UNCHANGED <<at, i, waiting, offset>> /\ rover[i].pending # 0
    BY <1>5 DEF FlushPiece, Flushing, task
  <2>2. InTurn = 2 * Pieces - rover[i].pos
    BY <2>1 DEF InTurn
  <2>3. rover' = [rover EXCEPT ![i] = IF rover[i].pos + 1 = Pieces
                                        THEN [Empty EXCEPT !.state = "STREAMING"]
                                        ELSE [rover[i] EXCEPT !.pos = rover[i].pos + 1]]
    BY <1>5 DEF FlushPiece
  <2>4. CASE rover[i].pos + 1 = Pieces
    <3>1. rover'[i] = [Empty EXCEPT !.state = "STREAMING"]
      BY <1>0, <2>3, <2>4
    <3>2. rover'[i].pending = 0
      BY <3>1 DEF Empty
    <3>3. InTurn' = Pieces - offset
      BY <2>1, <3>2 DEF InTurn
    <3>4. InTurn' < InTurn
      BY <1>0, <2>2, <3>3
    <3> QED
      BY <2>1, <3>4, PieceNearer
  <2>5. CASE rover[i].pos + 1 # Pieces
    <3>1. rover'[i] = [rover[i] EXCEPT !.pos = rover[i].pos + 1]
      BY <1>0, <2>3, <2>5
    <3>2. rover'[i].pending = rover[i].pending /\ rover'[i].pos = rover[i].pos + 1
      BY <1>0, <3>1 DEF RoverRec
    <3>3. InTurn' = 2 * Pieces - (rover[i].pos + 1)
      BY <2>1, <3>2 DEF InTurn
    <3>4. InTurn' < InTurn
      BY <1>0, <2>2, <3>3
    <3> QED
      BY <2>1, <3>4, PieceNearer
  <2> QED
    BY <2>4, <2>5
<1>6. CASE SendPiece
  <2>1. at = "send" /\ waiting' = waiting /\ rover' = rover /\ rover[i].pending = 0
    BY <1>6 DEF SendPiece, Sending
  <2>2. CASE offset + 1 = Pieces
    BY <1>6, <2>1, <2>2, OnwardNearer DEF SendPiece
  <2>3. CASE offset + 1 # Pieces
    <3>1. offset' = offset + 1 /\ UNCHANGED <<at, i>>
      BY <1>6, <2>3 DEF SendPiece
    <3>2. InTurn = Pieces - offset /\ InTurn' = Pieces - (offset + 1)
      BY <2>1, <3>1 DEF InTurn
    <3>3. InTurn' < InTurn
      BY <1>0, <3>2
    <3> QED
      BY <2>1, <3>1, <3>3, PieceNearer
  <2> QED
    BY <2>2, <2>3
<1>7. CASE GiveFrame
  <2>1. at = "give" /\ at' = "receive" /\ waiting' = waiting
    BY <1>7 DEF GiveFrame
  <2>2. TurnsLeft = 1 /\ TurnsLeft' = 0 /\ SlotsLeft = 0 /\ SlotsLeft' = 0
    BY <2>1 DEF TurnsLeft, SlotsLeft
  <2>3. TurnsLeft' < TurnsLeft
    BY <2>2
  <2> QED
    BY <2>1, <2>2, <2>3 DEF NearerEnd
<1> QED
  BY <1>1, <1>2, <1>3, <1>4, <1>5, <1>6, <1>7 DEF CasterTask, Forward

\* The reader and the clients leave the round as it is.
LEMMA OthersLeaveRound ==
  ASSUME TypeInv, CasterNext, ~CasterTask
  PROVE  /\ UNCHANGED <<SlotsLeft, TurnsLeft, InTurn>>
         /\ \/ Len(waiting') <= Len(waiting)
            \/ rtcm' = rtcm + 1 /\ Len(waiting') = Len(waiting) + 1
<1>0. PublishRtcm \/ ClientConnects \/ \E s \in Slots : ClientSends(s) \/ ClientLeaves(s)
  BY DEF CasterNext
<1>1. UNCHANGED <<at, i, offset, rover>>
  BY <1>0 DEF PublishRtcm, ClientConnects, ClientSends, ClientLeaves, task
<1>2. UNCHANGED <<SlotsLeft, TurnsLeft, InTurn>>
  BY <1>1 DEF SlotsLeft, TurnsLeft, InTurn
<1>3. waiting \in Seq(1..MaxRtcm) /\ Len(waiting) \in Nat
  BY SlotFacts
<1>4. CASE waiting' = waiting
  <2>1. Len(waiting') <= Len(waiting)
    BY <1>3, <1>4
  <2> QED
    BY <1>2, <2>1
<1>5. CASE PublishRtcm /\ waiting' # waiting
  <2>1. rtcm' = rtcm + 1 /\ waiting' = Append(waiting, rtcm')
    BY <1>5 DEF PublishRtcm
  <2>2. Len(Append(waiting, rtcm')) = Len(waiting) + 1
    BY <1>3
  <2>3. Len(waiting') = Len(waiting) + 1
    BY <2>1, <2>2
  <2> QED
    BY <1>2, <2>1, <2>3
<1> QED
  BY <1>0, <1>4, <1>5 DEF ClientConnects, ClientSends, ClientLeaves

\* What the client of a slot wants, by its record
LEMMA Demands ==
  ASSUME TypeInv, NEW s \in Slots
  PROVE  /\ Demand(s) \in Nat
         /\ Waits(s) => Demand(s) > 0
<1>1. peer[s] \in PeerRec
  BY DEF TypeInv, OutsideType
<1> QED
  BY <1>1 DEF PeerRec, Demand, Waits

LEMMA DemandFalls ==
  ASSUME TypeInv, TypeInv', ServiceInv, CasterNext, NEW s \in Slots, Waits(s)
  PROVE  /\ Demand(s)' <= Demand(s)
         /\ s \in readable /\ s \notin readable' => Demand(s)' < Demand(s)
         /\ at = "select" /\ at' # "select" => s \in readable'
<1>0. /\ i \in Slots /\ peer \in [Slots -> PeerRec] /\ peer[s] \in PeerRec /\ peer[i] \in PeerRec
      /\ peer'[s] \in PeerRec
  BY DEF TypeInv, TaskType, OutsideType
<1>1. Demand(s) \in Nat /\ Demand(s) > 0
  BY Demands
<1>2. rover[s].state # "EMPTY"
  BY DEF ServiceInv, PeerOk, Waits
<1>3. s \in 1..Rovers /\ s # 0
  BY DEF Slots
<1>4. ASSUME peer'[s] = peer[s] PROVE Demand(s)' = Demand(s)
  BY <1>4 DEF Demand
<1>5. CASE /\ peer'[s] = peer[s] /\ (s \in readable => s \in readable')
           /\ at = "select" => at' = "select"
  <2>1. Demand(s)' = Demand(s)
    BY <1>4, <1>5
  <2> QED
    BY <1>1, <1>5, <2>1
<1>6. CASE Select
  <2>1. peer'[s] = peer[s] /\ s \in readable'
    BY <1>2, <1>6 DEF Select, outside, Waits
  <2>2. Demand(s)' = Demand(s)
    BY <1>4, <2>1
  <2> QED
    BY <1>1, <2>1, <2>2
<1>7. CASE Accept \/ Refuse \/ AcceptNone
  <2>1. at = "accept" /\ readable' = readable \ {0}
    BY <1>7 DEF Accept, Refuse, AcceptNone, ToService
  <2>2. peer'[s] = peer[s]
    BY <1>0, <1>2, <1>7 DEF Accept, Refuse, AcceptNone, Free, outside
  <2> QED
    BY <1>3, <1>5, <2>1, <2>2
<1>8. CASE Service
  <2>1. at = "service" /\ readable' = readable \ {i}
    BY <1>8 DEF Service, ServiceNone, ServiceData, AcceptRequest, RejectRequest, ServiceEnd, NextSlot
  <2>2. CASE ServiceNone
    <3>1. peer' = peer /\ (s = i => s \notin readable)
      BY <1>2, <2>2 DEF ServiceNone, Serviced, outside
    <3> QED
      BY <1>5, <2>1, <3>1
  <2>3. CASE ServiceData \/ AcceptRequest
    <3>1. peer' = [peer EXCEPT ![i].data = "none"] /\ peer[i].data # "none"
      BY <2>3 DEF ServiceData, AcceptRequest
    <3>2. CASE s = i
      <4>1. peer'[s].data = "none" /\ peer'[s].conn = peer[s].conn /\ peer[s].data # "none"
        BY <1>0, <3>1, <3>2 DEF PeerRec
      <4>2. Demand(s)' < Demand(s)
        BY <1>0, <4>1 DEF Demand, PeerRec
      <4>3. Demand(s)' \in Nat
        BY <1>0 DEF Demand, PeerRec
      <4> QED
        BY <1>1, <2>1, <4>2, <4>3
    <3>3. CASE s # i
      BY <1>0, <1>5, <2>1, <3>1, <3>3
    <3> QED
      BY <3>2, <3>3
  <2>4. CASE RejectRequest \/ ServiceEnd
    <3>1. peer' = [peer EXCEPT ![i] = NoPeer]
      BY <2>4 DEF RejectRequest, ServiceEnd, CloseRover
    <3>2. CASE s = i
      <4>1. peer'[s] = NoPeer
        BY <1>0, <3>1, <3>2
      <4>2. Demand(s)' = 0
        BY <4>1 DEF Demand, NoPeer
      <4> QED
        BY <1>1, <2>1, <4>2
    <3>3. CASE s # i
      BY <1>0, <1>5, <2>1, <3>1, <3>3
    <3> QED
      BY <3>2, <3>3
  <2> QED
    BY <1>8, <2>2, <2>3, <2>4 DEF Service
<1>9. CASE SendError
  <2>1. peer' = [peer EXCEPT ![i] = NoPeer] /\ readable' = readable /\ at = "send"
    BY <1>9 DEF SendError, CloseRover, Onward, Flushing, Sending
  <2>2. CASE s = i
    <3>1. peer'[s] = NoPeer
      BY <1>0, <2>1, <2>2
    <3>2. Demand(s)' = 0
      BY <3>1 DEF Demand, NoPeer
    <3> QED
      BY <1>1, <2>1, <3>2
  <2>3. CASE s # i
    BY <1>0, <1>5, <2>1, <2>3
  <2> QED
    BY <2>2, <2>3
<1>10. CASE TakeFrame \/ EndRound \/ GiveFrame
  BY <1>5, <1>10 DEF TakeFrame, EndRound, GiveFrame, outside
<1>11. CASE SkipRover \/ FlushPiece \/ FlushBlocked \/ SendPiece \/ SendBlocked
  BY <1>5, <1>11 DEF SkipRover, FlushPiece, FlushBlocked, SendPiece, SendBlocked, Onward, Flushing,
     Sending, outside, task
<1>12. CASE PublishRtcm \/ ClientConnects
  BY <1>5, <1>12 DEF PublishRtcm, ClientConnects, outside, task
<1>13. CASE \E r \in Slots : ClientSends(r) \/ ClientLeaves(r)
  <2>1. PICK r \in Slots : ClientSends(r) \/ ClientLeaves(r)
    BY <1>13
  <2>2. UNCHANGED <<at, readable>>
    BY <2>1 DEF ClientSends, ClientLeaves, task
  <2>3. CASE r # s
    <3>1. peer'[s] = peer[s]
      BY <1>0, <2>1, <2>3 DEF ClientSends, ClientLeaves
    <3> QED
      BY <1>5, <2>2, <3>1
  <2>4. CASE r = s
    <3>1. ~ClientSends(s)
      BY DEF ClientSends, Waits
    <3>2. peer[s].conn = "open" /\ peer'[s].conn \in {"fin", "reset"} /\ peer'[s].data = peer[s].data
      BY <1>0, <2>1, <2>4, <3>1 DEF ClientLeaves, PeerRec
    <3>3. Demand(s)' <= Demand(s)
      BY <1>0, <3>2 DEF Demand, PeerRec
    <3> QED
      BY <2>2, <3>3
  <2> QED
    BY <2>3, <2>4
<1> QED
  BY <1>6, <1>7, <1>8, <1>9, <1>10, <1>11, <1>12, <1>13 DEF CasterNext, CasterTask, Forward

\* The rounds of task_ntrip_server (ntrip_caster.c) serve everybody who waits:
\* for any rovers, clients, blocked sockets and frames, each round comes to its
\* end, at most the frames that are published meanwhile make it longer, and in
\* it each rover that waited at its select has its turn.
THEOREM RoversAreServed == CasterSpec => WaitingIsServed
<1>1. RoverStreamInv /\ ServiceInv /\ [CasterNext]_casterVars => ServiceInv'
  BY KeepsService
<1>2. RoverStreamInv /\ RoverStreamInv' /\ ServiceInv /\ ServiceInv' /\ [CasterNext]_casterVars =>
        [/\ CasterTask => NearerEnd \/ at' = "select"
         /\ ~CasterTask => /\ UNCHANGED <<SlotsLeft, TurnsLeft, InTurn>>
                           /\ \/ Len(waiting') <= Len(waiting)
                              \/ rtcm' = rtcm + 1 /\ Len(waiting') = Len(waiting) + 1
         /\ {SlotsLeft, TurnsLeft, InTurn, Len(waiting)} \subseteq Nat
         /\ at' = "select" => readable' = {}
         /\ \A s \in Slots : Waits(s) =>
              /\ {Demand(s), Demand(s)'} \subseteq Nat
              /\ Demand(s)' <= Demand(s)
              /\ at = "select" /\ at' # "select" => s \in readable'
              /\ s \in readable /\ s \notin readable' => Demand(s)' < Demand(s)]_casterVars
  <2> SUFFICES ASSUME RoverStreamInv, RoverStreamInv', ServiceInv, ServiceInv', CasterNext
               PROVE  /\ CasterTask => NearerEnd \/ at' = "select"
                      /\ ~CasterTask => /\ UNCHANGED <<SlotsLeft, TurnsLeft, InTurn>>
                                        /\ \/ Len(waiting') <= Len(waiting)
                                           \/ rtcm' = rtcm + 1 /\ Len(waiting') = Len(waiting) + 1
                      /\ {SlotsLeft, TurnsLeft, InTurn, Len(waiting)} \subseteq Nat
                      /\ at' = "select" => readable' = {}
                      /\ \A s \in Slots : Waits(s) =>
                           /\ {Demand(s), Demand(s)'} \subseteq Nat
                           /\ Demand(s)' <= Demand(s)
                           /\ at = "select" /\ at' # "select" => s \in readable'
                           /\ s \in readable /\ s \notin readable' => Demand(s)' < Demand(s)
    OBVIOUS
  <2>1. TypeInv /\ TypeInv'
    BY DEF RoverStreamInv
  <2>2. CasterTask => NearerEnd \/ at' = "select"
    BY <2>1, TaskNearer
  <2>3. ~CasterTask => /\ UNCHANGED <<SlotsLeft, TurnsLeft, InTurn>>
                       /\ \/ Len(waiting') <= Len(waiting)
                          \/ rtcm' = rtcm + 1 /\ Len(waiting') = Len(waiting) + 1
    BY <2>1, OthersLeaveRound
  <2>4. {SlotsLeft, TurnsLeft, InTurn, Len(waiting)} \subseteq Nat
    BY <2>1, RoundNumbers
  <2>5. at' = "select" => readable' = {}
    BY DEF ServiceInv, ReadableOk
  <2>6. ASSUME NEW s \in Slots, Waits(s)
        PROVE  /\ {Demand(s), Demand(s)'} \subseteq Nat
               /\ Demand(s)' <= Demand(s)
               /\ at = "select" /\ at' # "select" => s \in readable'
               /\ s \in readable /\ s \notin readable' => Demand(s)' < Demand(s)
    <3>1. Demand(s) \in Nat
      BY <2>1, Demands
    <3>2. peer'[s] \in PeerRec
      BY <2>1 DEF TypeInv, OutsideType
    <3>3. Demand(s)' \in Nat
      BY <3>2 DEF Demand, PeerRec
    <3> QED
      BY <2>1, <2>6, <3>1, <3>3, DemandFalls
  <2> QED
    BY <2>2, <2>3, <2>4, <2>5, <2>6
<1> QED
  BY <1>1, <1>2, InitialService, AlwaysStream, PTL DEF CasterSpec, WaitingIsServed

-----------------------------------------------------------------------------
(* The destinations of the fan-out.  FrameDelivery, which RtcmFanout        *)
(* implements, says what a destination does with the frames it is given;    *)
(* the tasks of these two components do just that.                          *)

AsUplinks == INSTANCE FrameDelivery
    WITH Dest <- Uplinks, Depth <- QueueDepth, Frames <- 1..MaxFrames, NoFrame <- 0,
         subs <- Uplinks, offer <- 0, todo <- {},
         fifo <- queue, inhand <- [u \in Uplinks |-> up[u].f]

AsCaster == INSTANCE FrameDelivery
    WITH Dest <- {0}, Depth <- CasterDepth, Frames <- 1..MaxRtcm, NoFrame <- 0,
         subs <- {0}, offer <- 0, todo <- {},
         fifo <- [d \in {0} |-> waiting], inhand <- [d \in {0} |-> f]

\* A frame is offered to every uplink at once, and no hand is disturbed.
UplinksDoTheirPart ==
    [][\/ Publish /\ \A u \in Uplinks : up'[u].f = up[u].f
       \/ \E u \in Uplinks : AsUplinks!Take(u) \/ AsUplinks!Finish(u)
       \/ UNCHANGED AsUplinks!vars]_uplinkVars

CasterDoesItsPart ==
    [][\/ PublishRtcm /\ f' = f
       \/ AsCaster!Take(0) \/ AsCaster!Finish(0)
       \/ UNCHANGED AsCaster!vars]_casterVars

\* What is given back is in hand.
HandInv == \A u \in Uplinks : up[u].step = "release" => up[u].f # 0

\* The steps that change neither the queue nor the hand
LEMMA OtherSteps ==
  ASSUME IInv, HandInv, NEW u \in Uplinks, UplinkTask(u), ~Take(u), ~Release(u)
  PROVE  /\ queue' = queue
         /\ \A v \in Uplinks : up'[v].f = up[v].f
         /\ HandInv'
<1>1. UplinkTypeOK /\ StepOk(up[u])
  BY DEF IInv, StepInv
<1>2. /\ queue' = queue
      /\ up'[u].f = up[u].f
      /\ up'[u].step = "release" => up[u].f # 0
      /\ \A v \in Uplinks : v # u => up'[v] = up[v]
  <2>1. CASE Open(u) \/ OpenFails(u) \/ Accepted(u) \/ NotAccepted(u) \/ Wait(u)
    <3>1. queue' = queue
      BY <2>1 DEF Open, OpenFails, Accepted, NotAccepted, Wait
    <3>2. \E s \in {"v2 reply", "v1 reply", "v1", "wait", "set", "v2"}, k \in {TRUE, up[u].sock} :
             Moves(u, s, k, up[u].f, up[u].sent)
      BY <1>1, <2>1, AfterStep DEF Otherwise
    <3> QED
      BY <3>1, <3>2 DEF Moves
  <2>2. CASE LoadMask(u)
    <3>1. \E s \in {"set store", "clear store"} : Moves(u, s, up[u].sock, up[u].f, up[u].sent)
      BY <1>1, <2>2, AfterStep
    <3> QED
      BY <2>2, <3>1 DEF Moves, LoadMask
  <2>3. CASE StoreMask(u)
    <3>1. Moves(u, IF At(u, "set store") THEN "receive"
                   ELSE IF up[u].f # 0 THEN "release" ELSE "v2",
                up[u].sock, up[u].f, up[u].sent)
      BY <1>1, <2>3, AfterStep
    <3>2. up'[u].step = "release" => up[u].f # 0
      BY <3>1 DEF Moves
    <3>3. up'[u].f = up[u].f /\ \A v \in Uplinks : v # u => up'[v] = up[v]
      BY <3>1 DEF Moves
    <3> QED
      BY <2>3, <3>2, <3>3 DEF StoreMask
  <2>4. CASE TakeNothing(u)
    <3>1. Moves(u, "peek", up[u].sock, up[u].f, up[u].sent)
      BY <1>1, <2>4, AfterStep
    <3> QED
      BY <2>4, <3>1 DEF Moves, TakeNothing
  <2>5. CASE SendPart(u)
    <3>1. Moves(u, IF up[u].sent + 1 = Parts THEN "release" ELSE "send",
                up[u].sock, up[u].f, up[u].sent + 1)
      BY <1>1, <2>5, AfterStep
    <3> QED
      BY <1>1, <2>5, <3>1 DEF Moves, SendPart, At, StepOk
  <2>6. CASE SendAgain(u)
    <3>1. Moves(u, up[u].step, up[u].sock, up[u].f, up[u].sent)
      BY <1>1, <2>6, AfterStep
    <3> QED
      BY <2>6, <3>1 DEF Moves, SendAgain, At
  <2>7. CASE Close(u)
    <3>1. Moves(u, "clear", FALSE, up[u].f, up[u].sent)
      BY <1>1, <2>7, AfterStep
    <3> QED
      BY <2>7, <3>1 DEF Moves, Close
  <2>8. CASE Peek(u) /\ ~Close(u)
    <3>1. GoTo(u, "receive") /\ queue' = queue
      BY <2>8 DEF Peek
    <3>2. Moves(u, "receive", up[u].sock, up[u].f, up[u].sent)
      BY <1>1, <3>1, AfterGoTo
    <3> QED
      BY <3>1, <3>2 DEF Moves
  <2> QED
    BY <2>1, <2>2, <2>3, <2>4, <2>5, <2>6, <2>7, <2>8 DEF UplinkTask, SendFails
<1> QED
  BY <1>2 DEF HandInv

LEMMA TakesOrGives ==
  ASSUME IInv, HandInv, NEW u \in Uplinks, Take(u) \/ Release(u)
  PROVE  (AsUplinks!Take(u) \/ AsUplinks!Finish(u)) /\ HandInv'
<1> DEFINE hands == [v \in Uplinks |-> up[v].f]
<1>1. UplinkTypeOK /\ StepOk(up[u])
  BY DEF IInv, StepInv
<1>2. CASE Take(u)
  <2>1. Moves(u, "send", up[u].sock, Head(queue[u]), 0)
    BY <1>1, <1>2, AfterStep
  <2>2. up[u].f = 0 /\ queue[u] # <<>> /\ queue' = [queue EXCEPT ![u] = Tail(@)]
    BY <1>1, <1>2 DEF Take, At, StepOk
  <2>3. hands[u] = 0 /\ hands' = [hands EXCEPT ![u] = Head(queue[u])]
    BY <2>1, <2>2 DEF Moves
  <2>4. AsUplinks!Take(u)
    BY <2>2, <2>3 DEF AsUplinks!Take
  <2> QED
    BY <2>1, <2>4 DEF Moves, HandInv
<1>3. CASE Release(u)
  <2>1. Moves(u, IF up[u].sock THEN "peek" ELSE "v2", up[u].sock, 0, 0)
    BY <1>1, <1>3, AfterStep
  <2>2. up[u].f # 0 /\ queue' = queue
    BY <1>3 DEF Release, At, HandInv
  <2>3. hands[u] # 0 /\ hands' = [hands EXCEPT ![u] = 0]
    BY <2>1, <2>2 DEF Moves
  <2>4. AsUplinks!Finish(u)
    BY <2>2, <2>3 DEF AsUplinks!Finish
  <2> QED
    BY <2>1, <2>4 DEF Moves, HandInv
<1> QED
  BY <1>2, <1>3

\* A task that feeds a remote caster is a destination as the fan-out expects one
\* (ntrip_client.c, task_ntrip_uplink): it takes the oldest frame of its queue and only
\* with empty hands, and gives back exactly what it took, once, on every way out of the
\* sending.
THEOREM UplinksAreDestinations == UplinkSpec => UplinksDoTheirPart
<1>1. ASSUME IInv, HandInv, [UplinkNext]_uplinkVars
      PROVE  /\ HandInv'
             /\ [\/ Publish /\ \A u \in Uplinks : up'[u].f = up[u].f
                 \/ \E u \in Uplinks : AsUplinks!Take(u) \/ AsUplinks!Finish(u)
                 \/ UNCHANGED AsUplinks!vars]_uplinkVars
  <2>1. CASE UNCHANGED uplinkVars
    BY <1>1, <2>1 DEF uplinkVars, HandInv
  <2>2. CASE Publish
    BY <1>1, <2>2 DEF Publish, HandInv
  <2>3. CASE \E u \in Uplinks : PeerAnswers(u) \/ PeerSends(u) \/ PeerEnds(u)
    <3>1. up' = up /\ queue' = queue
      BY <2>3 DEF PeerAnswers, PeerSends, PeerEnds
    <3> QED
      BY <1>1, <3>1 DEF HandInv, AsUplinks!vars
  <2>4. ASSUME NEW u \in Uplinks, UplinkTask(u)
        PROVE  /\ HandInv'
               /\ \/ AsUplinks!Take(u) \/ AsUplinks!Finish(u)
                  \/ UNCHANGED AsUplinks!vars
    <3>1. CASE Take(u) \/ Release(u)
      BY <1>1, <3>1, TakesOrGives
    <3>2. CASE ~Take(u) /\ ~Release(u)
      <4>1. queue' = queue /\ HandInv' /\ \A v \in Uplinks : up'[v].f = up[v].f
        BY <1>1, <2>4, <3>2, OtherSteps
      <4> QED
        BY <4>1 DEF AsUplinks!vars
    <3> QED
      BY <3>1, <3>2
  <2> QED
    BY <1>1, <2>1, <2>2, <2>3, <2>4 DEF UplinkNext
<1>2. UplinkInit => HandInv
  BY DEF UplinkInit, HandInv
<1> QED
  BY <1>1, <1>2, InitType, TypeStep, PTL DEF UplinkSpec, UplinksDoTheirPart

\* Outside the forwarding of a frame the caster's hands are empty.
EmptyHands == at \notin {"send", "give"} => f = 0

\* The task of the local caster is a destination as the fan-out expects one
\* (ntrip_caster.c, task_ntrip_server): whatever happens to its rovers, it takes one frame
\* at a time and gives it back, once, before it takes the next.
THEOREM CasterIsADestination == CasterSpec => CasterDoesItsPart
<1>1. ASSUME RoverStreamInv, EmptyHands, [CasterNext]_casterVars
      PROVE  /\ EmptyHands'
             /\ [\/ PublishRtcm /\ f' = f
                 \/ AsCaster!Take(0) \/ AsCaster!Finish(0)
                 \/ UNCHANGED AsCaster!vars]_casterVars
  <2>1. CASE UNCHANGED casterVars
    BY <1>1, <2>1 DEF casterVars, task, EmptyHands
  <2>2. CASE PublishRtcm
    BY <1>1, <2>2 DEF PublishRtcm, task, EmptyHands
  <2>3. CASE TakeFrame
    <3>1. f = 0 /\ waiting # <<>> /\ f' = Head(waiting) /\ waiting' = Tail(waiting)
          /\ at' = "send"
      BY <1>1, <2>3 DEF TakeFrame, EmptyHands
    <3> QED
      BY <3>1 DEF AsCaster!Take, EmptyHands
  <2>4. CASE GiveFrame
    <3>1. f # 0 /\ f' = 0 /\ waiting' = waiting
      BY <1>1, <2>4 DEF GiveFrame, RoverStreamInv, PlaceOk
    <3> QED
      BY <3>1 DEF AsCaster!Finish, EmptyHands
  <2>5. CASE Select \/ Accept \/ Refuse \/ AcceptNone \/ Service \/ EndRound
    <3>1. f' = f /\ waiting' = waiting /\ at \notin {"send", "give"}
      BY <2>5 DEF Select, Accept, Refuse, AcceptNone, Service, EndRound, ServiceNone,
         ServiceData, AcceptRequest, RejectRequest, ServiceEnd
    <3> QED
      BY <1>1, <3>1 DEF EmptyHands, AsCaster!vars
  <2>6. CASE SkipRover \/ FlushPiece \/ FlushBlocked \/ SendPiece \/ SendBlocked \/ SendError
    <3>1. f' = f /\ waiting' = waiting /\ at = "send" /\ at' \in {"send", "give"}
      BY <2>6 DEF SkipRover, FlushPiece, FlushBlocked, SendPiece, SendBlocked, SendError,
         Flushing, Sending, Onward, task
    <3> QED
      BY <1>1, <3>1 DEF EmptyHands, AsCaster!vars
  <2>7. CASE ClientConnects \/ \E s \in Slots : ClientSends(s) \/ ClientLeaves(s)
    <3>1. f' = f /\ waiting' = waiting /\ at' = at
      BY <2>7 DEF ClientConnects, ClientSends, ClientLeaves, task
    <3> QED
      BY <1>1, <3>1 DEF EmptyHands, AsCaster!vars
  <2> QED
    BY <1>1, <2>1, <2>2, <2>3, <2>4, <2>5, <2>6, <2>7 DEF CasterNext, CasterTask, Forward
<1>2. CasterInit => EmptyHands
  BY DEF CasterInit, EmptyHands
<1> QED
  BY <1>1, <1>2, AlwaysStream, PTL DEF CasterSpec, CasterDoesItsPart
=============================================================================
