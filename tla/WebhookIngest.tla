---------------------------- MODULE WebhookIngest ----------------------------
(***************************************************************************)
(* The push endpoint of the API (src/src/api/endpoints/webhook.py) between *)
(* Pub/Sub, which delivers at least once and redelivers until it reads a   *)
(* 2xx, and the Celery queue.                                              *)
(*                                                                         *)
(* The handler is asynchronous: every Redis call is an await, so handlers  *)
(* of several pushes interleave between their GETs and SETs.  A fault (a   *)
(* Redis or broker error, or the death of the API process) ends a handler  *)
(* at any of its steps without an acknowledgement; a step that took effect *)
(* before its error was reported is that step followed by a fault.         *)
(***************************************************************************)
EXTENDS Naturals

CONSTANTS
    Messages,    \* messageIds Pub/Sub has to deliver
    Events,      \* pairs of emailAddress and historyId
    EventOf,     \* the event each message announces
    Malformed,   \* what a message without a readable event announces
    Handlers,    \* handler activations that may be running at once
    NoMessage,   \* an idle handler
    TTL,         \* life of a key: 86400 seconds
    MaxTime,     \* bound: the clock
    MaxFaults    \* bound: faults

ASSUME IngestAssumption ==
    /\ Malformed \notin Events
    /\ NoMessage \notin Messages
    /\ EventOf \in [Messages -> Events \cup {Malformed}]
    /\ TTL \in Nat \ {0}
    /\ MaxTime \in Nat
    /\ MaxFaults \in Nat

VARIABLES
    acked,           \* messages answered with a 2xx
    pc,              \* next step of each handler
    msg,             \* the message each handler works on
    msgKey,          \* when the key of each message expires, 0 if never set
    histKey,         \* when the key of each event expires, 0 if never set
    queued,          \* tasks put on the Celery queue per event
    now,             \* the clock the keys expire by
    faults,          \* faults so far (bounded by MaxFaults)
    abandoned,       \* history: events a fault dropped after a key was set
    knownUntil       \* history: the expiry of the event's key when the handler
                     \* started, 0 if it had none

handlerVars == <<pc, msg, knownUntil>>
keyVars == <<msgKey, histKey>>
vars == <<acked, pc, msg, msgKey, histKey, queued, now, faults,
          abandoned, knownUntil>>

Decodes(m) == EventOf[m] \in Events

Readable == {m \in Messages : Decodes(m)}

Steps == {"verify", "getMsg", "decode", "getHist", "dupSet", "setMsg", "setHist",
          "delay", "respond"}

TypeOK ==
    /\ acked \subseteq Messages
    /\ pc \in [Handlers -> {"idle"} \cup Steps]
    /\ msg \in [Handlers -> Messages \cup {NoMessage}]
    /\ msgKey \in [Messages -> Nat]
    /\ histKey \in [Events -> Nat]
    /\ queued \in [Events -> Nat]
    /\ now \in Nat
    /\ faults \in Nat
    /\ abandoned \subseteq Events
    /\ knownUntil \in [Handlers -> Nat]
    /\ \A h \in Handlers :
           /\ pc[h] = "idle" <=> msg[h] = NoMessage
           /\ pc[h] \in {"getHist", "dupSet", "setMsg", "setHist", "delay"} =>
                  Decodes(msg[h])
-----------------------------------------------------------------------------
\* A key with an expiry time is found until that time.
Live(expiry) == expiry > now

\* The expiry a SET ... EX 86400 gives.
Expiry == now + TTL

\* Handlers that have stored a key for e and have not queued it yet.
Storing(e) ==
    {h \in Handlers : pc[h] \in {"setHist", "delay"} /\ EventOf[msg[h]] = e}

Step(h, from, to) == pc[h] = from /\ pc' = [pc EXCEPT ![h] = to]
-----------------------------------------------------------------------------
Init ==
    /\ acked = {}
    /\ pc = [h \in Handlers |-> "idle"]
    /\ msg = [h \in Handlers |-> NoMessage]
    /\ msgKey = [m \in Messages |-> 0]
    /\ histKey = [e \in Events |-> 0]
    /\ queued = [e \in Events |-> 0]
    /\ now = 0
    /\ faults = 0
    /\ abandoned = {}
    /\ knownUntil = [h \in Handlers |-> 0]

\* Pub/Sub pushes a message, at a moment of its choosing: for the first time,
\* because no 2xx came back in time, or once more although it was acknowledged.
Push(m, h) ==
    /\ Step(h, "idle", "verify")
    /\ msg' = [msg EXCEPT ![h] = m]
    /\ knownUntil' = [knownUntil EXCEPT ![h] = IF Decodes(m) THEN histKey[EventOf[m]] ELSE 0]
    /\ UNCHANGED <<acked, keyVars, queued, now, faults, abandoned>>

\* verify_pubsub_jwt; a token it rejects is answered with an error (a fault).
Verify(h) ==
    /\ Step(h, "verify", "getMsg")
    /\ UNCHANGED <<acked, msg, knownUntil, keyVars, queued, now, faults, abandoned>>

\* GET of the messageId key: a message seen before is ignored.
GetMsg(h) ==
    /\ Step(h, "getMsg", IF Live(msgKey[msg[h]]) THEN "respond" ELSE "decode")
    /\ UNCHANGED <<acked, msg, knownUntil, keyVars, queued, now, faults, abandoned>>

\* Mutant of Decode: a bad message is answered 200.
DecodeAcknowledging(h) ==
    /\ Step(h, "decode", IF Decodes(msg[h]) THEN "getHist" ELSE "respond")
    /\ UNCHANGED <<acked, msg, knownUntil, keyVars, queued, now, faults, abandoned>>

\* Decode the data; an unreadable or incomplete one is answered with a 400,
\* which Pub/Sub takes for a failed delivery.
Decode(h) ==
    /\ pc[h] = "decode"
    /\ IF Decodes(msg[h])
       THEN pc' = [pc EXCEPT ![h] = "getHist"] /\ UNCHANGED <<msg, knownUntil>>
       ELSE /\ pc' = [pc EXCEPT ![h] = "idle"]
            /\ msg' = [msg EXCEPT ![h] = NoMessage]
            /\ knownUntil' = [knownUntil EXCEPT ![h] = 0]
    /\ UNCHANGED <<acked, keyVars, queued, now, faults, abandoned>>

\* GET of the event's key: an event seen before is ignored, and the message
\* that announced it is remembered.
GetHist(h) ==
    /\ Step(h, "getHist", IF Live(histKey[EventOf[msg[h]]]) THEN "dupSet" ELSE "setMsg")
    /\ UNCHANGED <<acked, msg, knownUntil, keyVars, queued, now, faults, abandoned>>

DupSet(h) ==
    /\ Step(h, "dupSet", "respond")
    /\ msgKey' = [msgKey EXCEPT ![msg[h]] = Expiry]
    /\ UNCHANGED <<acked, msg, knownUntil, histKey, queued, now, faults, abandoned>>

SetMsg(h) ==
    /\ Step(h, "setMsg", "setHist")
    /\ msgKey' = [msgKey EXCEPT ![msg[h]] = Expiry]
    /\ UNCHANGED <<acked, msg, knownUntil, histKey, queued, now, faults, abandoned>>

SetHist(h) ==
    /\ Step(h, "setHist", "delay")
    /\ histKey' = [histKey EXCEPT ![EventOf[msg[h]]] = Expiry]
    /\ UNCHANGED <<acked, msg, knownUntil, msgKey, queued, now, faults, abandoned>>

\* Mutant of Delay: a broker error is swallowed and the push answered with 200.
DelaySwallowing(h) ==
    /\ Step(h, "delay", "respond")
    /\ \/ queued' = [queued EXCEPT ![EventOf[msg[h]]] = @ + 1]
       \/ UNCHANGED queued
    /\ UNCHANGED <<acked, msg, knownUntil, keyVars, now, faults, abandoned>>

\* process_email_event.delay
Delay(h) ==
    /\ Step(h, "delay", "respond")
    /\ queued' = [queued EXCEPT ![EventOf[msg[h]]] = @ + 1]
    /\ UNCHANGED <<acked, msg, knownUntil, keyVars, now, faults, abandoned>>

\* The 200 ("queued" or "ignored") reaches Pub/Sub.
Respond(h) ==
    /\ Step(h, "respond", "idle")
    /\ acked' = acked \cup {msg[h]}
    /\ msg' = [msg EXCEPT ![h] = NoMessage]
    /\ knownUntil' = [knownUntil EXCEPT ![h] = 0]
    /\ UNCHANGED <<keyVars, queued, now, faults, abandoned>>

\* The handler ends without a 2xx.  Once it is past the first SET nobody else
\* will queue the event while the keys live.
Fault(h) ==
    /\ faults < MaxFaults
    /\ pc[h] # "idle"
    /\ faults' = faults + 1
    /\ abandoned' = abandoned \cup
           (IF pc[h] \in {"setHist", "delay"} THEN {EventOf[msg[h]]} ELSE {})
    /\ pc' = [pc EXCEPT ![h] = "idle"]
    /\ msg' = [msg EXCEPT ![h] = NoMessage]
    /\ knownUntil' = [knownUntil EXCEPT ![h] = 0]
    /\ UNCHANGED <<acked, keyVars, queued, now>>

Tick ==
    /\ now < MaxTime
    /\ now' = now + 1
    /\ UNCHANGED <<acked, handlerVars, keyVars, queued, faults, abandoned>>

Handle(h) ==
    \/ Verify(h)
    \/ GetMsg(h)
    \/ Decode(h)
    \/ GetHist(h)
    \/ DupSet(h)
    \/ SetMsg(h)
    \/ SetHist(h)
    \/ Delay(h)
    \/ Respond(h)

Next ==
    \/ \E m \in Messages, h \in Handlers : Push(m, h)
    \/ \E h \in Handlers : Handle(h) \/ Fault(h)
    \/ Tick

\* A handler runs on (Redis answers or raises), and Pub/Sub keeps pushing a
\* message it has not read a 2xx for.
Fairness ==
    /\ \A h \in Handlers : WF_vars(Handle(h))
    /\ \A m \in Messages :
           SF_vars(m \notin acked /\ \E h \in Handlers : Push(m, h))

Spec == Init /\ [][Next]_vars /\ Fairness
-----------------------------------------------------------------------------
\* Somebody is answerable for e: it was queued, or a handler is on its way to
\* queue it, or a fault struck between the SETs and the queue.
AccountedFor(e) == queued[e] > 0 \/ Storing(e) # {} \/ e \in abandoned

\* Acknowledging a message and remembering a key are both promises: each of
\* them implies that the event is accounted for, and a message that cannot be
\* read is never acknowledged (webhook.py:52-97).
NothingForgotten ==
    /\ \A m \in acked : Decodes(m) /\ AccountedFor(EventOf[m])
    /\ \A m \in Messages : msgKey[m] > 0 => Decodes(m) /\ AccountedFor(EventOf[m])
    /\ \A e \in Events : histKey[e] > 0 => AccountedFor(e)

\* A push that arrives while its event is remembered does not queue it again:
\* duplicates need handlers that overlap, or a key that expired before the push
\* was handled (webhook.py:80-86, "to block duplicates").
KnownEventIsNotRequeued ==
    [][\A h \in Handlers :
          pc[h] = "delay" /\ pc'[h] = "respond" => ~ Live(knownUntil[h])]_vars

\* Pub/Sub's redelivery and the endpoint together get every readable message's
\* event to the queue, unless a fault struck after the keys were set
\* (webhook.py:88-97).
EventReachesQueue ==
    \A m \in Readable : <>(queued[EventOf[m]] > 0 \/ EventOf[m] \in abandoned)

\* "Store both in Redis with 24-hour expiration to block duplicates"
\* (webhook.py:88): within the life of the keys one event is queued once.
NoDuplicateTask == now < TTL => \A e \in Events : queued[e] <= 1
=============================================================================
