------------------------- MODULE WebhookIngestProofs -------------------------
(***************************************************************************)
(* What holds of the push endpoint for every number of handlers, messages  *)
(* and events, every life of a key and every number of faults.             *)
(*                                                                         *)
(* A promise (an acknowledgement, a stored key) is kept by somebody else   *)
(* than the handler that reads it, so the invariant says for every step    *)
(* of a handler what it may rely on (Promised), and relates what the       *)
(* handler saw at its start to the key that is stored now (Remembered).    *)
(***************************************************************************)
EXTENDS WebhookIngest, TLAPS

\* A handler that is about to answer, or to remember a message as a duplicate,
\* relies on an event somebody is answerable for.
Promised ==
    \A h \in Handlers :
        pc[h] \in {"dupSet", "respond"} => Decodes(msg[h]) /\ AccountedFor(EventOf[msg[h]])

\* Keys are stored for one life at most, and what a handler saw of its event's
\* key is no later than the key itself.
Remembered ==
    /\ \A e \in Events : histKey[e] <= now + TTL
    /\ \A h \in Handlers :
           pc[h] # "idle" /\ Decodes(msg[h]) => knownUntil[h] <= histKey[EventOf[msg[h]]]

\* A handler that went past the look-up of its event saw no key that is alive.
Unknown ==
    \A h \in Handlers :
        pc[h] \in {"setMsg", "setHist", "delay"} => ~ Live(knownUntil[h])

IInv == TypeOK /\ NothingForgotten /\ Promised /\ Remembered /\ Unknown
-----------------------------------------------------------------------------
LEMMA InvInit == Init => IInv
  BY IngestAssumption
  DEF Init, IInv, TypeOK, NothingForgotten, Promised, Remembered, Unknown, Steps, Decodes, Live

\* Being accounted for is for ever: a handler that leaves the storing steps has
\* queued the event or is struck by a fault that abandons it.
LEMMA AccountStays ==
    ASSUME TypeOK, [Next]_vars, NEW e \in Events, AccountedFor(e)
    PROVE  AccountedFor(e)'
<1> USE DEF AccountedFor, TypeOK
<1>1. CASE queued[e] > 0 \/ e \in abandoned
  <2>1. queued'[e] >= queued[e] /\ queued'[e] \in Nat /\ abandoned \subseteq abandoned'
    <3>1. ASSUME NEW h \in Handlers, Delay(h)
          PROVE  queued'[e] >= queued[e] /\ queued'[e] \in Nat /\ abandoned' = abandoned
      BY <3>1, IngestAssumption DEF Delay, Step
    <3>2. ASSUME NEW h \in Handlers, Fault(h)
          PROVE  queued' = queued /\ abandoned \subseteq abandoned'
      BY <3>2 DEF Fault
    <3>3. ASSUME NEW h \in Handlers,
                 \/ Verify(h) \/ GetMsg(h) \/ Decode(h) \/ GetHist(h) \/ DupSet(h)
                 \/ SetMsg(h) \/ SetHist(h) \/ Respond(h)
          PROVE  queued' = queued /\ abandoned' = abandoned
      BY <3>3 DEF Verify, GetMsg, Decode, GetHist, DupSet, SetMsg, SetHist, Respond
    <3>4. ASSUME NEW h \in Handlers, NEW m \in Messages, Push(m, h)
          PROVE  queued' = queued /\ abandoned' = abandoned
      BY <3>4 DEF Push
    <3>5. CASE Tick \/ UNCHANGED vars
      BY <3>5 DEF Tick, vars
    <3>6. QED
      BY <3>1, <3>2, <3>3, <3>4, <3>5 DEF Next, Handle
  <2>2. QED
    BY <1>1, <2>1
<1>2. CASE \E h \in Handlers : pc[h] \in {"setHist", "delay"} /\ EventOf[msg[h]] = e
  <2>1. PICK h \in Handlers : pc[h] \in {"setHist", "delay"} /\ EventOf[msg[h]] = e
    BY <1>2
  <2>2. CASE pc'[h] = pc[h] /\ msg'[h] = msg[h]
    BY <2>1, <2>2 DEF Storing
  <2>3. CASE SetHist(h)
    BY <2>1, <2>3 DEF SetHist, Step, Storing
  <2>4. CASE Delay(h)
    BY <2>1, <2>4 DEF Delay, Step
  <2>5. CASE Fault(h)
    BY <2>1, <2>5 DEF Fault
  <2>6. \/ SetHist(h) \/ Delay(h) \/ Fault(h)
        \/ pc'[h] = pc[h] /\ msg'[h] = msg[h]
    <3>1. ASSUME NEW g \in Handlers, g # h, Handle(g) \/ Fault(g)
          PROVE  pc'[h] = pc[h] /\ msg'[h] = msg[h]
      BY <3>1 DEF Handle, Fault, Verify, GetMsg, Decode, GetHist, DupSet, SetMsg, SetHist,
                  Delay, Respond, Step
    <3>2. ASSUME NEW g \in Handlers, NEW m \in Messages, Push(m, g)
          PROVE  pc'[h] = pc[h] /\ msg'[h] = msg[h]
      BY <2>1, <3>2 DEF Push, Step
    <3>3. CASE Handle(h)
      BY <2>1, <3>3 DEF Handle, Verify, GetMsg, Decode, GetHist, DupSet, SetMsg, Respond, Step
    <3>4. CASE Tick \/ UNCHANGED vars
      BY <3>4 DEF Tick, vars, handlerVars
    <3>5. QED
      BY <3>1, <3>2, <3>3, <3>4 DEF Next
  <2>7. QED
    BY <2>2, <2>3, <2>4, <2>5, <2>6
<1>3. QED
  BY <1>1, <1>2 DEF Storing
-----------------------------------------------------------------------------
\* The events somebody is answerable for, as a set: the steps below read the
\* invariant through it and leave AccountedFor folded.
Accounted == {e \in Events : AccountedFor(e)}

\* What the invariant promises, with Accounted in place of AccountedFor.
Kept ==
    /\ \A m \in acked : Decodes(m) /\ EventOf[m] \in Accounted
    /\ \A m \in Messages : msgKey[m] > 0 => Decodes(m) /\ EventOf[m] \in Accounted
    /\ \A e \in Events : histKey[e] > 0 => e \in Accounted
    /\ \A h \in Handlers :
           pc[h] \in {"dupSet", "respond"} => Decodes(msg[h]) /\ EventOf[msg[h]] \in Accounted

LEMMA KeptIsPromised == TypeOK => (Kept <=> NothingForgotten /\ Promised)
  BY DEF Kept, NothingForgotten, Promised, Accounted, Decodes, TypeOK

\* The type invariant is preserved by every step.
LEMMA TypeStep == TypeOK /\ [Next]_vars => TypeOK'
<1> SUFFICES ASSUME TypeOK, [Next]_vars
             PROVE  TypeOK'
  OBVIOUS
<1> USE IngestAssumption DEF TypeOK, Steps, Decodes
<1>1. ASSUME NEW m \in Messages, NEW h \in Handlers, Push(m, h)
      PROVE  TypeOK'
  BY <1>1 DEF Push, Step, keyVars
<1>2. ASSUME NEW h \in Handlers, Verify(h) \/ GetMsg(h)
      PROVE  TypeOK'
  BY <1>2 DEF Verify, GetMsg, Step, keyVars
<1>3. ASSUME NEW h \in Handlers, Decode(h)
      PROVE  TypeOK'
  BY <1>3 DEF Decode, keyVars
<1>4. ASSUME NEW h \in Handlers, GetHist(h)
      PROVE  TypeOK'
  BY <1>4 DEF GetHist, Step, keyVars
<1>5. ASSUME NEW h \in Handlers, DupSet(h) \/ SetMsg(h)
      PROVE  TypeOK'
  <2>1. msg[h] \in Messages /\ Expiry \in Nat
    BY <1>5 DEF DupSet, SetMsg, Step, Expiry
  <2>2. QED
    BY <1>5, <2>1 DEF DupSet, SetMsg, Step
<1>6. ASSUME NEW h \in Handlers, SetHist(h)
      PROVE  TypeOK'
  <2>1. EventOf[msg[h]] \in Events /\ Expiry \in Nat
    BY <1>6 DEF SetHist, Step, Expiry
  <2>2. QED
    BY <1>6, <2>1 DEF SetHist, Step
<1>7. ASSUME NEW h \in Handlers, Delay(h)
      PROVE  TypeOK'
  <2>1. EventOf[msg[h]] \in Events
    BY <1>7 DEF Delay, Step
  <2>2. QED
    BY <1>7, <2>1 DEF Delay, Step, keyVars
<1>8. ASSUME NEW h \in Handlers, Respond(h)
      PROVE  TypeOK'
  BY <1>8 DEF Respond, Step, keyVars
<1>9. ASSUME NEW h \in Handlers, Fault(h)
      PROVE  TypeOK'
  BY <1>9 DEF Fault, keyVars
<1>10. CASE Tick \/ UNCHANGED vars
  BY <1>10 DEF Tick, vars, handlerVars, keyVars
<1>11. QED
  BY <1>1, <1>2, <1>3, <1>4, <1>5, <1>6, <1>7, <1>8, <1>9, <1>10 DEF Next, Handle

\* Every promise is kept by every step.
LEMMA KeptStep == TypeOK /\ Kept /\ [Next]_vars => Kept'
<1> SUFFICES ASSUME TypeOK, Kept, [Next]_vars
             PROVE  Kept'
  OBVIOUS
<1>1. Accounted \subseteq Accounted'
  BY AccountStays DEF Accounted
<1> USE IngestAssumption, <1>1 DEF Kept, TypeOK, Steps, Decodes
<1>2. ASSUME NEW m \in Messages, NEW h \in Handlers, Push(m, h)
      PROVE  Kept'
  BY <1>2 DEF Push, Step, keyVars
<1>3. ASSUME NEW h \in Handlers, Verify(h)
      PROVE  Kept'
  BY <1>3 DEF Verify, Step, keyVars
<1>4. ASSUME NEW h \in Handlers, GetMsg(h)
      PROVE  Kept'
  <2>1. Live(msgKey[msg[h]]) => Decodes(msg[h]) /\ EventOf[msg[h]] \in Accounted
    BY <1>4 DEF GetMsg, Step, Live
  <2>2. QED
    BY <1>4, <2>1 DEF GetMsg, Step, keyVars
<1>5. ASSUME NEW h \in Handlers, Decode(h)
      PROVE  Kept'
  BY <1>5 DEF Decode, keyVars
<1>6. ASSUME NEW h \in Handlers, GetHist(h)
      PROVE  Kept'
  <2>1. Live(histKey[EventOf[msg[h]]]) => Decodes(msg[h]) /\ EventOf[msg[h]] \in Accounted
    BY <1>6 DEF GetHist, Step, Live
  <2>2. QED
    BY <1>6, <2>1 DEF GetHist, Step, keyVars
<1>7. ASSUME NEW h \in Handlers, DupSet(h)
      PROVE  Kept'
  BY <1>7 DEF DupSet, Step
\* The handler that stores a key becomes answerable for its event by that step.
<1>8. ASSUME NEW h \in Handlers, SetMsg(h)
      PROVE  Kept'
  <2>1. EventOf[msg[h]] \in Accounted'
    BY <1>8 DEF SetMsg, Step, Accounted, AccountedFor, Storing
  <2>2. QED
    BY <1>8, <2>1 DEF SetMsg, Step
<1>9. ASSUME NEW h \in Handlers, SetHist(h)
      PROVE  Kept'
  <2>1. EventOf[msg[h]] \in Accounted'
    BY <1>9 DEF SetHist, Step, Accounted, AccountedFor, Storing
  <2>2. QED
    BY <1>9, <2>1 DEF SetHist, Step
<1>10. ASSUME NEW h \in Handlers, Delay(h)
      PROVE  Kept'
  <2>1. EventOf[msg[h]] \in Accounted'
    BY <1>10 DEF Delay, Step, Accounted, AccountedFor
  <2>2. QED
    BY <1>10, <2>1 DEF Delay, Step, keyVars
<1>11. ASSUME NEW h \in Handlers, Respond(h)
      PROVE  Kept'
  BY <1>11 DEF Respond, Step, keyVars
<1>12. ASSUME NEW h \in Handlers, Fault(h)
      PROVE  Kept'
  BY <1>12 DEF Fault, keyVars
<1>13. CASE Tick \/ UNCHANGED vars
  BY <1>13 DEF Tick, vars, handlerVars, keyVars
<1>14. QED
  BY <1>2, <1>3, <1>4, <1>5, <1>6, <1>7, <1>8, <1>9, <1>10, <1>11, <1>12, <1>13
  DEF Next, Handle

\* What a handler saw of its event's key stays no later than the key, and no
\* handler past the look-up saw a key that is alive.
LEMMA KnownStep ==
    ASSUME TypeOK, Remembered, Unknown, [Next]_vars
    PROVE  Remembered' /\ Unknown'
<1> USE IngestAssumption DEF Remembered, Unknown, TypeOK, Steps, Decodes, Live
<1>1. ASSUME NEW m \in Messages, NEW h \in Handlers, Push(m, h)
      PROVE  Remembered' /\ Unknown'
  BY <1>1 DEF Push, Step, keyVars
<1>2. ASSUME NEW h \in Handlers, Verify(h) \/ GetMsg(h) \/ DupSet(h) \/ SetMsg(h)
      PROVE  Remembered' /\ Unknown'
  BY <1>2 DEF Verify, GetMsg, DupSet, SetMsg, Step, keyVars
<1>3. ASSUME NEW h \in Handlers, Decode(h)
      PROVE  Remembered' /\ Unknown'
  BY <1>3 DEF Decode, keyVars
<1>4. ASSUME NEW h \in Handlers, GetHist(h)
      PROVE  Remembered' /\ Unknown'
  BY <1>4 DEF GetHist, Step, keyVars
<1>5. ASSUME NEW h \in Handlers, SetHist(h)
      PROVE  Remembered' /\ Unknown'
  <2>1. \A e \in Events : histKey'[e] \in Nat /\ histKey[e] <= histKey'[e] /\ histKey'[e] <= now + TTL
    BY <1>5 DEF SetHist, Step, Expiry
  <2>2. QED
    BY <1>5, <2>1 DEF SetHist, Step
<1>6. ASSUME NEW h \in Handlers, Delay(h) \/ Respond(h) \/ Fault(h)
      PROVE  Remembered' /\ Unknown'
  BY <1>6 DEF Delay, Respond, Fault, Step, keyVars
<1>7. CASE Tick \/ UNCHANGED vars
  BY <1>7 DEF Tick, vars, handlerVars, keyVars
<1>8. QED
  BY <1>1, <1>2, <1>3, <1>4, <1>5, <1>6, <1>7 DEF Next, Handle

LEMMA InvStep == IInv /\ [Next]_vars => IInv'
<1> SUFFICES ASSUME IInv, [Next]_vars
             PROVE  IInv'
  OBVIOUS
<1>1. TypeOK'
  BY TypeStep DEF IInv
<1>2. Kept'
  BY KeptIsPromised, KeptStep DEF IInv
<1>3. (TypeOK => (Kept <=> NothingForgotten /\ Promised))'
  BY KeptIsPromised, PTL
<1>4. Remembered' /\ Unknown'
  BY KnownStep DEF IInv
<1>5. QED
  BY <1>1, <1>2, <1>3, <1>4 DEF IInv

LEMMA InvAlways == Spec => []IInv
  BY InvInit, InvStep, PTL DEF Spec
-----------------------------------------------------------------------------
\* Every reachable state of the endpoint is well typed (webhook.py:52-97).
THEOREM TypeCorrect == Spec => []TypeOK
<1>1. IInv => TypeOK
  BY DEF IInv
<1>2. QED
  BY <1>1, InvAlways, PTL

\* An acknowledged message and a stored key always have somebody answerable for
\* their event, however many handlers, keys and faults there are
\* (webhook.py:52-97).
THEOREM PromisesAreKept == Spec => []NothingForgotten
<1>1. IInv => NothingForgotten
  BY DEF IInv
<1>2. QED
  BY <1>1, InvAlways, PTL

\* A push that arrives while its event is remembered never queues it, unless the
\* key expired before the push was handled (webhook.py:80-86).
THEOREM RememberedEventsAreNotRequeued == Spec => KnownEventIsNotRequeued
<1>1. IInv /\ [Next]_vars
          => [\A h \in Handlers :
                 pc[h] = "delay" /\ pc'[h] = "respond" => ~ Live(knownUntil[h])]_vars
  BY DEF IInv, Unknown
<1>2. QED
  BY <1>1, InvAlways, PTL DEF Spec, KnownEventIsNotRequeued
=============================================================================
