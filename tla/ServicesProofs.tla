---------------------------- MODULE ServicesProofs ----------------------------
(***************************************************************************)
(* Proofs about the services with limits of their own, in three sections:  *)
(* the bucket of requests to the AI, the watches on the mailboxes, and the *)
(* composition of the two, whose behaviours are those of its components.   *)
(***************************************************************************)
EXTENDS MCServices, TLAPS

------------------------------------------------------------------------------
(* TokenBucket.  The rate limiter keeps its bound for every number of      *)
(* callers, every bucket, every skew of the clocks and every interleaving. *)

\* TypeOK and RateBound, with what they need to be inductive: no caller carries
\* a time beyond the fastest clock, and nothing has been taken from a bucket
\* that does not exist yet.
BucketInv ==
    /\ TypeOK
    /\ \A c \in Callers : reading[c] # NoReading => reading[c] <= clock + Skew
    /\ ~ exists => taken = 0 /\ lastUpdated = 0 /\ base = 0
    /\ taken + (IF exists THEN tokens ELSE 0) <= Capacity + FillRate * (lastUpdated - base)

\* A refill adds no more than the time that passed is worth, never overfills
\* the bucket, and notes a time that does not lie behind the last one
\* (ai_gateway.py:34-43).
LEMMA RefillLemma ==
    ASSUME TypeOK, exists, NEW t \in Nat
    PROVE  /\ Refilled(t) \in tokens .. Capacity
           /\ Noted(t) \in Nat
           /\ Noted(t) >= lastUpdated
           /\ Noted(t) = lastUpdated \/ Noted(t) = t
           /\ Refilled(t) <= tokens + (Noted(t) - lastUpdated) * FillRate
<1>1. /\ Capacity \in Nat /\ FillRate \in Nat
      /\ tokens \in 0 .. Capacity /\ lastUpdated \in Nat
  BY BucketAssumption DEF TypeOK
<1>2. CASE t > lastUpdated
  <2>1. t - lastUpdated \in Nat
    BY <1>1, <1>2
  <2>2. (t - lastUpdated) * FillRate \in Nat
    <3>1. \A a, b \in Nat : a * b \in Nat
      OBVIOUS
    <3>2. QED
      BY <3>1, <2>1, <1>1
  <2>3. Noted(t) = t
    BY <1>2, exists DEF Noted
  <2>4. Refilled(t) = AtMost(tokens + (t - lastUpdated) * FillRate, Capacity)
    BY <1>2, exists DEF Refilled
  <2>5. QED
    BY <1>1, <1>2, <2>2, <2>3, <2>4 DEF AtMost
<1>3. CASE ~ (t > lastUpdated)
  <2>1. Noted(t) = lastUpdated /\ Refilled(t) = tokens
    BY <1>3, exists DEF Noted, Refilled
  <2>2. QED
    BY <1>1, <2>1
<1>4. QED
  BY <1>2, <1>3

\* One run of the script keeps the bucket's part of the invariant, at whatever
\* time it is told (ai_gateway.py:23-53).
LEMMA ScriptLemma ==
    ASSUME BucketInv, NEW t \in Nat, t <= clock + Skew, Script(t)
    PROVE  /\ exists' = TRUE
           /\ tokens' \in 0 .. Capacity
           /\ lastUpdated' \in 0 .. clock + Skew
           /\ base' \in 0 .. lastUpdated'
           /\ taken' \in Nat
           /\ taken' + tokens' <= Capacity + FillRate * (lastUpdated' - base')
           /\ exists => lastUpdated <= lastUpdated'
           /\ exists /\ taken' <= taken => tokens <= tokens'
<1>1. /\ Capacity \in Nat /\ FillRate \in Nat /\ Requested \in Nat /\ Skew \in Nat
      /\ tokens \in 0 .. Capacity /\ lastUpdated \in Nat /\ taken \in Nat
      /\ base \in 0 .. lastUpdated /\ clock \in Nat /\ lastUpdated <= clock + Skew
      /\ exists \in BOOLEAN
  BY BucketAssumption DEF BucketInv, TypeOK
<1>2. exists' = TRUE /\ lastUpdated' = Noted(t)
  BY DEF Script
<1>3. CASE ~ exists
  <2>1. Refilled(t) = Capacity /\ Noted(t) = t /\ base' = t
    BY <1>3 DEF Refilled, Noted, Script
  <2>2. taken = 0
    BY <1>3 DEF BucketInv
  <2>3. FillRate * (lastUpdated' - base') = 0
    <3>1. lastUpdated' - base' = 0
      BY <2>1, <1>2
    <3>2. QED
      BY <3>1, <1>1
  <2>4. QED
    BY <1>1, <1>2, <1>3, <2>1, <2>2, <2>3 DEF Script
<1>4. CASE exists
  <2> DEFINE n == Noted(t)
             r == Refilled(t)
             gain == (n - lastUpdated) * FillRate
  <2>1. /\ r \in Nat /\ tokens <= r /\ r <= Capacity
        /\ n \in Nat /\ n >= lastUpdated /\ n <= clock + Skew
    <3>1. /\ r \in tokens .. Capacity /\ n \in Nat /\ n >= lastUpdated
          /\ n = lastUpdated \/ n = t
      BY <1>4, RefillLemma DEF BucketInv
    <3> HIDE DEF n, r, gain
    <3>2. QED
      BY <1>1, <3>1
  <2>2. r <= tokens + gain
    BY <1>4, RefillLemma DEF BucketInv
  <2>3. taken + tokens <= Capacity + FillRate * (lastUpdated - base)
    BY <1>4 DEF BucketInv
  <2>4. /\ base' = base /\ lastUpdated' = n
        /\ \/ r >= Requested /\ tokens' = r - Requested /\ taken' = taken + Requested
           \/ tokens' = r /\ taken' = taken
    BY <1>4 DEF Script
  <2> HIDE DEF n, r
  <2>5. gain \in Int /\ FillRate * (lastUpdated - base) \in Int
    BY <1>1, <2>1
  <2>6. FillRate * (lastUpdated - base) + gain = FillRate * (n - base)
    BY <1>1, <2>1
  <2> HIDE DEF gain
  <2>7. /\ taken' \in Nat /\ tokens' \in 0 .. Capacity
        /\ taken' + tokens' = taken + r
        /\ taken' <= taken => tokens <= tokens'
    BY <1>1, <2>1, <2>4
  <2>8. taken' + tokens' <= Capacity + FillRate * (lastUpdated' - base')
    <3> DEFINE before == FillRate * (lastUpdated - base)
               after == FillRate * (n - base)
    <3>1. before \in Int /\ taken + tokens <= Capacity + before /\ before + gain = after
      BY <2>3, <2>5, <2>6
    <3> HIDE DEF before, after
    <3>2. taken + r <= Capacity + after
      BY <1>1, <2>1, <2>2, <2>5, <3>1
    <3>3. QED
      BY <2>4, <2>7, <3>2 DEF after
  <2>9. lastUpdated' \in 0 .. clock + Skew /\ base' \in 0 .. lastUpdated'
    BY <1>1, <2>1, <2>4
  <2>10. QED
    BY <1>2, <2>1, <2>4, <2>7, <2>8, <2>9
<1>5. QED
  BY <1>1, <1>3, <1>4

LEMMA BucketInit == Init => BucketInv
<1> SUFFICES ASSUME Init PROVE BucketInv
  OBVIOUS
<1>1. TypeOK
  <2>1. exists \in BOOLEAN /\ reading \in [Callers -> Nat \cup {NoReading}]
    BY DEF Init
  <2>2. clock = 0 /\ tokens = 0 /\ lastUpdated = 0 /\ base = 0 /\ taken = 0 /\ errors = 0
    BY DEF Init
  <2>3. Capacity \in Nat /\ Skew \in Nat
    BY BucketAssumption
  <2>4. QED
    BY <2>1, <2>2, <2>3 DEF TypeOK
<1>2. FillRate * (lastUpdated - base) = 0
  <2>1. lastUpdated - base = 0
    BY DEF Init
  <2>2. FillRate \in Int
    BY BucketAssumption
  <2>3. QED
    BY <2>1, <2>2
<1>3. taken + (IF exists THEN tokens ELSE 0) <= Capacity + FillRate * (lastUpdated - base)
  <2>1. taken + (IF exists THEN tokens ELSE 0) = 0
    <3>1. taken = 0 /\ exists = FALSE
      BY DEF Init
    <3>2. QED
      BY <3>1
  <2>2. Capacity \in Nat
    BY BucketAssumption
  <2> DEFINE gain == FillRate * (lastUpdated - base)
  <2>3. gain = 0
    BY <1>2
  <2> HIDE DEF gain
  <2>4. 0 <= Capacity + gain
    BY <2>2, <2>3
  <2>5. QED
    BY <2>1, <2>4 DEF gain
<1>4. QED
  BY <1>1, <1>3 DEF Init, BucketInv

\* One step of the callers, the clock or the observer keeps the invariant; the
\* script's part is ScriptLemma.
LEMMA BucketStep == BucketInv /\ [Next]_vars => BucketInv'
<1> SUFFICES ASSUME BucketInv, [Next]_vars PROVE BucketInv'
  OBVIOUS
<1>1. /\ Capacity \in Nat /\ Skew \in Nat /\ FillRate \in Nat
      /\ NoReading \notin Nat
      /\ TypeOK
  BY BucketAssumption DEF BucketInv
<1>2. ASSUME NEW c \in Callers, ReadClock(c) PROVE BucketInv'
  <2>1. PICK ahead \in 0 .. Skew : reading' = [reading EXCEPT ![c] = clock + ahead]
    BY <1>2 DEF ReadClock
  <2>2. UNCHANGED <<clock, exists, tokens, lastUpdated, base, taken, errors>>
    BY <1>2 DEF ReadClock, bucketVars
  <2>3. /\ reading' \in [Callers -> Nat \cup {NoReading}]
        /\ \A d \in Callers : reading'[d] # NoReading => reading'[d] <= clock + Skew
    BY <1>1, <2>1 DEF TypeOK, BucketInv
  <2>4. TypeOK'
    BY <1>1, <2>2, <2>3 DEF TypeOK
  <2>5. QED
    BY <2>2, <2>3, <2>4 DEF BucketInv
<1>3. ASSUME NEW c \in Callers, reading[c] # NoReading, Script(reading[c]),
             reading' = [reading EXCEPT ![c] = NoReading],
             clock' = clock, errors' \in Nat
      PROVE  BucketInv'
  <2>1. reading[c] \in Nat /\ reading[c] <= clock + Skew
    BY <1>1, <1>3 DEF TypeOK, BucketInv
  <2>2. /\ exists' = TRUE
        /\ tokens' \in 0 .. Capacity
        /\ lastUpdated' \in 0 .. clock + Skew
        /\ base' \in 0 .. lastUpdated'
        /\ taken' \in Nat
        /\ taken' + tokens' <= Capacity + FillRate * (lastUpdated' - base')
    BY <1>3, <2>1, ScriptLemma
  <2>3. /\ reading' \in [Callers -> Nat \cup {NoReading}]
        /\ \A d \in Callers : reading'[d] # NoReading => reading'[d] <= clock + Skew
    BY <1>1, <1>3 DEF TypeOK, BucketInv
  <2>4. TypeOK'
    BY <1>1, <1>3, <2>2, <2>3 DEF TypeOK
  <2>5. QED
    BY <1>3, <2>2, <2>3, <2>4 DEF BucketInv
<1>4. ASSUME NEW c \in Callers, Evaluate(c) PROVE BucketInv'
  <2>1. errors' \in Nat
    BY <1>1, <1>4 DEF Evaluate, TypeOK
  <2>2. QED
    BY <1>3, <1>4, <2>1 DEF Evaluate
<1>5. ASSUME NEW c \in Callers, FailOpen(c) PROVE BucketInv'
  <2>1. errors' \in Nat
    BY <1>1, <1>5 DEF FailOpen, TypeOK
  <2>2. CASE Script(reading[c])
    BY <1>3, <1>5, <2>1, <2>2 DEF FailOpen
  <2>3. CASE UNCHANGED <<bucketVars, base, taken>>
    <3>1. /\ UNCHANGED <<clock, exists, tokens, lastUpdated, base, taken>>
          /\ reading' = [reading EXCEPT ![c] = NoReading]
      BY <1>5, <2>3 DEF FailOpen, bucketVars
    <3>2. /\ reading' \in [Callers -> Nat \cup {NoReading}]
          /\ \A d \in Callers : reading'[d] # NoReading => reading'[d] <= clock + Skew
      BY <1>1, <3>1 DEF TypeOK, BucketInv
    <3>3. TypeOK'
      BY <1>1, <2>1, <3>1, <3>2 DEF TypeOK
    <3>4. QED
      BY <3>1, <3>2, <3>3 DEF BucketInv
  <2>4. QED
    BY <1>5, <2>2, <2>3 DEF FailOpen
<1>6. CASE Tick
  <2>1. /\ UNCHANGED <<exists, tokens, lastUpdated, reading, base, taken, errors>>
        /\ clock' = clock + 1
    BY <1>6 DEF Tick, bucketVars
  <2>2. TypeOK'
    BY <1>1, <2>1 DEF TypeOK
  <2>3. \A d \in Callers : reading'[d] # NoReading => reading'[d] <= clock' + Skew
    BY <1>1, <2>1 DEF TypeOK, BucketInv
  <2>4. QED
    BY <2>1, <2>2, <2>3 DEF BucketInv
<1>7. CASE Observe
  <2>1. /\ UNCHANGED <<clock, exists, tokens, lastUpdated, reading, errors>>
        /\ exists /\ base' = lastUpdated /\ taken' = 0
    BY <1>7 DEF Observe, bucketVars
  <2>2. TypeOK'
    BY <1>1, <2>1 DEF TypeOK
  <2>3. FillRate * (lastUpdated' - base') = 0
    <3>1. lastUpdated' - base' = 0
      BY <1>1, <2>1 DEF TypeOK
    <3>2. QED
      BY <1>1, <3>1
  <2>4. taken' + tokens' <= Capacity + FillRate * (lastUpdated' - base')
    BY <1>1, <2>1, <2>3 DEF TypeOK
  <2>5. QED
    BY <2>1, <2>2, <2>4 DEF BucketInv
<1>8. CASE UNCHANGED vars
  BY <1>8 DEF vars, BucketInv, TypeOK
<1>9. QED
  BY <1>2, <1>4, <1>5, <1>6, <1>7, <1>8 DEF Next

\* The fields of the bucket stay in their ranges, for every number of callers
\* and every skew: never a negative balance, never more than the capacity,
\* never a time beyond the fastest clock (ai_gateway.py:30-52).
THEOREM TypeCorrect == Spec => []TypeOK
<1>1. BucketInv => TypeOK
  BY DEF BucketInv
<1>2. QED
  BY BucketInit, BucketStep, <1>1, PTL DEF Spec

\* Over any observation, no interleaving of callers takes more than one full
\* bucket and the refill of the time that passed (ai_gateway.py:34-48).
THEOREM RateIsBounded == Spec => []RateBound
<1>1. BucketInv => RateBound
  <2> SUFFICES ASSUME BucketInv PROVE RateBound
    OBVIOUS
  <2>1. taken + (IF exists THEN tokens ELSE 0) <= Capacity + FillRate * (lastUpdated - base)
    BY DEF BucketInv
  <2>2. taken \in Nat /\ tokens \in Nat /\ exists \in BOOLEAN
    BY BucketAssumption DEF BucketInv, TypeOK
  <2>3. Capacity + FillRate * (lastUpdated - base) \in Int
    BY BucketAssumption DEF BucketInv, TypeOK
  <2> DEFINE bound == Capacity + FillRate * (lastUpdated - base)
  <2>4. taken + (IF exists THEN tokens ELSE 0) <= bound /\ bound \in Int
    BY <2>1, <2>3
  <2> HIDE DEF bound
  <2>5. taken <= bound /\ (exists => taken + tokens <= bound)
    BY <2>2, <2>4
  <2>6. QED
    BY <2>5 DEF bound, RateBound
<1>2. QED
  BY BucketInit, BucketStep, <1>1, PTL DEF Spec

\* A step that touches an existing bucket runs the script or leaves it alone;
\* both keep its time from going back and its tokens from leaking.
LEMMA BucketMoves ==
    ASSUME BucketInv, [Next]_vars, exists
    PROVE  /\ lastUpdated <= lastUpdated'
           /\ taken' <= taken => tokens <= tokens'
<1>1. tokens \in Nat /\ lastUpdated \in Nat /\ NoReading \notin Nat
  BY BucketAssumption DEF BucketInv, TypeOK
<1>2. ASSUME NEW c \in Callers, reading[c] # NoReading, Script(reading[c])
      PROVE  /\ lastUpdated <= lastUpdated'
             /\ taken' <= taken => tokens <= tokens'
  <2>1. reading[c] \in Nat /\ reading[c] <= clock + Skew
    BY <1>2 DEF TypeOK, BucketInv
  <2>2. QED
    BY <1>2, <2>1, ScriptLemma
<1>3. ASSUME UNCHANGED bucketVars
      PROVE  /\ lastUpdated <= lastUpdated'
             /\ taken' <= taken => tokens <= tokens'
  BY <1>1, <1>3 DEF bucketVars
<1>4. \/ \E c \in Callers : reading[c] # NoReading /\ Script(reading[c])
      \/ UNCHANGED bucketVars
  BY DEF Next, ReadClock, Evaluate, FailOpen, Tick, Observe, vars, bucketVars
<1>5. QED
  BY <1>2, <1>3, <1>4

\* No interval is refilled twice, whatever stale or skewed times arrive
\* (ai_gateway.py:38-42).
THEOREM TimeIsMonotone == Spec => TimeNeverReturns
<1>1. BucketInv /\ [Next]_vars => [exists => lastUpdated <= lastUpdated']_vars
  BY BucketMoves
<1>2. QED
  BY BucketInit, BucketStep, <1>1, PTL DEF Spec, TimeNeverReturns

\* A refused request leaves the bucket as full as it was, or fuller
\* (ai_gateway.py:45-52).
THEOREM RefusalCostsNothing == Spec => RefusalIsFree
<1>1. BucketInv /\ [Next]_vars => [exists /\ taken' <= taken => tokens <= tokens']_vars
  BY BucketMoves
<1>2. QED
  BY BucketInit, BucketStep, <1>1, PTL DEF Spec, RefusalIsFree

------------------------------------------------------------------------------
(* WatchRenewal.  Its types, and that what a row says of its mailbox is so.  The invariant is
   strengthened with what callbacks and renewals carry along: a token is never of a grant to
   come, a callback that was not overtaken knows the row's mailbox, and a watch that was just
   registered lasts as long as the task says while its token is good. *)

TokenIssued(token) == token.grant <= grant[token.mail]

RowFacts(u) ==
    row[u] # NoRow =>
        /\ TokenIssued(row[u].token)
        /\ ~ overlapped[u] => row[u].token.mail = row[u].mail
        /\ Valid(row[u].token) /\ ~ former[u] => watch[row[u].token.mail] >= row[u].until

TaskFacts(u, s) ==
    renewal[u][s] # NoTask =>
        /\ row[u] # NoRow
        /\ renewal[u][s].at # "queued" => TokenIssued(renewal[u][s].token)
        /\ renewal[u][s].at = "watched" /\ Valid(renewal[u][s].token) =>
              watch[renewal[u][s].token.mail] >= renewal[u][s].until

CallbackFacts(c) ==
    callback[c] # NoTask =>
        /\ callback[c].token.mail = callback[c].mail
        /\ TokenIssued(callback[c].token)
        /\ callback[c].found # "none" => row[callback[c].user] # NoRow
        /\ ~ callback[c].overtaken => callback[c].found = row[callback[c].user].mail

WatchInv ==
    /\ WatchTypeOK
    /\ \A u \in Subscribers : RowFacts(u)
    /\ \A u \in Subscribers, s \in Renewals : TaskFacts(u, s)
    /\ \A c \in Callbacks : CallbackFacts(c)
-----------------------------------------------------------------------------
\* Initially nobody is linked, or a mailbox was linked without a watch.
LEMMA InitFacts == WatchInit => WatchInv
<1> SUFFICES ASSUME WatchInit PROVE WatchInv
    OBVIOUS
<1> USE DEF WatchInit
<1>1. \A u \in Subscribers : row[u] # NoRow =>
        \E m \in Inboxes : row[u] = Inserted(m, [mail |-> m, grant |-> 0])
    OBVIOUS
<1>2. \A u \in Subscribers : row[u] \in UserRows \cup {NoRow}
  <2>1. ASSUME NEW m \in Inboxes PROVE Inserted(m, [mail |-> m, grant |-> 0]) \in UserRows
    <3>1. [mail |-> m, grant |-> 0] \in Tokens /\ 0 \in Days
      BY WatchAssumption DEF Tokens, Days
    <3> QED
      BY <3>1 DEF Inserted, UserRows
  <2> QED
    BY <1>1, <2>1
<1>3. WatchTypeOK
    BY <1>2, WatchAssumption DEF WatchTypeOK, Days
<1>4. \A u \in Subscribers : RowFacts(u)
    BY <1>1, WatchAssumption DEF RowFacts, TokenIssued, Inserted
<1> QED
    BY <1>3, <1>4 DEF WatchInv, TaskFacts, CallbackFacts, NoTask

\* The look-up of a callback: what it found is the row's mailbox.
LEMMA SelectFacts ==
    ASSUME WatchInv, NEW u \in Subscribers, NEW m \in Inboxes, CallbackSelect(u, m)
    PROVE  WatchInv'
<1> USE DEF CallbackSelect
<1> DEFINE cb == [at |-> "found", user |-> u, mail |-> m,
                  token |-> [mail |-> m, grant |-> grant[m]],
                  found |-> row[u].mail, overtaken |-> FALSE]
           c == FreeSlot(callback)
<1>1. row[u] \in UserRows \cup {NoRow}
    BY DEF WatchInv, WatchTypeOK
<1>2. row[u].mail \in Inboxes \cup {"none"} /\ (row[u].mail # "none" => row[u] # NoRow)
    BY <1>1 DEF UserRows, NoRow
<1>3. cb \in CallbackTasks
    BY <1>2 DEF WatchInv, WatchTypeOK, CallbackTasks, Tokens
<1>4. WatchTypeOK'
  <2>1. callback' \in [Callbacks -> CallbackTasks \cup {NoTask}]
    BY <1>3 DEF WatchInv, WatchTypeOK
  <2>2. callbacks' \in 0 .. MaxCallbacks
    BY WatchAssumption DEF WatchInv, WatchTypeOK
  <2> QED
    BY <2>1, <2>2 DEF WatchInv, WatchTypeOK
<1>5. ASSUME NEW d \in Callbacks PROVE CallbackFacts(d)'
  <2>1. CASE callback'[d] = callback[d]
    BY <2>1 DEF WatchInv, CallbackFacts, TokenIssued
  <2>2. CASE callback'[d] = cb
    BY <2>2, <1>2 DEF WatchInv, WatchTypeOK, CallbackFacts, TokenIssued
  <2> QED
    BY <2>1, <2>2 DEF WatchInv, WatchTypeOK
<1>6. (\A v \in Subscribers : RowFacts(v)') /\ (\A v \in Subscribers, s \in Renewals : TaskFacts(v, s)')
    BY DEF WatchInv, RowFacts, TaskFacts, TokenIssued, Valid
<1> QED
    BY <1>4, <1>5, <1>6 DEF WatchInv

\* The commit of a callback: it either leaves the row alone, or writes a token
\* and a mailbox that agree unless another callback overtook it.
LEMMA CommitFacts ==
    ASSUME WatchInv, NEW c \in Callbacks, CallbackCommit(c)
    PROVE  WatchInv'
<1> DEFINE cb == callback[c]
           u == cb.user
           before == row[u]
           after == IF cb.found = "none" THEN Inserted(cb.mail, cb.token) ELSE Updated(before, cb)
           dropped == cb.found = "none" /\ before # NoRow
<1>1. /\ cb \in CallbackTasks /\ cb # NoTask /\ u \in Subscribers
      /\ before \in UserRows \cup {NoRow}
    BY DEF CallbackCommit, WatchInv, WatchTypeOK, NoTask, CallbackTasks
<1>2. /\ cb.token.mail = cb.mail /\ TokenIssued(cb.token)
      /\ cb.found # "none" => before # NoRow
      /\ ~ cb.overtaken => cb.found = before.mail
    BY <1>1 DEF WatchInv, CallbackFacts
<1>3. CASE dropped
  <2>1. /\ callback' = [callback EXCEPT ![c] = NoTask]
        /\ UNCHANGED <<row, former, overlapped, watch, grant, renewal, callbacks, revocations, mishaps>>
    BY <1>3 DEF CallbackCommit
  <2> QED
    BY <2>1 DEF WatchInv, WatchTypeOK, RowFacts, TaskFacts, CallbackFacts, TokenIssued, Valid
<1>4. CASE ~ dropped
  <2>1. /\ row' = [row EXCEPT ![u] = after]
        /\ former' = [former EXCEPT ![u] =
             @ \/ (before # NoRow /\ (before.token.mail # cb.token.mail \/ ~ Valid(before.token)))]
        /\ overlapped' = [overlapped EXCEPT ![u] = cb.overtaken]
        /\ callback' = [d \in Callbacks |->
             IF d = c THEN NoTask
             ELSE IF callback[d].at = "found" /\ callback[d].user = u
                  THEN [callback[d] EXCEPT !.overtaken = TRUE]
                  ELSE callback[d]]
        /\ UNCHANGED <<watch, grant, renewal, callbacks, revocations, mishaps>>
    BY <1>4 DEF CallbackCommit
  <2>2. /\ after \in UserRows /\ after # NoRow /\ after.token = cb.token
        /\ ~ cb.overtaken => after.mail = cb.mail
        /\ before = NoRow => after.until = 0
        /\ before # NoRow => after.until = before.until
    <3>1. CASE cb.found = "none"
      BY <3>1, <1>1, <1>4, WatchAssumption DEF Inserted, UserRows, CallbackTasks, Days, NoRow
    <3>2. CASE cb.found # "none"
      BY <3>2, <1>1, <1>2, WatchAssumption DEF Updated, UserRows, CallbackTasks, NoRow
    <3> QED
      BY <3>1, <3>2
  <2>3. \A d \in Callbacks :
          /\ callback'[d] \in CallbackTasks \cup {NoTask}
          /\ callback'[d] # NoTask =>
               /\ callback[d] # NoTask
               /\ callback'[d].token = callback[d].token
               /\ callback'[d].mail = callback[d].mail
               /\ callback'[d].user = callback[d].user
               /\ callback'[d].found = callback[d].found
               /\ ~ callback'[d].overtaken => ~ callback[d].overtaken /\ callback[d].user # u
    <3> SUFFICES ASSUME NEW d \in Callbacks, d # c, callback[d] # NoTask
                 PROVE  /\ callback'[d] \in CallbackTasks
                        /\ callback'[d].token = callback[d].token
                        /\ callback'[d].mail = callback[d].mail
                        /\ callback'[d].user = callback[d].user
                        /\ callback'[d].found = callback[d].found
                        /\ ~ callback'[d].overtaken => ~ callback[d].overtaken /\ callback[d].user # u
        BY <2>1 DEF NoTask
    <3>1. callback[d] \in CallbackTasks /\ callback[d].at = "found"
        BY DEF WatchInv, WatchTypeOK, CallbackTasks
    <3>2. CASE callback[d].user = u
        <4>1. callback'[d] = [callback[d] EXCEPT !.overtaken = TRUE]
            BY <2>1, <3>1, <3>2
        <4> QED
            BY <3>1, <4>1 DEF CallbackTasks
    <3>3. CASE callback[d].user # u
        <4>1. callback'[d] = callback[d]
            BY <2>1, <3>3
        <4> QED
            BY <3>1, <3>3, <4>1
    <3> QED
        BY <3>2, <3>3
  <2>4. WatchTypeOK'
    BY <1>1, <2>1, <2>2, <2>3 DEF WatchInv, WatchTypeOK, CallbackTasks
  <2>5. ASSUME NEW v \in Subscribers PROVE RowFacts(v)'
    <3>1. CASE v # u
      BY <3>1, <2>1 DEF WatchInv, WatchTypeOK, RowFacts, TokenIssued, Valid
    <3>2. CASE v = u
      <4>1. row'[u] = after /\ overlapped'[u] = cb.overtaken
        BY <1>1, <2>1 DEF WatchInv, WatchTypeOK
      <4>2. ASSUME Valid(cb.token), ~ former'[u] PROVE watch[cb.token.mail] >= after.until
        <5>1. ~ former[u] /\ (before = NoRow \/ (before.token.mail = cb.token.mail /\ Valid(before.token)))
          BY <4>2, <1>1, <2>1 DEF WatchInv, WatchTypeOK
        <5>2. CASE before = NoRow
          BY <5>2, <1>1, <2>2, WatchAssumption DEF WatchInv, WatchTypeOK, CallbackTasks, Tokens, Days
        <5>3. CASE before # NoRow
          BY <5>1, <5>3, <1>1, <2>2 DEF WatchInv, RowFacts
        <5> QED
          BY <5>2, <5>3
      <4> QED
        BY <3>2, <4>1, <4>2, <1>2, <2>1, <2>2 DEF RowFacts, TokenIssued, Valid
    <3> QED
      BY <3>1, <3>2
  <2>6. ASSUME NEW v \in Subscribers, NEW s \in Renewals PROVE TaskFacts(v, s)'
    BY <1>1, <2>1, <2>2 DEF WatchInv, WatchTypeOK, TaskFacts, TokenIssued, Valid
  <2>7. ASSUME NEW d \in Callbacks PROVE CallbackFacts(d)'
    BY <1>1, <2>1, <2>2, <2>3 DEF WatchInv, WatchTypeOK, CallbackFacts, TokenIssued, CallbackTasks
  <2> QED
    BY <2>4, <2>5, <2>6, <2>7 DEF WatchInv
<1> QED
  BY <1>3, <1>4

\* A callback that fails leaves no trace.
LEMMA FailFacts ==
    ASSUME WatchInv, NEW c \in Callbacks, CallbackFails(c)
    PROVE  WatchInv'
    BY WatchAssumption DEF CallbackFails, Mishap, histories, WatchInv, WatchTypeOK, RowFacts, TaskFacts,
       CallbackFacts, TokenIssued, Valid

\* A grant that is taken back: the tokens of the mailbox are no longer good, and
\* no token of the next grant exists yet.
LEMMA RevokeFacts ==
    ASSUME WatchInv, NEW m \in Inboxes, Revoke(m)
    PROVE  WatchInv'
<1> USE DEF Revoke
<1>1. /\ grant' = [grant EXCEPT ![m] = @ + 1] /\ watch' = [watch EXCEPT ![m] = 0]
      /\ revocations' = revocations + 1 /\ revocations < MaxRevocations
      /\ UNCHANGED <<row, renewal, callback, former, overlapped, callbacks, mishaps>>
    OBVIOUS
<1>2. WatchTypeOK'
  <2>1. watch' \in [Inboxes -> Days] /\ grant' \in [Inboxes -> Nat]
    BY <1>1, WatchAssumption DEF WatchInv, WatchTypeOK, Days
  <2>2. revocations' \in 0 .. MaxRevocations
    BY <1>1, WatchAssumption DEF WatchInv, WatchTypeOK
  <2> QED
    BY <1>1, <2>1, <2>2 DEF WatchInv, WatchTypeOK
<1>3. ASSUME NEW token \in Tokens, TokenIssued(token)
      PROVE  TokenIssued(token)' /\ (Valid(token)' => token.mail # m /\ Valid(token)
                                                      /\ watch'[token.mail] = watch[token.mail])
    BY <1>1, <1>3 DEF WatchInv, WatchTypeOK, TokenIssued, Valid, Tokens
<1>4. ASSUME NEW u \in Subscribers PROVE RowFacts(u)'
  <2> SUFFICES ASSUME row[u] # NoRow PROVE RowFacts(u)'
    BY <1>1 DEF RowFacts
  <2>1. row[u].token \in Tokens /\ RowFacts(u)
    BY DEF WatchInv, WatchTypeOK, UserRows
  <2> QED
    BY <2>1, <1>1, <1>3 DEF RowFacts, TokenIssued, Valid
<1>5. ASSUME NEW u \in Subscribers, NEW s \in Renewals PROVE TaskFacts(u, s)'
  <2> SUFFICES ASSUME renewal[u][s] # NoTask PROVE TaskFacts(u, s)'
    BY <1>1 DEF TaskFacts
  <2>1. TaskFacts(u, s) /\ (renewal[u][s].at # "queued" => renewal[u][s].token \in Tokens)
    BY DEF WatchInv, WatchTypeOK, RenewalTasks
  <2> QED
    BY <2>1, <1>1, <1>3 DEF TaskFacts, TokenIssued, Valid
<1>6. ASSUME NEW c \in Callbacks PROVE CallbackFacts(c)'
  <2> SUFFICES ASSUME callback[c] # NoTask PROVE CallbackFacts(c)'
    BY <1>1 DEF CallbackFacts
  <2>1. CallbackFacts(c) /\ callback[c].token \in Tokens
    BY DEF WatchInv, WatchTypeOK, CallbackTasks
  <2> QED
    BY <2>1, <1>1, <1>3 DEF CallbackFacts, TokenIssued
<1> QED
    BY <1>2, <1>4, <1>5, <1>6 DEF WatchInv

\* A day that passes takes one day from watches and records alike.
LEMMA MidnightFacts ==
    ASSUME WatchInv, MidnightPasses
    PROVE  WatchInv'
<1>1. PICK asked \in SUBSET DueUsers :
        /\ IF asked = DueUsers THEN UNCHANGED mishaps ELSE Mishap
        /\ renewal' = [u \in Subscribers |->
              [s \in Renewals |->
                 IF u \in asked /\ s = FreeSlot(renewal[u]) THEN [at |-> "queued", attempt |-> 0]
                 ELSE Aged(renewal[u][s])]]
    BY DEF MidnightPasses
<1>2. /\ watch' = [m \in Inboxes |-> Older(watch[m])]
      /\ row' = [u \in Subscribers |->
                   IF row[u] = NoRow THEN NoRow ELSE [row[u] EXCEPT !.until = Older(@)]]
      /\ UNCHANGED <<grant, callback, former, overlapped, callbacks, revocations>>
    BY DEF MidnightPasses, histories
<1>3. /\ \A d \in Days : Older(d) \in Days
      /\ \A d, e \in Days : d >= e => Older(d) >= Older(e)
    BY WatchAssumption DEF Older, Days
<1>4. ASSUME NEW u \in Subscribers, row[u] # NoRow
      PROVE  /\ row'[u] \in UserRows /\ row'[u] # NoRow
             /\ row'[u].mail = row[u].mail /\ row'[u].token = row[u].token
             /\ row'[u].until = Older(row[u].until)
  <2>1. row[u] \in UserRows /\ row'[u] = [row[u] EXCEPT !.until = Older(@)]
    BY <1>2, <1>4 DEF WatchInv, WatchTypeOK
  <2>2. row[u].until \in Days
    BY <2>1 DEF UserRows
  <2> QED
    BY <2>1, <2>2, <1>3, WatchAssumption DEF UserRows, NoRow
<1>5. ASSUME NEW u \in Subscribers, NEW s \in Renewals
      PROVE  \/ row[u] # NoRow /\ renewal'[u][s] = [at |-> "queued", attempt |-> 0]
             \/ renewal[u][s] = NoTask /\ renewal'[u][s] = NoTask
             \/ /\ renewal[u][s] \in RenewalTasks /\ renewal[u][s].at # "watched"
                /\ renewal'[u][s] = renewal[u][s]
             \/ /\ renewal[u][s] \in RenewalTasks /\ renewal[u][s].at = "watched"
                /\ renewal'[u][s] = [renewal[u][s] EXCEPT !.until = Older(@)]
  <2>1. renewal[u][s] \in RenewalTasks \cup {NoTask}
    BY DEF WatchInv, WatchTypeOK
  <2>2. CASE u \in asked /\ s = FreeSlot(renewal[u])
    BY <2>2, <1>1 DEF DueUsers
  <2>3. CASE ~ (u \in asked /\ s = FreeSlot(renewal[u]))
    <3>1. renewal'[u][s] = Aged(renewal[u][s])
      BY <2>3, <1>1
    <3> QED
      BY <3>1, <2>1 DEF Aged, NoTask
  <2> QED
    BY <2>2, <2>3
<1>6. ASSUME NEW u \in Subscribers, NEW s \in Renewals,
             renewal[u][s] \in RenewalTasks, renewal[u][s].at = "watched",
             renewal'[u][s] = [renewal[u][s] EXCEPT !.until = Older(@)]
      PROVE  /\ renewal'[u][s] \in RenewalTasks /\ renewal'[u][s] # NoTask
             /\ renewal'[u][s].at = "watched" /\ renewal'[u][s].token = renewal[u][s].token
             /\ renewal[u][s].until \in Days /\ renewal'[u][s].until = Older(renewal[u][s].until)
             /\ renewal[u][s].token \in Tokens
  <2>1. renewal[u][s] \in [at : {"watched"}, attempt : 0 .. MaxRenewRetries,
                           token : Tokens, active : BOOLEAN, until : Days]
    BY <1>6 DEF RenewalTasks
  <2>2. Older(renewal[u][s].until) \in Days
    BY <2>1, <1>3
  <2>3. renewal'[u][s] \in [at : {"watched"}, attempt : 0 .. MaxRenewRetries,
                            token : Tokens, active : BOOLEAN, until : Days]
    BY <2>1, <2>2, <1>6
  <2> QED
    BY <2>1, <2>3, <1>6 DEF RenewalTasks, NoTask
<1>7. WatchTypeOK'
  <2>1. row' \in [Subscribers -> UserRows \cup {NoRow}]
    BY <1>2, <1>4
  <2>2. watch' \in [Inboxes -> Days]
    BY <1>2, <1>3 DEF WatchInv, WatchTypeOK
  <2>3. ASSUME NEW u \in Subscribers, NEW s \in Renewals
        PROVE  renewal'[u][s] \in RenewalTasks \cup {NoTask}
    <3>1. [at |-> "queued", attempt |-> 0] \in RenewalTasks
      BY WatchAssumption DEF RenewalTasks
    <3> QED
      BY <3>1, <1>5, <1>6
  <2>4. renewal' \in [Subscribers -> [Renewals -> RenewalTasks \cup {NoTask}]]
    <3>1. renewal' = [u \in Subscribers |-> [s \in Renewals |-> renewal'[u][s]]]
      BY <1>1
    <3> QED
      BY <3>1, <2>3
  <2>5. mishaps' \in 0 .. MaxMishaps
    BY <1>1, WatchAssumption DEF Mishap, WatchInv, WatchTypeOK
  <2> QED
    BY <2>1, <2>2, <2>4, <2>5, <1>2 DEF WatchInv, WatchTypeOK
<1>8. ASSUME NEW u \in Subscribers PROVE RowFacts(u)'
  <2> SUFFICES ASSUME row[u] # NoRow PROVE RowFacts(u)'
    BY <1>2 DEF RowFacts
  <2>1. RowFacts(u) /\ row[u] \in UserRows
    BY DEF WatchInv, WatchTypeOK
  <2>2. /\ row[u].token.mail \in Inboxes /\ row[u].until \in Days
        /\ watch[row[u].token.mail] \in Days
    BY <2>1 DEF UserRows, Tokens, WatchInv, WatchTypeOK
  <2>3. watch'[row[u].token.mail] = Older(watch[row[u].token.mail])
    BY <2>2, <1>2
  <2> QED
    BY <2>1, <2>2, <2>3, <1>2, <1>3, <1>4 DEF RowFacts, TokenIssued, Valid
<1>9. ASSUME NEW u \in Subscribers, NEW s \in Renewals PROVE TaskFacts(u, s)'
  <2>1. CASE row[u] # NoRow /\ renewal'[u][s] = [at |-> "queued", attempt |-> 0]
    BY <2>1, <1>4 DEF TaskFacts
  <2>2. CASE renewal'[u][s] = NoTask
    BY <2>2 DEF TaskFacts
  <2>3. CASE /\ renewal[u][s] \in RenewalTasks /\ renewal[u][s].at # "watched"
             /\ renewal'[u][s] = renewal[u][s]
    <3>1. TaskFacts(u, s)
      BY DEF WatchInv
    <3> QED
      BY <3>1, <2>3, <1>2, <1>4 DEF TaskFacts, TokenIssued
  <2>4. CASE /\ renewal[u][s] \in RenewalTasks /\ renewal[u][s].at = "watched"
             /\ renewal'[u][s] = [renewal[u][s] EXCEPT !.until = Older(@)]
    <3>1. renewal[u][s] # NoTask /\ TaskFacts(u, s)
      BY <2>4 DEF WatchInv, NoTask
    <3>2. renewal[u][s].token.mail \in Inboxes
      BY <2>4, <1>6 DEF Tokens
    <3>3. /\ watch[renewal[u][s].token.mail] \in Days
          /\ watch'[renewal[u][s].token.mail] = Older(watch[renewal[u][s].token.mail])
      BY <3>2, <1>2 DEF WatchInv, WatchTypeOK
    <3> QED
      BY <3>1, <3>3, <2>4, <1>2, <1>3, <1>4, <1>6 DEF TaskFacts, TokenIssued, Valid
  <2> QED
    BY <2>1, <2>2, <2>3, <2>4, <1>5
<1>10. ASSUME NEW c \in Callbacks PROVE CallbackFacts(c)'
  <2> SUFFICES ASSUME callback[c] # NoTask PROVE CallbackFacts(c)'
    BY <1>2 DEF CallbackFacts
  <2>1. callback[c].user \in Subscribers /\ CallbackFacts(c)
    BY DEF WatchInv, WatchTypeOK, CallbackTasks
  <2>2. row'[callback[c].user].mail = row[callback[c].user].mail
    BY <2>1, <1>2, <1>4
  <2> QED
    BY <2>1, <2>2, <1>2, <1>4 DEF CallbackFacts, TokenIssued
<1> QED
    BY <1>7, <1>8, <1>9, <1>10 DEF WatchInv

\* The task of a user is exchanged for one that says no more than the old one
\* and the world allow; the user's row and all else stay.
LEMMA TaskChange ==
    ASSUME WatchInv, NEW u \in Subscribers, NEW s \in Renewals, NEW task \in RenewalTasks \cup {NoTask},
           renewal' = [renewal EXCEPT ![u][s] = task],
           task # NoTask =>
             /\ row[u] # NoRow
             /\ task.at # "queued" => TokenIssued(task.token)
             /\ task.at = "watched" /\ Valid(task.token) => watch'[task.token.mail] >= task.until,
           \/ UNCHANGED watch
           \/ \E m \in Inboxes : watch' = [watch EXCEPT ![m] = Life],
           mishaps' \in 0 .. MaxMishaps,
           UNCHANGED <<row, grant, callback, histories>>
    PROVE  WatchInv'
<1>1. /\ renewal'[u][s] = task
      /\ \A v \in Subscribers, r \in Renewals : v # u \/ r # s => renewal'[v][r] = renewal[v][r]
      /\ renewal' \in [Subscribers -> [Renewals -> RenewalTasks \cup {NoTask}]]
    BY DEF WatchInv, WatchTypeOK
<1>2. Life \in Days /\ \A d \in Days : d <= Life
    BY WatchAssumption DEF Days
<1>3. /\ watch' \in [Inboxes -> Days]
      /\ \A m \in Inboxes, d \in Days : watch[m] >= d => watch'[m] >= d
  <2>1. CASE UNCHANGED watch
    BY <2>1 DEF WatchInv, WatchTypeOK
  <2>2. CASE \E m \in Inboxes : watch' = [watch EXCEPT ![m] = Life]
    BY <2>2, <1>2 DEF WatchInv, WatchTypeOK
  <2> QED
    BY <2>1, <2>2
<1>4. WatchTypeOK'
    BY <1>1, <1>3 DEF histories, WatchInv, WatchTypeOK
<1>5. ASSUME NEW v \in Subscribers PROVE RowFacts(v)'
  <2>1. RowFacts(v) /\ (row[v] # NoRow => row[v].token.mail \in Inboxes /\ row[v].until \in Days)
    BY DEF WatchInv, WatchTypeOK, UserRows, Tokens
  <2> QED
    BY <2>1, <1>3 DEF RowFacts, TokenIssued, Valid, histories
<1>6. ASSUME NEW v \in Subscribers, NEW r \in Renewals PROVE TaskFacts(v, r)'
  <2>1. CASE v = u /\ r = s
    BY <2>1, <1>1 DEF TaskFacts, TokenIssued, Valid
  <2>2. CASE v # u \/ r # s
    <3>1. TaskFacts(v, r) /\ renewal'[v][r] = renewal[v][r]
      BY <2>2, <1>1 DEF WatchInv
    <3>2. renewal[v][r] # NoTask /\ renewal[v][r].at = "watched" =>
            renewal[v][r].token.mail \in Inboxes /\ renewal[v][r].until \in Days
      <4>1. renewal[v][r] \in RenewalTasks \cup {NoTask}
        BY DEF WatchInv, WatchTypeOK
      <4> QED
        BY <4>1 DEF RenewalTasks, Tokens
    <3> QED
      BY <3>1, <3>2, <1>3 DEF TaskFacts, TokenIssued, Valid
  <2> QED
    BY <2>1, <2>2
<1>7. ASSUME NEW c \in Callbacks PROVE CallbackFacts(c)'
    BY DEF WatchInv, CallbackFacts, TokenIssued, histories
<1> QED
    BY <1>4, <1>5, <1>6, <1>7 DEF WatchInv

\* The steps of a renewal that leave the row alone.
LEMMA RenewalFacts ==
    ASSUME WatchInv, NEW u \in Subscribers, NEW s \in Renewals,
           LoadUser(u, s) \/ AskGoogle(u, s) \/ RetryRenewal(u, s) \/ RenewalDies(u, s)
    PROVE  WatchInv'
<1> DEFINE task == renewal[u][s]
<1>1. /\ TaskFacts(u, s) /\ RowFacts(u)
      /\ task \in RenewalTasks \cup {NoTask} /\ row[u] \in UserRows \cup {NoRow}
      /\ mishaps \in 0 .. MaxMishaps
    BY DEF WatchInv, WatchTypeOK
<1>2. Mishap => mishaps' \in 0 .. MaxMishaps
    BY <1>1, WatchAssumption DEF Mishap
<1>3. CASE LoadUser(u, s)
  <2> DEFINE loaded == [at |-> "loaded", attempt |-> task.attempt,
                        token |-> row[u].token, active |-> row[u].active]
  <2>1. /\ task.at = "queued" /\ renewal' = [renewal EXCEPT ![u][s] = loaded]
        /\ UNCHANGED <<row, watch, grant, callback, histories, mishaps>>
    BY <1>3 DEF LoadUser, Becomes
  <2>2. row[u] # NoRow /\ TokenIssued(row[u].token) /\ task.attempt \in 0 .. MaxRenewRetries
    BY <2>1, <1>1 DEF TaskFacts, RowFacts, RenewalTasks, NoTask
  <2>3. loaded \in RenewalTasks
    BY <2>2, <1>1 DEF RenewalTasks, UserRows
  <2> QED
    BY <2>1, <2>2, <2>3, <1>1, TaskChange
<1>4. CASE AskGoogle(u, s)
  <2> DEFINE failing == [task EXCEPT !.at = "failing"]
             watched == [at |-> "watched", attempt |-> task.attempt, token |-> task.token,
                         active |-> task.active, until |-> Life]
             registered == [watch EXCEPT ![task.token.mail] = Life]
  <2>1. /\ task.at = "loaded" /\ task # NoTask
        /\ task \in [at : {"loaded"}, attempt : 0 .. MaxRenewRetries, token : Tokens, active : BOOLEAN]
        /\ UNCHANGED <<row, grant, callback, histories>>
    BY <1>4, <1>1 DEF AskGoogle, RenewalTasks, NoTask
  <2>2. row[u] # NoRow /\ TokenIssued(task.token) /\ task.token.mail \in Inboxes
    BY <2>1, <1>1 DEF TaskFacts, Tokens
  <2>3. failing \in RenewalTasks /\ watched \in RenewalTasks /\ Life \in Nat
    BY <2>1, WatchAssumption DEF RenewalTasks, Days
  <2>4. CASE /\ watch' = registered /\ renewal' = [renewal EXCEPT ![u][s] = watched]
             /\ UNCHANGED mishaps
    <3>1. watch'[task.token.mail] = Life
      BY <2>2, <2>4 DEF WatchInv, WatchTypeOK
    <3>2. /\ \E m \in Inboxes : watch' = [watch EXCEPT ![m] = Life]
          /\ watched.at = "watched" /\ watched.token = task.token /\ watched.until = Life
      BY <2>2, <2>4
    <3>3. watch'[watched.token.mail] >= watched.until
      BY <3>1, <3>2, <2>3
    <3>4. TokenIssued(watched.token) /\ mishaps' \in 0 .. MaxMishaps
      BY <3>2, <2>2, <2>4, <1>1
    <3> HIDE DEF watched
    <3> QED
      BY <3>2, <3>3, <3>4, <2>1, <2>2, <2>3, <2>4, TaskChange
  <2>5. CASE /\ watch' \in {watch, registered} /\ renewal' = [renewal EXCEPT ![u][s] = failing]
             /\ mishaps' \in 0 .. MaxMishaps
    BY <2>1, <2>2, <2>3, <2>5, <1>1, TaskChange
  <2> QED
    BY <1>4, <1>1, <1>2, <2>4, <2>5 DEF AskGoogle, Becomes
<1>5. CASE RetryRenewal(u, s)
  <2> DEFINE again == [at |-> "queued", attempt |-> task.attempt + 1]
             exhausted == [task EXCEPT !.at = "exhausted"]
  <2>1. /\ task.at = "failing" /\ task # NoTask
        /\ task \in [at : {"failing"}, attempt : 0 .. MaxRenewRetries, token : Tokens, active : BOOLEAN]
        /\ UNCHANGED <<row, watch, grant, callback, histories>>
    BY <1>5, <1>1 DEF RetryRenewal, RenewalTasks, NoTask
  <2>2. row[u] # NoRow /\ TokenIssued(task.token)
    BY <2>1, <1>1 DEF TaskFacts
  <2>3. exhausted \in RenewalTasks /\ (task.attempt < MaxRenewRetries => again \in RenewalTasks)
    BY <2>1, WatchAssumption DEF RenewalTasks
  <2>4. CASE /\ task.attempt < MaxRenewRetries /\ renewal' = [renewal EXCEPT ![u][s] = again]
             /\ UNCHANGED mishaps
    BY <2>1, <2>2, <2>3, <2>4, <1>1, TaskChange
  <2>5. CASE renewal' = [renewal EXCEPT ![u][s] = NoTask] /\ mishaps' \in 0 .. MaxMishaps
    BY <2>1, <2>5, TaskChange
  <2>6. CASE renewal' = [renewal EXCEPT ![u][s] = exhausted] /\ UNCHANGED mishaps
    BY <2>1, <2>2, <2>3, <2>6, <1>1, TaskChange
  <2> QED
    BY <1>5, <1>1, <1>2, <2>4, <2>5, <2>6 DEF RetryRenewal, Becomes
<1>6. CASE RenewalDies(u, s)
    BY <1>6, <1>2, TaskChange DEF RenewalDies, Becomes
<1> QED
    BY <1>3, <1>4, <1>5, <1>6

\* The task of a user ends and leaves its mark in the columns of the watch.
LEMMA RowChange ==
    ASSUME WatchInv, NEW u \in Subscribers, NEW s \in Renewals, NEW new \in UserRows, row[u] # NoRow,
           new.mail = row[u].mail, new.token = row[u].token,
           row' = [row EXCEPT ![u] = new],
           renewal' = [renewal EXCEPT ![u][s] = NoTask],
           former' = [former EXCEPT ![u] = former'[u]], former'[u] \in BOOLEAN,
           Valid(row[u].token) /\ ~ former'[u] => watch[row[u].token.mail] >= new.until,
           mishaps' \in 0 .. MaxMishaps,
           UNCHANGED <<watch, grant, callback, overlapped, callbacks, revocations>>
    PROVE  WatchInv'
<1>1. row[u] \in UserRows /\ RowFacts(u) /\ row'[u] = new
    BY DEF WatchInv, WatchTypeOK
<1>2. /\ row'[u] \in UserRows /\ row'[u] # NoRow
      /\ row'[u].mail = row[u].mail /\ row'[u].token = row[u].token
    BY <1>1, WatchAssumption DEF UserRows, NoRow
<1>3. \A v \in Subscribers : v # u => row'[v] = row[v] /\ former'[v] = former[v]
    BY DEF WatchInv, WatchTypeOK
<1>4. /\ row' \in [Subscribers -> UserRows \cup {NoRow}]
      /\ \A v \in Subscribers : row'[v].mail = row[v].mail /\ (row[v] # NoRow => row'[v] # NoRow)
  <2>1. \A v \in Subscribers : row[v] \in UserRows \cup {NoRow}
    BY DEF WatchInv, WatchTypeOK
  <2>2. \A v \in Subscribers : row'[v] \in UserRows \cup {NoRow}
    BY <2>1, <1>2, <1>3
  <2>3. \A v \in Subscribers : row'[v].mail = row[v].mail /\ (row[v] # NoRow => row'[v] # NoRow)
    BY <1>2, <1>3
  <2>4. row' = [v \in Subscribers |-> row'[v]]
    BY DEF WatchInv, WatchTypeOK
  <2> QED
    BY <2>2, <2>3, <2>4
<1>5. /\ renewal' \in [Subscribers -> [Renewals -> RenewalTasks \cup {NoTask}]]
      /\ \A v \in Subscribers, r \in Renewals : renewal'[v][r] \in {renewal[v][r], NoTask}
    BY DEF WatchInv, WatchTypeOK
<1>6. WatchTypeOK'
    BY <1>4, <1>5 DEF WatchInv, WatchTypeOK
<1>7. ASSUME NEW v \in Subscribers PROVE RowFacts(v)'
  <2>1. CASE v = u
    BY <2>1, <1>1, <1>2 DEF RowFacts, TokenIssued, Valid
  <2>2. CASE v # u
    BY <2>2, <1>3 DEF WatchInv, RowFacts, TokenIssued, Valid
  <2> QED
    BY <2>1, <2>2
<1>8. ASSUME NEW v \in Subscribers, NEW r \in Renewals PROVE TaskFacts(v, r)'
  <2>1. TaskFacts(v, r) /\ renewal'[v][r] \in {renewal[v][r], NoTask}
    BY <1>5 DEF WatchInv
  <2> QED
    BY <2>1, <1>4 DEF TaskFacts, TokenIssued, Valid
<1>9. ASSUME NEW c \in Callbacks PROVE CallbackFacts(c)'
  <2> SUFFICES ASSUME callback[c] # NoTask PROVE CallbackFacts(c)'
    BY DEF CallbackFacts
  <2>1. callback[c].user \in Subscribers /\ CallbackFacts(c)
    BY DEF WatchInv, WatchTypeOK, CallbackTasks
  <2> QED
    BY <2>1, <1>4 DEF CallbackFacts, TokenIssued
<1> QED
    BY <1>6, <1>7, <1>8, <1>9 DEF WatchInv

\* A commit records what Google gave to the task; if that was for the row's
\* token, it is so of the row, and else it is marked as former.
LEMMA RecordFacts ==
    ASSUME WatchInv, NEW u \in Subscribers, NEW s \in Renewals, CommitWatch(u, s)
    PROVE  WatchInv'
<1> DEFINE task == renewal[u][s]
<1>1. /\ task # NoTask /\ task.at = "watched"
      /\ TaskFacts(u, s) /\ row[u] \in UserRows \cup {NoRow} /\ task \in RenewalTasks
    BY DEF CommitWatch, WatchInv, WatchTypeOK, NoTask
<1>2. row[u] # NoRow /\ row[u] \in UserRows
    BY <1>1 DEF TaskFacts
<1>3. task.until \in Days /\ task.active \in BOOLEAN /\ row[u].active \in BOOLEAN
    BY <1>1, <1>2 DEF RenewalTasks, UserRows
<1>4. /\ renewal' = [renewal EXCEPT ![u][s] = NoTask]
      /\ UNCHANGED <<watch, grant, callback, overlapped, callbacks, revocations>>
    BY DEF CommitWatch, Becomes
<1>5. CASE Mishap /\ UNCHANGED <<row, former>>
  <2>1. mishaps' \in 0 .. MaxMishaps
    BY <1>5, WatchAssumption DEF Mishap, WatchInv, WatchTypeOK
  <2>2. UNCHANGED histories
    BY <1>4, <1>5 DEF histories
  <2> QED
    BY <2>1, <2>2, <1>4, <1>5, TaskChange
<1>6. CASE /\ row' = [row EXCEPT ![u].until = RecordedDays(task),
                                 ![u].active = IF task.active THEN @ ELSE TRUE]
           /\ former' = [former EXCEPT ![u] = task.token # row[u].token]
           /\ UNCHANGED mishaps
  <2> DEFINE new == [row[u] EXCEPT !.until = task.until, !.active = IF task.active THEN @ ELSE TRUE]
  <2>1. row' = [row EXCEPT ![u] = new]
    BY <1>2, <1>6 DEF RecordedDays, WatchInv, WatchTypeOK
  <2>2. /\ new \in UserRows /\ new.mail = row[u].mail /\ new.token = row[u].token
        /\ new.until = task.until
    BY <1>2, <1>3 DEF UserRows
  <2>3. /\ former'[u] = (task.token # row[u].token)
        /\ former' = [former EXCEPT ![u] = former'[u]]
    BY <1>6 DEF WatchInv, WatchTypeOK
  <2>4. Valid(row[u].token) /\ ~ former'[u] => watch[row[u].token.mail] >= task.until
    BY <2>3, <1>1 DEF TaskFacts
  <2>5. former'[u] \in BOOLEAN /\ mishaps' \in 0 .. MaxMishaps
    BY <2>3, <1>6 DEF WatchInv, WatchTypeOK
  <2> HIDE DEF new
  <2> QED
    BY <2>1, <2>2, <2>3, <2>4, <2>5, <1>2, <1>4, RowChange
<1> QED
    BY <1>5, <1>6 DEF CommitWatch

\* Giving up touches watch_active only.
LEMMA GiveUpFacts ==
    ASSUME WatchInv, NEW u \in Subscribers, NEW s \in Renewals, GiveUp(u, s)
    PROVE  WatchInv'
<1> DEFINE task == renewal[u][s]
<1>1. /\ task # NoTask /\ TaskFacts(u, s) /\ row[u] \in UserRows \cup {NoRow}
    BY DEF GiveUp, WatchInv, WatchTypeOK, NoTask
<1>2. row[u] # NoRow /\ row[u] \in UserRows /\ RowFacts(u)
    BY <1>1 DEF TaskFacts, WatchInv
<1>3. /\ renewal' = [renewal EXCEPT ![u][s] = NoTask]
      /\ UNCHANGED <<watch, grant, callback, histories>>
    BY DEF GiveUp, Becomes
<1>4. CASE UNCHANGED row /\ Mishap
  <2>1. mishaps' \in 0 .. MaxMishaps
    BY <1>4, WatchAssumption DEF Mishap, WatchInv, WatchTypeOK
  <2> QED
    BY <2>1, <1>3, <1>4, TaskChange
<1>5. CASE row' = [row EXCEPT ![u].active = IF task.active THEN FALSE ELSE @] /\ UNCHANGED mishaps
  <2> DEFINE new == [row[u] EXCEPT !.active = IF task.active THEN FALSE ELSE @]
  <2>1. row' = [row EXCEPT ![u] = new]
    BY <1>2, <1>5 DEF WatchInv, WatchTypeOK
  <2>2. /\ new \in UserRows /\ new.mail = row[u].mail /\ new.token = row[u].token
        /\ new.until = row[u].until
    BY <1>2 DEF UserRows
  <2>3. /\ former' = [former EXCEPT ![u] = former'[u]] /\ former'[u] \in BOOLEAN
        /\ former'[u] = former[u]
    BY <1>3 DEF WatchInv, WatchTypeOK, histories
  <2>4. Valid(row[u].token) /\ ~ former'[u] => watch[row[u].token.mail] >= new.until
    BY <1>2, <2>2, <2>3 DEF RowFacts
  <2>5. mishaps' \in 0 .. MaxMishaps /\ UNCHANGED <<watch, grant, callback, overlapped, callbacks, revocations>>
    BY <1>3, <1>5 DEF WatchInv, WatchTypeOK, histories
  <2> HIDE DEF new
  <2> QED
    BY <2>1, <2>2, <2>3, <2>4, <2>5, <1>2, <1>3, RowChange
<1> QED
    BY <1>4, <1>5 DEF GiveUp
-----------------------------------------------------------------------------
\* WatchInv is inductive.
LEMMA StepFacts == WatchInv /\ [WatchNext]_watchVars => WatchInv'
<1> SUFFICES ASSUME WatchInv, [WatchNext]_watchVars PROVE WatchInv'
    OBVIOUS
<1>1. CASE \E u \in Subscribers, m \in Inboxes : CallbackSelect(u, m)
    BY <1>1, SelectFacts
<1>2. CASE \E c \in Callbacks : CallbackCommit(c) \/ CallbackFails(c)
    BY <1>2, CommitFacts, FailFacts
<1>3. CASE \E m \in Inboxes : Revoke(m)
    BY <1>3, RevokeFacts
<1>4. CASE MidnightPasses
    BY <1>4, MidnightFacts
<1>5. CASE \E u \in Subscribers, s \in Renewals : RenewalWorks(u, s) \/ RenewalDies(u, s)
    BY <1>5, RenewalFacts, RecordFacts, GiveUpFacts DEF RenewalWorks
<1>6. CASE UNCHANGED watchVars
    BY <1>6 DEF watchVars, WatchInv, WatchTypeOK, RowFacts, TaskFacts, CallbackFacts, TokenIssued, Valid
<1> QED
    BY <1>1, <1>2, <1>3, <1>4, <1>5, <1>6 DEF WatchNext

LEMMA WatchSafe == WatchSpec => []WatchInv
<1> QED
    BY InitFacts, StepFacts, PTL DEF WatchSpec

\* The variables of linking and renewing keep their types.
THEOREM WatchTyped == WatchSpec => []WatchTypeOK
<1>1. WatchInv => WatchTypeOK
    BY DEF WatchInv
<1> QED
    BY <1>1, WatchSafe, PTL

\* What the invariant says of a row is what the property says of it.
LEMMA RowIsTrue == WatchInv => RecordIsTrue
<1> SUFFICES ASSUME WatchInv, NEW u \in Subscribers, row[u] # NoRow, ~ overlapped[u]
             PROVE  /\ row[u].token.mail = row[u].mail
                    /\ Valid(row[u].token) /\ ~ former[u] => watch[row[u].mail] >= row[u].until
    BY DEF RecordIsTrue
<1> QED
    BY DEF WatchInv, RowFacts

\* However many users, callbacks and renewals interleave, the token of a row opens
\* the row's mailbox and Google's watch lasts until watch_expiration, but for the
\* two exceptions RecordIsTrue names (auth.py:128-142, email_tasks.py:517-521).
THEOREM RecordTrue == WatchSpec => []RecordIsTrue
    BY RowIsTrue, WatchSafe, PTL

------------------------------------------------------------------------------
(* MCServices.                                                             *)

\* A step of the composition is one of each component, or leaves it as it is.
LEMMA ServicesStep ==
    [ServicesNext]_servicesVars => part' = part /\ [Next]_vars /\ [WatchNext]_watchVars
<1>1. CASE UNCHANGED servicesVars
    BY <1>1 DEF servicesVars
<1>2. CASE ServicesNext
    BY <1>2 DEF ServicesNext
<1> QED
    BY <1>1, <1>2

\* A behaviour of the composition is one of each component, and with what is fair in it
\* one of the watches while they are at work.
THEOREM PartsAreServices ==
    ServicesSpec => /\ Spec
                    /\ WatchInit /\ [][WatchNext]_watchVars
                    /\ part = "watches" => WatchSpec
<1>1. ServicesInit => Init /\ WatchInit
    BY DEF ServicesInit
<1>2. ServicesSpec => Spec
    BY <1>1, ServicesStep, PTL DEF ServicesSpec, Spec
<1>3. ServicesSpec => WatchInit /\ [][WatchNext]_watchVars
    BY <1>1, ServicesStep, PTL DEF ServicesSpec
<1>4. ServicesSpec => (part = "watches" => WatchSpec)
    BY <1>1, ServicesStep, PTL DEF ServicesSpec, WatchSpec
<1> QED
    BY <1>2, <1>3, <1>4

\* The bound on the rate and the truth of the rows, of the composition that is
\* model-checked: they hold of a service while it works as while it rests.
THEOREM ServicesKeepTheirWord == ServicesSpec => []RateBound /\ []RecordIsTrue
<1>1. WatchInit /\ [][WatchNext]_watchVars => []WatchInv
    BY InitFacts, StepFacts, PTL
<1>2. WatchInv => RecordIsTrue
    BY RowIsTrue
<1> QED
    BY <1>1, <1>2, PartsAreServices, RateIsBounded, PTL
=============================================================================
