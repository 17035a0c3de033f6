----------------------- MODULE TokenRevocationProofs -----------------------
(***************************************************************************)
(* Proofs about TokenRevocation, for any number of workers, tokens and      *)
(* calls, any page size, any stream length and any faults and stops.        *)
(***************************************************************************)
EXTENDS TokenRevocation, TLAPS

USE DEF NoCall, Call

-----------------------------------------------------------------------------
\* Where the entries that one read returns lie.
LEMMA EntriesInStream ==
    ASSUME TypeOK, NEW after \in 0 .. Len(stream)
    PROVE  /\ First(after) \in Nat
           /\ First(after) > after
           /\ First(after) > trimmed
           /\ Last(after) \in Int
           /\ Last(after) <= Len(stream)
           /\ Entries(after) \subseteq (after + 1) .. Len(stream)
           /\ Entries(after) # {} =>
                  Last(after) \in Entries(after) /\ Last(after) \in 1 .. Len(stream)
           /\ \A i \in (after + 1) .. Last(after) : i > trimmed => i \in Entries(after)
           /\ Entries(after) = {} =>
                  \A i \in (trimmed + 1) .. Len(stream) : i <= after
<1> DEFINE f == First(after)
           l == Last(after)
           n == Len(stream)
<1>1. BatchSize \in Nat /\ BatchSize >= 1
  BY BatchSizeAssumption DEF BatchSizeAssumption
<1>2. n \in Nat /\ trimmed \in Nat /\ after \in Nat /\ after <= n /\ trimmed <= n
  BY DEF TypeOK
<1>3. f \in Nat /\ f > after /\ f > trimmed /\ (f = after + 1 \/ f = trimmed + 1)
  BY <1>2 DEF First, Upper
<1>4. l \in Int /\ l <= n /\ (l = n \/ l = f + BatchSize - 1)
  BY <1>1, <1>2, <1>3 DEF Last, Lower
<1>5. Entries(after) = f .. l
  BY DEF Entries
<1> HIDE DEF f, l, n
<1>6. f .. l # {} => l \in f .. l /\ l \in 1 .. n
  BY <1>2, <1>3, <1>4
<1>7. f .. l = {} => f > n
  BY <1>1, <1>2, <1>3, <1>4
<1>8. f .. l = {} => \A i \in (trimmed + 1) .. n : i <= after
  BY <1>2, <1>3, <1>7
<1> QED
  BY <1>2, <1>3, <1>4, <1>5, <1>6, <1>8 DEF f, l, n

\* XADD appends one entry, keeps the others, and trims only from the old end.
LEMMA AppendedStream ==
    ASSUME TypeOK, NEW j \in Jti, Append1(j)
    PROVE  /\ stream' \in Seq(Jti)
           /\ Len(stream') = Len(stream) + 1
           /\ \A i \in 1 .. Len(stream) : stream'[i] = stream[i]
           /\ stream'[Len(stream) + 1] = j
           /\ trimmed' \in trimmed .. Len(stream')
BY MaxLenAssumption DEF MaxLenAssumption, TypeOK, Append1, Upper

\* A call that is running has a worker and a token.
LEMMA CallFields ==
    ASSUME TypeOK, NEW r \in Request
    PROVE  /\ call[r].at \in {"idle", "xadd", "publish"}
           /\ call[r] # NoCall =>
                 call[r].at # "idle" /\ call[r].jti \in Jti /\ call[r].worker \in Worker
           /\ call[r].at # "idle" =>
                 call[r] \in Call /\ call[r] # NoCall /\ call[r].jti \in Jti
                   /\ call[r].worker \in Worker
BY DEF TypeOK

-----------------------------------------------------------------------------
LEMMA TypeInit == Init => TypeOK
<1> SUFFICES ASSUME Init PROVE TypeOK
  OBVIOUS
<1>1. stream \in Seq(Jti) /\ Len(stream) = 0
  BY DEF Init
<1>2. stops \in 0 .. MaxStops
  BY BoundsAssumption DEF BoundsAssumption, Init
<1> QED
  BY <1>1, <1>2 DEF Init, TypeOK

LEMMA TypeStep == TypeOK /\ [Next]_vars => TypeOK'
<1> SUFFICES ASSUME TypeOK, [Next]_vars PROVE TypeOK'
  OBVIOUS
<1> USE DEF TypeOK
<1>1. ASSUME NEW w \in Worker, Start(w) PROVE TypeOK'
  BY <1>1 DEF Start, redisVars
<1>2. ASSUME NEW w \in Worker, ReplayBatch(w) PROVE TypeOK'
  <2>1. cursor[w] \in 0 .. Len(stream)
    OBVIOUS
  <2>2. Last(cursor[w]) \in 1 .. Len(stream)
    BY <1>2, <2>1, EntriesInStream DEF ReplayBatch
  <2>3. Entries(cursor[w]) \subseteq 1 .. Len(stream)
    BY <2>1, EntriesInStream
  <2>4. {stream[i] : i \in Entries(cursor[w])} \subseteq Jti
    BY <2>3
  <2> QED
    BY <1>2, <2>2, <2>4 DEF ReplayBatch, redisVars
<1>3. ASSUME NEW w \in Worker, ReplayDone(w) PROVE TypeOK'
  BY <1>3 DEF ReplayDone, redisVars
<1>4. ASSUME NEW w \in Worker, Subscribe(w) \/ SubscribeFails(w) PROVE TypeOK'
  BY <1>4 DEF Subscribe, SubscribeFails, redisVars, workerVars
<1>5. ASSUME NEW w \in Worker, NEW j \in Jti, PubSubMessage(w, j) PROVE TypeOK'
  BY <1>5 DEF PubSubMessage, redisVars, workerVars
<1>6. ASSUME NEW w \in Worker, PubSubDrop(w) PROVE TypeOK'
  BY <1>6 DEF PubSubDrop, redisVars, workerVars
<1>7. ASSUME Deliver PROVE
        /\ delivered' \in 1 .. Len(stream)
        /\ delivered <= delivered'
        /\ pending' \subseteq 1 .. delivered'
        /\ Entries(delivered) \subseteq 1 .. delivered'
  <2>1. delivered \in 0 .. Len(stream)
    OBVIOUS
  <2>2. /\ Last(delivered) \in 1 .. Len(stream)
        /\ Last(delivered) \in Entries(delivered)
        /\ Entries(delivered) \subseteq (delivered + 1) .. Len(stream)
    BY <1>7, <2>1, EntriesInStream DEF Deliver
  <2>3. Entries(delivered) \subseteq 1 .. Last(delivered)
    BY <2>1, <2>2 DEF Entries
  <2>4. delivered' = Last(delivered) /\ pending' = pending \cup Entries(delivered)
    BY <1>7 DEF Deliver
  <2> HIDE DEF TypeOK
  <2>5. pending \subseteq 1 .. delivered /\ delivered \in Nat /\ Len(stream) \in Nat
    BY DEF TypeOK
  <2>6. Last(delivered) \in Nat /\ delivered <= Last(delivered)
    BY <2>2, <2>5
  <2>7. pending \cup Entries(delivered) \subseteq 1 .. Last(delivered)
    <3>1. 1 .. delivered \subseteq 1 .. Last(delivered)
      BY <2>5, <2>6
    <3> QED
      BY <2>3, <2>5, <3>1, Zenon
  <2> QED
    BY <2>2, <2>3, <2>4, <2>6, <2>7
<1>8. ASSUME NEW w \in Worker, ReadGroup(w) PROVE TypeOK'
  BY <1>7, <1>8 DEF ReadGroup
<1>9. ASSUME NEW w \in Worker, ReadGroupLost(w) PROVE TypeOK'
  BY <1>7, <1>9 DEF ReadGroupLost, workerVars
<1>10. ASSUME NEW w \in Worker, NEW i \in batch[w], Consume(w, i) \/ ConsumeAckFails(w, i)
       PROVE  TypeOK'
  <2>1. stream[i] \in Jti
    BY <1>10
  <2>2. bloom' \in [Worker -> SUBSET Jti]
    <3>1. bloom' = [bloom EXCEPT ![w] = bloom[w] \cup {stream[i]}]
      BY <1>10 DEF Consume, ConsumeAckFails
    <3> QED
      BY <2>1, <3>1
  <2>3. batch' \in [Worker -> SUBSET (1 .. delivered)] /\ pending' \subseteq 1 .. delivered
    BY <1>10 DEF Consume, ConsumeAckFails
  <2> QED
    BY <1>10, <2>2, <2>3 DEF Consume, ConsumeAckFails
<1>11. ASSUME NEW r \in Request, XAdd(r) \/ XAddFails(r) PROVE TypeOK'
  <2>1. call[r].jti \in Jti /\ call[r].worker \in Worker /\ call[r] \in Call
    BY <1>11, CallFields DEF XAdd, XAddFails
  <2>2. /\ stream' \in Seq(Jti)
        /\ Len(stream) <= Len(stream')
        /\ trimmed' \in 0 .. Len(stream')
    BY <1>11, <2>1, AppendedStream DEF XAdd, XAddFails
  <2>3. call' \in [Request -> Call \cup {NoCall}]
    <3>1. [call[r] EXCEPT !.at = "publish"] \in Call
      BY <2>1
    <3>2. call' = [call EXCEPT ![r] = [call[r] EXCEPT !.at = "publish"]]
      BY <1>11 DEF XAdd, XAddFails
    <3> QED
      BY <3>1, <3>2
  <2>4. lost' \subseteq Jti
    BY <1>11, <2>1 DEF XAdd, XAddFails
  <2> QED
    BY <1>11, <2>2, <2>3, <2>4 DEF XAdd, XAddFails, workerVars
<1>12. ASSUME NEW r \in Request, Publish(r) \/ PublishFails(r) PROVE TypeOK'
  <2>1. call[r].jti \in Jti
    BY <1>12, CallFields DEF Publish, PublishFails
  <2>2. inbox' \in [Worker -> SUBSET Jti]
    <3>1. CASE Publish(r)
      <4>1. \A w \in Worker : inbox[w] \cup {call[r].jti} \in SUBSET Jti /\ inbox[w] \in SUBSET Jti
        BY <2>1
      <4> QED
        BY <3>1, <4>1 DEF Publish
    <3>2. CASE PublishFails(r)
      BY <3>2 DEF PublishFails
    <3> QED
      BY <1>12, <3>1, <3>2
  <2>3. call' \in [Request -> Call \cup {NoCall}]
    BY <1>12 DEF Publish, PublishFails
  <2> QED
    BY <1>12, <2>2, <2>3 DEF Publish, PublishFails, redisVars, workerVars
<1>13. ASSUME NEW r \in Request, NEW w \in Worker, NEW j \in Jti, RevokeToken(r, w, j)
       PROVE  TypeOK'
  BY <1>13 DEF RevokeToken, redisVars, workerVars
<1>14. ASSUME NEW w \in Worker, Crash(w) PROVE TypeOK'
  <2>1. {call[r].jti : r \in CallsOf(w)} \subseteq Jti
    BY CallFields DEF CallsOf
  <2>2. stops' \in 0 .. MaxStops
    BY <1>14, BoundsAssumption DEF BoundsAssumption, Crash
  <2> QED
    BY <1>14, <2>1, <2>2 DEF Crash, redisVars
<1>15. CASE UNCHANGED vars
  BY <1>15 DEF vars
<1> QED
  BY <1>1, <1>2, <1>3, <1>4, <1>5, <1>6, <1>8, <1>9, <1>10, <1>11, <1>12, <1>13,
     <1>14, <1>15 DEF Next, WorkerStep, CallStep, Shutdown

\* Every reachable state of the manager is well formed: ids stay inside the
\* stream, and no batch reaches beyond what the group has delivered.
THEOREM TypeCorrect == Spec => []TypeOK
BY TypeInit, TypeStep, PTL DEF Spec

-----------------------------------------------------------------------------
(***************************************************************************)
(* The inductive invariant.  ReplayComplete needs that the entries a page   *)
(* skips are trimmed ones; FanoutIsDurable needs MessageFollowsLog for what *)
(* a PUBLISH puts into an inbox; all of them need TypeOK, because an entry  *)
(* id is only meaningful inside the stream.                                 *)
(***************************************************************************)
IInv ==
    /\ TypeOK
    /\ ReplayComplete
    /\ FanoutIsDurable
    /\ MessageFollowsLog
    /\ OneConsumerPerEntry

\* The log only grows, so what was in it still is.
LEMMA LogGrows ==
    ASSUME TypeOK, NEW j \in Jti, Append1(j)
    PROVE  InStream' = InStream \cup {j}
<1>1. /\ Len(stream) \in Nat
      /\ Len(stream') = Len(stream) + 1
      /\ \A i \in 1 .. Len(stream) : stream'[i] = stream[i]
      /\ stream'[Len(stream) + 1] = j
      /\ DOMAIN stream = 1 .. Len(stream)
      /\ DOMAIN stream' = 1 .. Len(stream')
  BY AppendedStream DEF TypeOK
<1>2. ASSUME NEW x \in InStream PROVE x \in InStream'
  <2>1. PICK i \in 1 .. Len(stream) : x = stream[i]
    BY <1>1 DEF InStream
  <2> QED
    BY <1>1, <2>1 DEF InStream
<1>3. j \in InStream'
  BY <1>1 DEF InStream
<1>4. ASSUME NEW x \in InStream' PROVE x \in InStream \cup {j}
  <2>1. PICK i \in 1 .. (Len(stream) + 1) : x = stream'[i]
    BY <1>1, <1>4 DEF InStream
  <2>2. CASE i = Len(stream) + 1
    BY <1>1, <2>1, <2>2
  <2>3. CASE i \in 1 .. Len(stream)
    BY <1>1, <2>1, <2>3 DEF InStream
  <2> QED
    BY <1>1, <2>2, <2>3
<1> QED
  BY <1>2, <1>3, <1>4

\* A page of a replay, or a batch, holds logged tokens only.
LEMMA EntryIsLogged ==
    ASSUME TypeOK, NEW i \in 1 .. Len(stream)
    PROVE  stream[i] \in InStream
BY DEF TypeOK, InStream

LEMMA IInvInit == Init => IInv
BY TypeInit DEF Init, IInv, ReplayComplete, FanoutIsDurable, MessageFollowsLog,
                OneConsumerPerEntry

-----------------------------------------------------------------------------
\* An append keeps what a replay has read, and may trim it.
LEMMA ReplayAppend ==
    ASSUME TypeOK, ReplayComplete, NEW j \in Jti, Append1(j),
           UNCHANGED <<phase, cursor, bloom>>
    PROVE  ReplayComplete'
<1> SUFFICES ASSUME NEW w \in Worker, phase[w] # "down",
                    NEW i, i \in (trimmed' + 1) .. cursor[w]
             PROVE  stream'[i] \in bloom[w]
  BY DEF ReplayComplete
<1>1. /\ trimmed' \in trimmed .. Len(stream')
      /\ \A k \in 1 .. Len(stream) : stream'[k] = stream[k]
      /\ Len(stream') = Len(stream) + 1
  BY AppendedStream
<1>2. cursor[w] \in Nat /\ cursor[w] <= Len(stream) /\ trimmed \in Nat /\ Len(stream) \in Nat
  BY DEF TypeOK
<1>3. trimmed' \in Nat /\ trimmed <= trimmed'
  BY <1>1, <1>2
<1>4. i \in Int /\ trimmed + 1 <= i /\ i <= cursor[w]
  <2>1. cursor[w] \in Int /\ trimmed' + 1 \in Int
    BY <1>2, <1>3
  <2>2. i \in Int
    BY <2>1
  <2>3. trimmed' + 1 <= i /\ i <= cursor[w]
    BY <2>1
  <2>4. \A a, b, c \in Int : a <= b /\ b + 1 <= c => a + 1 <= c
    OBVIOUS
  <2>5. trimmed \in Int /\ trimmed' \in Int /\ trimmed <= trimmed'
    BY <1>2, <1>3
  <2>6. trimmed + 1 <= i
    BY <2>2, <2>3, <2>4, <2>5
  <2> QED
    BY <2>2, <2>3, <2>6
<1>5. i \in (trimmed + 1) .. cursor[w] /\ i \in 1 .. Len(stream)
  BY <1>2, <1>4
<1> QED
  BY <1>1, <1>5 DEF ReplayComplete

LEMMA ReplayStep == TypeOK /\ ReplayComplete /\ [Next]_vars => ReplayComplete'
<1> SUFFICES ASSUME TypeOK, ReplayComplete, [Next]_vars PROVE ReplayComplete'
  OBVIOUS
<1>1. ASSUME NEW w \in Worker, Start(w) PROVE ReplayComplete'
  <2> SUFFICES ASSUME NEW v \in Worker, phase'[v] # "down",
                      NEW i \in (trimmed + 1) .. cursor'[v]
               PROVE  stream[i] \in bloom'[v]
    BY <1>1 DEF ReplayComplete, Start, redisVars
  <2>1. CASE v = w
    <3>1. cursor'[v] = 0
      BY <1>1, <2>1 DEF Start, TypeOK
    <3> QED
      BY <3>1 DEF TypeOK
  <2>2. CASE v # w
    BY <1>1, <2>2 DEF ReplayComplete, Start, TypeOK
  <2> QED
    BY <2>1, <2>2
<1>2. ASSUME NEW w \in Worker, ReplayBatch(w) PROVE ReplayComplete'
  <2> SUFFICES ASSUME NEW v \in Worker, phase[v] # "down",
                      NEW i \in (trimmed + 1) .. cursor'[v]
               PROVE  stream[i] \in bloom'[v]
    BY <1>2 DEF ReplayComplete, ReplayBatch, redisVars
  <2>1. CASE v = w
    <3>1. cursor'[w] = Last(cursor[w])
      BY <1>2 DEF ReplayBatch, TypeOK
    <3>2. bloom'[w] = bloom[w] \cup {stream[k] : k \in Entries(cursor[w])}
      BY <1>2 DEF ReplayBatch, TypeOK
    <3>3. cursor[w] \in 0 .. Len(stream) /\ cursor[w] \in Nat /\ trimmed \in Nat
      BY DEF TypeOK
    <3>4. i \in Int /\ i > trimmed /\ i <= Last(cursor[w]) /\ Last(cursor[w]) \in Int
      BY <2>1, <3>1, <3>3, EntriesInStream
    <3>5. CASE i <= cursor[w]
      <4>1. i \in (trimmed + 1) .. cursor[w]
        BY <3>3, <3>4, <3>5
      <4> QED
        BY <2>1, <3>2, <4>1 DEF ReplayComplete
    <3>6. CASE i > cursor[w]
      <4>1. i \in Entries(cursor[w])
        BY <3>3, <3>4, <3>6, EntriesInStream
      <4> QED
        BY <2>1, <3>2, <4>1
    <3> QED
      BY <3>3, <3>4, <3>5, <3>6
  <2>2. CASE v # w
    BY <1>2, <2>2 DEF ReplayComplete, ReplayBatch, TypeOK
  <2> QED
    BY <2>1, <2>2
<1>3. ASSUME NEW w \in Worker, ReplayDone(w) PROVE ReplayComplete'
  BY <1>3 DEF ReplayComplete, ReplayDone, redisVars, TypeOK
<1>4. ASSUME UNCHANGED <<stream, trimmed, phase, cursor>>,
             \A w \in Worker : bloom[w] \subseteq bloom'[w]
      PROVE  ReplayComplete'
  BY <1>4 DEF ReplayComplete
<1>5. ASSUME NEW w \in Worker, Subscribe(w) \/ SubscribeFails(w) \/ PubSubDrop(w)
                                  \/ ReadGroup(w) \/ ReadGroupLost(w)
      PROVE  ReplayComplete'
  BY <1>4, <1>5 DEF Subscribe, SubscribeFails, PubSubDrop, ReadGroup, ReadGroupLost,
                    redisVars, workerVars
<1>6. ASSUME NEW w \in Worker, NEW j \in Jti, PubSubMessage(w, j) PROVE ReplayComplete'
  BY <1>4, <1>6 DEF PubSubMessage, redisVars, workerVars, TypeOK
<1>7. ASSUME NEW w \in Worker, NEW i \in batch[w], Consume(w, i) \/ ConsumeAckFails(w, i)
      PROVE  ReplayComplete'
  <2>1. bloom' = [bloom EXCEPT ![w] = bloom[w] \cup {stream[i]}]
    BY <1>7 DEF Consume, ConsumeAckFails
  <2>2. \A v \in Worker : bloom[v] \subseteq bloom'[v]
    BY <2>1 DEF TypeOK
  <2> QED
    BY <1>4, <1>7, <2>2 DEF Consume, ConsumeAckFails
<1>8. ASSUME NEW r \in Request, XAdd(r) \/ XAddFails(r) PROVE ReplayComplete'
  <2>1. call[r].jti \in Jti
    BY <1>8, CallFields DEF XAdd, XAddFails
  <2>2. CASE Append1(call[r].jti)
    BY <1>8, <2>1, <2>2, ReplayAppend DEF XAdd, XAddFails, workerVars
  <2>3. CASE UNCHANGED <<stream, trimmed>>
    BY <1>4, <1>8, <2>3 DEF XAdd, XAddFails, workerVars
  <2> QED
    BY <1>8, <2>2, <2>3 DEF XAdd, XAddFails
<1>9. ASSUME NEW r \in Request, Publish(r) \/ PublishFails(r) PROVE ReplayComplete'
  BY <1>4, <1>9 DEF Publish, PublishFails, redisVars, workerVars
<1>10. ASSUME NEW r \in Request, NEW w \in Worker, NEW j \in Jti, RevokeToken(r, w, j)
       PROVE  ReplayComplete'
  BY <1>4, <1>10 DEF RevokeToken, redisVars, workerVars, TypeOK
<1>11. ASSUME NEW w \in Worker, Crash(w) PROVE ReplayComplete'
  BY <1>11 DEF Crash, ReplayComplete, redisVars, TypeOK
<1>12. CASE UNCHANGED vars
  BY <1>4, <1>12 DEF vars
<1> QED
  BY <1>1, <1>2, <1>3, <1>5, <1>6, <1>7, <1>8, <1>9, <1>10, <1>11, <1>12
     DEF Next, WorkerStep, CallStep, Shutdown

-----------------------------------------------------------------------------
\* Once a token was requested, it stays requested.
LEMMA RequestedKept ==
    ASSUME TypeOK, NEW r \in Request, XAdd(r) \/ XAddFails(r)
    PROVE  /\ call[r].jti \in InStream' \cup lost'
           /\ InStream \subseteq InStream'
           /\ lost \subseteq lost'
           /\ Requested \subseteq Requested'
<1>1. call[r].jti \in Jti
  BY CallFields DEF XAdd, XAddFails
<1>2. InStream \subseteq InStream'
  BY <1>1, LogGrows DEF XAdd, XAddFails, InStream
<1>3. lost \subseteq lost'
  BY DEF XAdd, XAddFails
<1>4. call[r].jti \in InStream' \cup lost'
  BY <1>1, LogGrows DEF XAdd, XAddFails
<1>5. ASSUME NEW q \in Appending PROVE call[q].jti \in Requested'
  <2>1. CASE q = r
    BY <1>4, <2>1 DEF Requested
  <2>2. CASE q # r
    <3>1. call'[q] = call[q] /\ q \in Request
      BY <1>5, <2>2 DEF XAdd, XAddFails, Appending, TypeOK
    <3>2. q \in Appending'
      BY <1>5, <3>1 DEF Appending
    <3> QED
      BY <3>1, <3>2 DEF Requested
  <2> QED
    BY <2>1, <2>2
<1> QED
  BY <1>2, <1>3, <1>4, <1>5 DEF Requested

LEMMA FanoutStep ==
    TypeOK /\ FanoutIsDurable /\ MessageFollowsLog /\ [Next]_vars
        => FanoutIsDurable' /\ MessageFollowsLog' /\ Requested \subseteq Requested'
<1> DEFINE Goal == FanoutIsDurable' /\ MessageFollowsLog' /\ Requested \subseteq Requested'
<1> SUFFICES ASSUME TypeOK, FanoutIsDurable, MessageFollowsLog, [Next]_vars PROVE Goal
  OBVIOUS
<1>0. ASSUME UNCHANGED <<stream, call, lost>>,
             \A w \in Worker : inbox'[w] \subseteq inbox[w],
             \A w \in Worker : bloom'[w] \subseteq Requested
      PROVE  Goal
  <2>1. InStream' = InStream /\ Requested' = Requested
    BY <1>0 DEF InStream, Requested, Appending
  <2> QED
    BY <1>0, <2>1 DEF FanoutIsDurable, MessageFollowsLog
<1>1. ASSUME NEW w \in Worker, Start(w) PROVE Goal
  BY <1>0, <1>1 DEF Start, redisVars, FanoutIsDurable, TypeOK
<1>2. ASSUME NEW w \in Worker, ReplayBatch(w) PROVE Goal
  <2>1. cursor[w] \in 0 .. Len(stream)
    BY DEF TypeOK
  <2>2. Entries(cursor[w]) \subseteq 1 .. Len(stream)
    BY <2>1, EntriesInStream
  <2>3. {stream[i] : i \in Entries(cursor[w])} \subseteq Requested
    BY <2>2, EntryIsLogged DEF Requested
  <2>4. bloom' = [bloom EXCEPT ![w] = bloom[w] \cup {stream[i] : i \in Entries(cursor[w])}]
    BY <1>2 DEF ReplayBatch
  <2>5. \A v \in Worker : bloom'[v] \subseteq Requested
    BY <2>3, <2>4 DEF FanoutIsDurable, TypeOK
  <2> QED
    BY <1>0, <1>2, <2>5 DEF ReplayBatch, redisVars
<1>3. ASSUME NEW w \in Worker, ReplayDone(w) \/ Subscribe(w) \/ SubscribeFails(w)
                                  \/ ReadGroup(w) \/ ReadGroupLost(w)
      PROVE  Goal
  BY <1>0, <1>3 DEF ReplayDone, Subscribe, SubscribeFails, ReadGroup, ReadGroupLost,
                    redisVars, workerVars, FanoutIsDurable
<1>4. ASSUME NEW w \in Worker, PubSubDrop(w) PROVE Goal
  BY <1>0, <1>4 DEF PubSubDrop, redisVars, workerVars, FanoutIsDurable, TypeOK
<1>5. ASSUME NEW w \in Worker, NEW j \in Jti, PubSubMessage(w, j) PROVE Goal
  BY <1>0, <1>5 DEF PubSubMessage, redisVars, workerVars, FanoutIsDurable, TypeOK
<1>6. ASSUME NEW w \in Worker, NEW i \in batch[w], Consume(w, i) \/ ConsumeAckFails(w, i)
      PROVE  Goal
  <2>1. i \in 1 .. Len(stream)
    BY DEF TypeOK
  <2>2. stream[i] \in Requested
    BY <2>1, EntryIsLogged DEF Requested
  <2>3. bloom' = [bloom EXCEPT ![w] = bloom[w] \cup {stream[i]}]
    BY <1>6 DEF Consume, ConsumeAckFails
  <2>4. \A v \in Worker : bloom'[v] \subseteq Requested
    BY <2>2, <2>3 DEF FanoutIsDurable, TypeOK
  <2> QED
    BY <1>0, <1>6, <2>4 DEF Consume, ConsumeAckFails
<1>7. ASSUME NEW r \in Request, XAdd(r) \/ XAddFails(r) PROVE Goal
  <2>1. /\ call[r].jti \in InStream' \cup lost'
        /\ InStream \subseteq InStream'
        /\ lost \subseteq lost'
        /\ Requested \subseteq Requested'
    BY <1>7, RequestedKept
  <2>2. inbox' = inbox /\ bloom' = bloom
    BY <1>7 DEF XAdd, XAddFails
  <2>3. FanoutIsDurable'
    BY <2>1, <2>2 DEF FanoutIsDurable
  <2>4. ASSUME NEW q \in Request, call'[q].at = "publish"
        PROVE  call'[q].jti \in InStream' \cup lost'
    <3>1. CASE q = r
      <4>1. call'[r].jti = call[r].jti
        BY <1>7, CallFields DEF XAdd, XAddFails, TypeOK
      <4> QED
        BY <2>1, <3>1, <4>1
    <3>2. CASE q # r
      <4>1. call'[q] = call[q]
        BY <1>7, <3>2 DEF XAdd, XAddFails, TypeOK
      <4> QED
        BY <2>1, <2>4, <4>1 DEF MessageFollowsLog
    <3> QED
      BY <3>1, <3>2
  <2>5. MessageFollowsLog'
    BY <2>1, <2>2, <2>4 DEF MessageFollowsLog
  <2> QED
    BY <2>1, <2>3, <2>5
<1>8. ASSUME NEW r \in Request, Publish(r) \/ PublishFails(r) PROVE Goal
  <2>1. InStream' = InStream /\ lost' = lost /\ bloom' = bloom
    BY <1>8 DEF Publish, PublishFails, redisVars, InStream
  <2>2. call[r].jti \in InStream \cup lost
    BY <1>8 DEF Publish, PublishFails, MessageFollowsLog
  <2>3. \A q \in Request : q # r => call'[q] = call[q]
    BY <1>8 DEF Publish, PublishFails, TypeOK
  <2>4. call'[r] = NoCall
    BY <1>8 DEF Publish, PublishFails, TypeOK
  <2>5. Appending' = Appending /\ \A q \in Appending : call'[q] = call[q]
    BY <1>8, <2>3, <2>4 DEF Appending, Publish, PublishFails
  <2>6. Requested' = Requested
    BY <2>1, <2>5 DEF Requested
  <2>7. \A w \in Worker : inbox'[w] \subseteq inbox[w] \cup {call[r].jti}
    BY <1>8 DEF Publish, PublishFails
  <2>8. FanoutIsDurable'
    BY <2>1, <2>2, <2>6, <2>7 DEF FanoutIsDurable, Requested
  <2>9. MessageFollowsLog'
    BY <2>1, <2>2, <2>3, <2>4, <2>7 DEF MessageFollowsLog
  <2> QED
    BY <2>6, <2>8, <2>9
<1>9. ASSUME NEW r \in Request, NEW w \in Worker, NEW j \in Jti, RevokeToken(r, w, j)
      PROVE  Goal
  <2>1. InStream' = InStream /\ lost' = lost /\ inbox' = inbox
    BY <1>9 DEF RevokeToken, redisVars, InStream
  <2>2. \A q \in Request : q # r => call'[q] = call[q]
    BY <1>9 DEF RevokeToken, TypeOK
  <2>3. call'[r] = [at |-> "xadd", worker |-> w, jti |-> j] /\ call[r].at = "idle"
    BY <1>9 DEF RevokeToken, TypeOK
  <2>4. Appending' = Appending \cup {r} /\ r \notin Appending
    BY <2>2, <2>3 DEF Appending
  <2>5. Requested' = Requested \cup {j}
    <3>1. {call'[q].jti : q \in Appending'} = {call[q].jti : q \in Appending} \cup {j}
      <4>1. \A q \in Appending : call'[q] = call[q]
        BY <2>2, <2>4 DEF Appending
      <4> QED
        BY <2>3, <2>4, <4>1
    <3> QED
      BY <2>1, <3>1 DEF Requested
  <2>6. \A v \in Worker : bloom'[v] \subseteq bloom[v] \cup {j}
    BY <1>9 DEF RevokeToken, TypeOK
  <2>7. FanoutIsDurable'
    BY <2>1, <2>5, <2>6 DEF FanoutIsDurable
  <2>8. MessageFollowsLog'
    BY <2>1, <2>2, <2>3 DEF MessageFollowsLog
  <2> QED
    BY <2>5, <2>7, <2>8
<1>10. ASSUME NEW w \in Worker, Crash(w) PROVE Goal
  <2>1. InStream' = InStream /\ lost' = lost \cup {call[r].jti : r \in CallsOf(w)}
    BY <1>10 DEF Crash, redisVars, InStream
  <2>2. \A q \in Request : call'[q] = IF q \in CallsOf(w) THEN NoCall ELSE call[q]
    BY <1>10 DEF Crash
  <2>3. \A v \in Worker : bloom'[v] \subseteq bloom[v] /\ inbox'[v] \subseteq inbox[v]
    BY <1>10 DEF Crash, TypeOK
  <2>4. ASSUME NEW q \in Appending PROVE call[q].jti \in Requested'
    <3>1. CASE q \in CallsOf(w)
      BY <2>1, <3>1 DEF Requested
    <3>2. CASE q \notin CallsOf(w)
      <4>1. call'[q] = call[q] /\ q \in Appending'
        BY <2>2, <2>4, <3>2 DEF Appending
      <4> QED
        BY <4>1 DEF Requested
    <3> QED
      BY <3>1, <3>2
  <2>5. Requested \subseteq Requested'
    BY <2>1, <2>4 DEF Requested
  <2>6. FanoutIsDurable'
    BY <2>3, <2>5 DEF FanoutIsDurable
  <2>7. MessageFollowsLog'
    BY <2>1, <2>2, <2>3 DEF MessageFollowsLog
  <2> QED
    BY <2>5, <2>6, <2>7
<1>11. CASE UNCHANGED vars
  BY <1>0, <1>11 DEF vars, FanoutIsDurable
<1> HIDE DEF Goal
<1> QED
  BY <1>1, <1>2, <1>3, <1>4, <1>5, <1>6, <1>7, <1>8, <1>9, <1>10, <1>11
     DEF Next, WorkerStep, CallStep, Shutdown

-----------------------------------------------------------------------------
LEMMA ConsumerStep == TypeOK /\ OneConsumerPerEntry /\ [Next]_vars => OneConsumerPerEntry'
<1> SUFFICES ASSUME TypeOK, OneConsumerPerEntry, [Next]_vars PROVE OneConsumerPerEntry'
  OBVIOUS
<1>0. ASSUME UNCHANGED <<pending, batch>> PROVE OneConsumerPerEntry'
  BY <1>0 DEF OneConsumerPerEntry
<1>1. ASSUME NEW w \in Worker, ReadGroup(w) PROVE OneConsumerPerEntry'
  <2>1. delivered \in 0 .. Len(stream) /\ delivered \in Nat
    BY DEF TypeOK
  <2>2. Entries(delivered) \subseteq (delivered + 1) .. Len(stream)
    BY <2>1, EntriesInStream
  <2>3. \A v \in Worker : batch[v] \cap Entries(delivered) = {}
    BY <2>1, <2>2 DEF TypeOK
  <2>4. pending' = pending \cup Entries(delivered)
    BY <1>1 DEF ReadGroup, Deliver
  <2>5. batch' = [batch EXCEPT ![w] = Entries(delivered)]
    BY <1>1 DEF ReadGroup
  <2>6. batch'[w] = Entries(delivered) /\ \A v \in Worker : v # w => batch'[v] = batch[v]
    BY <2>5 DEF TypeOK
  <2>7. ASSUME NEW v \in Worker PROVE batch'[v] \subseteq pending'
    BY <2>4, <2>6 DEF OneConsumerPerEntry
  <2>8. ASSUME NEW u \in Worker, NEW v \in Worker, u # v PROVE batch'[u] \cap batch'[v] = {}
    <3>1. CASE u = w
      BY <2>3, <2>6, <2>8, <3>1
    <3>2. CASE v = w
      BY <2>3, <2>6, <2>8, <3>2
    <3>3. CASE u # w /\ v # w
      BY <2>6, <2>8, <3>3 DEF OneConsumerPerEntry
    <3> QED
      BY <3>1, <3>2, <3>3
  <2> QED
    BY <2>7, <2>8 DEF OneConsumerPerEntry
<1>2. ASSUME NEW w \in Worker, ReadGroupLost(w) PROVE OneConsumerPerEntry'
  BY <1>2 DEF ReadGroupLost, Deliver, workerVars, OneConsumerPerEntry
<1>3. ASSUME NEW w \in Worker, NEW i \in batch[w], Consume(w, i) \/ ConsumeAckFails(w, i)
      PROVE  OneConsumerPerEntry'
  <2>1. pending \ {i} \subseteq pending'
    BY <1>3 DEF Consume, ConsumeAckFails
  <2>2. batch'[w] \subseteq batch[w] \ {i} /\ \A v \in Worker : v # w => batch'[v] = batch[v]
    BY <1>3 DEF Consume, ConsumeAckFails, TypeOK
  <2>3. \A v \in Worker : v # w => i \notin batch[v]
    BY <1>3 DEF OneConsumerPerEntry
  <2>4. \A v \in Worker : batch'[v] \subseteq batch[v] \ {i}
    BY <2>2, <2>3
  <2> QED
    BY <2>1, <2>4 DEF OneConsumerPerEntry
<1>4. ASSUME NEW w \in Worker, Crash(w) PROVE OneConsumerPerEntry'
  <2>1. pending' = pending /\ \A v \in Worker : batch'[v] \subseteq batch[v]
    BY <1>4 DEF Crash, redisVars, TypeOK
  <2> QED
    BY <2>1 DEF OneConsumerPerEntry
<1>5. ASSUME NEW w \in Worker, Start(w) \/ ReplayBatch(w) \/ ReplayDone(w) \/ Subscribe(w)
                                  \/ SubscribeFails(w) \/ PubSubDrop(w)
      PROVE  OneConsumerPerEntry'
  BY <1>0, <1>5 DEF Start, ReplayBatch, ReplayDone, Subscribe, SubscribeFails, PubSubDrop,
                    redisVars, workerVars
<1>6. ASSUME NEW w \in Worker, NEW j \in Jti, PubSubMessage(w, j) PROVE OneConsumerPerEntry'
  BY <1>0, <1>6 DEF PubSubMessage, redisVars, workerVars
<1>7. ASSUME NEW r \in Request, CallStep(r) PROVE OneConsumerPerEntry'
  BY <1>0, <1>7 DEF CallStep, XAdd, XAddFails, Publish, PublishFails, redisVars, workerVars
<1>8. ASSUME NEW r \in Request, NEW w \in Worker, NEW j \in Jti, RevokeToken(r, w, j)
      PROVE  OneConsumerPerEntry'
  BY <1>0, <1>8 DEF RevokeToken, redisVars, workerVars
<1>9. CASE UNCHANGED vars
  BY <1>0, <1>9 DEF vars
<1> QED
  BY <1>1, <1>2, <1>3, <1>4, <1>5, <1>6, <1>7, <1>8, <1>9 DEF Next, WorkerStep, Shutdown

-----------------------------------------------------------------------------
\* The conjunction above is inductive, so it holds in every reachable state.
THEOREM InvariantHolds == Spec => []IInv
<1>1. IInv /\ [Next]_vars => IInv'
  BY TypeStep, ReplayStep, FanoutStep, ConsumerStep DEF IInv
<1> QED
  BY <1>1, IInvInit, PTL DEF Spec

\* _load_existing_revocations() skips no retained entry.
THEOREM ReplayIsComplete == Spec => []ReplayComplete
<1>1. IInv => ReplayComplete
  BY DEF IInv
<1> QED
  BY <1>1, InvariantHolds, PTL

\* No worker learns of a revocation that was not requested.
THEOREM FanoutStaysDurable == Spec => []FanoutIsDurable
<1>1. IInv => FanoutIsDurable
  BY DEF IInv
<1> QED
  BY <1>1, InvariantHolds, PTL

\* revoke_token() publishes after XADD, so no message overtakes the log.
THEOREM MessagesFollowLog == Spec => []MessageFollowsLog
<1>1. IInv => MessageFollowsLog
  BY DEF IInv
<1> QED
  BY <1>1, InvariantHolds, PTL

\* No two workers of the group process the same entry.
THEOREM EntriesHaveOneConsumer == Spec => []OneConsumerPerEntry
<1>1. IInv => OneConsumerPerEntry
  BY DEF IInv
<1> QED
  BY <1>1, InvariantHolds, PTL

-----------------------------------------------------------------------------
LEMMA ReplayDoneRetained ==
    ASSUME TypeOK, ReplayComplete, NEW w \in Worker, ReplayDone(w)
    PROVE  Retained \subseteq bloom[w]
<1>1. cursor[w] \in 0 .. Len(stream) /\ phase[w] # "down" /\ Entries(cursor[w]) = {}
  BY DEF ReplayDone, TypeOK
<1>2. \A i \in (trimmed + 1) .. Len(stream) : i <= cursor[w]
  BY <1>1, EntriesInStream
<1>3. \A i \in (trimmed + 1) .. Len(stream) : i \in (trimmed + 1) .. cursor[w]
  BY <1>1, <1>2 DEF TypeOK
<1> QED
  BY <1>1, <1>3 DEF ReplayComplete, Retained

\* Nothing but the end of a replay makes a worker serve.
LEMMA OnlyReplayDoneServes ==
    ASSUME TypeOK, [Next]_vars, NEW w \in Worker,
           phase[w] # "serving", phase'[w] = "serving"
    PROVE  ReplayDone(w)
<1>1. ASSUME NEW v \in Worker, WorkerStep(v) PROVE v = w /\ ReplayDone(w)
  <2>1. CASE Start(v)
    BY <2>1 DEF Start, TypeOK
  <2>2. CASE ReplayDone(v)
    BY <2>2 DEF ReplayDone, TypeOK
  <2>3. CASE UNCHANGED phase
    BY <2>3
  <2>4. CASE ReplayBatch(v) \/ Subscribe(v) \/ SubscribeFails(v) \/ PubSubDrop(v)
               \/ ReadGroup(v) \/ ReadGroupLost(v)
    BY <2>3, <2>4 DEF ReplayBatch, Subscribe, SubscribeFails, PubSubDrop, ReadGroup,
                      ReadGroupLost, workerVars
  <2>5. ASSUME NEW j \in Jti, PubSubMessage(v, j) PROVE UNCHANGED phase
    BY <2>5 DEF PubSubMessage, workerVars
  <2>6. ASSUME NEW i \in batch[v], Consume(v, i) \/ ConsumeAckFails(v, i)
        PROVE  UNCHANGED phase
    BY <2>6 DEF Consume, ConsumeAckFails
  <2> QED
    BY <1>1, <2>1, <2>2, <2>3, <2>4, <2>5, <2>6 DEF WorkerStep
<1>2. ASSUME NEW r \in Request, CallStep(r) PROVE FALSE
  BY <1>2 DEF CallStep, XAdd, XAddFails, Publish, PublishFails, workerVars
<1>3. ASSUME NEW r \in Request, NEW v \in Worker, NEW j \in Jti, RevokeToken(r, v, j)
      PROVE  FALSE
  BY <1>3 DEF RevokeToken, workerVars
<1>4. ASSUME NEW v \in Worker, Crash(v) PROVE FALSE
  BY <1>4 DEF Crash, TypeOK
<1>5. CASE UNCHANGED vars
  BY <1>5 DEF vars
<1> QED
  BY <1>1, <1>2, <1>3, <1>4, <1>5 DEF Next, Shutdown

\* initialize() lets a worker serve only when it refuses every token the stream
\* still holds, for any page size and whatever happens during the replay.
THEOREM ServingIsReplayed == Spec => ServesFullyReplayed
<1> DEFINE Served == \A w \in Worker :
              phase[w] # "serving" /\ phase'[w] = "serving" => Retained' \subseteq bloom'[w]
<1>1. IInv /\ [Next]_vars => [Served]_vars
  <2> SUFFICES ASSUME IInv, [Next]_vars, NEW w \in Worker,
                      phase[w] # "serving", phase'[w] = "serving"
               PROVE  Retained' \subseteq bloom'[w]
    OBVIOUS
  <2>1. ReplayDone(w)
    BY OnlyReplayDoneServes DEF IInv
  <2>2. Retained \subseteq bloom[w]
    BY <2>1, ReplayDoneRetained DEF IInv
  <2>3. Retained' = Retained /\ bloom' = bloom
    BY <2>1 DEF ReplayDone, redisVars, Retained
  <2> QED
    BY <2>2, <2>3
<1> HIDE DEF Served
<1>2. Spec => [][Served]_vars
  BY <1>1, InvariantHolds, PTL DEF Spec
<1> QED
  BY <1>2 DEF ServesFullyReplayed, Served

-----------------------------------------------------------------------------
\* Only revoke_token() makes a token requested; the later steps of the call,
\* and the end of its worker, only change where the request is recorded.
LEMMA NothingNewRequested ==
    ASSUME IInv,
           \/ \E r \in Request : CallStep(r)
           \/ \E w \in Worker : Crash(w)
    PROVE  Requested' \subseteq Requested
<1> USE DEF IInv
<1>1. ASSUME NEW r \in Request, XAdd(r) \/ XAddFails(r) PROVE Requested' \subseteq Requested
  <2>1. call[r].jti \in Jti /\ call[r].jti \in Requested
    BY <1>1, CallFields DEF XAdd, XAddFails, Requested, Appending
  <2>2. InStream' \subseteq InStream \cup {call[r].jti}
    BY <1>1, <2>1, LogGrows DEF XAdd, XAddFails, InStream
  <2>3. lost' \subseteq lost \cup {call[r].jti}
    BY <1>1 DEF XAdd, XAddFails
  <2>4. ASSUME NEW q \in Appending' PROVE q \in Appending /\ call'[q] = call[q]
    <3>1. q # r
      BY <1>1, <2>4 DEF Appending, XAdd, XAddFails, TypeOK
    <3>2. call'[q] = call[q]
      BY <1>1, <2>4, <3>1 DEF Appending, XAdd, XAddFails, TypeOK
    <3> QED
      BY <2>4, <3>2 DEF Appending
  <2> QED
    BY <2>1, <2>2, <2>3, <2>4 DEF Requested
<1>2. ASSUME NEW r \in Request, Publish(r) \/ PublishFails(r) PROVE Requested' \subseteq Requested
  <2>1. InStream' = InStream /\ lost' = lost
    BY <1>2 DEF Publish, PublishFails, redisVars, InStream
  <2>2. ASSUME NEW q \in Appending' PROVE q \in Appending /\ call'[q] = call[q]
    BY <1>2, <2>2 DEF Appending, Publish, PublishFails, TypeOK
  <2> QED
    BY <2>1, <2>2 DEF Requested
<1>3. ASSUME NEW w \in Worker, Crash(w) PROVE Requested' \subseteq Requested
  <2>1. InStream' = InStream /\ lost' = lost \cup {call[r].jti : r \in CallsOf(w)}
    BY <1>3 DEF Crash, redisVars, InStream
  <2>2. ASSUME NEW r \in CallsOf(w) PROVE call[r].jti \in Requested
    <3>1. r \in Request /\ call[r].at \in {"xadd", "publish"}
      BY CallFields DEF CallsOf
    <3>2. CASE call[r].at = "xadd"
      BY <3>1, <3>2 DEF Requested, Appending
    <3>3. CASE call[r].at = "publish"
      BY <3>1, <3>3 DEF Requested, MessageFollowsLog
    <3> QED
      BY <3>1, <3>2, <3>3
  <2>3. ASSUME NEW q \in Appending' PROVE q \in Appending /\ call'[q] = call[q]
    BY <1>3, <2>3 DEF Appending, Crash
  <2> QED
    BY <2>1, <2>2, <2>3 DEF Requested
<1> QED
  BY <1>1, <1>2, <1>3 DEF CallStep

\* What the refinement mapping depends on stays as it is.
LEMMA MappingUnchanged ==
    ASSUME UNCHANGED <<stream, trimmed, phase, bloom, call, lost>>
    PROVE  UNCHANGED Service!serviceVars
BY DEF Service!serviceVars, Requested, Retained, InStream, Appending

LEMMA WorkerRefines ==
    ASSUME IInv, NEW w \in Worker, WorkerStep(w)
    PROVE  [Service!ServiceNext]_Service!serviceVars
<1> DEFINE O == {v \in Worker : phase[v] = "serving"}
<1>1. ASSUME UNCHANGED <<stream, trimmed, phase, call, lost>>,
             NEW S, S \subseteq Requested,
             bloom' = [bloom EXCEPT ![w] = bloom[w] \cup S]
      PROVE  Service!ServiceNext
  <2>1. Requested' = Requested /\ Retained' = Retained /\ O' = O
    BY <1>1 DEF Requested, Retained, InStream, Appending
  <2>2. Service!Learn(w)
    BY <1>1, <2>1 DEF Service!Learn
  <2> QED
    BY <2>2 DEF Service!ServiceNext
<1>2. CASE Start(w)
  <2>1. Requested' = Requested /\ Retained' = Retained
    BY <1>2 DEF Start, redisVars, Requested, Retained, InStream, Appending
  <2>2. O' = O \ {w}
    BY <1>2 DEF Start, IInv, TypeOK
  <2>3. Service!Stop(w)
    BY <1>2, <2>1, <2>2 DEF Service!Stop, Start
  <2> QED
    BY <2>3 DEF Service!ServiceNext
<1>3. CASE ReplayBatch(w)
  <2>1. cursor[w] \in 0 .. Len(stream)
    BY DEF IInv, TypeOK
  <2>2. Entries(cursor[w]) \subseteq 1 .. Len(stream)
    BY <2>1, EntriesInStream DEF IInv
  <2>3. {stream[i] : i \in Entries(cursor[w])} \subseteq Requested
    BY <2>2, EntryIsLogged DEF IInv, Requested
  <2> QED
    BY <1>1, <1>3, <2>3 DEF ReplayBatch, redisVars
<1>4. CASE ReplayDone(w)
  <2>1. Requested' = Requested /\ Retained' = Retained /\ bloom' = bloom
    BY <1>4 DEF ReplayDone, redisVars, Requested, Retained, InStream, Appending
  <2>2. w \notin O /\ O' = O \cup {w}
    BY <1>4 DEF ReplayDone, IInv, TypeOK
  <2>3. Retained \subseteq bloom[w]
    BY <1>4, ReplayDoneRetained DEF IInv
  <2>4. Service!Open(w)
    BY <2>1, <2>2, <2>3 DEF Service!Open
  <2> QED
    BY <2>4 DEF Service!ServiceNext
<1>5. CASE Subscribe(w) \/ SubscribeFails(w) \/ PubSubDrop(w) \/ ReadGroup(w) \/ ReadGroupLost(w)
  BY <1>5, MappingUnchanged DEF Subscribe, SubscribeFails, PubSubDrop, ReadGroup,
                                ReadGroupLost, redisVars, workerVars
<1>6. ASSUME NEW j \in Jti, PubSubMessage(w, j) PROVE Service!ServiceNext
  <2>1. {j} \subseteq Requested
    BY <1>6 DEF PubSubMessage, IInv, FanoutIsDurable
  <2> QED
    BY <1>1, <1>6, <2>1 DEF PubSubMessage, redisVars, workerVars
<1>7. ASSUME NEW i \in batch[w], Consume(w, i) \/ ConsumeAckFails(w, i)
      PROVE  Service!ServiceNext
  <2>1. i \in 1 .. Len(stream)
    BY DEF IInv, TypeOK
  <2>2. {stream[i]} \subseteq Requested
    BY <2>1, EntryIsLogged DEF IInv, Requested
  <2> QED
    BY <1>1, <1>7, <2>2 DEF Consume, ConsumeAckFails
<1> QED
  BY <1>2, <1>3, <1>4, <1>5, <1>6, <1>7 DEF WorkerStep

LEMMA CallRefines ==
    ASSUME IInv, NEW r \in Request, CallStep(r)
    PROVE  [Service!ServiceNext]_Service!serviceVars
<1> USE DEF IInv
<1>1. Requested' = Requested
  <2>1. [Next]_vars
    BY DEF Next
  <2>2. Requested \subseteq Requested'
    BY <2>1, FanoutStep
  <2>3. Requested' \subseteq Requested
    BY NothingNewRequested
  <2> QED
    BY <2>2, <2>3
<1>2. CASE XAdd(r) \/ XAddFails(r)
  <2>1. call[r].jti \in Jti /\ call[r].jti \in Requested
    BY <1>2, CallFields DEF XAdd, XAddFails, Requested, Appending
  <2>2. CASE Append1(call[r].jti)
    <3>1. InStream' \subseteq Requested
      BY <2>1, <2>2, LogGrows DEF Requested
    <3>2. Retained' \subseteq InStream'
      <4>1. stream' \in Seq(Jti) /\ trimmed' \in Nat
        <5>1. trimmed \in Nat
          BY DEF TypeOK
        <5> QED
          BY <2>1, <2>2, <5>1, AppendedStream
      <4> QED
        BY <4>1 DEF Retained, InStream
    <3>3. Service!Record
      BY <1>1, <1>2, <3>1, <3>2 DEF Service!Record, XAdd, XAddFails, workerVars
    <3> QED
      BY <3>3 DEF Service!ServiceNext
  <2>3. CASE UNCHANGED <<stream, trimmed>>
    BY <1>1, <1>2, <2>3 DEF XAdd, XAddFails, workerVars, Retained, Service!serviceVars
  <2> QED
    BY <1>2, <2>2, <2>3 DEF XAdd, XAddFails
<1>3. CASE Publish(r) \/ PublishFails(r)
  BY <1>1, <1>3 DEF Publish, PublishFails, redisVars, workerVars, Retained,
                    Service!serviceVars
<1> QED
  BY <1>2, <1>3 DEF CallStep

LEMMA RevokeRefines ==
    ASSUME IInv, NEW r \in Request, NEW w \in Worker, NEW j \in Jti, RevokeToken(r, w, j)
    PROVE  Service!ServiceNext
<1> USE DEF IInv
<1>1. InStream' = InStream /\ lost' = lost /\ Retained' = Retained /\ phase' = phase
  BY DEF RevokeToken, redisVars, workerVars, InStream, Retained
<1>2. \A q \in Request : q # r => call'[q] = call[q]
  BY DEF RevokeToken, TypeOK
<1>3. call'[r] = [at |-> "xadd", worker |-> w, jti |-> j] /\ call[r].at = "idle"
  BY DEF RevokeToken, TypeOK
<1>4. Appending' = Appending \cup {r} /\ r \notin Appending
  BY <1>2, <1>3 DEF Appending
<1>5. \A q \in Appending : call'[q] = call[q]
  BY <1>2, <1>4 DEF Appending
<1>6. {call'[q].jti : q \in Appending'} = {call[q].jti : q \in Appending} \cup {j}
  BY <1>3, <1>4, <1>5
<1>7. Requested' = Requested \cup {j}
  BY <1>1, <1>6 DEF Requested
<1>8. Service!Ask(w, j)
  BY <1>1, <1>7 DEF Service!Ask, RevokeToken
<1> QED
  BY <1>8 DEF Service!ServiceNext

LEMMA CrashRefines ==
    ASSUME IInv, NEW w \in Worker, Crash(w)
    PROVE  Service!ServiceNext
<1> DEFINE O == {v \in Worker : phase[v] = "serving"}
<1> USE DEF IInv
<1>1. Requested' = Requested
  <2>1. [Next]_vars
    BY DEF Next
  <2>2. Requested \subseteq Requested'
    BY <2>1, FanoutStep
  <2>3. Requested' \subseteq Requested
    BY NothingNewRequested
  <2> QED
    BY <2>2, <2>3
<1>2. Retained' = Retained
  BY DEF Crash, redisVars, Retained
<1>3. O' = O \ {w}
  BY DEF Crash, TypeOK
<1>4. Service!Stop(w)
  BY <1>1, <1>2, <1>3 DEF Service!Stop, Crash
<1> QED
  BY <1>4 DEF Service!ServiceNext

\* The manager, with its stream, group, channel, batches and failures, does
\* only what RevocationService allows.
THEOREM ServiceImplemented == Spec => ImplementsService
<1>1. Init => Service!ServiceInit
  BY DEF Init, Service!ServiceInit, Requested, Retained, InStream, Appending
<1>2. IInv /\ [Next]_vars => [Service!ServiceNext]_Service!serviceVars
  <2> SUFFICES ASSUME IInv, [Next]_vars PROVE [Service!ServiceNext]_Service!serviceVars
    OBVIOUS
  <2>1. CASE UNCHANGED vars
    BY <2>1, MappingUnchanged DEF vars
  <2> QED
    BY <2>1, WorkerRefines, CallRefines, RevokeRefines, CrashRefines DEF Next, Shutdown
<1> QED
  BY <1>1, <1>2, InvariantHolds, PTL DEF Spec, ImplementsService, Service!ServiceSpec

=============================================================================
