-------------------------- MODULE TokenRevocation --------------------------
(***************************************************************************)
(* The distributed token revocation of app/core/token_revocation.py:        *)
(* one TokenRevocationManager per uvicorn worker, a Redis Stream that is    *)
(* the durable revocation log, one consumer group shared by every worker,   *)
(* and a Pub/Sub channel that fans each revocation out.                     *)
(*                                                                          *)
(* A step is what one worker does between two awaits, or what Redis does    *)
(* on behalf of one command.  A token is its jti.  A Bloom filter has no    *)
(* false negatives, and no property here is about its false positives, so   *)
(* it is modelled by the set of jtis added to it.                           *)
(***************************************************************************)
EXTENDS Integers, Sequences, FiniteSets

CONSTANTS
    Worker,       \* uvicorn worker processes sharing one Redis
    Jti,          \* token identifiers
    Request,      \* slots for concurrent revoke_token() calls
    BatchSize,    \* BATCH_SIZE of XRANGE and XREADGROUP
    MaxLen,       \* maxlen of XADD: the stream keeps at least this many entries
    RedisFaults,  \* may a Redis command or the Pub/Sub connection fail?
    MaxStream,    \* bound: entries ever appended to the stream
    MaxStops      \* bound: worker crashes and shutdowns

ASSUME BatchSizeAssumption == BatchSize \in Nat \ {0}
ASSUME MaxLenAssumption    == MaxLen \in Nat
ASSUME RedisFaultsAssumption == RedisFaults \in BOOLEAN
ASSUME BoundsAssumption    == MaxStream \in Nat /\ MaxStops \in Nat

VARIABLES
    \* In Redis
    stream,     \* every entry ever appended; stream[id] is the entry's jti
    trimmed,    \* entries with id <= trimmed were dropped by MAXLEN
    delivered,  \* last-delivered-id of the consumer group "bloom-sync"
    pending,    \* ids delivered to a consumer and not acknowledged
    inbox,      \* inbox[w]: messages published to w and not yet read by it
    \* In each worker process
    phase,      \* "down", "replay" (in initialize()) or "serving"
    listener,   \* listener[w]: state of w's _pubsub_loop() task
    bloom,      \* bloom[w]: jtis in w's Bloom filter
    cursor,     \* cursor[w]: last_id of w's replay
    batch,      \* batch[w]: ids of the XREADGROUP reply w still has to process
    call,       \* call[r]: the revoke_token() running in slot r
    \* History
    lost,       \* jtis whose XADD raised, or whose call died with its worker
    stops       \* workers stopped so far

redisVars  == <<stream, trimmed, delivered, pending>>
workerVars == <<phase, cursor, batch>>
vars == <<stream, trimmed, delivered, pending, inbox,
          phase, listener, bloom, cursor, batch, call, lost, stops>>

-----------------------------------------------------------------------------
NoCall == [at |-> "idle"]
Call   == [at : {"xadd", "publish"}, worker : Worker, jti : Jti]

InStream == {stream[i] : i \in DOMAIN stream}

\* Calls that have filled the local Bloom filter and not yet reached XADD.
Appending == {r \in Request : call[r].at = "xadd"}

Lower(a, b) == IF a <= b THEN a ELSE b
Upper(a, b) == IF a <= b THEN b ELSE a

\* The ids that a read after id `after` returns: at most BatchSize entries,
\* starting with the oldest one that is still in the stream.
First(after)   == Upper(after, trimmed) + 1
Last(after)    == Lower(First(after) + BatchSize - 1, Len(stream))
Entries(after) == First(after) .. Last(after)

Init ==
    /\ stream = <<>>
    /\ trimmed = 0
    /\ delivered = 0
    /\ pending = {}
    /\ inbox = [w \in Worker |-> {}]
    /\ phase = [w \in Worker |-> "down"]
    /\ listener = [w \in Worker |-> "off"]
    /\ bloom = [w \in Worker |-> {}]
    /\ cursor = [w \in Worker |-> 0]
    /\ batch = [w \in Worker |-> {}]
    /\ call = [r \in Request |-> NoCall]
    /\ lost = {}
    /\ stops = 0

-----------------------------------------------------------------------------
(***************************************************************************)
(* initialize(): create the consumer group (a BUSYGROUP reply is ignored,   *)
(* so the group keeps its position), replay the stream, and only then start *)
(* the two background tasks.                                                *)
(***************************************************************************)
\* Mutant of Start: the replay resumes where the consumer group stands.
StartAtGroup(w) ==
    /\ phase[w] = "down"
    /\ phase' = [phase EXCEPT ![w] = "replay"]
    /\ bloom' = [bloom EXCEPT ![w] = {}]
    /\ cursor' = [cursor EXCEPT ![w] = delivered]
    /\ UNCHANGED <<redisVars, inbox, listener, batch, call, lost, stops>>

Start(w) ==
    /\ phase[w] = "down"
    /\ phase' = [phase EXCEPT ![w] = "replay"]
    /\ bloom' = [bloom EXCEPT ![w] = {}]
    /\ cursor' = [cursor EXCEPT ![w] = 0]
    /\ UNCHANGED <<redisVars, inbox, listener, batch, call, lost, stops>>

\* Mutant of ReplayBatch: the last entry of the page is not added.
ReplayBatchDropsLast(w) ==
    LET page == Entries(cursor[w])
    IN  /\ phase[w] = "replay"
        /\ page # {}
        /\ bloom' = [bloom EXCEPT ![w] = @ \cup {stream[i] : i \in page \ {Last(cursor[w])}}]
        /\ cursor' = [cursor EXCEPT ![w] = Last(@)]
        /\ UNCHANGED <<redisVars, inbox, phase, listener, batch, call, lost, stops>>

\* _load_existing_revocations(): one XRANGE page.
ReplayBatch(w) ==
    LET page == Entries(cursor[w])
    IN  /\ phase[w] = "replay"
        /\ page # {}
        /\ bloom' = [bloom EXCEPT ![w] = @ \cup {stream[i] : i \in page}]
        /\ cursor' = [cursor EXCEPT ![w] = Last(@)]
        /\ UNCHANGED <<redisVars, inbox, phase, listener, batch, call, lost, stops>>

\* Mutant of ReplayDone: the worker opens before the replay ends.
ReplayDoneEarly(w) ==
    /\ phase[w] = "replay"
    /\ phase' = [phase EXCEPT ![w] = "serving"]
    /\ listener' = [listener EXCEPT ![w] = "starting"]
    /\ UNCHANGED <<redisVars, inbox, bloom, cursor, batch, call, lost, stops>>

\* XRANGE returned nothing: the replay is over and both tasks are created.
ReplayDone(w) ==
    /\ phase[w] = "replay"
    /\ Entries(cursor[w]) = {}
    /\ phase' = [phase EXCEPT ![w] = "serving"]
    /\ listener' = [listener EXCEPT ![w] = "starting"]
    /\ UNCHANGED <<redisVars, inbox, bloom, cursor, batch, call, lost, stops>>

\* _pubsub_loop(): SUBSCRIBE on entry, and by redis-py when the next
\* get_message() finds the connection broken.
Subscribe(w) ==
    /\ listener[w] \in {"starting", "broken"}
    /\ listener' = [listener EXCEPT ![w] = "subscribed"]
    /\ UNCHANGED <<redisVars, inbox, workerVars, bloom, call, lost, stops>>

\* The first SUBSCRIBE is outside the loop's own try: if it raises, the task
\* ends, and nothing starts it again.
SubscribeFails(w) ==
    /\ RedisFaults
    /\ listener[w] = "starting"
    /\ listener' = [listener EXCEPT ![w] = "dead"]
    /\ UNCHANGED <<redisVars, inbox, workerVars, bloom, call, lost, stops>>

\* Mutant of PubSubMessage: the test for a known jti is inverted.
PubSubMessageIgnored(w, j) ==
    /\ j \in inbox[w]
    /\ inbox' = [inbox EXCEPT ![w] = @ \ {j}]
    /\ UNCHANGED <<redisVars, workerVars, bloom, listener, call, lost, stops>>

\* _pubsub_loop(): one message.
PubSubMessage(w, j) ==
    /\ j \in inbox[w]
    /\ inbox' = [inbox EXCEPT ![w] = @ \ {j}]
    /\ bloom' = [bloom EXCEPT ![w] = @ \cup {j}]
    /\ UNCHANGED <<redisVars, workerVars, listener, call, lost, stops>>

\* The Pub/Sub connection breaks: what it carried is gone, and nothing that
\* is published before the next SUBSCRIBE reaches the worker.
PubSubDrop(w) ==
    /\ RedisFaults
    /\ listener[w] = "subscribed"
    /\ listener' = [listener EXCEPT ![w] = "broken"]
    /\ inbox' = [inbox EXCEPT ![w] = {}]
    /\ UNCHANGED <<redisVars, workerVars, bloom, call, lost, stops>>

-----------------------------------------------------------------------------
\* Mutant of Deliver: nothing new is read while an entry is pending.
DeliverWhenAcked ==
    /\ pending = {}
    /\ Entries(delivered) # {}
    /\ delivered' = Last(delivered)
    /\ pending' = pending \cup Entries(delivered)

\* What XREADGROUP ">" hands to one consumer of the group: each entry goes to
\* one consumer only, and is pending from then on.
Deliver ==
    /\ Entries(delivered) # {}
    /\ delivered' = Last(delivered)
    /\ pending' = pending \cup Entries(delivered)

\* _consume_loop(): XREADGROUP returned entries.
ReadGroup(w) ==
    /\ phase[w] = "serving"
    /\ batch[w] = {}
    /\ Deliver
    /\ batch' = [batch EXCEPT ![w] = Entries(delivered)]
    /\ UNCHANGED <<stream, trimmed, inbox, phase, listener, bloom, cursor,
                   call, lost, stops>>

\* The reply was lost on the way: the group has moved on, nobody was told.
ReadGroupLost(w) ==
    /\ RedisFaults
    /\ phase[w] = "serving"
    /\ batch[w] = {}
    /\ Deliver
    /\ UNCHANGED <<stream, trimmed, inbox, workerVars, listener, bloom,
                   call, lost, stops>>

\* The oldest entry of the batch: into the Bloom filter, then XACK.
Consume(w, i) ==
    /\ i \in batch[w]
    /\ \A k \in batch[w] : i <= k
    /\ bloom' = [bloom EXCEPT ![w] = @ \cup {stream[i]}]
    /\ batch' = [batch EXCEPT ![w] = @ \ {i}]
    /\ pending' = pending \ {i}
    /\ UNCHANGED <<stream, trimmed, delivered, inbox, phase, listener, cursor,
                   call, lost, stops>>

\* XACK raised, executed or not: the loop logs, sleeps and reads ">" again, so
\* the rest of the batch is never processed and stays pending.
ConsumeAckFails(w, i) ==
    /\ RedisFaults
    /\ i \in batch[w]
    /\ \A k \in batch[w] : i <= k
    /\ bloom' = [bloom EXCEPT ![w] = @ \cup {stream[i]}]
    /\ batch' = [batch EXCEPT ![w] = {}]
    /\ pending' \in {pending, pending \ {i}}
    /\ UNCHANGED <<stream, trimmed, delivered, inbox, phase, listener, cursor,
                   call, lost, stops>>

-----------------------------------------------------------------------------
\* Mutant of RevokeToken: PUBLISH without XADD.
RevokeTokenPublishFirst(r, w, j) ==
    /\ call[r] = NoCall
    /\ phase[w] = "serving"
    /\ Len(stream) + Cardinality(Appending) < MaxStream
    /\ bloom' = [bloom EXCEPT ![w] = @ \cup {j}]
    /\ call' = [call EXCEPT ![r] = [at |-> "publish", worker |-> w, jti |-> j]]
    /\ UNCHANGED <<redisVars, inbox, workerVars, listener, lost, stops>>

(***************************************************************************)
(* revoke_token(): Bloom filter, then XADD, then PUBLISH.  Neither failure  *)
(* stops it.                                                                *)
(***************************************************************************)
RevokeToken(r, w, j) ==
    /\ call[r] = NoCall
    /\ phase[w] = "serving"
    /\ Len(stream) + Cardinality(Appending) < MaxStream
    /\ bloom' = [bloom EXCEPT ![w] = @ \cup {j}]
    /\ call' = [call EXCEPT ![r] = [at |-> "xadd", worker |-> w, jti |-> j]]
    /\ UNCHANGED <<redisVars, inbox, workerVars, listener, lost, stops>>

\* XADD with maxlen: append, and trim approximately (never below MaxLen).
Append1(j) ==
    /\ stream' = Append(stream, j)
    /\ \E t \in trimmed .. Upper(trimmed, (Len(stream) + 1) - MaxLen) : trimmed' = t

\* Mutant of XAdd: nothing is appended.
XAddNothing(r) ==
    /\ call[r].at = "xadd"
    /\ call' = [call EXCEPT ![r].at = "publish"]
    /\ UNCHANGED <<redisVars, inbox, workerVars, listener, bloom, lost, stops>>

XAdd(r) ==
    /\ call[r].at = "xadd"
    /\ Append1(call[r].jti)
    /\ call' = [call EXCEPT ![r].at = "publish"]
    /\ UNCHANGED <<delivered, pending, inbox, workerVars, listener, bloom,
                   lost, stops>>

\* XADD raised: not executed, or executed and the reply lost.  The call only
\* logs and goes on to PUBLISH.
XAddFails(r) ==
    /\ RedisFaults
    /\ call[r].at = "xadd"
    /\ \/ UNCHANGED <<stream, trimmed>>
       \/ Append1(call[r].jti)
    /\ lost' = lost \cup {call[r].jti}
    /\ call' = [call EXCEPT ![r].at = "publish"]
    /\ UNCHANGED <<delivered, pending, inbox, workerVars, listener, bloom, stops>>

\* PUBLISH reaches the connections that are subscribed at this moment.
Publish(r) ==
    /\ call[r].at = "publish"
    /\ inbox' = [w \in Worker |->
                    IF listener[w] = "subscribed"
                    THEN inbox[w] \cup {call[r].jti} ELSE inbox[w]]
    /\ call' = [call EXCEPT ![r] = NoCall]
    /\ UNCHANGED <<redisVars, workerVars, listener, bloom, lost, stops>>

PublishFails(r) ==
    /\ RedisFaults
    /\ call[r].at = "publish"
    /\ call' = [call EXCEPT ![r] = NoCall]
    /\ UNCHANGED <<redisVars, inbox, workerVars, listener, bloom, lost, stops>>

-----------------------------------------------------------------------------
CallsOf(w) == {r \in Request : call[r] # NoCall /\ call[r].worker = w}

\* The process is gone: its filter, its batch, its connection and its calls.
Crash(w) ==
    /\ phase[w] # "down"
    /\ stops < MaxStops
    /\ phase' = [phase EXCEPT ![w] = "down"]
    /\ bloom' = [bloom EXCEPT ![w] = {}]
    /\ cursor' = [cursor EXCEPT ![w] = 0]
    /\ batch' = [batch EXCEPT ![w] = {}]
    /\ listener' = [listener EXCEPT ![w] = "off"]
    /\ inbox' = [inbox EXCEPT ![w] = {}]
    /\ call' = [r \in Request |-> IF r \in CallsOf(w) THEN NoCall ELSE call[r]]
    /\ lost' = lost \cup {call[r].jti : r \in CallsOf(w)}
    /\ stops' = stops + 1
    /\ UNCHANGED redisVars

\* shutdown(): both tasks are cancelled, wherever they are; uvicorn has let
\* the running requests finish before.
Shutdown(w) ==
    /\ phase[w] = "serving"
    /\ CallsOf(w) = {}
    /\ Crash(w)

-----------------------------------------------------------------------------
WorkerStep(w) ==
    \/ Start(w)
    \/ ReplayBatch(w)
    \/ ReplayDone(w)
    \/ Subscribe(w)
    \/ SubscribeFails(w)
    \/ \E j \in Jti : PubSubMessage(w, j)
    \/ PubSubDrop(w)
    \/ ReadGroup(w)
    \/ ReadGroupLost(w)
    \/ \E i \in batch[w] : Consume(w, i) \/ ConsumeAckFails(w, i)

CallStep(r) == XAdd(r) \/ XAddFails(r) \/ Publish(r) \/ PublishFails(r)

Next ==
    \/ \E w \in Worker : WorkerStep(w)
    \/ \E r \in Request : CallStep(r)
    \/ \E r \in Request, w \in Worker, j \in Jti : RevokeToken(r, w, j)
    \/ \E w \in Worker : Crash(w) \/ Shutdown(w)

Spec == Init /\ [][Next]_vars

(***************************************************************************)
(* Fairness.  An asyncio task that can run is run; a command sent to Redis  *)
(* gets an answer or an error; a process that stopped is started again      *)
(* (uvicorn's supervisor, or the orchestrator).  Nothing is assumed about   *)
(* which outcome a command has, or that anybody revokes anything.           *)
(***************************************************************************)
Fairness ==
    /\ \A w \in Worker :
          /\ WF_vars(Start(w))
          /\ WF_vars(ReplayBatch(w) \/ ReplayDone(w))
          /\ WF_vars(Subscribe(w) \/ SubscribeFails(w))
          /\ WF_vars(\E j \in Jti : PubSubMessage(w, j))
          /\ WF_vars(ReadGroup(w) \/ ReadGroupLost(w))
          /\ WF_vars(\E i \in batch[w] : Consume(w, i) \/ ConsumeAckFails(w, i))
    /\ \A r \in Request : WF_vars(CallStep(r))

FairSpec == Spec /\ Fairness

-----------------------------------------------------------------------------
TypeOK ==
    /\ stream \in Seq(Jti)
    /\ trimmed \in 0 .. Len(stream)
    /\ delivered \in 0 .. Len(stream)
    /\ pending \subseteq 1 .. delivered
    /\ inbox \in [Worker -> SUBSET Jti]
    /\ phase \in [Worker -> {"down", "replay", "serving"}]
    /\ listener \in [Worker -> {"off", "starting", "subscribed", "broken", "dead"}]
    /\ bloom \in [Worker -> SUBSET Jti]
    /\ cursor \in [Worker -> Nat]
    /\ \A w \in Worker : cursor[w] <= Len(stream)
    /\ batch \in [Worker -> SUBSET (1 .. delivered)]
    /\ call \in [Request -> Call \cup {NoCall}]
    /\ lost \subseteq Jti
    /\ stops \in 0 .. MaxStops

\* The tokens a replay that starts now would read.
Retained == {stream[i] : i \in (trimmed + 1) .. Len(stream)}

\* Tokens for which revoke_token() was called.
Requested == InStream \cup lost \cup {call[r].jti : r \in Appending}

\* Paging through the stream with XRANGE while other workers append to it and
\* MAXLEN trims it skips no entry: whatever is still in the stream up to the
\* cursor of a worker's replay is in its Bloom filter.
ReplayComplete ==
    \A w \in Worker : phase[w] # "down" =>
        \A i \in (trimmed + 1) .. cursor[w] : stream[i] \in bloom[w]

\* A token reaches a Bloom filter or a Pub/Sub message only when its revocation
\* was requested, and by then it is in the log, or about to be appended, or its
\* XADD failed or died: no worker learns of a revocation ahead of the log.
FanoutIsDurable ==
    \A w \in Worker : bloom[w] \cup inbox[w] \subseteq Requested

\* A token is published, or in a worker's Pub/Sub inbox, only once XADD was
\* executed or failed: no message overtakes the log, so whoever hears of a
\* revocation and restarts finds it there.
MessageFollowsLog ==
    /\ \A w \in Worker : inbox[w] \subseteq InStream \cup lost
    /\ \A r \in Request :
          call[r].at = "publish" => call[r].jti \in InStream \cup lost

\* The consumer group hands an entry to one worker only, and a worker
\* acknowledges an entry only after it processed it.
OneConsumerPerEntry ==
    /\ \A w \in Worker : batch[w] \subseteq pending
    /\ \A v, w \in Worker : v # w => batch[v] \cap batch[w] = {}

\* The moment a worker starts to serve, it refuses every token that the stream
\* still holds, whatever was revoked, trimmed or consumed by others while it
\* replayed ("On startup, workers load ALL revocations from stream").
ServesFullyReplayed ==
    [][\A w \in Worker :
          phase[w] # "serving" /\ phase'[w] = "serving" =>
              Retained' \subseteq bloom'[w]]_vars

\* A worker that is down when a revocation is in the log refuses that token
\* after its restart, unless MAXLEN trims it first: the durability backstop.
RestartRecovers ==
    \A w \in Worker, j \in Jti :
        (phase[w] = "down" /\ j \in Retained)
            ~> ((phase[w] = "serving" /\ j \in bloom[w]) \/ j \notin Retained)

\* Every entry of the stream is eventually handed to a consumer of the group,
\* however workers stop, lose replies or drop batches on the way.
BacklogDrains == \A i \in 1 .. MaxStream : (i <= Len(stream)) ~> (i <= delivered)

\* Every revoke_token() call ends, and every published message is read unless
\* the connection that carries it is lost.
FanoutCompletes ==
    /\ \A r \in Request : (call[r] # NoCall) ~> (call[r] = NoCall)
    /\ \A w \in Worker, j \in Jti :
          (j \in inbox[w]) ~> (j \in bloom[w] \/ listener[w] # "subscribed")

\* Without faults and without stops, a revocation that is in the log reaches
\* the Bloom filter of every worker that serves ("All N workers consuming from
\* Redis Stream via xreadgroup / Each adds token to their local bloom filter").
ReachesEveryWorker ==
    \A w \in Worker, j \in Jti :
        (phase[w] = "serving" /\ j \in InStream) ~> (j \in bloom[w])

-----------------------------------------------------------------------------
\* What the manager promises: see RevocationService.
Service == INSTANCE RevocationService WITH
    asked   <- Requested,
    durable <- Retained,
    open    <- {w \in Worker : phase[w] = "serving"},
    known   <- bloom

\* The manager implements RevocationService.
ImplementsService == Service!ServiceSpec

=============================================================================
