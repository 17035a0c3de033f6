--------------------------- MODULE AuditPipeline ---------------------------
(***************************************************************************)
(* The audit log from a logger call to a row of the table audit_logs:       *)
(* RedisLogBuffer of every worker process (redis_logger.py), the Redis       *)
(* stream "audit_logs" with its consumer group, and the AuditLogConsumer     *)
(* every worker embeds (consumer.py), with the start and the shutdown that   *)
(* lifespan() gives them.                                                    *)
(*                                                                           *)
(* A buffer is appended to and emptied under a lock that is never held       *)
(* across an await, so publish() up to the start of its flush is one step;   *)
(* the pipeline of a flush runs outside the lock, and several flushes of one *)
(* worker may be under way.  The pipeline is one MULTI/EXEC: all of its      *)
(* XADDs happen or none, and the reply may be lost either way.               *)
(***************************************************************************)
EXTENDS Naturals, Sequences, FiniteSets

CONSTANTS
    Logger,      \* the worker processes
    Entry,       \* log entries
    BufferSize,  \* RedisLogBuffer.buffer_size
    RetryCap,    \* entries of a failed batch, and of the buffer, that are kept
    ReadCount,   \* BATCH_SIZE of the consumer
    StreamCap,   \* MAX_STREAM_LEN
    MaxFaults    \* failures, crashes and restarts in one behaviour

ASSUME AuditAssumption ==
    /\ {BufferSize, ReadCount} \subseteq Nat \ {0}
    /\ {RetryCap, StreamCap, MaxFaults} \subseteq Nat

VARIABLES
    phase,    \* where each worker is in lifespan()
    buffer,   \* RedisLogBuffer._buffer of each worker
    flight,   \* batches taken from a buffer whose pipeline is not answered yet
    logged,   \* entries the application has logged
    stream,   \* every entry ever added to the Redis stream, oldest first
    trimmed,  \* how many of them MAXLEN has removed
    cursor,   \* last entry delivered to the consumer group
    pending,  \* positions delivered and not acknowledged
    hand,     \* the batch each worker's consumer is working on
    rows,     \* rows of audit_logs written from each stream position
    forgotten,\* entries a process lost from its memory
    evicted,  \* positions MAXLEN removed before they were delivered
    resent,   \* entries put back although their XADD had happened
    faults

auditVars == <<phase, buffer, flight, logged, stream, trimmed, cursor, pending,
               hand, rows, forgotten, evicted, resent, faults>>

redisVars == <<stream, trimmed, cursor, pending, rows, evicted>>
memoryVars == <<buffer, flight, logged, forgotten, resent>>

Position == DOMAIN stream
Elements(s) == {s[i] : i \in DOMAIN s}
Prefix(s, n) == SubSeq(s, 1, IF Len(s) < n THEN Len(s) ELSE n)

NoBatch == [stage |-> "none", taken |-> {}]
Batch(stage, taken) == [stage |-> stage, taken |-> taken]
Flight(w, by, batch) == [worker |-> w, by |-> by, batch |-> batch]

FlightsOf(w) == {f \in flight : f.worker = w}
Memory(w) == Elements(buffer[w]) \cup UNION {Elements(f.batch) : f \in FlightsOf(w)}

AuditInit ==
    /\ phase = [w \in Logger |-> "up"]
    /\ buffer = [w \in Logger |-> <<>>]
    /\ flight = {}
    /\ logged = {}
    /\ stream = <<>>
    /\ trimmed = 0
    /\ cursor = 0
    /\ pending = {}
    /\ hand = [w \in Logger |-> NoBatch]
    /\ rows = <<>>
    /\ forgotten = {}
    /\ evicted = {}
    /\ resent = {}
    /\ faults = 0

Fault == faults < MaxFaults /\ faults' = faults + 1

\* XADD with MAXLEN ~: the entries are appended, and of what exceeds the cap
\* any number of the oldest may be removed.
AddToStream(batch) ==
    \E t \in trimmed .. Len(stream) + Len(batch) :
        /\ t = trimmed \/ t + StreamCap <= Len(stream) + Len(batch)
        /\ stream' = stream \o batch
        /\ rows' = rows \o [i \in DOMAIN batch |-> 0]
        /\ trimmed' = t
        /\ evicted' = evicted \cup {p \in 1 .. t : p > cursor}
        /\ UNCHANGED <<cursor, pending>>

-----------------------------------------------------------------------------
(* The application's side: AuditLogger and RedisLogBuffer.                   *)

\* Under the lock: a non-empty buffer is copied and cleared, and the copy is
\* on its way to Redis.
TakeBatch(w, by, content) ==
    /\ flight' = flight \cup {Flight(w, by, content)}
    /\ buffer' = [buffer EXCEPT ![w] = <<>>]

\* info(), warning(), debug(), error() and audit(): publish() appends the entry
\* and flushes the buffer when it is full.
Publish(w, e) ==
    /\ phase[w] = "up"
    /\ e \notin logged
    /\ logged' = logged \cup {e}
    /\ LET content == Append(buffer[w], e) IN
          IF Len(content) >= BufferSize
          THEN TakeBatch(w, "publish", content)
          ELSE /\ buffer' = [buffer EXCEPT ![w] = content]
               /\ UNCHANGED flight
    /\ UNCHANGED <<phase, hand, forgotten, resent, faults, redisVars>>

\* force_info(), force_error(), log_exception()...: publish_immediate() adds one
\* entry without the buffer, and a failure is only printed.
PublishImmediate(w, e) ==
    /\ phase[w] = "up"
    /\ e \notin logged
    /\ logged' = logged \cup {e}
    /\ AddToStream(<<e>>)
    /\ UNCHANGED <<phase, hand, buffer, flight, forgotten, resent, faults>>

PublishImmediateFails(w, e) ==
    /\ phase[w] = "up"
    /\ e \notin logged
    /\ Fault
    /\ logged' = logged \cup {e}
    /\ forgotten' = forgotten \cup {e}
    /\ UNCHANGED <<phase, hand, buffer, flight, resent, redisVars>>

\* Mutant: the loop flushes full buffers only.
FlushTickFull(w) ==
    /\ phase[w] = "up"
    /\ Len(buffer[w]) >= BufferSize
    /\ TakeBatch(w, "loop", buffer[w])
    /\ UNCHANGED <<phase, hand, logged, forgotten, resent, faults, redisVars>>

\* _flush_loop(): every flush_interval the loop flushes what is there; it waits
\* for its own flush before the next one.
FlushTick(w) ==
    /\ phase[w] = "up"
    /\ buffer[w] # <<>>
    /\ \A f \in FlightsOf(w) : f.by # "loop"
    /\ TakeBatch(w, "loop", buffer[w])
    /\ UNCHANGED <<phase, hand, logged, forgotten, resent, faults, redisVars>>

\* Mutant: the buffer is cleared after the send instead of under the lock.
FlushDoneClears(f) ==
    /\ flight' = flight \ {f}
    /\ buffer' = [buffer EXCEPT ![f.worker] = <<>>]
    /\ AddToStream(f.batch)
    /\ UNCHANGED <<phase, hand, logged, forgotten, resent, faults>>

FlushDone(f) ==
    /\ flight' = flight \ {f}
    /\ AddToStream(f.batch)
    /\ UNCHANGED <<phase, hand, buffer, logged, forgotten, resent, faults>>

\* The except branch of _flush(): part of the batch and part of what was logged
\* meanwhile are kept, the rest is dropped.
PutBack(f) ==
    LET kept == Prefix(f.batch, RetryCap) \o Prefix(buffer[f.worker], RetryCap)
    IN  /\ flight' = flight \ {f}
        /\ buffer' = [buffer EXCEPT ![f.worker] = kept]
        /\ forgotten' = forgotten \cup
               ((Elements(f.batch) \cup Elements(buffer[f.worker])) \ Elements(kept))

FlushFails(f) ==
    /\ Fault
    /\ PutBack(f)
    /\ UNCHANGED <<phase, hand, logged, resent, redisVars>>

\* EXEC happened and its reply was lost: the batch is put back all the same.
FlushReplyLost(f) ==
    /\ Fault
    /\ AddToStream(f.batch)
    /\ PutBack(f)
    /\ resent' = resent \cup Elements(f.batch)
    /\ UNCHANGED <<phase, hand, logged>>

-----------------------------------------------------------------------------
(* The consumer: AuditLogConsumer.run() and process_batch().                 *)

Undelivered == {p \in Position : p > cursor /\ p > trimmed}
NextBatch == {p \in Undelivered : Cardinality({q \in Undelivered : q < p}) < ReadCount}
Last(p) == \A q \in NextBatch : q <= p

\* Mutant: the group's last-delivered id is one too low.
DeliverAgain ==
    /\ \E p \in NextBatch : Last(p) /\ cursor' = p - 1
    /\ pending' = pending \cup NextBatch
    /\ UNCHANGED <<stream, trimmed, rows, evicted>>

Deliver ==
    /\ \E p \in NextBatch : Last(p) /\ cursor' = p
    /\ pending' = pending \cup NextBatch
    /\ UNCHANGED <<stream, trimmed, rows, evicted>>

\* XREADGROUP ">": the group hands out entries no consumer has been given.
ReadGroupNew(w) ==
    /\ phase[w] = "up"
    /\ hand[w] = NoBatch
    /\ Deliver
    /\ hand' = [hand EXCEPT ![w] = Batch("insert", NextBatch)]
    /\ UNCHANGED <<phase, memoryVars, faults>>

\* The entries are in the group's pending list and the reply never arrives.
ReadReplyLost(w) ==
    /\ phase[w] = "up"
    /\ hand[w] = NoBatch
    /\ Fault
    /\ Deliver
    /\ UNCHANGED <<phase, hand, memoryVars>>

InsertRows(taken) ==
    rows' = [p \in DOMAIN rows |-> IF p \in taken THEN rows[p] + 1 ELSE rows[p]]

\* executemany() of one batch is one transaction.
InsertBatch(w) ==
    /\ hand[w].stage = "insert"
    /\ InsertRows(hand[w].taken)
    /\ hand' = [hand EXCEPT ![w].stage = "ack"]
    /\ UNCHANGED <<phase, stream, trimmed, cursor, pending, evicted, memoryVars, faults>>

\* An exception in process_batch() is printed by run(), which goes on with new
\* entries; the INSERT may have been committed.
InsertFails(w) ==
    /\ hand[w].stage = "insert"
    /\ Fault
    /\ InsertRows(hand[w].taken) \/ UNCHANGED rows
    /\ hand' = [hand EXCEPT ![w] = NoBatch]
    /\ UNCHANGED <<phase, stream, trimmed, cursor, pending, evicted, memoryVars>>

Acknowledge(w) ==
    /\ hand[w].stage = "ack"
    /\ pending' = pending \ hand[w].taken
    /\ hand' = [hand EXCEPT ![w] = NoBatch]
    /\ UNCHANGED <<phase, stream, trimmed, cursor, rows, evicted, memoryVars, faults>>

AcknowledgeFails(w) ==
    /\ hand[w].stage = "ack"
    /\ Fault
    /\ hand' = [hand EXCEPT ![w] = NoBatch]
    /\ UNCHANGED <<phase, redisVars, memoryVars>>

-----------------------------------------------------------------------------
(* Shutdown, crash and restart of a worker.                                  *)

\* lifespan() after its yield: the consumer's task is cancelled wherever it
\* waits; an INSERT under way may still be committed.
StopConsumer(w) ==
    /\ phase[w] = "up"
    /\ Fault
    /\ phase' = [phase EXCEPT ![w] = "closing"]
    /\ \/ hand[w].stage = "insert" /\ InsertRows(hand[w].taken)
       \/ UNCHANGED rows
    /\ hand' = [hand EXCEPT ![w] = NoBatch]
    /\ UNCHANGED <<stream, trimmed, cursor, pending, evicted, memoryVars>>

\* RedisLogBuffer.stop() cancels the flush loop.  CancelledError passes the
\* except clause of _flush(): a batch the loop has in flight is not put back,
\* whether its EXEC happens or not.
CancelFlushLoop(w) ==
    LET mine == {f \in FlightsOf(w) : f.by = "loop"} IN
    /\ phase[w] = "closing"
    /\ phase' = [phase EXCEPT ![w] = "stopped"]
    /\ flight' = flight \ mine
    /\ \/ /\ mine # {}
          /\ \A f \in mine : AddToStream(f.batch)
          /\ UNCHANGED forgotten
       \/ /\ forgotten' = forgotten \cup UNION {Elements(f.batch) : f \in mine}
          /\ UNCHANGED redisVars
    /\ UNCHANGED <<hand, buffer, logged, resent, faults>>

\* The last _flush() of stop().
FinalFlush(w) ==
    /\ phase[w] = "stopped"
    /\ phase' = [phase EXCEPT ![w] = "flushed"]
    /\ IF buffer[w] = <<>> THEN UNCHANGED <<buffer, flight>>
                           ELSE TakeBatch(w, "stop", buffer[w])
    /\ UNCHANGED <<hand, logged, forgotten, resent, faults, redisVars>>

\* The process ends with its memory.
LoseMemory(w) ==
    /\ phase' = [phase EXCEPT ![w] = "down"]
    /\ forgotten' = forgotten \cup Memory(w)
    /\ buffer' = [buffer EXCEPT ![w] = <<>>]
    /\ flight' = flight \ FlightsOf(w)
    /\ hand' = [hand EXCEPT ![w] = NoBatch]
    /\ UNCHANGED <<logged, resent, redisVars>>

\* shutdown_audit_logger() returns when stop() has sent its last batch; flushes
\* of publish() calls are not waited for.
ExitWorker(w) ==
    /\ phase[w] = "flushed"
    /\ \A f \in FlightsOf(w) : f.by # "stop"
    /\ LoseMemory(w)
    /\ UNCHANGED faults

CrashWorker(w) ==
    /\ phase[w] # "down"
    /\ Fault
    /\ LoseMemory(w)

\* init_audit_logger() and AuditLogConsumer.connect(): a new buffer, and a
\* consumer under a new name (the process id).
StartWorker(w) ==
    /\ phase[w] = "down"
    /\ Fault
    /\ phase' = [phase EXCEPT ![w] = "up"]
    /\ UNCHANGED <<hand, memoryVars, redisVars>>

-----------------------------------------------------------------------------
AuditNext ==
    \/ \E w \in Logger, e \in Entry :
          Publish(w, e) \/ PublishImmediate(w, e) \/ PublishImmediateFails(w, e)
    \/ \E f \in flight : FlushDone(f) \/ FlushFails(f) \/ FlushReplyLost(f)
    \/ \E w \in Logger :
          \/ FlushTick(w)
          \/ ReadGroupNew(w) \/ ReadReplyLost(w)
          \/ InsertBatch(w) \/ InsertFails(w)
          \/ Acknowledge(w) \/ AcknowledgeFails(w)
          \/ StopConsumer(w) \/ CancelFlushLoop(w) \/ FinalFlush(w)
          \/ ExitWorker(w) \/ CrashWorker(w) \/ StartWorker(w)

AuditSpec == AuditInit /\ [][AuditNext]_auditVars

\* The event loop runs the flush loop, the consumer and the flushes under way,
\* and a shutdown that has begun goes on.
AuditFairness ==
    \A w \in Logger :
        /\ WF_auditVars(FlushTick(w))
        /\ WF_auditVars(\E f \in FlightsOf(w) : FlushDone(f))
        /\ WF_auditVars(ReadGroupNew(w))
        /\ WF_auditVars(InsertBatch(w))
        /\ WF_auditVars(Acknowledge(w))
        /\ WF_auditVars(CancelFlushLoop(w) \/ FinalFlush(w) \/ ExitWorker(w))

FairAuditSpec == AuditSpec /\ AuditFairness
-----------------------------------------------------------------------------
(* Properties.                                                               *)

Phase == {"up", "closing", "stopped", "flushed", "down"}

\* Every variable holds what the buffer, the stream and the consumer can hold;
\* a flush is owned by the loop, a publish() call or stop().
AuditTypeOK ==
    /\ phase \in [Logger -> Phase]
    /\ buffer \in [Logger -> Seq(Entry)]
    /\ flight \subseteq [worker : Logger, by : {"publish", "loop", "stop"},
                         batch : Seq(Entry)]
    /\ logged \subseteq Entry
    /\ stream \in Seq(Entry)
    /\ rows \in Seq(Nat)
    /\ Len(rows) = Len(stream)
    /\ trimmed \in Nat
    /\ cursor \in Nat
    /\ cursor <= Len(stream)
    /\ pending \subseteq Position
    /\ hand \in [Logger -> [stage : {"none", "insert", "ack"}, taken : SUBSET Position]]
    /\ forgotten \subseteq Entry
    /\ evicted \subseteq Position
    /\ resent \subseteq Entry
    /\ faults \in Nat

InHand(p) == \E w \in Logger : p \in hand[w].taken

\* The entries that were delivered to a consumer which then failed or died: the
\* group keeps them pending, and no consumer asks for pending entries.
Stranded(p) == p \in pending /\ ~ InHand(p)

OnTheWay(p) == p \in Undelivered \/ InHand(p)

\* A logged entry is in a worker's memory, on its way through the stream, in the
\* table, stranded in the pending list of a consumer that failed, evicted by
\* MAXLEN, or was dropped from memory by a failed flush, a cancelled flush or
\* the end of a process: flushing, putting back and consuming lose nothing else
\* (_flush, publish, process_batch).
NothingVanishes ==
    \A e \in logged :
        \/ \E w \in Logger : e \in Memory(w)
        \/ \E p \in Position :
              stream[p] = e /\ (OnTheWay(p) \/ rows[p] > 0 \/ Stranded(p) \/ p \in evicted)
        \/ e \in forgotten

\* However often consumers fail, die and restart, a stream entry is inserted at
\* most once, and a log entry has two rows only if a flush put it back after its
\* XADD had happened.
OneRowPerEntry ==
    /\ \A p \in Position : rows[p] <= 1
    /\ \A p, q \in Position :
          stream[p] = stream[q] /\ rows[p] > 0 /\ rows[q] > 0 => p = q \/ stream[p] \in resent

Arrived(e) ==
    \/ e \in forgotten
    \/ \E p \in Position : stream[p] = e /\ (rows[p] > 0 \/ Stranded(p) \/ p \in evicted)

\* As long as a worker runs, every logged entry reaches the table, or is lost in
\* one of the ways NothingVanishes names: no entry stays in a buffer or in the
\* stream for ever.
EntriesArrive ==
    \A e \in Entry :
        e \in logged ~> Arrived(e) \/ \A w \in Logger : phase[w] # "up"

=============================================================================
