--------------------------- MODULE PlatformProofs ---------------------------
(***************************************************************************)
(* Proofs about the two components MCPlatform puts side by side.             *)
(*                                                                           *)
(* AuditPipeline: where every logged entry is, and that it gets one row.     *)
(* PlaceInv follows an entry from the memory of a worker to the stream,       *)
(* PositionInv a position of the stream from its delivery to its row.         *)
(*                                                                           *)
(* ConfigStore: what a request has read of a document is still the document,  *)
(* or the request is marked out of date (Fresh); every value in a document    *)
(* was provided for it (Provided); a cached list is current or somebody is    *)
(* about to delete it (ListsStay).                                            *)
(***************************************************************************)
EXTENDS MCPlatform, FiniteSetTheorems, TLAPS

(* The audit pipeline.                                                       *)

USE AuditAssumption DEF AuditAssumption

Distinct(s) == \A i, j \in DOMAIN s : s[i] = s[j] => i = j
Apart(s, t) == Elements(s) \cap Elements(t) = {}

\* What the workers hold in memory.
HeldIn(b, fl) ==
    (UNION {Elements(b[w]) : w \in Logger}) \cup (UNION {Elements(f.batch) : f \in fl})

Held == HeldIn(buffer, flight)

\* An entry is in one place of one buffer or of one batch in flight.
MemoryInv ==
    /\ Held \subseteq logged
    /\ \A w \in Logger : Distinct(buffer[w])
    /\ \A f \in flight : Distinct(f.batch)
    /\ \A v, w \in Logger : v # w => Apart(buffer[v], buffer[w])
    /\ \A w \in Logger, f \in flight : Apart(buffer[w], f.batch)
    /\ \A f, g \in flight : f # g => Apart(f.batch, g.batch)

\* An entry is at one position of the stream and then not in memory, unless it has
\* been put back after its XADD.
StreamInv ==
    /\ Elements(stream) \subseteq logged
    /\ \A p, q \in Position : stream[p] = stream[q] => p = q \/ stream[p] \in resent
    /\ Held \cap Elements(stream) \subseteq resent

\* No logged entry is nowhere.
AccountInv == logged \subseteq Held \cup Elements(stream) \cup forgotten

PlaceInv == MemoryInv /\ StreamInv /\ AccountInv

\* A position is delivered after those before it, and what was delivered is pending
\* until it has its row.
PositionInv ==
    \A p \in Position :
        /\ rows[p] <= 1
        /\ p > cursor => rows[p] = 0
        /\ p > cursor /\ p <= trimmed => p \in evicted
        /\ p <= cursor => p \in evicted \cup pending \/ rows[p] > 0

\* The batches of the consumers have been delivered, each to one of them.
HandInv ==
    /\ \A w \in Logger : \A p \in hand[w].taken :
          /\ p <= cursor
          /\ hand[w].stage = "insert" => rows[p] = 0
          /\ hand[w].stage = "ack" => rows[p] > 0
    /\ \A v, w \in Logger : v # w => hand[v].taken \cap hand[w].taken = {}

RedisType ==
    /\ stream \in Seq(Entry) /\ rows \in Seq(Nat) /\ Len(rows) = Len(stream)
    /\ trimmed \in Nat /\ cursor \in Nat /\ cursor <= Len(stream)
    /\ pending \subseteq Position /\ evicted \subseteq Position
    /\ hand \in [Logger -> [stage : {"none", "insert", "ack"}, taken : SUBSET Position]]

MemoryType ==
    /\ phase \in [Logger -> Phase]
    /\ buffer \in [Logger -> Seq(Entry)]
    /\ flight \subseteq [worker : Logger, by : {"publish", "loop", "stop"},
                         batch : Seq(Entry)]
    /\ logged \subseteq Entry /\ forgotten \subseteq Entry /\ resent \subseteq Entry
    /\ faults \in Nat

DeliveryInv == RedisType /\ PositionInv /\ HandInv

AuditInv == MemoryType /\ PlaceInv /\ DeliveryInv
-----------------------------------------------------------------------------
(* Sequences of entries.                                                     *)

LEMMA ElementsOfJoin ==
    ASSUME NEW S, NEW s \in Seq(S), NEW t \in Seq(S)
    PROVE  /\ s \o t \in Seq(S) /\ Len(s \o t) = Len(s) + Len(t)
           /\ Elements(s \o t) = Elements(s) \cup Elements(t)
<1>1. s \o t \in Seq(S) /\ Len(s \o t) = Len(s) + Len(t)
  OBVIOUS
<1>2. Elements(s \o t) \subseteq Elements(s) \cup Elements(t)
  <2> SUFFICES ASSUME NEW i \in DOMAIN (s \o t)
               PROVE  (s \o t)[i] \in Elements(s) \cup Elements(t)
    BY DEF Elements
  <2>1. CASE i <= Len(s)
    BY <2>1 DEF Elements
  <2>2. CASE i > Len(s)
    <3>1. (s \o t)[i] = t[i - Len(s)] /\ i - Len(s) \in DOMAIN t
      BY <2>2
    <3> QED
      BY <3>1 DEF Elements
  <2> QED
    BY <2>1, <2>2
<1>3. ASSUME NEW i \in DOMAIN s PROVE s[i] \in Elements(s \o t)
  <2>1. i \in DOMAIN (s \o t) /\ (s \o t)[i] = s[i]
    OBVIOUS
  <2> QED
    BY <2>1 DEF Elements
<1>4. ASSUME NEW i \in DOMAIN t PROVE t[i] \in Elements(s \o t)
  <2>1. Len(s) + i \in DOMAIN (s \o t) /\ (s \o t)[Len(s) + i] = t[i]
    OBVIOUS
  <2> QED
    BY <2>1 DEF Elements
<1> QED
  BY <1>1, <1>2, <1>3, <1>4 DEF Elements

LEMMA JoinAt ==
    ASSUME NEW S, NEW s \in Seq(S), NEW t \in Seq(S)
    PROVE  /\ \A i \in DOMAIN s : (s \o t)[i] = s[i]
           /\ \A i \in Len(s) + 1 .. Len(s) + Len(t) : (s \o t)[i] = t[i - Len(s)]
  OBVIOUS

LEMMA DistinctJoin ==
    ASSUME NEW S, NEW s \in Seq(S), NEW t \in Seq(S), Distinct(s), Distinct(t), Apart(s, t)
    PROVE  Distinct(s \o t)
<1> SUFFICES ASSUME NEW i \in DOMAIN (s \o t), NEW j \in DOMAIN (s \o t),
                    (s \o t)[i] = (s \o t)[j]
             PROVE  i = j
  BY DEF Distinct
<1>1. /\ i \in DOMAIN s => (s \o t)[i] = s[i]
      /\ i \notin DOMAIN s => i - Len(s) \in DOMAIN t /\ (s \o t)[i] = t[i - Len(s)]
  OBVIOUS
<1>2. /\ j \in DOMAIN s => (s \o t)[j] = s[j]
      /\ j \notin DOMAIN s => j - Len(s) \in DOMAIN t /\ (s \o t)[j] = t[j - Len(s)]
  OBVIOUS
<1>3. \A x \in DOMAIN s, y \in DOMAIN t : s[x] # t[y]
  BY DEF Apart, Elements
<1>4. CASE i \in DOMAIN s /\ j \in DOMAIN s
  BY <1>1, <1>2, <1>4 DEF Distinct
<1>5. CASE i \notin DOMAIN s /\ j \notin DOMAIN s
  <2>1. i - Len(s) = j - Len(s)
    BY <1>1, <1>2, <1>5 DEF Distinct
  <2> QED
    BY <2>1
<1> QED
  BY <1>1, <1>2, <1>3, <1>4, <1>5

LEMMA PrefixKeeps ==
    ASSUME NEW S, NEW s \in Seq(S), NEW n \in Nat
    PROVE  /\ Prefix(s, n) \in Seq(S)
           /\ Elements(Prefix(s, n)) \subseteq Elements(s)
           /\ Distinct(s) => Distinct(Prefix(s, n))
<1> DEFINE m == IF Len(s) < n THEN Len(s) ELSE n
<1>1. m \in Nat /\ m <= Len(s)
  OBVIOUS
<1>2. Prefix(s, n) \in Seq(S) /\ DOMAIN Prefix(s, n) = 1 .. m
  BY <1>1 DEF Prefix
<1>3. \A i \in 1 .. m : i \in DOMAIN s /\ Prefix(s, n)[i] = s[i]
  BY <1>1 DEF Prefix
<1> QED
  BY <1>2, <1>3 DEF Elements, Distinct

LEMMA AppendAdds ==
    ASSUME NEW S, NEW s \in Seq(S), NEW e \in S
    PROVE  /\ Append(s, e) \in Seq(S)
           /\ Elements(Append(s, e)) = Elements(s) \cup {e}
           /\ Distinct(s) /\ e \notin Elements(s) => Distinct(Append(s, e))
<1>1. Append(s, e) \in Seq(S) /\ DOMAIN Append(s, e) = DOMAIN s \cup {Len(s) + 1}
  OBVIOUS
<1>2. /\ \A i \in DOMAIN s : Append(s, e)[i] = s[i]
      /\ Append(s, e)[Len(s) + 1] = e
  OBVIOUS
<1>3. Elements(Append(s, e)) = Elements(s) \cup {e}
  BY <1>1, <1>2 DEF Elements
<1> QED
  BY <1>1, <1>2, <1>3 DEF Distinct, Elements

-----------------------------------------------------------------------------
(* From the stream to the table.                                             *)

\* A step in which no consumer gets on, though one may lose its batch.
HandRests ==
    hand' = hand \/ \E w \in Logger : hand' = [hand EXCEPT ![w] = NoBatch]

LEMMA HandRestsWell ==
    ASSUME RedisType, HandRests
    PROVE  /\ hand' \in [Logger -> [stage : {"none", "insert", "ack"}, taken : SUBSET Position]]
           /\ \A w \in Logger : \/ hand'[w] = hand[w]
                                \/ hand'[w].taken = {} /\ hand'[w].stage = "none"
BY DEF RedisType, HandRests, NoBatch

\* What XADD does to the stream and to the rows of its positions.
Added(batch) ==
    /\ stream' = stream \o batch /\ stream' \in Seq(Entry)
    /\ rows' \in Seq(Nat) /\ Len(rows') = Len(stream')
    /\ Position \subseteq Position' /\ Len(stream) <= Len(stream')
    /\ \A p \in Position : rows'[p] = rows[p]
    /\ \A p \in Position' : p \notin Position => p > Len(stream) /\ rows'[p] = 0
    /\ trimmed' \in Nat
    /\ evicted' = evicted \cup {p \in 1 .. trimmed' : p > cursor}
    /\ evicted' \subseteq Position'
    /\ cursor' = cursor /\ pending' = pending

LEMMA AddEffect ==
    ASSUME RedisType, NEW batch \in Seq(Entry), AddToStream(batch)
    PROVE  Added(batch)
<1> DEFINE z == [i \in DOMAIN batch |-> 0]
<1>1. z \in Seq(Nat) /\ Len(z) = Len(batch) /\ \A i \in 1 .. Len(batch) : z[i] = 0
  OBVIOUS
<1>2. PICK t \in trimmed .. Len(stream) + Len(batch) :
        /\ stream' = stream \o batch
        /\ rows' = rows \o z
        /\ trimmed' = t
        /\ evicted' = evicted \cup {p \in 1 .. t : p > cursor}
        /\ UNCHANGED <<cursor, pending>>
  BY DEF AddToStream
<1> HIDE DEF z
<1>3. stream' \in Seq(Entry) /\ Len(stream') = Len(stream) + Len(batch)
  BY <1>2, ElementsOfJoin DEF RedisType
<1>4. rows' \in Seq(Nat) /\ Len(rows') = Len(stream')
  <2>1. rows \o z \in Seq(Nat) /\ Len(rows \o z) = Len(rows) + Len(z)
    BY <1>1, ElementsOfJoin DEF RedisType
  <2> QED
    BY <2>1, <1>1, <1>2, <1>3 DEF RedisType
<1>5. Position = 1 .. Len(stream) /\ Position' = 1 .. Len(stream')
      /\ Len(stream) \in Nat /\ Len(batch) \in Nat
  BY <1>3 DEF Position, RedisType
<1>6. \A p \in Position : rows'[p] = rows[p]
  <2>1. Position = DOMAIN rows
    BY <1>5 DEF RedisType
  <2> QED
    BY <2>1, <1>1, <1>2, JoinAt DEF RedisType
<1>7. ASSUME NEW p \in Position', p \notin Position PROVE p > Len(stream) /\ rows'[p] = 0
  <2>1. p > Len(stream) /\ p \in Len(rows) + 1 .. Len(rows) + Len(z)
        /\ p - Len(rows) \in 1 .. Len(batch)
    BY <1>1, <1>3, <1>5, <1>7 DEF RedisType
  <2>2. (rows \o z)[p] = z[p - Len(rows)]
    <3>1. \A i \in Len(rows) + 1 .. Len(rows) + Len(z) : (rows \o z)[i] = z[i - Len(rows)]
      BY <1>1, JoinAt DEF RedisType
    <3> QED
      BY <2>1, <3>1
  <2> QED
    BY <2>1, <2>2, <1>1, <1>2
<1>8. trimmed' \in Nat /\ trimmed' <= Len(stream')
  BY <1>2, <1>3, <1>5 DEF RedisType
<1>9. Position \subseteq Position' /\ Len(stream) <= Len(stream')
  BY <1>3, <1>5
<1>10. evicted' \subseteq Position'
  <2>1. evicted \subseteq Position'
    BY <1>9 DEF RedisType
  <2>2. 1 .. t \subseteq Position'
    BY <1>2, <1>5, <1>8
  <2> QED
    BY <1>2, <2>1, <2>2
<1> QED
  BY <1>2, <1>3, <1>4, <1>6, <1>7, <1>8, <1>9, <1>10 DEF Added

LEMMA DeliveryByAdd ==
    ASSUME DeliveryInv, NEW batch \in Seq(Entry), AddToStream(batch), HandRests
    PROVE  DeliveryInv'
<1>0. Added(batch) /\ RedisType /\ PositionInv /\ HandInv
  BY AddEffect DEF DeliveryInv
<1>4. Position \subseteq Nat
  BY <1>0 DEF Position, RedisType
<1>1. RedisType'
  <2>1. hand' \in [Logger -> [stage : {"none", "insert", "ack"}, taken : SUBSET Position']]
    BY <1>0, HandRestsWell DEF RedisType, Added
  <2> QED
    BY <1>0, <2>1 DEF RedisType, Added
<1>2. PositionInv'
  <2> SUFFICES ASSUME NEW p \in Position'
               PROVE  /\ rows'[p] <= 1
                      /\ p > cursor' => rows'[p] = 0
                      /\ p > cursor' /\ p <= trimmed' => p \in evicted'
                      /\ p <= cursor' => p \in evicted' \cup pending' \/ rows'[p] > 0
    BY DEF PositionInv
  <2>1. p \in Nat /\ p > 0
    BY <1>1 DEF Position, RedisType
  <2>4. p > cursor' /\ p <= trimmed' => p \in evicted'
    BY <2>1, <1>0 DEF Added
  <2>2. CASE p \in Position
    BY <2>1, <2>2, <2>4, <1>0 DEF Added, PositionInv
  <2>3. CASE p \notin Position
    BY <2>1, <2>3, <2>4, <1>0 DEF Added, RedisType
  <2> QED
    BY <2>2, <2>3
<1>3. HandInv'
  <2>1. \A w \in Logger : hand[w].taken \subseteq Position
    BY <1>0 DEF RedisType
  <2>2. \A w \in Logger : hand'[w] = hand[w] \/ hand'[w].taken = {}
    BY <1>0, HandRestsWell
  <2>3. \A w \in Logger : hand'[w].taken \subseteq hand[w].taken
    BY <2>2
  <2>4. \A v, w \in Logger : v # w => hand'[v].taken \cap hand'[w].taken = {}
    BY <1>0, <2>3 DEF HandInv
  <2>5. ASSUME NEW w \in Logger, NEW p \in hand'[w].taken
        PROVE  /\ p <= cursor'
               /\ hand'[w].stage = "insert" => rows'[p] = 0
               /\ hand'[w].stage = "ack" => rows'[p] > 0
    <3>1. hand'[w] = hand[w] /\ p \in Position
      BY <2>1, <2>2, <2>5
    <3>2. rows'[p] = rows[p] /\ cursor' = cursor
      BY <1>0, <3>1 DEF Added
    <3> QED
      BY <1>0, <2>5, <3>1, <3>2 DEF HandInv
  <2> QED
    BY <2>4, <2>5 DEF HandInv
<1> QED
  BY <1>1, <1>2, <1>3 DEF DeliveryInv

LEMMA DeliveryRests ==
    ASSUME DeliveryInv, UNCHANGED redisVars, HandRests
    PROVE  DeliveryInv'
<1>1. RedisType' /\ PositionInv'
  BY HandRestsWell DEF DeliveryInv, RedisType, PositionInv, Position, redisVars
<1>2. HandInv'
  BY HandRestsWell DEF DeliveryInv, HandInv, redisVars
<1> QED
  BY <1>1, <1>2 DEF DeliveryInv

\* A batch of the group has every undelivered entry up to its last one.
LEMMA BatchIsPrefix ==
    ASSUME RedisType, NEW p \in NextBatch, NEW q \in Undelivered, q <= p
    PROVE  q \in NextBatch
<1> DEFINE Before(x) == {y \in Undelivered : y < x}
<1>1. Undelivered \subseteq 1 .. Len(stream) /\ Len(stream) \in Nat
  BY DEF Undelivered, Position, RedisType
<1>2. Before(q) \subseteq Before(p)
  <2>1. p \in Nat /\ q \in Nat /\ Undelivered \subseteq Nat
    BY <1>1 DEF NextBatch
  <2>2. \A y \in Nat : y < q => y < p
    BY <2>1
  <2> QED
    BY <2>1, <2>2
<1>3. IsFiniteSet(1 .. Len(stream))
  BY <1>1, FS_Interval
<1>4. IsFiniteSet(Before(p))
  BY <1>1, <1>3, FS_Subset
<1>5. /\ Cardinality(Before(p)) \in Nat /\ Cardinality(Before(q)) \in Nat
      /\ Cardinality(Before(q)) <= Cardinality(Before(p))
  BY <1>2, <1>4, FS_Subset, FS_CardinalityType
<1>6. Cardinality(Before(p)) < ReadCount
  BY DEF NextBatch
<1> HIDE DEF Before
<1>7. Cardinality(Before(q)) < ReadCount
  BY <1>5, <1>6
<1> QED
  BY <1>7 DEF NextBatch, Before

LEMMA DeliveryByRead ==
    ASSUME DeliveryInv, Deliver, NEW w \in Logger, hand[w] = NoBatch,
           hand' = hand \/ hand' = [hand EXCEPT ![w] = Batch("insert", NextBatch)]
    PROVE  DeliveryInv'
<1> PICK last \in NextBatch :
        /\ \A q \in NextBatch : q <= last
        /\ cursor' = last
  BY DEF Deliver, Last
<1>1. /\ RedisType /\ PositionInv /\ HandInv
      /\ pending' = pending \cup NextBatch
      /\ UNCHANGED <<stream, trimmed, rows, evicted>>
  BY DEF DeliveryInv, Deliver
<1>2. /\ NextBatch \subseteq Position /\ Position \subseteq 1 .. Len(stream)
      /\ Position' = Position /\ Len(stream) \in Nat
      /\ \A q \in NextBatch : q > cursor
  BY <1>1 DEF NextBatch, Undelivered, Position, RedisType
<1>3. last \in Nat /\ last > cursor /\ cursor \in Nat /\ last <= Len(stream)
  BY <1>1, <1>2 DEF RedisType
<1>4. \A v \in Logger : hand'[v] = hand[v] \/ (v = w /\ hand'[v] = Batch("insert", NextBatch))
  <2>1. DOMAIN hand = Logger
    BY <1>1 DEF RedisType
  <2>2. CASE hand' = hand
    BY <2>2
  <2>3. CASE hand' = [hand EXCEPT ![w] = Batch("insert", NextBatch)]
    <3> SUFFICES ASSUME NEW v \in Logger
                 PROVE  hand'[v] = hand[v] \/ (v = w /\ hand'[v] = Batch("insert", NextBatch))
      OBVIOUS
    <3> QED
      BY <2>1, <2>3
  <2> QED
    BY <2>2, <2>3
<1>5. RedisType'
  <2>1. Batch("insert", NextBatch) \in [stage : {"none", "insert", "ack"}, taken : SUBSET Position]
    BY <1>2 DEF Batch
  <2>2. hand' \in [Logger -> [stage : {"none", "insert", "ack"}, taken : SUBSET Position]]
    BY <1>1, <2>1 DEF RedisType
  <2> QED
    BY <1>1, <1>2, <1>3, <2>2 DEF RedisType
<1>6. PositionInv'
  <2> SUFFICES ASSUME NEW p \in Position
               PROVE  /\ rows[p] <= 1
                      /\ p > cursor' => rows[p] = 0
                      /\ p > cursor' /\ p <= trimmed => p \in evicted
                      /\ p <= cursor' => p \in evicted \cup pending' \/ rows[p] > 0
    BY <1>1, <1>2 DEF PositionInv
  <2>1. p \in Nat /\ trimmed \in Nat
    BY <1>1, <1>2 DEF RedisType
  <2>2. rows[p] <= 1 /\ (p > cursor => rows[p] = 0) /\ (p > cursor /\ p <= trimmed => p \in evicted)
        /\ (p <= cursor => p \in evicted \cup pending \/ rows[p] > 0)
    BY <1>1 DEF PositionInv
  <2>3. p > cursor /\ p <= last /\ p > trimmed => p \in NextBatch
    BY <1>1, BatchIsPrefix DEF Undelivered
  <2> QED
    BY <1>1, <1>3, <2>1, <2>2, <2>3
<1>7. HandInv'
  <2>1. ASSUME NEW v \in Logger, NEW p \in hand'[v].taken
        PROVE  /\ p <= last
               /\ hand'[v].stage = "insert" => rows[p] = 0
               /\ hand'[v].stage = "ack" => rows[p] > 0
    <3>1. CASE hand'[v] = hand[v]
      <4>1. p \in Position /\ p <= cursor
        BY <1>1, <2>1, <3>1 DEF HandInv, RedisType
      <4> QED
        BY <1>1, <1>2, <1>3, <2>1, <3>1, <4>1 DEF HandInv
    <3>2. CASE hand'[v] = Batch("insert", NextBatch)
      <4>1. p \in NextBatch /\ hand'[v].stage = "insert"
        BY <2>1, <3>2 DEF Batch
      <4> QED
        BY <1>1, <1>2, <4>1 DEF PositionInv
    <3> QED
      BY <1>4, <3>1, <3>2
  <2>2. ASSUME NEW u \in Logger, NEW v \in Logger, u # v
        PROVE  hand'[u].taken \cap hand'[v].taken = {}
    <3>1. \A x \in Logger : hand[x].taken \cap NextBatch = {}
      <4> SUFFICES ASSUME NEW x \in Logger, NEW p \in hand[x].taken, p \in NextBatch PROVE FALSE
        OBVIOUS
      <4>1. p <= cursor /\ p > cursor /\ p \in Nat /\ cursor \in Nat
        BY <1>1, <1>2, <1>3 DEF HandInv
      <4> QED
        BY <4>1
    <3> QED
      BY <1>1, <1>4, <2>2, <3>1 DEF HandInv, Batch
  <2> QED
    BY <1>1, <2>1, <2>2 DEF HandInv
<1> QED
  BY <1>5, <1>6, <1>7 DEF DeliveryInv

LEMMA DeliveryByInsert ==
    ASSUME DeliveryInv, NEW w \in Logger, hand[w].stage = "insert",
           InsertRows(hand[w].taken),
           UNCHANGED <<stream, trimmed, cursor, pending, evicted>>,
           hand' = [hand EXCEPT ![w].stage = "ack"] \/ hand' = [hand EXCEPT ![w] = NoBatch]
    PROVE  DeliveryInv'
<1> DEFINE taken == hand[w].taken
<1>1. /\ RedisType /\ PositionInv /\ HandInv /\ taken \subseteq Position
      /\ Position = DOMAIN rows /\ Position' = Position
  BY DEF DeliveryInv, RedisType, Position
<1>2. rows' \in Seq(Nat) /\ Len(rows') = Len(rows)
  <2>1. /\ DOMAIN rows = 1 .. Len(rows) /\ Len(rows) \in Nat
        /\ \A p \in 1 .. Len(rows) : rows[p] \in Nat
    BY <1>1 DEF RedisType
  <2>2. rows' = [p \in 1 .. Len(rows) |-> rows'[p]]
    BY <2>1 DEF InsertRows
  <2>3. \A p \in 1 .. Len(rows) : rows'[p] \in Nat
    BY <2>1 DEF InsertRows
  <2> QED
    BY <2>1, <2>2, <2>3
<1>3. \A p \in Position : p \in taken => rows[p] = 0 /\ rows'[p] = 1
  BY <1>1 DEF InsertRows, HandInv
<1>4. \A p \in Position : p \notin taken => rows'[p] = rows[p]
  BY <1>1 DEF InsertRows
<1>5. /\ \A v \in Logger : v # w => hand'[v] = hand[v]
      /\ hand'[w] = [stage |-> "ack", taken |-> taken] \/ hand'[w] = NoBatch
  BY <1>1 DEF RedisType
<1>6. RedisType'
  <2>1. hand' \in [Logger -> [stage : {"none", "insert", "ack"}, taken : SUBSET Position]]
    <3>1. hand' = [v \in Logger |-> hand'[v]]
      BY <1>1 DEF RedisType
    <3>2. hand'[w] \in [stage : {"none", "insert", "ack"}, taken : SUBSET Position]
      BY <1>1, <1>5 DEF NoBatch
    <3> QED
      BY <1>1, <1>5, <3>1, <3>2 DEF RedisType
  <2> QED
    BY <1>1, <1>2, <2>1 DEF RedisType
<1>7. PositionInv'
  <2> SUFFICES ASSUME NEW p \in Position
               PROVE  /\ rows'[p] <= 1
                      /\ p > cursor => rows'[p] = 0
                      /\ p > cursor /\ p <= trimmed => p \in evicted
                      /\ p <= cursor => p \in evicted \cup pending \/ rows'[p] > 0
    BY <1>1 DEF PositionInv
  <2>1. p \in Nat /\ cursor \in Nat
    BY <1>1 DEF RedisType, Position
  <2>2. CASE p \in taken
    <3>1. p <= cursor
      BY <1>1, <2>2 DEF HandInv
    <3> QED
      BY <1>1, <1>3, <2>1, <2>2, <3>1 DEF PositionInv
  <2>3. CASE p \notin taken
    BY <1>1, <1>4, <2>3 DEF PositionInv
  <2> QED
    BY <2>2, <2>3
<1>8. HandInv'
  <2>1. ASSUME NEW v \in Logger, NEW p \in hand'[v].taken
        PROVE  /\ p <= cursor
               /\ hand'[v].stage = "insert" => rows'[p] = 0
               /\ hand'[v].stage = "ack" => rows'[p] > 0
    <3>1. CASE v # w
      <4>1. p \in hand[v].taken /\ p \in Position /\ p \notin taken /\ hand'[v] = hand[v]
        BY <1>1, <1>5, <2>1, <3>1 DEF HandInv, RedisType
      <4> QED
        BY <1>1, <1>4, <4>1 DEF HandInv
    <3>2. CASE v = w
      <4>1. p \in taken /\ p \in Position /\ hand'[v].stage = "ack"
        BY <1>1, <1>5, <2>1, <3>2 DEF NoBatch
      <4> QED
        BY <1>1, <1>3, <4>1 DEF HandInv
    <3> QED
      BY <3>1, <3>2
  <2>2. \A v \in Logger : hand'[v].taken \subseteq hand[v].taken
    BY <1>5 DEF NoBatch
  <2>3. \A u, v \in Logger : u # v => hand'[u].taken \cap hand'[v].taken = {}
    BY <1>1, <2>2 DEF HandInv
  <2> QED
    BY <2>1, <2>3 DEF HandInv
<1> QED
  BY <1>6, <1>7, <1>8 DEF DeliveryInv

LEMMA DeliveryByAck ==
    ASSUME DeliveryInv, NEW w \in Logger, hand[w].stage = "ack",
           pending' = pending \ hand[w].taken, hand' = [hand EXCEPT ![w] = NoBatch],
           UNCHANGED <<stream, trimmed, cursor, rows, evicted>>
    PROVE  DeliveryInv'
<1>1. RedisType /\ PositionInv /\ HandInv /\ Position' = Position /\ HandRests
  BY DEF DeliveryInv, Position, HandRests
<1>2. RedisType'
  BY <1>1, HandRestsWell DEF RedisType
<1>3. PositionInv'
  BY <1>1 DEF PositionInv, HandInv
<1>4. HandInv'
  BY <1>1, HandRestsWell DEF HandInv
<1> QED
  BY <1>2, <1>3, <1>4 DEF DeliveryInv

-----------------------------------------------------------------------------
(* Memory.                                                                   *)

LEMMA EmptySequence == Elements(<<>>) = {} /\ Distinct(<<>>) /\ <<>> \in Seq(Entry)
BY DEF Elements, Distinct

LEMMA HeldInWhere ==
    ASSUME NEW b, NEW fl, NEW e
    PROVE  e \in HeldIn(b, fl) <=> \/ \E w \in Logger : e \in Elements(b[w])
                                   \/ \E f \in fl : e \in Elements(f.batch)
<1> DEFINE B == {Elements(b[w]) : w \in Logger}
           F == {Elements(f.batch) : f \in fl}
<1>1. e \in HeldIn(b, fl) <=> (\E s \in B : e \in s) \/ (\E s \in F : e \in s)
  <2>1. HeldIn(b, fl) = (UNION B) \cup (UNION F)
    BY DEF HeldIn
  <2> HIDE DEF B, F
  <2> QED
    BY <2>1
<1>2. (\E s \in B : e \in s) <=> (\E w \in Logger : e \in Elements(b[w]))
  OBVIOUS
<1>3. (\E s \in F : e \in s) <=> (\E f \in fl : e \in Elements(f.batch))
  OBVIOUS
<1> QED
  BY <1>1, <1>2, <1>3

LEMMA HeldWhere ==
    \A e : e \in Held <=> \/ \E w \in Logger : e \in Elements(buffer[w])
                          \/ \E f \in flight : e \in Elements(f.batch)
BY HeldInWhere DEF Held

LEMMA HeldThen ==
    \A e : e \in Held' <=> \/ \E w \in Logger : e \in Elements(buffer'[w])
                           \/ \E f \in flight' : e \in Elements(f.batch)
<1>1. Held' = HeldIn(buffer', flight')
  BY DEF Held, HeldIn, Elements
<1> QED
  BY <1>1, HeldInWhere

FlightType == [worker : Logger, by : {"publish", "loop", "stop"}, batch : Seq(Entry)]

\* What the application has logged since, if anything, joins the buffer of w, which
\* stays or takes off.
Joins(w, content, new) ==
    /\ content \in Seq(Entry) /\ Distinct(content)
    /\ Elements(content) = Elements(buffer[w]) \cup new
    /\ new \cap logged = {} /\ logged' = logged \cup new

LEMMA NewApart ==
    ASSUME MemoryInv, NEW w \in Logger, NEW content, NEW new, Joins(w, content, new)
    PROVE  /\ \A v \in Logger : v # w => Apart(buffer[v], content) /\ Apart(content, buffer[v])
           /\ \A f \in flight : Apart(content, f.batch) /\ Apart(f.batch, content)
<1>1. /\ \A v \in Logger : Elements(buffer[v]) \subseteq logged
      /\ \A f \in flight : Elements(f.batch) \subseteq logged
  BY HeldWhere DEF MemoryInv
<1> QED
  BY <1>1 DEF MemoryInv, Joins, Apart

LEMMA MemoryByPublish ==
    ASSUME MemoryType, MemoryInv, NEW w \in Logger, NEW content, NEW new,
           Joins(w, content, new),
           buffer' = [buffer EXCEPT ![w] = content], flight' = flight
    PROVE  buffer' \in [Logger -> Seq(Entry)] /\ MemoryInv' /\ Held' = Held \cup new
<1>1. buffer' \in [Logger -> Seq(Entry)]
  BY DEF MemoryType, Joins
<1>2. \A v \in Logger : buffer'[v] = IF v = w THEN content ELSE buffer[v]
  BY DEF MemoryType
<1>3. Elements(buffer[w]) \subseteq Held
  BY HeldWhere
<1>4. Held' = Held \cup new
  <2>1. \A v \in Logger : Elements(buffer'[v]) = IF v = w THEN Elements(content) ELSE Elements(buffer[v])
    BY <1>2
  <2>2. \A e : e \in Held' <=> \/ \E v \in Logger : e \in Elements(buffer'[v])
                               \/ \E f \in flight : e \in Elements(f.batch)
    BY HeldThen
  <2>3. Elements(content) = Elements(buffer[w]) \cup new
    BY DEF Joins
  <2> QED
    BY <2>1, <2>2, <2>3, HeldWhere
<1>5. \A v \in Logger : Distinct(buffer'[v])
  BY <1>2 DEF MemoryInv, Joins
<1>6. /\ \A u, v \in Logger : u # v => Apart(buffer'[u], buffer'[v])
      /\ \A v \in Logger, f \in flight : Apart(buffer'[v], f.batch)
  BY <1>2, NewApart DEF MemoryInv
<1>7. Held' \subseteq logged'
  BY <1>4 DEF MemoryInv, Joins
<1>8. MemoryInv'
  <2>1. /\ \A v \in Logger : Distinct(buffer[v])'
        /\ \A u, v \in Logger : u # v => Apart(buffer[u], buffer[v])'
        /\ \A v \in Logger, f \in flight : Apart(buffer[v], f.batch)'
    BY <1>5, <1>6 DEF Distinct, Apart, Elements
  <2> QED
    BY <2>1, <1>7 DEF MemoryInv, Distinct, Apart, Elements
<1> QED
  BY <1>1, <1>4, <1>8

LEMMA MemoryByTake ==
    ASSUME MemoryType, MemoryInv, NEW w \in Logger, NEW content, NEW new,
           Joins(w, content, new), NEW by \in {"publish", "loop", "stop"},
           TakeBatch(w, by, content)
    PROVE  /\ buffer' \in [Logger -> Seq(Entry)] /\ flight' \subseteq FlightType
           /\ MemoryInv' /\ Held' = Held \cup new
<1> DEFINE g == Flight(w, by, content)
<1>1. /\ g \in FlightType /\ g.batch = content /\ flight' = flight \cup {g}
  BY DEF TakeBatch, Flight, FlightType, Joins
<1> HIDE DEF g
<1>2. \A v \in Logger : buffer'[v] = IF v = w THEN <<>> ELSE buffer[v]
  BY DEF MemoryType, TakeBatch
<1>3. buffer' \in [Logger -> Seq(Entry)] /\ flight' \subseteq FlightType
  BY <1>1, EmptySequence DEF MemoryType, TakeBatch, FlightType
<1>4. Held' = Held \cup new
  <2>1. \A v \in Logger : Elements(buffer'[v]) = IF v = w THEN {} ELSE Elements(buffer[v])
    BY <1>2, EmptySequence
  <2>2. \A e : e \in Held' <=> \/ \E v \in Logger : e \in Elements(buffer'[v])
                               \/ \E f \in flight' : e \in Elements(f.batch)
    BY HeldThen
  <2>3. \A e : (\E f \in flight' : e \in Elements(f.batch))
               <=> (\E f \in flight : e \in Elements(f.batch)) \/ e \in Elements(content)
    BY <1>1
  <2>4. Elements(content) = Elements(buffer[w]) \cup new
    BY DEF Joins
  <2> QED
    BY <2>1, <2>2, <2>3, <2>4, HeldWhere
<1>5. \A v \in Logger : Distinct(buffer'[v])
  BY <1>2, EmptySequence DEF MemoryInv
<1>6. \A u, v \in Logger : u # v => Apart(buffer'[u], buffer'[v])
  BY <1>2, EmptySequence DEF MemoryInv, Apart
<1>7. \A v \in Logger, f \in flight' : Apart(buffer'[v], f.batch)
  BY <1>1, <1>2, EmptySequence, NewApart DEF MemoryInv, Apart
<1>8. \A f \in flight' : Distinct(f.batch)
  BY <1>1 DEF MemoryInv, Joins
<1>9. \A f, h \in flight' : f # h => Apart(f.batch, h.batch)
  BY <1>1, NewApart DEF MemoryInv
<1>10. Held' \subseteq logged'
  BY <1>4 DEF MemoryInv, Joins
<1>11. MemoryInv'
  BY <1>5, <1>6, <1>7, <1>8, <1>9, <1>10 DEF MemoryInv, Distinct, Apart, Elements
<1> QED
  BY <1>3, <1>4, <1>11

LEMMA MemoryShrinks ==
    ASSUME MemoryInv, flight' \subseteq flight, logged \subseteq logged',
           \A w \in Logger : buffer'[w] \in {buffer[w], <<>>}
    PROVE  MemoryInv' /\ Held' \subseteq Held
<1>1. \A w \in Logger : Elements(buffer'[w]) \subseteq Elements(buffer[w])
  BY EmptySequence
<1>2. Held' \subseteq Held
  BY <1>1, HeldWhere, HeldThen
<1>3. \A w \in Logger : Distinct(buffer'[w])
  BY EmptySequence DEF MemoryInv
<1>4. /\ \A v, w \in Logger : v # w => Apart(buffer'[v], buffer'[w])
      /\ \A w \in Logger, f \in flight' : Apart(buffer'[w], f.batch)
      /\ \A f, g \in flight' : f # g => Apart(f.batch, g.batch)
  BY <1>1 DEF MemoryInv, Apart
<1>5. \A f \in flight' : Distinct(f.batch)
  BY DEF MemoryInv
<1>6. Held' \subseteq logged'
  BY <1>2 DEF MemoryInv
<1> QED
  BY <1>2, <1>3, <1>4, <1>5, <1>6 DEF MemoryInv, Distinct, Apart, Elements

LEMMA MemoryRests ==
    ASSUME MemoryInv, UNCHANGED <<buffer, flight>>, logged \subseteq logged'
    PROVE  MemoryInv' /\ Held' = Held
<1>1. MemoryInv'
  BY MemoryShrinks
<1>2. Held' = Held
  BY DEF Held, HeldIn, Elements
<1> QED
  BY <1>1, <1>2

\* What is put back was in memory, and what is not kept is forgotten.
LEMMA MemoryByPutBack ==
    ASSUME MemoryType, MemoryInv, NEW f \in flight, PutBack(f), logged' = logged
    PROVE  /\ buffer' \in [Logger -> Seq(Entry)] /\ flight' \subseteq FlightType
           /\ forgotten' \subseteq Entry /\ forgotten \subseteq forgotten'
           /\ MemoryInv' /\ Held' \subseteq Held /\ Held \subseteq Held' \cup forgotten'
<1> DEFINE w == f.worker
           head == Prefix(f.batch, RetryCap)
           tail == Prefix(buffer[w], RetryCap)
           kept == head \o tail
<1>1. w \in Logger /\ f.batch \in Seq(Entry) /\ buffer[w] \in Seq(Entry) /\ RetryCap \in Nat
  BY DEF MemoryType
<1>2. /\ flight' = flight \ {f}
      /\ buffer' = [buffer EXCEPT ![w] = kept]
      /\ forgotten' = forgotten \cup
             ((Elements(f.batch) \cup Elements(buffer[w])) \ Elements(kept))
  BY DEF PutBack
<1>3. /\ head \in Seq(Entry) /\ Distinct(head) /\ Elements(head) \subseteq Elements(f.batch)
      /\ tail \in Seq(Entry) /\ Distinct(tail) /\ Elements(tail) \subseteq Elements(buffer[w])
  BY <1>1, PrefixKeeps DEF MemoryInv
<1> HIDE DEF head, tail, w
<1>4. Apart(head, tail)
  BY <1>1, <1>3 DEF MemoryInv, Apart
<1>5. /\ kept \in Seq(Entry) /\ Distinct(kept)
      /\ Elements(kept) = Elements(head) \cup Elements(tail)
  BY <1>3, <1>4, ElementsOfJoin, DistinctJoin
<1> HIDE DEF kept
<1>6. \A v \in Logger : buffer'[v] = IF v = w THEN kept ELSE buffer[v]
  BY <1>1, <1>2 DEF MemoryType
<1>7. buffer' \in [Logger -> Seq(Entry)] /\ flight' \subseteq FlightType
  BY <1>1, <1>2, <1>5 DEF MemoryType, FlightType
<1>8. Elements(f.batch) \subseteq Entry /\ Elements(buffer[w]) \subseteq Entry
  BY <1>1 DEF Elements
<1>9. forgotten' \subseteq Entry /\ forgotten \subseteq forgotten'
  BY <1>2, <1>8 DEF MemoryType
<1>10. Elements(kept) \subseteq Elements(f.batch) \cup Elements(buffer[w])
  BY <1>3, <1>5
<1>11. Held' \subseteq Held
  BY <1>1, <1>2, <1>6, <1>10, HeldWhere, HeldThen
<1>12. Held \subseteq Held' \cup forgotten'
  BY <1>1, <1>2, <1>6, HeldWhere, HeldThen
<1>13. /\ \A v \in Logger : Distinct(buffer'[v])
       /\ \A g \in flight' : Distinct(g.batch)
  BY <1>2, <1>5, <1>6 DEF MemoryInv
<1>14. \A u, v \in Logger : u # v => Apart(buffer'[u], buffer'[v])
  BY <1>1, <1>6, <1>10 DEF MemoryInv, Apart
<1>15. \A v \in Logger, g \in flight' : Apart(buffer'[v], g.batch)
  BY <1>1, <1>2, <1>6, <1>10 DEF MemoryInv, Apart
<1>16. \A g, h \in flight' : g # h => Apart(g.batch, h.batch)
  BY <1>2 DEF MemoryInv
<1>17. MemoryInv'
  <2>1. Held' \subseteq logged'
    BY <1>11 DEF MemoryInv
  <2> QED
    BY <2>1, <1>13, <1>14, <1>15, <1>16 DEF MemoryInv, Distinct, Apart, Elements
<1> QED
  BY <1>7, <1>9, <1>11, <1>12, <1>17

-----------------------------------------------------------------------------
(* The stream.                                                               *)

LEMMA StreamRests ==
    ASSUME StreamInv, UNCHANGED stream, resent \subseteq resent', logged \subseteq logged',
           Held' \subseteq Held \cup (logged' \ logged)
    PROVE  StreamInv'
<1>1. Elements(stream)' = Elements(stream) /\ Position' = Position
  BY DEF Elements, Position
<1> QED
  BY <1>1 DEF StreamInv

LEMMA StreamGrows ==
    ASSUME StreamInv, stream \in Seq(Entry), NEW batch \in Seq(Entry),
           stream' = stream \o batch, Distinct(batch),
           Elements(batch) \cap Elements(stream) \subseteq resent,
           resent \subseteq resent', Elements(stream) \cup Elements(batch) \subseteq logged',
           Held' \cap (Elements(stream) \cup Elements(batch)) \subseteq resent'
    PROVE  StreamInv' /\ Elements(stream)' = Elements(stream) \cup Elements(batch)
<1>1. /\ stream' \in Seq(Entry) /\ Len(stream') = Len(stream) + Len(batch)
      /\ Elements(stream') = Elements(stream) \cup Elements(batch)
  BY ElementsOfJoin
<1>2. Elements(stream)' = Elements(stream')
  BY DEF Elements
<1>3. ASSUME NEW p \in Position', NEW q \in Position', stream'[p] = stream'[q], p # q
      PROVE  stream'[p] \in resent'
  <2>1. /\ p \in 1 .. Len(stream) + Len(batch) /\ q \in 1 .. Len(stream) + Len(batch)
        /\ Position = 1 .. Len(stream) /\ Len(stream) \in Nat /\ Len(batch) \in Nat
    BY <1>1 DEF Position
  <2>2. /\ \A i \in Position : stream'[i] = stream[i] /\ stream[i] \in Elements(stream)
        /\ \A i \in Len(stream) + 1 .. Len(stream) + Len(batch) :
              stream'[i] = batch[i - Len(stream)]
    BY JoinAt DEF Position, Elements
  <2>3. \A i \in DOMAIN batch : batch[i] \in Elements(batch)
    BY DEF Elements
  <2>4. \A i \in 1 .. Len(stream) + Len(batch) :
           i \notin Position => /\ i \in Len(stream) + 1 .. Len(stream) + Len(batch)
                               /\ i - Len(stream) \in DOMAIN batch
    BY <2>1
  <2>5. CASE p \in Position /\ q \in Position
    BY <1>3, <2>2, <2>5 DEF StreamInv
  <2>6. CASE p \in Position /\ q \notin Position
    BY <1>3, <2>1, <2>2, <2>3, <2>4, <2>6
  <2>7. CASE p \notin Position /\ q \in Position
    BY <1>3, <2>1, <2>2, <2>3, <2>4, <2>7
  <2>8. CASE p \notin Position /\ q \notin Position
    <3>1. p - Len(stream) = q - Len(stream)
      BY <1>3, <2>1, <2>2, <2>4, <2>8 DEF Distinct
    <3> QED
      BY <3>1, <2>1, <1>3
  <2> QED
    BY <2>5, <2>6, <2>7, <2>8
<1> QED
  BY <1>1, <1>2, <1>3 DEF StreamInv

-----------------------------------------------------------------------------
(* The steps.                                                                *)

LEMMA InitInv == AuditInit => AuditInv
<1> SUFFICES ASSUME AuditInit PROVE AuditInv
  OBVIOUS
<1>1. /\ \A w \in Logger : buffer[w] = <<>> /\ hand[w] = NoBatch
      /\ flight = {} /\ stream = <<>> /\ rows = <<>> /\ Position = {}
  BY DEF AuditInit, Position
<1>2. MemoryType
  BY EmptySequence DEF AuditInit, MemoryType, Phase
<1>3. RedisType
  BY <1>1 DEF AuditInit, RedisType, NoBatch
<1>4. Held = {}
  BY <1>1, HeldWhere, EmptySequence
<1>5. MemoryInv
  BY <1>1, <1>4, EmptySequence DEF AuditInit, MemoryInv, Apart
<1>6. StreamInv /\ AccountInv
  BY <1>1, <1>4, EmptySequence DEF AuditInit, StreamInv, AccountInv
<1>7. PositionInv /\ HandInv
  BY <1>1 DEF PositionInv, HandInv, NoBatch
<1> QED
  BY <1>2, <1>3, <1>5, <1>6, <1>7 DEF AuditInv, PlaceInv, DeliveryInv

\* What AuditInv says, in one fact.
LEMMA Known ==
    ASSUME AuditInv
    PROVE  /\ MemoryType /\ MemoryInv /\ StreamInv /\ AccountInv /\ DeliveryInv /\ RedisType
           /\ stream \in Seq(Entry) /\ Elements(stream) \subseteq logged
           /\ \A w \in Logger : buffer[w] \in Seq(Entry) /\ Distinct(buffer[w])
           /\ \A f \in flight : /\ f.worker \in Logger /\ f.batch \in Seq(Entry)
                                /\ Distinct(f.batch) /\ Elements(f.batch) \subseteq Held
           /\ Held \subseteq logged /\ logged \subseteq Entry
<1>1. MemoryType /\ MemoryInv /\ StreamInv /\ AccountInv /\ DeliveryInv /\ RedisType
  BY DEF AuditInv, PlaceInv, DeliveryInv
<1> QED
  BY <1>1, HeldWhere DEF MemoryType, MemoryInv, StreamInv, RedisType

LEMMA FaultCounted ==
    ASSUME MemoryType, Fault
    PROVE  faults' \in Nat
BY DEF MemoryType, Fault

LEMMA PublishStep ==
    ASSUME AuditInv, NEW w \in Logger, NEW e \in Entry, Publish(w, e)
    PROVE  AuditInv'
<1> DEFINE content == Append(buffer[w], e)
<1>1. /\ logged' = logged \cup {e} /\ e \notin logged
      /\ \/ TakeBatch(w, "publish", content)
         \/ buffer' = [buffer EXCEPT ![w] = content] /\ flight' = flight
      /\ UNCHANGED <<phase, hand, forgotten, resent, faults, redisVars>>
  BY DEF Publish
<1>2. Joins(w, content, {e})
  <2>1. e \notin Elements(buffer[w])
    BY <1>1, Known, HeldWhere
  <2> QED
    BY <1>1, <2>1, Known, AppendAdds DEF Joins
<1> HIDE DEF content
<1>3. /\ buffer' \in [Logger -> Seq(Entry)] /\ flight' \subseteq FlightType
      /\ MemoryInv' /\ Held' = Held \cup {e}
  <2>1. CASE TakeBatch(w, "publish", content)
    BY <1>2, <2>1, Known, MemoryByTake
  <2>2. CASE buffer' = [buffer EXCEPT ![w] = content] /\ flight' = flight
    <3>1. flight' \subseteq FlightType
      BY <2>2, Known DEF MemoryType, FlightType
    <3> QED
      BY <1>2, <2>2, <3>1, Known, MemoryByPublish
  <2> QED
    BY <1>1, <2>1, <2>2
<1>4. MemoryType'
  BY <1>1, <1>3, Known DEF MemoryType, FlightType
<1>5. StreamInv'
  BY <1>1, <1>3, Known, StreamRests DEF redisVars
<1>6. AccountInv'
  BY <1>1, <1>3, Known DEF AccountInv, redisVars, Elements
<1>7. DeliveryInv'
  BY <1>1, Known, DeliveryRests DEF HandRests
<1> QED
  BY <1>3, <1>4, <1>5, <1>6, <1>7 DEF AuditInv, PlaceInv

LEMMA ImmediateStep ==
    ASSUME AuditInv, NEW w \in Logger, NEW e \in Entry, PublishImmediate(w, e)
    PROVE  AuditInv'
<1>1. /\ logged' = logged \cup {e} /\ e \notin logged /\ AddToStream(<<e>>)
      /\ UNCHANGED <<phase, hand, buffer, flight, forgotten, resent, faults>>
  BY DEF PublishImmediate
<1>2. <<e>> \in Seq(Entry) /\ Elements(<<e>>) = {e} /\ Distinct(<<e>>)
  BY DEF Elements, Distinct
<1>3. Held' = Held /\ MemoryInv'
  BY <1>1, Known, MemoryRests
<1>4. stream' = stream \o <<e>>
  BY <1>1, <1>2, Known, AddEffect DEF Added
<1>5. StreamInv' /\ Elements(stream)' = Elements(stream) \cup {e}
  <2>1. Held \cap Elements(stream) \subseteq resent
    BY Known DEF StreamInv
  <2> QED
    BY <1>1, <1>2, <1>3, <1>4, <2>1, Known, StreamGrows
<1>6. AccountInv'
  BY <1>1, <1>3, <1>5, Known DEF AccountInv
<1>7. DeliveryInv'
  BY <1>1, <1>2, Known, DeliveryByAdd DEF HandRests
<1>8. MemoryType'
  BY <1>1, Known DEF MemoryType
<1> QED
  BY <1>3, <1>5, <1>6, <1>7, <1>8 DEF AuditInv, PlaceInv

LEMMA ImmediateFailsStep ==
    ASSUME AuditInv, NEW w \in Logger, NEW e \in Entry, PublishImmediateFails(w, e)
    PROVE  AuditInv'
<1>1. /\ Fault /\ logged' = logged \cup {e} /\ forgotten' = forgotten \cup {e}
      /\ UNCHANGED <<phase, hand, buffer, flight, resent, redisVars>>
  BY DEF PublishImmediateFails
<1>2. Held' = Held /\ MemoryInv'
  BY <1>1, Known, MemoryRests
<1>3. StreamInv'
  BY <1>1, <1>2, Known, StreamRests DEF redisVars
<1>4. AccountInv'
  BY <1>1, <1>2, Known DEF AccountInv, redisVars, Elements
<1>5. DeliveryInv'
  BY <1>1, Known, DeliveryRests DEF HandRests
<1>6. MemoryType'
  BY <1>1, Known, FaultCounted DEF MemoryType
<1> QED
  BY <1>2, <1>3, <1>4, <1>5, <1>6 DEF AuditInv, PlaceInv

\* A whole buffer takes off: FlushTick and FinalFlush.
LEMMA TakeStep ==
    ASSUME AuditInv, NEW w \in Logger, NEW by \in {"publish", "loop", "stop"},
           TakeBatch(w, by, buffer[w]), phase' \in [Logger -> Phase],
           UNCHANGED <<hand, logged, forgotten, resent, faults, redisVars>>
    PROVE  AuditInv'
<1>1. Joins(w, buffer[w], {})
  BY Known DEF Joins
<1>2. /\ buffer' \in [Logger -> Seq(Entry)] /\ flight' \subseteq FlightType
      /\ MemoryInv' /\ Held' = Held
  <2>1. /\ buffer' \in [Logger -> Seq(Entry)] /\ flight' \subseteq FlightType
        /\ MemoryInv' /\ Held' = Held \cup {}
    BY <1>1, Known, MemoryByTake
  <2> QED
    BY <2>1
<1>3. MemoryType'
  BY <1>2, Known DEF MemoryType, FlightType
<1>4. StreamInv'
  BY <1>2, Known, StreamRests DEF redisVars
<1>5. AccountInv'
  BY <1>2, Known DEF AccountInv, redisVars, Elements
<1>6. DeliveryInv'
  BY Known, DeliveryRests DEF HandRests
<1> QED
  BY <1>2, <1>3, <1>4, <1>5, <1>6 DEF AuditInv, PlaceInv

LEMMA FlushDoneStep ==
    ASSUME AuditInv, NEW f \in flight, FlushDone(f)
    PROVE  AuditInv'
<1>1. /\ flight' = flight \ {f} /\ AddToStream(f.batch)
      /\ UNCHANGED <<phase, hand, buffer, logged, forgotten, resent, faults>>
  BY DEF FlushDone
<1>2. MemoryInv' /\ Held' \subseteq Held
  BY <1>1, Known, MemoryShrinks
<1>3. stream' = stream \o f.batch
  BY <1>1, Known, AddEffect DEF Added
<1>4. Held' \cap Elements(f.batch) = {} /\ Held \subseteq Held' \cup Elements(f.batch)
  <2>1. /\ \A w \in Logger : Apart(buffer[w], f.batch)
        /\ \A g \in flight' : Apart(g.batch, f.batch)
    BY <1>1, Known DEF MemoryInv
  <2> QED
    BY <1>1, <2>1, HeldWhere, HeldThen DEF Apart
<1>5. StreamInv' /\ Elements(stream)' = Elements(stream) \cup Elements(f.batch)
  <2>1. Held \cap Elements(stream) \subseteq resent
    BY Known DEF StreamInv
  <2>2. /\ Elements(f.batch) \cap Elements(stream) \subseteq resent
        /\ Elements(stream) \cup Elements(f.batch) \subseteq logged'
        /\ Held' \cap (Elements(stream) \cup Elements(f.batch)) \subseteq resent'
    BY <1>1, <1>2, <1>4, <2>1, Known
  <2>3. f.batch \in Seq(Entry) /\ Distinct(f.batch) /\ resent \subseteq resent'
    BY <1>1, Known
  <2> QED
    BY <1>3, <2>2, <2>3, Known, StreamGrows
<1>6. AccountInv'
  BY <1>1, <1>4, <1>5, Known DEF AccountInv
<1>7. DeliveryInv'
  BY <1>1, Known, DeliveryByAdd DEF HandRests
<1>8. MemoryType'
  BY <1>1, Known DEF MemoryType
<1> QED
  BY <1>2, <1>5, <1>6, <1>7, <1>8 DEF AuditInv, PlaceInv

LEMMA FlushFailsStep ==
    ASSUME AuditInv, NEW f \in flight, FlushFails(f)
    PROVE  AuditInv'
<1>1. Fault /\ PutBack(f) /\ UNCHANGED <<phase, hand, logged, resent, redisVars>>
  BY DEF FlushFails
<1>2. /\ buffer' \in [Logger -> Seq(Entry)] /\ flight' \subseteq FlightType
      /\ forgotten' \subseteq Entry /\ forgotten \subseteq forgotten'
      /\ MemoryInv' /\ Held' \subseteq Held /\ Held \subseteq Held' \cup forgotten'
  BY <1>1, Known, MemoryByPutBack
<1>3. MemoryType'
  BY <1>1, <1>2, Known, FaultCounted DEF MemoryType, FlightType
<1>4. StreamInv'
  BY <1>1, <1>2, Known, StreamRests DEF redisVars
<1>5. AccountInv'
  BY <1>1, <1>2, Known DEF AccountInv, redisVars, Elements
<1>6. DeliveryInv'
  BY <1>1, Known, DeliveryRests DEF HandRests
<1> QED
  BY <1>2, <1>3, <1>4, <1>5, <1>6 DEF AuditInv, PlaceInv

LEMMA FlushReplyLostStep ==
    ASSUME AuditInv, NEW f \in flight, FlushReplyLost(f)
    PROVE  AuditInv'
<1>1. /\ Fault /\ AddToStream(f.batch) /\ PutBack(f)
      /\ resent' = resent \cup Elements(f.batch)
      /\ UNCHANGED <<phase, hand, logged>>
  BY DEF FlushReplyLost
<1>2. /\ buffer' \in [Logger -> Seq(Entry)] /\ flight' \subseteq FlightType
      /\ forgotten' \subseteq Entry /\ forgotten \subseteq forgotten'
      /\ MemoryInv' /\ Held' \subseteq Held /\ Held \subseteq Held' \cup forgotten'
  BY <1>1, Known, MemoryByPutBack
<1>3. MemoryType'
  <2>1. resent' \subseteq Entry
    BY <1>1, Known DEF MemoryType
  <2> QED
    BY <1>1, <1>2, <2>1, Known, FaultCounted DEF MemoryType, FlightType
<1>4. stream' = stream \o f.batch
  BY <1>1, Known, AddEffect DEF Added
<1>5. StreamInv' /\ Elements(stream)' = Elements(stream) \cup Elements(f.batch)
  <2>1. Held \cap Elements(stream) \subseteq resent
    BY Known DEF StreamInv
  <2>2. /\ Elements(f.batch) \cap Elements(stream) \subseteq resent
        /\ Elements(stream) \cup Elements(f.batch) \subseteq logged'
        /\ Held' \cap (Elements(stream) \cup Elements(f.batch)) \subseteq resent'
    BY <1>1, <1>2, <2>1, Known
  <2>3. f.batch \in Seq(Entry) /\ Distinct(f.batch) /\ resent \subseteq resent'
    BY <1>1, Known
  <2> QED
    BY <1>4, <2>2, <2>3, Known, StreamGrows
<1>6. AccountInv'
  BY <1>1, <1>2, <1>5, Known DEF AccountInv
<1>7. DeliveryInv'
  BY <1>1, Known, DeliveryByAdd DEF HandRests
<1> QED
  BY <1>2, <1>3, <1>5, <1>6, <1>7 DEF AuditInv, PlaceInv

\* Steps that leave memory and stream alone: the consumer's, and a start.
LEMMA PlaceRests ==
    ASSUME AuditInv, UNCHANGED memoryVars, UNCHANGED stream,
           phase' \in [Logger -> Phase], faults' \in Nat
    PROVE  MemoryType' /\ PlaceInv'
<1>1. UNCHANGED <<buffer, flight, logged, forgotten, resent>>
  BY DEF memoryVars
<1>2. MemoryInv' /\ Held' = Held
  BY <1>1, Known, MemoryRests
<1>3. StreamInv'
  BY <1>1, <1>2, Known, StreamRests
<1>4. AccountInv'
  BY <1>1, <1>2, Known DEF AccountInv, Elements
<1>5. MemoryType'
  BY <1>1, Known DEF MemoryType
<1> QED
  BY <1>2, <1>3, <1>4, <1>5 DEF PlaceInv

LEMMA ConsumerStep ==
    ASSUME AuditInv, NEW w \in Logger,
           \/ ReadGroupNew(w) \/ ReadReplyLost(w) \/ InsertBatch(w) \/ InsertFails(w)
           \/ Acknowledge(w) \/ AcknowledgeFails(w) \/ StartWorker(w)
    PROVE  AuditInv'
<1>1. UNCHANGED memoryVars /\ UNCHANGED stream
  BY DEF ReadGroupNew, ReadReplyLost, Deliver, InsertBatch, InsertFails, Acknowledge,
         AcknowledgeFails, StartWorker, redisVars
<1>2. phase' \in [Logger -> Phase]
  <2>1. CASE phase' = phase
    BY <2>1, Known DEF MemoryType
  <2>2. CASE StartWorker(w)
    BY <2>2, Known DEF MemoryType, StartWorker, Phase
  <2> QED
    BY <2>1, <2>2 DEF ReadGroupNew, ReadReplyLost, InsertBatch, InsertFails,
                      Acknowledge, AcknowledgeFails
<1>3. faults' \in Nat
  <2>1. CASE faults' = faults
    BY <2>1, Known DEF MemoryType
  <2>2. CASE Fault
    BY <2>2, Known, FaultCounted
  <2> QED
    BY <2>1, <2>2 DEF ReadGroupNew, ReadReplyLost, InsertBatch, InsertFails,
                      Acknowledge, AcknowledgeFails, StartWorker
<1>4. DeliveryInv'
  <2>1. CASE ReadGroupNew(w) \/ ReadReplyLost(w)
    BY <2>1, Known, DeliveryByRead DEF ReadGroupNew, ReadReplyLost
  <2>2. CASE InsertBatch(w)
    BY <2>2, Known, DeliveryByInsert DEF InsertBatch
  <2>3. CASE InsertFails(w)
    <3>1. CASE InsertRows(hand[w].taken)
      BY <2>3, <3>1, Known, DeliveryByInsert DEF InsertFails
    <3>2. CASE UNCHANGED rows
      BY <2>3, <3>2, Known, DeliveryRests DEF InsertFails, HandRests, redisVars
    <3> QED
      BY <2>3, <3>1, <3>2 DEF InsertFails
  <2>4. CASE Acknowledge(w)
    BY <2>4, Known, DeliveryByAck DEF Acknowledge
  <2>5. CASE AcknowledgeFails(w)
    BY <2>5, Known, DeliveryRests DEF AcknowledgeFails, HandRests
  <2>6. CASE StartWorker(w)
    BY <2>6, Known, DeliveryRests DEF StartWorker, HandRests
  <2> QED
    BY <2>1, <2>2, <2>3, <2>4, <2>5, <2>6
<1> QED
  BY <1>1, <1>2, <1>3, <1>4, PlaceRests DEF AuditInv

LEMMA StopConsumerStep ==
    ASSUME AuditInv, NEW w \in Logger, StopConsumer(w)
    PROVE  AuditInv'
<1>1. /\ UNCHANGED memoryVars /\ UNCHANGED stream /\ Fault
      /\ phase' = [phase EXCEPT ![w] = "closing"]
      /\ hand' = [hand EXCEPT ![w] = NoBatch]
      /\ \/ hand[w].stage = "insert" /\ InsertRows(hand[w].taken)
         \/ UNCHANGED rows
      /\ UNCHANGED <<stream, trimmed, cursor, pending, evicted>>
  BY DEF StopConsumer
<1>2. MemoryType' /\ PlaceInv'
  <2>1. phase' \in [Logger -> Phase]
    BY <1>1, Known DEF MemoryType, Phase
  <2> QED
    BY <1>1, <2>1, Known, FaultCounted, PlaceRests
<1>3. DeliveryInv'
  <2>1. CASE hand[w].stage = "insert" /\ InsertRows(hand[w].taken)
    BY <1>1, <2>1, Known, DeliveryByInsert
  <2>2. CASE UNCHANGED rows
    BY <1>1, <2>2, Known, DeliveryRests DEF HandRests, redisVars
  <2> QED
    BY <1>1, <2>1, <2>2
<1> QED
  BY <1>2, <1>3 DEF AuditInv

LEMMA CarriedBy ==
    ASSUME NEW F, NEW e
    PROVE  e \in UNION {Elements(f.batch) : f \in F} <=> \E f \in F : e \in Elements(f.batch)
<1> DEFINE B == {Elements(f.batch) : f \in F}
<1>1. e \in UNION B <=> \E s \in B : e \in s
  <2> HIDE DEF B
  <2> QED
    OBVIOUS
<1>2. (\E s \in B : e \in s) <=> (\E f \in F : e \in Elements(f.batch))
  OBVIOUS
<1> QED
  BY <1>1, <1>2

LEMMA CancelStep ==
    ASSUME AuditInv, NEW w \in Logger, CancelFlushLoop(w)
    PROVE  AuditInv'
<1> DEFINE mine == {f \in FlightsOf(w) : f.by = "loop"}
<1>1. /\ phase' = [phase EXCEPT ![w] = "stopped"]
      /\ flight' = flight \ mine
      /\ \/ /\ mine # {}
            /\ \A f \in mine : AddToStream(f.batch)
            /\ UNCHANGED forgotten
         \/ /\ forgotten' = forgotten \cup UNION {Elements(f.batch) : f \in mine}
            /\ UNCHANGED redisVars
      /\ UNCHANGED <<hand, buffer, logged, resent, faults>>
  BY DEF CancelFlushLoop
<1>2. mine \subseteq flight
  BY DEF FlightsOf
<1> HIDE DEF mine
<1>3. MemoryInv' /\ Held' \subseteq Held
  BY <1>1, Known, MemoryShrinks
<1>4. \A e \in Held : e \in Held' \/ \E f \in mine : e \in Elements(f.batch)
  BY <1>1, HeldWhere, HeldThen
<1>5. phase' \in [Logger -> Phase]
  BY <1>1, Known DEF MemoryType, Phase
<1>6. CASE mine # {} /\ (\A f \in mine : AddToStream(f.batch)) /\ UNCHANGED forgotten
  <2>1. PICK f \in mine : TRUE
    BY <1>6
  <2>2. /\ f \in flight /\ AddToStream(f.batch)
        /\ f.batch \in Seq(Entry) /\ Distinct(f.batch) /\ Elements(f.batch) \subseteq Held
    BY <1>2, <1>6, Known
  <2>3. \A g \in mine : stream' = stream \o g.batch /\ g.batch \in Seq(Entry)
    BY <1>2, <1>6, Known, AddEffect DEF Added
  <2>4. Held' \cap Elements(f.batch) = {}
    <3>1. /\ \A v \in Logger : Apart(buffer[v], f.batch)
          /\ \A g \in flight' : Apart(g.batch, f.batch)
      BY <1>1, <2>1, <2>2, Known DEF MemoryInv
    <3> QED
      BY <1>1, <3>1, HeldThen DEF Apart
  <2>5. StreamInv' /\ Elements(stream)' = Elements(stream) \cup Elements(f.batch)
    <3>1. Held \cap Elements(stream) \subseteq resent
      BY Known DEF StreamInv
    <3>2. /\ Elements(f.batch) \cap Elements(stream) \subseteq resent
          /\ Elements(stream) \cup Elements(f.batch) \subseteq logged'
          /\ Held' \cap (Elements(stream) \cup Elements(f.batch)) \subseteq resent'
      BY <1>1, <1>3, <2>2, <2>4, <3>1, Known
    <3>3. resent \subseteq resent' /\ stream' = stream \o f.batch
      BY <1>1, <2>3
    <3> QED
      BY <2>2, <3>2, <3>3, Known, StreamGrows
  <2>6. \A g \in mine : Elements(g.batch) \subseteq Elements(stream)'
    <3>1. ASSUME NEW g \in mine PROVE Elements(g.batch) \subseteq Elements(stream')
      <4>1. Elements(stream \o g.batch) = Elements(stream) \cup Elements(g.batch)
        BY <2>3, Known, ElementsOfJoin
      <4> QED
        BY <2>3, <4>1
    <3>2. Elements(stream)' = Elements(stream')
      BY DEF Elements
    <3> QED
      BY <3>1, <3>2
  <2>7. AccountInv'
    BY <1>1, <1>4, <1>6, <2>5, <2>6, Known DEF AccountInv
  <2>8. DeliveryInv'
    BY <1>1, <2>2, Known, DeliveryByAdd DEF HandRests
  <2>9. MemoryType'
    BY <1>1, <1>5, <1>6, Known DEF MemoryType
  <2> QED
    BY <1>3, <2>5, <2>7, <2>8, <2>9 DEF AuditInv, PlaceInv
<1>7. CASE /\ forgotten' = forgotten \cup UNION {Elements(f.batch) : f \in mine}
           /\ UNCHANGED redisVars
  <2> DEFINE gone == UNION {Elements(f.batch) : f \in mine}
  <2>1. \A e : e \in gone <=> \E f \in mine : e \in Elements(f.batch)
    BY CarriedBy
  <2>2. forgotten' = forgotten \cup gone
    BY <1>7
  <2> HIDE DEF gone
  <2>3. gone \subseteq Held
    BY <1>2, <2>1, HeldWhere
  <2>4. MemoryType'
    BY <1>1, <1>5, <2>2, <2>3, Known DEF MemoryType
  <2>5. StreamInv'
    BY <1>1, <1>3, <1>7, Known, StreamRests DEF redisVars
  <2>6. AccountInv'
    <3>1. Elements(stream)' = Elements(stream)
      BY <1>7 DEF redisVars, Elements
    <3> QED
      BY <1>1, <1>4, <2>1, <2>2, <3>1, Known DEF AccountInv
  <2>7. DeliveryInv'
    BY <1>1, <1>7, Known, DeliveryRests DEF HandRests
  <2> QED
    BY <1>3, <2>4, <2>5, <2>6, <2>7 DEF AuditInv, PlaceInv
<1> QED
  BY <1>1, <1>6, <1>7

LEMMA FinalFlushStep ==
    ASSUME AuditInv, NEW w \in Logger, FinalFlush(w)
    PROVE  AuditInv'
<1>1. phase' \in [Logger -> Phase]
  BY Known DEF FinalFlush, MemoryType, Phase
<1>2. CASE UNCHANGED <<buffer, flight>>
  <2>1. UNCHANGED memoryVars /\ UNCHANGED stream /\ faults' = faults
        /\ UNCHANGED redisVars /\ UNCHANGED hand
    BY <1>2 DEF FinalFlush, memoryVars, redisVars
  <2>2. MemoryType' /\ PlaceInv'
    BY <1>1, <2>1, Known, PlaceRests DEF MemoryType
  <2>3. DeliveryInv'
    BY <2>1, Known, DeliveryRests DEF HandRests
  <2> QED
    BY <2>2, <2>3 DEF AuditInv
<1>3. CASE TakeBatch(w, "stop", buffer[w])
  BY <1>1, <1>3, TakeStep DEF FinalFlush
<1> QED
  BY <1>2, <1>3 DEF FinalFlush

LEMMA LoseMemoryStep ==
    ASSUME AuditInv, NEW w \in Logger, LoseMemory(w), faults' \in Nat
    PROVE  AuditInv'
<1>1. /\ phase' = [phase EXCEPT ![w] = "down"]
      /\ forgotten' = forgotten \cup Memory(w)
      /\ buffer' = [buffer EXCEPT ![w] = <<>>]
      /\ flight' = flight \ FlightsOf(w)
      /\ hand' = [hand EXCEPT ![w] = NoBatch]
      /\ UNCHANGED <<logged, resent, redisVars>>
  BY DEF LoseMemory
<1>2. \A e : e \in Memory(w) <=> e \in Elements(buffer[w]) \/ \E f \in FlightsOf(w) : e \in Elements(f.batch)
  BY CarriedBy DEF Memory
<1>3. FlightsOf(w) \subseteq flight
  BY DEF FlightsOf
<1>4. \A v \in Logger : buffer'[v] = IF v = w THEN <<>> ELSE buffer[v]
  BY <1>1, Known DEF MemoryType
<1>5. MemoryInv' /\ Held' \subseteq Held
  BY <1>1, <1>4, Known, MemoryShrinks
<1>6. Memory(w) \subseteq Held /\ Held \subseteq Held' \cup Memory(w)
  BY <1>1, <1>2, <1>3, <1>4, HeldWhere, HeldThen
<1>7. MemoryType'
  <2>1. phase' \in [Logger -> Phase] /\ buffer' \in [Logger -> Seq(Entry)]
    BY <1>1, Known, EmptySequence DEF MemoryType, Phase
  <2> QED
    BY <1>1, <1>6, <2>1, Known DEF MemoryType
<1>8. StreamInv'
  BY <1>1, <1>5, Known, StreamRests DEF redisVars
<1>9. AccountInv'
  <2>1. Elements(stream)' = Elements(stream)
    BY <1>1 DEF redisVars, Elements
  <2> QED
    BY <1>1, <1>6, <2>1, Known DEF AccountInv
<1>10. DeliveryInv'
  BY <1>1, Known, DeliveryRests DEF HandRests
<1> QED
  BY <1>5, <1>7, <1>8, <1>9, <1>10 DEF AuditInv, PlaceInv

LEMMA StutterStep ==
    ASSUME AuditInv, UNCHANGED auditVars
    PROVE  AuditInv'
<1>1. /\ UNCHANGED memoryVars /\ UNCHANGED redisVars /\ UNCHANGED stream
      /\ UNCHANGED <<phase, faults, hand>>
  BY DEF auditVars, memoryVars, redisVars
<1>2. MemoryType' /\ PlaceInv'
  BY <1>1, Known, PlaceRests DEF MemoryType
<1>3. DeliveryInv'
  BY <1>1, Known, DeliveryRests DEF HandRests
<1> QED
  BY <1>2, <1>3 DEF AuditInv

LEMMA StepInv == AuditInv /\ [AuditNext]_auditVars => AuditInv'
<1> SUFFICES ASSUME AuditInv, [AuditNext]_auditVars PROVE AuditInv'
  OBVIOUS
<1>1. ASSUME NEW w \in Logger, NEW e \in Entry,
             Publish(w, e) \/ PublishImmediate(w, e) \/ PublishImmediateFails(w, e)
      PROVE  AuditInv'
  BY <1>1, PublishStep, ImmediateStep, ImmediateFailsStep
<1>2. ASSUME NEW f \in flight, FlushDone(f) \/ FlushFails(f) \/ FlushReplyLost(f)
      PROVE  AuditInv'
  BY <1>2, FlushDoneStep, FlushFailsStep, FlushReplyLostStep
<1>3. ASSUME NEW w \in Logger, FlushTick(w) PROVE AuditInv'
  <2>1. phase' \in [Logger -> Phase]
    BY <1>3, Known DEF FlushTick, MemoryType
  <2> QED
    BY <1>3, <2>1, TakeStep DEF FlushTick
<1>4. ASSUME NEW w \in Logger,
             \/ ReadGroupNew(w) \/ ReadReplyLost(w) \/ InsertBatch(w) \/ InsertFails(w)
             \/ Acknowledge(w) \/ AcknowledgeFails(w) \/ StartWorker(w)
      PROVE  AuditInv'
  BY <1>4, ConsumerStep
<1>5. ASSUME NEW w \in Logger, StopConsumer(w) \/ CancelFlushLoop(w) \/ FinalFlush(w)
      PROVE  AuditInv'
  BY <1>5, StopConsumerStep, CancelStep, FinalFlushStep
<1>6. ASSUME NEW w \in Logger, ExitWorker(w) \/ CrashWorker(w)
      PROVE  AuditInv'
  <2>1. LoseMemory(w) /\ faults' \in Nat
    BY <1>6, Known, FaultCounted DEF ExitWorker, CrashWorker, MemoryType
  <2> QED
    BY <2>1, LoseMemoryStep
<1>7. CASE UNCHANGED auditVars
  BY <1>7, StutterStep
<1> QED
  BY <1>1, <1>2, <1>3, <1>4, <1>5, <1>6, <1>7 DEF AuditNext

-----------------------------------------------------------------------------
(* The theorems.                                                             *)

\* Every entry has its place and every position its fate after any steps of the
\* loggers, of Redis and of the consumers (RedisLogBuffer, AuditLogConsumer).
THEOREM AuditInvariant == AuditSpec => []AuditInv
<1> QED
  BY InitInv, StepInv, PTL DEF AuditSpec

\* Buffers, batches, stream and table hold what the code can put there, and a batch in
\* hand lies in the stream, for any workers, entries and limits (RedisLogBuffer,
\* AuditLogConsumer).
THEOREM AuditTypeCorrect == AuditSpec => []AuditTypeOK
<1>1. AuditInv => AuditTypeOK
  BY DEF AuditInv, MemoryType, DeliveryInv, RedisType, AuditTypeOK
<1> QED
  BY <1>1, AuditInvariant, PTL

\* A logged entry is in memory, on its way, in the table, or lost in one of the named
\* ways, for any workers, limits, failures and crashes (_flush, publish, stop,
\* process_batch).
THEOREM EntriesAreAccountedFor == AuditSpec => []NothingVanishes
<1>1. AuditInv => NothingVanishes
  <2> SUFFICES ASSUME AuditInv, NEW e \in logged
               PROVE  \/ \E w \in Logger : e \in Memory(w)
                      \/ \E p \in Position :
                            stream[p] = e /\ (OnTheWay(p) \/ rows[p] > 0 \/ Stranded(p) \/ p \in evicted)
                      \/ e \in forgotten
    BY DEF NothingVanishes
  <2>1. e \in Held \/ e \in Elements(stream) \/ e \in forgotten
    BY Known DEF AccountInv
  <2>2. CASE e \in Held
    <3>1. CASE \E w \in Logger : e \in Elements(buffer[w])
      BY <3>1 DEF Memory
    <3>2. CASE \E f \in flight : e \in Elements(f.batch)
      <4>1. PICK f \in flight : e \in Elements(f.batch)
        BY <3>2
      <4>2. f.worker \in Logger /\ f \in FlightsOf(f.worker)
        BY Known DEF FlightsOf
      <4>3. e \in UNION {Elements(g.batch) : g \in FlightsOf(f.worker)}
        BY <4>1, <4>2, CarriedBy
      <4> QED
        BY <4>2, <4>3 DEF Memory
    <3> QED
      BY <2>2, <3>1, <3>2, HeldWhere
  <2>3. CASE e \in Elements(stream)
    <3>1. PICK p \in Position : stream[p] = e
      BY <2>3 DEF Elements, Position
    <3>2. /\ p \in Nat /\ cursor \in Nat /\ trimmed \in Nat
          /\ p > cursor /\ p <= trimmed => p \in evicted
          /\ p <= cursor => p \in evicted \cup pending \/ rows[p] > 0
      BY Known DEF DeliveryInv, RedisType, PositionInv, Position
    <3>3. p \in evicted \/ p \in pending \/ rows[p] > 0 \/ p \in Undelivered
      BY <3>2 DEF Undelivered
    <3> QED
      BY <3>1, <3>3 DEF OnTheWay, Stranded
  <2> QED
    BY <2>1, <2>2, <2>3
<1> QED
  BY <1>1, AuditInvariant, PTL

\* However consumers and flushes fail, a stream entry is inserted at most once, and two
\* rows of one log entry come from a batch put back after its XADD, for any workers,
\* limits and failures (_flush, AuditLogConsumer.run).
THEOREM EntriesGetOneRow == AuditSpec => []OneRowPerEntry
<1>1. AuditInv => OneRowPerEntry
  BY Known DEF DeliveryInv, PositionInv, StreamInv, OneRowPerEntry
<1> QED
  BY <1>1, AuditInvariant, PTL

-----------------------------------------------------------------------------
(* The documents administrators edit, and their caches.                      *)

HIDE AuditAssumption DEF AuditAssumption

USE ConfigAssumption DEF ConfigAssumption, Doc, Listed

-----------------------------------------------------------------------------
(* The invariant.                                                            *)

Lists == {NoDoc} \cup UNION {[k -> Snapshot] : k \in Key}

Req == [stage : Stage, doc : Doc \cup {NoDoc}, host : Host \cup {NoDoc},
        fields : SUBSET Field, resets : SUBSET Field, key : Key \cup {{}}, seen : Snapshot, list : Lists,
        stale : BOOLEAN]

DocTypes ==
    /\ life \in [Doc -> {"new", "live", "gone"}]
    /\ row \in [Doc -> Row] /\ wanted \in [Doc -> Row]
    /\ padded \in [Doc -> SUBSET Field]
    /\ raced \subseteq Doc /\ leaked \subseteq Settings

CacheTypes ==
    /\ cache \in [Key -> {Miss} \cup Lists]
    /\ \A k \in Key : cache[k] = Miss \/ cache[k] \in [k -> Snapshot]
    /\ dirty \subseteq Key

Updating == {"first", "fetch", "read", "write"}

\* What a request carries on each part of its way.
Sound(q) ==
    /\ q \in Req
    /\ q.stage = "idle" => q.doc = NoDoc /\ q.fields = {} /\ q.resets = {}
    /\ q.stage \in {"select", "fill"} => q.key \in Key /\ q.host \in Host /\ q.doc = NoDoc
    /\ q.stage = "fill" => q.list \in [q.key -> Snapshot]
    /\ q.stage \in Updating =>
          /\ q.doc \in Doc /\ q.host \in Host /\ q.key = {}
          /\ MayProvide(q.doc, q.fields, q.resets)
          /\ q.doc \notin Settings => life[q.doc] # "new"
    /\ q.stage \in {"first", "read"} => ReadsTwice(q.doc, q.fields, q.resets)
    /\ q.stage = "read" /\ q.doc \in Template /\ q.seen = NoDoc => life[q.doc] = "gone"
    /\ q.stage = "write" => q.seen \in Row
    /\ q.stage = "drop" => q.doc \in Listed

Shown(d) == IF life[d] = "live" THEN row[d] ELSE NoDoc

\* What a request has read and nobody has changed since.
Fresh(q) ==
    q.stale \/
        /\ q.stage = "read" /\ q.doc \in Template => q.seen = Shown(q.doc)
        /\ q.stage = "write" =>
              IF life[q.doc] = "live" THEN q.seen = row[q.doc]
              ELSE /\ life[q.doc] = "new"
                   /\ \A f \in Field : q.seen[f] = Default \/ (f \in Tokens /\ q.doc \in leaked)
        /\ q.stage = "fill" => \A d \in q.key : d \in Listed => q.list[d] = Shown(d)

\* PUT settings/tokens: what it provides and resets is the section tokens.
OfTokens(q) == q.doc \in Settings /\ q.fields \cup q.resets = Tokens

\* The request v has put its value in field f of document d, or in the defaults.
Provided(v, d, f) ==
    /\ f \in req[v].fields
    /\ req[v].doc = d \/ (d \in leaked /\ OfTokens(req[v]))

\* The values a request has read are their documents' own.
Traced(q) ==
    q.stage = "write" \/ (q.stage = "read" /\ q.doc \in Template /\ q.seen # NoDoc) =>
        \A f \in Field : q.seen[f] \in Request => Provided(q.seen[f], q.doc, f)

Defaults ==
    /\ defaults \in [Host -> [Tokens -> Request \cup {Default}]]
    /\ \A w \in Host, f \in Tokens : defaults[w][f] \in Request =>
          f \in req[defaults[w][f]].fields /\ OfTokens(req[defaults[w][f]])

Requests ==
    /\ DOMAIN req = Request /\ req = [r \in Request |-> req[r]]
    /\ \A r \in Request : Sound(req[r]) /\ Fresh(req[r]) /\ Traced(req[r])

Documents ==
    /\ \A d \in Doc, f \in Field :
          /\ life[d] = "new" => row[d][f] = Default /\ wanted[d][f] = Default
          /\ row[d][f] \in Request => Provided(row[d][f], d, f)
    /\ \A d \in Settings : life[d] # "gone"

ConfigInv ==
    DocTypes /\ CacheTypes /\ Defaults /\ Requests /\ Documents /\ FieldsKept /\ ListsCurrent

-----------------------------------------------------------------------------
(* What the steps have in common.                                            *)

LEMMA NoDocIsNoDoc == NoDoc \notin Doc /\ NoDoc \notin Row
OBVIOUS

\* A request keeps its document and its fields for good.
Keeps(q, x) == x.doc = q.doc /\ x.fields = q.fields /\ x.resets = q.resets
Remembers == \A q \in Request : req[q].stage = "idle" \/ Keeps(req[q], req'[q])

LEMMA ProvidedStays ==
    ASSUME Requests, Remembers, leaked \subseteq leaked',
           NEW v \in Request, NEW d \in Doc, NEW f, Provided(v, d, f)
    PROVE  Provided(v, d, f)'
<1>1. req[v].stage # "idle"
  BY DEF Requests, Sound, Provided
<1>2. Keeps(req[v], req'[v])
  BY <1>1 DEF Remembers
<1> QED
  BY <1>2 DEF Provided, Keeps, OfTokens

\* Documents outside D rest; none becomes new, none comes back.
Touches(D) ==
    /\ \A c \in Doc \ D : life'[c] = life[c] /\ row'[c] = row[c]
    /\ \A c \in Doc : /\ life'[c] = "new" => life[c] = "new"
                      /\ life[c] = "gone" => life'[c] = "gone"
    /\ leaked \subseteq leaked'

Marked(q) == req'[q] = [req[q] EXCEPT !.stale = TRUE]

\* A request that does not move keeps what it is; if it holds a touched document
\* it is marked.
LEMMA OthersStay ==
    ASSUME DocTypes, Requests, Remembers, NEW D, Touches(D), NEW q \in Request,
           Marked(q) \/ (req'[q] = req[q] /\ \A d \in D : q \notin Holding(d))
    PROVE  Sound(req[q])' /\ Fresh(req[q])' /\ Traced(req[q])'
<1>1. Sound(req[q]) /\ Fresh(req[q]) /\ Traced(req[q]) /\ req[q] \in Req
  BY DEF Requests, Sound
<1>2. /\ req'[q] \in Req
      /\ req'[q].stage = req[q].stage /\ req'[q].doc = req[q].doc
      /\ req'[q].host = req[q].host /\ req'[q].fields = req[q].fields
      /\ req'[q].resets = req[q].resets /\ req'[q].key = req[q].key /\ req'[q].seen = req[q].seen
      /\ req'[q].list = req[q].list
      /\ \/ req'[q].stale = TRUE
         \/ req'[q].stale = req[q].stale /\ \A d \in D : q \notin Holding(d)
  BY <1>1 DEF Marked, Req
<1>3. Sound(req[q])'
  BY <1>1, <1>2 DEF Sound, Touches, Updating, MayProvide, ReadsTwice
<1>4. Fresh(req[q])'
  <2>1. CASE req'[q].stale = TRUE
    BY <2>1 DEF Fresh
  <2>2. CASE req[q].stale = FALSE /\ req'[q].stale = FALSE /\ \A d \in D : q \notin Holding(d)
    <3>1. req[q].stage \in {"read", "write"} => req[q].doc \in Doc /\ req[q].doc \notin D
      BY <1>1, <2>2 DEF Sound, Updating, Holding
    <3>2. req[q].stage = "fill" => \A d \in req[q].key : d \notin D
      BY <2>2 DEF Holding
    <3>3. \A d \in Doc : d \notin D => Shown(d)' = Shown(d)
      BY DEF Touches, Shown
    <3>4. req'[q].stage = "read" /\ req'[q].doc \in Template => req'[q].seen = Shown(req[q].doc)'
      BY <1>1, <1>2, <2>2, <3>1, <3>3 DEF Fresh
    <3>5. req'[q].stage = "fill" =>
            \A d \in req'[q].key : d \in Listed => req'[q].list[d] = Shown(d)'
      BY <1>1, <1>2, <2>2, <3>2, <3>3 DEF Fresh
    <3>6. req'[q].stage = "write" =>
              IF life'[req'[q].doc] = "live" THEN req'[q].seen = row'[req'[q].doc]
              ELSE /\ life'[req'[q].doc] = "new"
                   /\ \A f \in Field : req'[q].seen[f] = Default \/ (f \in Tokens /\ req'[q].doc \in leaked')
      BY <1>1, <1>2, <2>2, <3>1 DEF Fresh, Touches
    <3> QED
      BY <1>2, <3>4, <3>5, <3>6 DEF Fresh, Shown
  <2> QED
    BY <1>1, <1>2, <2>1, <2>2 DEF Req
<1>5. Traced(req[q])'
  <2> SUFFICES ASSUME req'[q].stage = "write"
                      \/ (req'[q].stage = "read" /\ req'[q].doc \in Template /\ req'[q].seen # NoDoc),
                      NEW f \in Field, req'[q].seen[f] \in Request
               PROVE  Provided(req[q].seen[f], req[q].doc, f)'
    BY DEF Traced
  <2>1. req[q].doc \in Doc /\ req[q].seen[f] \in Request
    BY <1>1, <1>2 DEF Sound, Updating
  <2>2. Provided(req[q].seen[f], req[q].doc, f)
    BY <1>1, <1>2, <2>1 DEF Traced
  <2>3. \A v \in Request, d \in Doc : Provided(v, d, f) => Provided(v, d, f)'
    BY ProvidedStays DEF Touches
  <2>4. Provided(req[q].seen[f], req[q].doc, f)'
          <=> /\ f \in req'[req'[q].seen[f]].fields
              /\ \/ req'[req'[q].seen[f]].doc = req'[q].doc
                 \/ req'[q].doc \in leaked' /\ OfTokens(req'[req'[q].seen[f]])
    BY DEF Provided, OfTokens
  <2> QED
    BY <1>2, <2>1, <2>2, <2>3, <2>4 DEF Provided, OfTokens
<1> QED
  BY <1>3, <1>4, <1>5

\* The others stay, and the one that moves is sound where it arrives.
LEMMA RequestsStay ==
    ASSUME DocTypes, Requests, NEW D, Touches(D), NEW r \in Request,
           req[r].stage = "idle" \/ Keeps(req[r], req'[r]),
           DOMAIN req' = Request, req' = [q \in Request |-> req'[q]],
           \A q \in Request : q # r =>
               Marked(q) \/ (req'[q] = req[q] /\ \A d \in D : q \notin Holding(d)),
           Sound(req[r])', Fresh(req[r])', Traced(req[r])'
    PROVE  Requests' /\ Remembers
<1>1. Remembers
  <2> SUFFICES ASSUME NEW q \in Request, q # r
               PROVE  Keeps(req[q], req'[q])
    BY DEF Remembers
  <2>1. req[q] \in Req
    BY DEF Requests, Sound
  <2> QED
    BY <2>1 DEF Marked, Req, Keeps
<1>2. \A q \in Request : q # r => Sound(req[q])' /\ Fresh(req[q])' /\ Traced(req[q])'
  BY <1>1, OthersStay
<1> QED
  BY <1>1, <1>2 DEF Requests

\* A step that touches no document and moves only r.
LEMMA QuietStep ==
    ASSUME ConfigInv, NEW r \in Request, NEW x, req' = [req EXCEPT ![r] = x],
           UNCHANGED <<life, row, wanted, padded, raced>>, leaked \subseteq leaked', leaked' \subseteq Settings,
           req[r].stage = "idle" \/ Keeps(req[r], x),
           Sound(req[r])', Fresh(req[r])', Traced(req[r])'
    PROVE  DocTypes' /\ Requests' /\ Documents' /\ FieldsKept' /\ Remembers
<1>1. Requests' /\ Remembers
  <2>1. Touches({})
    BY DEF Touches
  <2>2. /\ DOMAIN req' = Request /\ req' = [q \in Request |-> req'[q]]
        /\ req'[r] = x /\ \A q \in Request : q # r => req'[q] = req[q]
    BY DEF ConfigInv, Requests
  <2> QED
    BY <2>1, <2>2, RequestsStay DEF ConfigInv
<1>2. DocTypes'
  BY DEF ConfigInv, DocTypes
<1>3. FieldsKept'
  BY DEF ConfigInv, FieldsKept, Excused
<1>4. Documents'
  <2>1. \A v \in Request, d \in Doc, f \in Field : Provided(v, d, f) => Provided(v, d, f)'
    BY <1>1, ProvidedStays DEF ConfigInv
  <2>2. \A d \in Doc, f \in Field : row[d][f] \in Request => Provided(row[d][f], d, f)'
    BY <2>1 DEF ConfigInv, Documents
  <2>3. \A d \in Doc, f \in Field : row'[d][f] \in Request => Provided(row[d][f], d, f)'
    BY <2>2
  <2> QED
    BY <2>3 DEF ConfigInv, Documents, Provided
<1> QED
  BY <1>1, <1>2, <1>3, <1>4

\* The defaults of the processes.
LEMMA DefaultsStay ==
    ASSUME Requests, Defaults, Remembers, defaults' = defaults
    PROVE  Defaults'
<1> SUFFICES ASSUME NEW w \in Host, NEW f \in Tokens, NEW v \in Request, v = defaults[w][f]
             PROVE  f \in req'[v].fields /\ OfTokens(req'[v])
  BY DEF Defaults, OfTokens
<1>1. f \in req[v].fields /\ OfTokens(req[v])
  BY DEF Defaults
<1>2. Keeps(req[v], req'[v])
  BY <1>1 DEF Requests, Sound, Remembers
<1> QED
  BY <1>1, <1>2 DEF Keeps, OfTokens

\* A list that Redis holds stays current: a document in it that looks different
\* now belongs to a writer that is about to drop it.
LEMMA ListsStay ==
    ASSUME ListsCurrent, cache' = cache, dirty' = dirty, NEW r \in Request,
           \A c \in Listed : Shown(c)' = Shown(c)
                            \/ (req'[r].stage = "drop" /\ req'[r].doc = c),
           \A q \in Request : req[q].stage = "drop" =>
                            req'[q].stage = "drop" /\ req'[q].doc = req[q].doc
    PROVE  ListsCurrent'
<1> SUFFICES ASSUME NEW k \in {Template, Provider}, cache[k] # Miss, k \notin dirty
             PROVE  Current(k)' \/ Dropping(k)'
  BY DEF ListsCurrent
<1>1. CASE Dropping(k)
  BY <1>1 DEF Dropping
<1>2. CASE Current(k)
  <2>1. CASE \A c \in k : Shown(c)' = Shown(c)
    BY <1>2, <2>1 DEF Current, Shown
  <2>2. CASE \E c \in k : Shown(c)' # Shown(c)
    BY <2>2 DEF Dropping
  <2> QED
    BY <2>1, <2>2
<1> QED
  BY <1>1, <1>2 DEF ListsCurrent

LEMMA EndedIsSound ==
    ASSUME Requests, NEW r \in Request, req'[r] = Ended(req[r])
    PROVE  Sound(req[r])' /\ Fresh(req[r])' /\ Traced(req[r])'
<1>1. req[r] \in Req
  BY DEF Requests, Sound
<1>2. /\ req'[r] \in Req /\ req'[r].stage = "done"
      /\ Keeps(req[r], req'[r])
  BY <1>1 DEF Ended, Idle, Req, Stage, Snapshot, Lists, Keeps
<1> QED
  BY <1>2 DEF Sound, Fresh, Traced, Updating, Keeps

\* A request that ends, in a step that touches no document.
LEMMA EndStep ==
    ASSUME ConfigInv, NEW r \in Request, To(r, "done"),
           UNCHANGED <<life, row, wanted, padded, raced, leaked, defaults>>
    PROVE  DocTypes' /\ Requests' /\ Documents' /\ FieldsKept' /\ Defaults'
<1>1. req' = [req EXCEPT ![r] = Ended(req[r])] /\ req'[r] = Ended(req[r])
  BY DEF To, At, ConfigInv, Requests
<1>2. Sound(req[r])' /\ Fresh(req[r])' /\ Traced(req[r])'
  BY <1>1, EndedIsSound DEF ConfigInv
<1>3. Keeps(req[r], Ended(req[r]))
  BY DEF Ended, Idle, Keeps
<1>4. DocTypes' /\ Requests' /\ Documents' /\ FieldsKept' /\ Remembers
  BY <1>1, <1>2, <1>3, QuietStep DEF ConfigInv, DocTypes
<1> QED
  BY <1>4, DefaultsStay DEF ConfigInv

-----------------------------------------------------------------------------
(* The steps that touch no document.                                         *)

LEMMA ListCachedStep ==
    ASSUME ConfigInv, NEW r \in Request, NEW w \in Host, NEW k \in Key, ListCached(r, w, k)
    PROVE  ConfigInv'
<1> DEFINE x == At([Idle EXCEPT !.host = w, !.key = k],
                   IF cache[k] = Miss THEN "select" ELSE "done")
<1>1. req' = [req EXCEPT ![r] = x] /\ req'[r] = x /\ req[r].stage = "idle"
  BY DEF ListCached, ConfigInv, Requests
<1>2. /\ x \in Req /\ x.stage \in {"select", "done"} /\ x.doc = NoDoc /\ x.stale = FALSE
      /\ x.stage = "select" => x.key = k /\ x.host = w
  BY DEF At, Ended, Idle, Req, Stage, Snapshot, Lists
<1> HIDE DEF x
<1>3. Sound(req[r])' /\ Fresh(req[r])' /\ Traced(req[r])'
  BY <1>1, <1>2 DEF Sound, Fresh, Traced, Updating
<1>4. UNCHANGED <<life, row, cache, defaults, wanted, padded, raced, leaked, dirty>>
  BY DEF ListCached, ghostVars
<1>5. DocTypes' /\ Requests' /\ Documents' /\ FieldsKept' /\ Remembers
  BY <1>1, <1>3, <1>4, QuietStep DEF ConfigInv, DocTypes
<1>6. ListsCurrent'
  BY <1>1, <1>4, ListsStay DEF ConfigInv, Requests, Shown
<1> QED
  BY <1>4, <1>5, <1>6, DefaultsStay DEF ConfigInv, CacheTypes

\* A SELECT returns a snapshot of every document of the list.
LEMMA ViewIsSnapshot ==
    ASSUME DocTypes, Defaults, NEW w \in Host, NEW d \in Doc
    PROVE  /\ View(w, d) \in Snapshot
           /\ d \in Settings => View(w, d) \in Row
           /\ d \notin Settings => View(w, d) = Shown(d)
BY DEF DocTypes, Defaults, View, Shown, Snapshot, DefaultRow, Row

LEMMA SelectListStep ==
    ASSUME ConfigInv, NEW r \in Request, SelectList(r)
    PROVE  ConfigInv'
<1> DEFINE l == [d \in req[r].key |-> View(req[r].host, d)]
           x == [req[r] EXCEPT !.stage = "fill", !.list = l]
<1>1. req[r] \in Req /\ Sound(req[r]) /\ req[r].stage = "select"
  BY DEF SelectList, ConfigInv, Requests, Sound
<1>2. req[r].key \in Key /\ req[r].host \in Host /\ req[r].doc = NoDoc
  BY <1>1 DEF Sound
<1>3. req' = [req EXCEPT ![r] = x]
  BY <1>1 DEF SelectList, ConfigInv, Requests, Req
<1>4. \A d \in req[r].key : d \in Doc
  BY <1>2 DEF Key
<1>5. l \in [req[r].key -> Snapshot] /\ l \in Lists
  BY <1>2, <1>4, ViewIsSnapshot DEF ConfigInv, Lists
<1>6. \A d \in req[r].key : d \in Listed => l[d] = Shown(d)
  BY <1>2, <1>4, ViewIsSnapshot DEF ConfigInv
<1> HIDE DEF l
<1>7. /\ x \in Req /\ x.stage = "fill" /\ x.doc = NoDoc /\ x.key = req[r].key
      /\ x.host = req[r].host /\ x.list = l /\ Keeps(req[r], x)
  BY <1>1, <1>2, <1>5 DEF Req, Stage, Keeps
<1> HIDE DEF x
<1>8. req'[r] = x
  BY <1>3 DEF ConfigInv, Requests
<1>9. UNCHANGED <<life, row, cache, defaults, wanted, padded, raced, leaked, dirty>>
  BY DEF SelectList, ghostVars
<1>10. Shown(NoDoc)' = Shown(NoDoc) /\ \A d \in Doc : Shown(d)' = Shown(d)
  BY <1>9 DEF Shown
<1>11. Sound(req[r])'
  BY <1>2, <1>5, <1>7, <1>8 DEF Sound, Updating
<1>12. Fresh(req[r])' /\ Traced(req[r])'
  BY <1>4, <1>6, <1>7, <1>8, <1>10 DEF Fresh, Traced
<1>13. DocTypes' /\ Requests' /\ Documents' /\ FieldsKept' /\ Remembers
  BY <1>2, <1>3, <1>7, <1>9, <1>11, <1>12, QuietStep DEF ConfigInv, DocTypes
<1>14. ListsCurrent'
  BY <1>1, <1>3, <1>9, <1>10, ListsStay DEF ConfigInv, Requests
<1> QED
  BY <1>9, <1>13, <1>14, DefaultsStay DEF ConfigInv, CacheTypes

LEMMA KeysApart == \A k, l \in Key, d \in Listed : d \in k /\ d \in l => k = l
BY DEF Key

LEMMA FillCacheStep ==
    ASSUME ConfigInv, NEW r \in Request, FillCache(r)
    PROVE  ConfigInv'
<1>1. req[r] \in Req /\ Sound(req[r]) /\ Fresh(req[r]) /\ req[r].stage = "fill"
  BY DEF FillCache, ConfigInv, Requests, Sound
<1>2. /\ req[r].key \in Key /\ req[r].list \in [req[r].key -> Snapshot] /\ req[r].list \in Lists
  BY <1>1 DEF Sound, Req
<1>3. UNCHANGED <<life, row, defaults, wanted, padded, raced, leaked>> /\ To(r, "done")
  BY DEF FillCache
<1>4. DocTypes' /\ Requests' /\ Documents' /\ FieldsKept' /\ Defaults'
  BY <1>3, EndStep
<1>5. CacheTypes'
  BY <1>2 DEF FillCache, CacheTypes, ConfigInv
<1>6. ListsCurrent'
  <2> SUFFICES ASSUME NEW k \in {Template, Provider}, cache'[k] # Miss, k \notin dirty'
               PROVE  Current(k)' \/ Dropping(k)'
    BY DEF ListsCurrent
  <2>0. k \in Key
    BY DEF Key
  <2>1. CASE k = req[r].key
    <3>1. req[r].stale # TRUE /\ cache'[k] = req[r].list
      BY <1>2, <2>1 DEF FillCache, ConfigInv, CacheTypes
    <3>2. \A d \in k : req[r].list[d] = Shown(d)
      BY <1>1, <2>1, <3>1 DEF Fresh
    <3> QED
      BY <1>3, <3>1, <3>2 DEF Current, Shown
  <2>2. CASE k # req[r].key
    <3>1. cache'[k] = cache[k] /\ k \notin dirty
      BY <2>0, <2>2 DEF FillCache, ConfigInv, CacheTypes
    <3>2. Current(k) \/ Dropping(k)
      BY <3>1 DEF ConfigInv, ListsCurrent
    <3>3. CASE Current(k)
      BY <1>3, <3>1, <3>3 DEF Current
    <3>4. CASE Dropping(k)
      BY <1>1, <1>3, <3>4 DEF Dropping, To, ConfigInv, Requests
    <3> QED
      BY <3>2, <3>3, <3>4
  <2> QED
    BY <2>1, <2>2
<1> QED
  BY <1>4, <1>5, <1>6 DEF ConfigInv

LEMMA LapseStep ==
    ASSUME ConfigInv, NEW k \in Key, Lapse(k)
    PROVE  ConfigInv'
<1>1. UNCHANGED <<life, row, defaults, req, wanted, padded, raced, leaked>>
  BY DEF Lapse
<1>2. DocTypes' /\ Defaults' /\ Documents' /\ FieldsKept'
  BY <1>1 DEF ConfigInv, DocTypes, Defaults, Documents, Provided, OfTokens, FieldsKept, Excused
<1>3. Requests'
  BY <1>1 DEF ConfigInv, Requests, Sound, Fresh, Traced, Provided, OfTokens, Shown
<1>4. CacheTypes'
  BY DEF ConfigInv, CacheTypes, Lapse
<1>5. ListsCurrent'
  BY DEF ConfigInv, CacheTypes, ListsCurrent, Current, Dropping, Lapse, Key
<1> QED
  BY <1>2, <1>3, <1>4, <1>5 DEF ConfigInv

LEMMA StartUpdateStep ==
    ASSUME ConfigInv, NEW r \in Request, NEW w \in Host, NEW d \in Doc,
           NEW fs \in SUBSET Field, NEW rs \in SUBSET Field, StartUpdate(r, w, d, fs, rs)
    PROVE  ConfigInv'
<1>1. PICK stage \in {"first", "fetch"} :
          /\ stage = "first" => ReadsTwice(d, fs, rs)
          /\ req' = [req EXCEPT ![r] = [Idle EXCEPT !.stage = stage, !.doc = d,
                                             !.host = w, !.fields = fs, !.resets = rs]]
  BY DEF StartUpdate
<1> DEFINE x == [Idle EXCEPT !.stage = stage, !.doc = d, !.host = w, !.fields = fs,
                         !.resets = rs]
<1>2. /\ x \in Req /\ x.stage = stage /\ x.doc = d /\ x.host = w /\ x.fields = fs
      /\ x.resets = rs /\ x.key = {} /\ stage \in {"first", "fetch"}
  BY DEF Idle, Req, Stage, Snapshot, Lists
<1>3. req' = [req EXCEPT ![r] = x] /\ req'[r] = x
  BY <1>1 DEF ConfigInv, Requests
<1> HIDE DEF x
<1>4. UNCHANGED <<life, row, cache, defaults, wanted, padded, raced, leaked, dirty>>
  BY DEF StartUpdate, ghostVars
<1>5. MayProvide(d, fs, rs) /\ (d \notin Settings => life'[d] # "new") /\ req[r].stage = "idle"
  BY <1>4 DEF StartUpdate
<1>6. Sound(req[r])'
  BY <1>1, <1>2, <1>3, <1>5 DEF Sound, Updating, MayProvide, ReadsTwice
<1>7. Fresh(req[r])' /\ Traced(req[r])'
  BY <1>2, <1>3 DEF Fresh, Traced
<1>8. DocTypes' /\ Requests' /\ Documents' /\ FieldsKept' /\ Remembers
  BY <1>3, <1>4, <1>5, <1>6, <1>7, QuietStep DEF ConfigInv, DocTypes
<1>9. ListsCurrent'
  BY <1>3, <1>4, <1>5, ListsStay DEF ConfigInv, Requests, Shown
<1> QED
  BY <1>4, <1>8, <1>9, DefaultsStay DEF ConfigInv, CacheTypes

LEMMA OneMoves ==
    ASSUME Requests, NEW r \in Request, NEW x, req' = [req EXCEPT ![r] = x],
           Keeps(req[r], x)
    PROVE  req'[r] = x /\ Remembers
BY DEF Requests, Remembers, Keeps

\* What a request has just read is traced when the read value was.
LEMMA TracedRead ==
    ASSUME Requests, Remembers, leaked \subseteq leaked', NEW r \in Request, req[r].doc \in Doc,
           req'[r].doc = req[r].doc, NEW s, req'[r].seen = s,
           \A f \in Field : s[f] \in Request =>
              \/ Provided(s[f], req[r].doc, f)
              \/ req[r].doc \in leaked' /\ f \in req[s[f]].fields /\ OfTokens(req[s[f]])
    PROVE  Traced(req[r])'
<1>1. ASSUME NEW f \in Field, NEW v \in Request, v = s[f]
      PROVE  /\ f \in req'[v].fields
             /\ req'[v].doc = req[r].doc \/ (req[r].doc \in leaked' /\ OfTokens(req'[v]))
  <2>1. f \in req[v].fields
    BY <1>1 DEF Provided
  <2>2. Keeps(req[v], req'[v])
    BY <2>1 DEF Requests, Sound, Remembers
  <2>3. req[v].doc = req[r].doc \/ (req[r].doc \in leaked' /\ OfTokens(req[v]))
    BY <1>1 DEF Provided
  <2> QED
    BY <2>1, <2>2, <2>3 DEF Keeps, OfTokens
<1> QED
  BY <1>1 DEF Traced, Provided, OfTokens

LEMMA ReadFirstStep ==
    ASSUME ConfigInv, NEW r \in Request, ReadFirst(r)
    PROVE  ConfigInv'
<1> DEFINE d == req[r].doc
           w == req[r].host
           s == View(w, d)
           x == [req[r] EXCEPT !.stage = "read", !.seen = s]
<1>1. req[r] \in Req /\ Sound(req[r]) /\ req[r].stage = "first"
  BY DEF ReadFirst, ConfigInv, Requests, Sound
<1>2. /\ d \in Doc /\ w \in Host /\ req[r].key = {}
      /\ MayProvide(d, req[r].fields, req[r].resets)
      /\ ReadsTwice(d, req[r].fields, req[r].resets) /\ (d \notin Settings => life[d] # "new")
  BY <1>1 DEF Sound, Updating
<1>3. s \in Snapshot /\ (d \notin Settings => s = Shown(d))
  BY <1>2, ViewIsSnapshot DEF ConfigInv
<1>4. UNCHANGED <<life, row, cache, wanted, padded, raced, leaked, dirty>>
  BY DEF ReadFirst, ghostVars
<1>5. req' = [req EXCEPT ![r] = x]
  BY <1>1 DEF ReadFirst, ConfigInv, Requests, Req
<1>6. d \in Template /\ s = NoDoc => life[d] = "gone"
  BY <1>2, <1>3, NoDocIsNoDoc DEF Shown, ConfigInv, DocTypes
<1>7. ASSUME d \in Template, s # NoDoc, NEW f \in Field, s[f] \in Request
      PROVE  Provided(s[f], d, f)
  BY <1>2, <1>3, <1>7 DEF Shown, ConfigInv, Documents
<1> HIDE DEF s
<1>8. /\ x \in Req /\ x.stage = "read" /\ x.doc = d /\ x.host = w /\ x.seen = s
      /\ Keeps(req[r], x) /\ x.key = {}
  BY <1>1, <1>2, <1>3 DEF Req, Stage, Keeps
<1> HIDE DEF x
<1>9. req'[r] = x /\ Remembers
  BY <1>5, <1>8, OneMoves DEF ConfigInv
<1>10. Sound(req[r])'
  BY <1>1, <1>2, <1>4, <1>6, <1>8, <1>9 DEF Sound, Updating, Keeps
<1>11. Fresh(req[r])'
  BY <1>2, <1>3, <1>4, <1>8, <1>9 DEF Fresh, Shown
<1>12. Traced(req[r])'
  <2>1. CASE d \in Template /\ s # NoDoc
    BY <1>2, <1>4, <1>7, <1>8, <1>9, <2>1, TracedRead DEF ConfigInv, Keeps
  <2>2. CASE ~ (d \in Template /\ s # NoDoc)
    BY <1>8, <1>9, <2>2 DEF Traced
  <2> QED
    BY <2>1, <2>2
<1>13. DocTypes' /\ Requests' /\ Documents' /\ FieldsKept'
  BY <1>4, <1>5, <1>8, <1>10, <1>11, <1>12, QuietStep DEF ConfigInv, DocTypes
<1>14. Defaults'
  <2>1. CASE d \in Settings /\ life[d] # "live"
    <3> DEFINE own == [f \in Tokens |-> IF f \in req[r].fields THEN r ELSE Default]
    <3>1. defaults' = [defaults EXCEPT ![w] = own] /\ own \in [Tokens -> Request \cup {Default}]
      BY <2>1 DEF ReadFirst
    <3>2. OfTokens(req'[r]) /\ req'[r].fields = req[r].fields
      BY <1>2, <1>8, <1>9, <2>1 DEF ReadsTwice, OfTokens, Keeps
    <3>3. ASSUME NEW v \in Request, NEW f \in Tokens, f \in req[v].fields, OfTokens(req[v])
          PROVE  f \in req'[v].fields /\ OfTokens(req'[v])
      <4>1. Keeps(req[v], req'[v])
        BY <1>9, <3>3 DEF ConfigInv, Requests, Sound, Remembers
      <4> QED
        BY <3>3, <4>1 DEF Keeps, OfTokens
    <3>4. ASSUME NEW v \in Host, NEW f \in Tokens, NEW q \in Request, q = defaults'[v][f]
          PROVE  f \in req'[q].fields /\ OfTokens(req'[q])
      <4>1. CASE v = w
        BY <1>2, <3>1, <3>2, <3>4, <4>1 DEF ConfigInv, Defaults
      <4>2. CASE v # w
        BY <1>2, <3>1, <3>3, <3>4, <4>2 DEF ConfigInv, Defaults
      <4> QED
        BY <4>1, <4>2
    <3> QED
      BY <1>2, <3>1, <3>4 DEF ConfigInv, Defaults, OfTokens
  <2>2. CASE ~ (d \in Settings /\ life[d] # "live")
    BY <1>9, <2>2, DefaultsStay DEF ReadFirst, ConfigInv
  <2> QED
    BY <2>1, <2>2
<1>15. ListsCurrent'
  BY <1>1, <1>4, <1>5, ListsStay DEF ConfigInv, Requests, Shown
<1> QED
  BY <1>4, <1>13, <1>14, <1>15 DEF ConfigInv, CacheTypes

LEMMA ReadAgainStep ==
    ASSUME ConfigInv, NEW r \in Request, ReadAgain(r)
    PROVE  ConfigInv'
<1> DEFINE d == req[r].doc
           w == req[r].host
           now == View(w, d)
<1>1. req[r] \in Req /\ Sound(req[r]) /\ Fresh(req[r]) /\ Traced(req[r])
      /\ req[r].stage \in {"fetch", "read"}
  BY DEF ReadAgain, ConfigInv, Requests, Sound
<1>2. /\ d \in Doc /\ w \in Host /\ req[r].key = {}
      /\ MayProvide(d, req[r].fields, req[r].resets)
      /\ (d \notin Settings => life[d] # "new")
  BY <1>1 DEF Sound, Updating
<1>3. UNCHANGED <<life, row, cache, defaults, wanted, padded, raced, dirty>>
  BY DEF ReadAgain
<1>4. ListsCurrent'
  BY <1>1, <1>3, ListsStay DEF ReadAgain, To, ConfigInv, Requests, Shown
<1>5. CASE now = NoDoc
  BY <1>3, <1>4, <1>5, EndStep DEF ReadAgain, ConfigInv, CacheTypes
<1>6. CASE now # NoDoc
  <2> DEFINE s == IF d \in Template /\ req[r].stage = "read"
                  THEN [req[r].seen EXCEPT ![Own] = now[Own]] ELSE now
             x == [req[r] EXCEPT !.stage = "write", !.seen = s,
                                 !.stale = @ /\ d \in Template]
  <2>1. req' = [req EXCEPT ![r] = x]
    BY <1>1, <1>6 DEF ReadAgain, ConfigInv, Requests, Req
  <2>2. leaked \subseteq leaked' /\ leaked' \subseteq Settings
        /\ (life[d] # "live" /\ defaults[w] # OwnDefaults => d \in leaked')
    <3>1. life[d] # "live" => d \in Settings
      BY <1>6 DEF View
    <3> QED
      BY <1>6, <3>1 DEF ReadAgain, ConfigInv, DocTypes
  <2>3. now \in Row /\ (d \notin Settings => life[d] = "live" /\ now = row[d])
    BY <1>2, <1>6, ViewIsSnapshot DEF ConfigInv, Snapshot, View
  <2>4. d \in Template /\ req[r].stage = "read" => req[r].seen \in Row
    BY <1>1, <2>3 DEF Sound, Req, Snapshot
  <2>5. s \in Row
    BY <2>3, <2>4 DEF Row
  <2>6. ASSUME NEW f \in Field, now[f] \in Request
        PROVE  \/ Provided(now[f], d, f)
               \/ d \in leaked' /\ f \in req[now[f]].fields /\ OfTokens(req[now[f]])
    <3>1. CASE life[d] = "live"
      BY <1>2, <2>6, <3>1 DEF View, ConfigInv, Documents
    <3>2. CASE life[d] # "live"
      <4>1. f \in Tokens /\ now[f] = defaults[w][f]
        BY <1>6, <2>6, <3>2 DEF View, DefaultRow
      <4>2. defaults[w] # OwnDefaults
        BY <2>6, <4>1 DEF OwnDefaults
      <4> QED
        BY <1>2, <2>2, <2>6, <3>2, <4>1, <4>2 DEF ConfigInv, Defaults
    <3> QED
      BY <3>1, <3>2
  <2>7. ASSUME NEW f \in Field, f # Own, s[f] \in Request, d \in Template, req[r].stage = "read"
        PROVE  Provided(s[f], d, f)
    <3>1. req[r].seen # NoDoc /\ s[f] = req[r].seen[f]
      BY <2>4, <2>7, NoDocIsNoDoc DEF Row
    <3> QED
      BY <1>1, <2>7, <3>1 DEF Traced
  <2>8. s[Own] = now[Own] /\ (~ (d \in Template /\ req[r].stage = "read") => s = now)
    BY <2>4 DEF Row
  <2>9. \A f \in Field : s[f] \in Request =>
            \/ Provided(s[f], d, f)
            \/ d \in leaked' /\ f \in req[s[f]].fields /\ OfTokens(req[s[f]])
    BY <2>6, <2>7, <2>8
  <2>10. ~ (req[r].stale /\ d \in Template) =>
            IF life[d] = "live" THEN s = row[d]
            ELSE /\ life[d] = "new"
                 /\ \A f \in Field : s[f] = Default \/ (f \in Tokens /\ d \in leaked')
    <3> SUFFICES ASSUME ~ (req[r].stale /\ d \in Template)
                 PROVE  IF life[d] = "live" THEN s = row[d]
                        ELSE /\ life[d] = "new"
                             /\ \A f \in Field : s[f] = Default \/ (f \in Tokens /\ d \in leaked')
      OBVIOUS
    <3>1. CASE d \in Template /\ req[r].stage = "read"
      <4>1. req[r].seen = row[d] /\ life[d] = "live"
        BY <1>1, <2>3, <3>1 DEF Fresh, Shown
      <4> QED
        BY <2>3, <3>1, <4>1 DEF Row
    <3>2. CASE ~ (d \in Template /\ req[r].stage = "read")
      <4>1. CASE life[d] = "live"
        BY <3>2, <4>1 DEF View
      <4>2. CASE life[d] # "live"
        <5>1. d \in Settings /\ life[d] = "new"
          BY <1>2, <2>3, <4>2 DEF ConfigInv, DocTypes, Documents
        <5>2. s = DefaultRow(w)
          BY <3>2, <4>2, <5>1 DEF View
        <5> QED
          BY <2>2, <4>2, <5>1, <5>2 DEF DefaultRow, OwnDefaults
      <4> QED
        BY <4>1, <4>2
    <3> QED
      BY <3>1, <3>2
  <2> HIDE DEF s, now
  <2>11. /\ x \in Req /\ x.stage = "write" /\ x.doc = d /\ x.host = w /\ x.seen = s
         /\ Keeps(req[r], x) /\ x.key = {}
         /\ x.stale = (req[r].stale /\ d \in Template)
    BY <1>1, <1>2, <2>5 DEF Req, Stage, Snapshot, Keeps
  <2> HIDE DEF x
  <2>12. req'[r] = x /\ Remembers
    BY <2>1, <2>11, OneMoves DEF ConfigInv
  <2>13. Sound(req[r])'
    BY <1>1, <1>2, <1>3, <2>5, <2>11, <2>12 DEF Sound, Updating, Keeps
  <2>14. Fresh(req[r])'
    BY <1>3, <2>10, <2>11, <2>12 DEF Fresh
  <2>15. Traced(req[r])'
    BY <1>2, <2>2, <2>9, <2>11, <2>12, TracedRead DEF ConfigInv, Keeps
  <2>16. DocTypes' /\ Requests' /\ Documents' /\ FieldsKept'
    BY <1>3, <2>1, <2>2, <2>11, <2>13, <2>14, <2>15, QuietStep
  <2> QED
    BY <1>3, <1>4, <2>12, <2>16, DefaultsStay DEF ConfigInv, CacheTypes
<1> QED
  BY <1>5, <1>6

LEMMA DropCacheStep ==
    ASSUME ConfigInv, NEW r \in Request, DropCache(r)
    PROVE  ConfigInv'
<1>1. PICK k \in Key : /\ req[r].doc \in k
                       /\ cache' = [cache EXCEPT ![k] = Miss]
                       /\ dirty' = dirty \ {k}
  BY DEF DropCache
<1>2. UNCHANGED <<life, row, defaults, wanted, padded, raced, leaked>> /\ To(r, "done")
  BY DEF DropCache
<1>3. DocTypes' /\ Requests' /\ Documents' /\ FieldsKept' /\ Defaults'
  BY <1>2, EndStep
<1>4. CacheTypes'
  BY <1>1 DEF ConfigInv, CacheTypes
<1>5. ListsCurrent'
  <2> SUFFICES ASSUME NEW l \in {Template, Provider}, cache'[l] # Miss, l \notin dirty'
               PROVE  Current(l)' \/ Dropping(l)'
    BY DEF ListsCurrent
  <2>1. l \in Key
    BY DEF Key
  <2>2. l # k /\ cache'[l] = cache[l] /\ l \notin dirty
    BY <1>1, <2>1 DEF ConfigInv, CacheTypes
  <2>3. Current(l) \/ Dropping(l)
    BY <2>2 DEF ConfigInv, ListsCurrent
  <2>4. CASE Current(l)
    BY <1>2, <2>2, <2>4 DEF Current
  <2>5. CASE Dropping(l)
    <3>1. PICK q \in Request : req[q].stage = "drop" /\ req[q].doc \in l
      BY <2>5 DEF Dropping
    <3>2. q # r
      BY <1>1, <2>1, <2>2, <3>1, KeysApart DEF ConfigInv, Requests, Sound
    <3> QED
      BY <1>2, <3>1, <3>2 DEF Dropping, To, ConfigInv, Requests
  <2> QED
    BY <2>3, <2>4, <2>5
<1> QED
  BY <1>3, <1>4, <1>5 DEF ConfigInv

LEMMA AbandonStep ==
    ASSUME ConfigInv, NEW r \in Request, Abandon(r)
    PROVE  ConfigInv'
<1>1. UNCHANGED <<life, row, cache, defaults, wanted, padded, raced, leaked>> /\ To(r, "done")
  BY DEF Abandon
<1>2. DocTypes' /\ Requests' /\ Documents' /\ FieldsKept' /\ Defaults'
  BY <1>1, EndStep
<1>3. CacheTypes' /\ dirty \subseteq dirty'
  BY <1>1 DEF ConfigInv, CacheTypes, Abandon
<1>4. ListsCurrent'
  <2> SUFFICES ASSUME NEW l \in {Template, Provider}, cache'[l] # Miss, l \notin dirty'
               PROVE  Current(l)' \/ Dropping(l)'
    BY DEF ListsCurrent
  <2>1. l \in Key
    BY DEF Key
  <2>2. Current(l) \/ Dropping(l)
    BY <1>1, <1>3 DEF ConfigInv, ListsCurrent
  <2>3. CASE Current(l)
    BY <1>1, <2>3 DEF Current
  <2>4. CASE Dropping(l)
    <3>1. PICK q \in Request : req[q].stage = "drop" /\ req[q].doc \in l
      BY <2>4 DEF Dropping
    <3>2. q # r
      BY <2>1, <3>1 DEF Abandon
    <3> QED
      BY <1>1, <3>1, <3>2 DEF Dropping, To, ConfigInv, Requests
  <2> QED
    BY <2>2, <2>3, <2>4
<1> QED
  BY <1>2, <1>3, <1>4 DEF ConfigInv

LEMMA RestartStep ==
    ASSUME ConfigInv, NEW w \in Host, Restart(w)
    PROVE  ConfigInv'
<1>1. UNCHANGED <<life, row, cache, req, wanted, padded, raced, leaked, dirty>>
  BY DEF Restart, ghostVars
<1>2. DocTypes' /\ CacheTypes' /\ Documents' /\ FieldsKept'
  BY <1>1 DEF ConfigInv, DocTypes, CacheTypes, Documents, Provided, OfTokens, FieldsKept, Excused
<1>3. Requests'
  BY <1>1 DEF ConfigInv, Requests, Sound, Fresh, Traced, Provided, OfTokens, Shown
<1>4. ListsCurrent'
  BY <1>1 DEF ConfigInv, ListsCurrent, Current, Dropping
<1>5. Defaults'
  BY <1>1 DEF ConfigInv, Defaults, Restart, OwnDefaults, OfTokens
<1> QED
  BY <1>2, <1>3, <1>4, <1>5 DEF ConfigInv

-----------------------------------------------------------------------------
(* The steps that commit a change of a document.                             *)

\* What the invariant says of one document.
Kept(d) ==
    /\ \A f \in Field :
          /\ life[d] = "new" => row[d][f] = Default /\ wanted[d][f] = Default
          /\ row[d][f] \in Request => Provided(row[d][f], d, f)
          /\ life[d] = "live" /\ d \notin raced =>
                row[d][f] = wanted[d][f] \/ Excused(d, f)
    /\ d \in Settings => life[d] # "gone"

\* The requests' part of such a step: the writer answers or goes on to its DEL,
\* whoever has read the document is out of date.
CommitBy(r, d, x) ==
    req' = [q \in Request |->
              IF q = r THEN x
              ELSE IF q \in Holding(d) THEN [req[q] EXCEPT !.stale = TRUE]
              ELSE req[q]]

LEMMA CommitMoves ==
    ASSUME ConfigInv, NEW r \in Request, NEW d \in Doc, NEW x, CommitBy(r, d, x),
           req[r].stage = "idle" \/ Keeps(req[r], x),
           x \in Req, x.stage \in {"drop", "done"}, x.stage = "drop" => x.doc \in Listed,
           Touches({d})
    PROVE  Requests' /\ Remembers /\ req'[r] = x
<1>1. /\ DOMAIN req' = Request /\ req' = [q \in Request |-> req'[q]] /\ req'[r] = x
      /\ \A q \in Request : q # r => IF q \in Holding(d) THEN Marked(q) ELSE req'[q] = req[q]
  BY DEF CommitBy, Marked
<1>2. Sound(req[r])' /\ Fresh(req[r])' /\ Traced(req[r])'
  BY <1>1 DEF Sound, Fresh, Traced, Updating
<1>3. \A q \in Request : q # r =>
         Marked(q) \/ (req'[q] = req[q] /\ \A c \in {d} : q \notin Holding(c))
  BY <1>1
<1>4. req[r].stage = "idle" \/ Keeps(req[r], req'[r])
  BY <1>1
<1> QED
  BY <1>1, <1>2, <1>3, <1>4, RequestsStay DEF ConfigInv

LEMMA CommitStep ==
    ASSUME ConfigInv, NEW r \in Request, NEW d \in Doc, NEW x, CommitBy(r, d, x),
           Requests', Remembers, req'[r] = x, req[r].stage \in {"idle", "write"},
           Touches({d}), DocTypes', UNCHANGED <<cache, defaults, leaked, dirty>>,
           \A c \in Doc \ {d} : /\ wanted'[c] = wanted[c] /\ padded'[c] = padded[c]
                                /\ c \in raced' <=> c \in raced,
           d \in Listed => Shown(d)' = Shown(d) \/ (x.stage = "drop" /\ x.doc = d),
           Kept(d)'
    PROVE  ConfigInv'
<1>1. Defaults' /\ CacheTypes'
  BY DefaultsStay DEF ConfigInv, CacheTypes
<1>2. ListsCurrent'
  <2>1. \A q \in Request : req[q].stage = "drop" =>
           req'[q].stage = "drop" /\ req'[q].doc = req[q].doc
    <3> SUFFICES ASSUME NEW q \in Request, req[q].stage = "drop"
                 PROVE  req'[q].stage = "drop" /\ req'[q].doc = req[q].doc
      OBVIOUS
    <3>1. q # r /\ q \notin Holding(d)
      BY DEF Holding
    <3> QED
      BY <3>1 DEF CommitBy
  <2>2. \A c \in Listed : Shown(c)' = Shown(c) \/ (req'[r].stage = "drop" /\ req'[r].doc = c)
    BY DEF Touches, Shown
  <2> QED
    BY <2>1, <2>2, ListsStay DEF ConfigInv
<1>3. \A c \in Doc : Kept(c)'
  <2> SUFFICES ASSUME NEW c \in Doc \ {d}
               PROVE  Kept(c)'
    OBVIOUS
  <2>1. Kept(c) /\ life'[c] = life[c] /\ row'[c] = row[c] /\ wanted'[c] = wanted[c]
        /\ padded'[c] = padded[c] /\ (c \in raced' <=> c \in raced)
    BY DEF ConfigInv, Documents, FieldsKept, Kept, Touches
  <2>2. ASSUME NEW f \in Field, row[c][f] \in Request
        PROVE  Provided(row[c][f], c, f)'
    <3>1. \A v \in Request, e \in Doc : Provided(v, e, f) => Provided(v, e, f)'
      BY ProvidedStays DEF ConfigInv
    <3>2. Provided(row[c][f], c, f)
      BY <2>2, <2>1 DEF Kept
    <3>3. row[c][f] = row'[c][f]
      BY <2>1
    <3> QED
      BY <2>2, <3>1, <3>2, <3>3 DEF Provided, OfTokens
  <2>3. ASSUME NEW f \in Field, row'[c][f] \in Request
        PROVE  Provided(row[c][f], c, f)'
    BY <2>1, <2>2, <2>3
  <2> QED
    BY <2>1, <2>3 DEF Kept, Provided, OfTokens, Excused
<1>4. Documents' /\ FieldsKept'
  BY <1>3 DEF Documents, FieldsKept, Kept, Excused, Provided, OfTokens
<1> QED
  BY <1>1, <1>2, <1>4 DEF ConfigInv

LEMMA AfterWriteSound ==
    ASSUME NEW q \in Req, NEW d \in Doc, q.doc = d
    PROVE  LET x == At(q, AfterWrite(d)) IN
           /\ x \in Req /\ x.stage = AfterWrite(d) /\ x.stage \in {"drop", "done"}
           /\ x.doc = d /\ Keeps(q, x)
BY DEF At, AfterWrite, Ended, Idle, Req, Stage, Snapshot, Lists, Keeps

LEMMA WriteBackStep ==
    ASSUME ConfigInv, NEW r \in Request, WriteBack(r)
    PROVE  ConfigInv'
<1>1. /\ req[r] \in Req /\ Sound(req[r]) /\ Fresh(req[r]) /\ Traced(req[r])
      /\ req[r].stage = "write"
  BY DEF WriteBack, ConfigInv, Requests, Sound
<1>2. PICK d \in Doc, fs \in SUBSET Field, rs \in SUBSET Field :
         /\ d = req[r].doc /\ fs = req[r].fields /\ rs = req[r].resets
         /\ req[r].seen \in Row /\ (d \notin Settings => life[d] # "new")
  BY <1>1 DEF Sound, Updating, Req
<1> DEFINE x == At(req[r], AfterWrite(d))
<1>3. /\ x \in Req /\ x.stage = AfterWrite(d) /\ x.stage \in {"drop", "done"}
      /\ x.doc = d /\ x.fields = fs /\ Keeps(req[r], x)
  BY <1>1, <1>2, AfterWriteSound DEF Keeps
<1>4. (x.stage = "drop" => d \in Listed) /\ (d \in Listed => x.stage = "drop")
  BY <1>3 DEF AfterWrite
<1>5. CASE life[d] = "gone"
  <2>1. UNCHANGED <<life, row, wanted, padded, raced, cache, defaults, leaked, dirty>>
    BY <1>2, <1>5 DEF WriteBack
  <2>2. req' = [req EXCEPT ![r] = x] /\ req'[r] = x
    BY <1>2, <1>5 DEF WriteBack, To, ConfigInv, Requests
  <2> HIDE DEF x
  <2>3. Sound(req[r])' /\ Fresh(req[r])' /\ Traced(req[r])'
    BY <1>2, <1>3, <1>4, <2>2 DEF Sound, Fresh, Traced, Updating
  <2>4. DocTypes' /\ Requests' /\ Documents' /\ FieldsKept' /\ Remembers
    BY <1>2, <1>3, <2>1, <2>2, <2>3, QuietStep DEF ConfigInv, DocTypes
  <2>5. ListsCurrent'
    BY <1>1, <2>1, <2>2, ListsStay DEF ConfigInv, Requests, Shown
  <2> QED
    BY <2>1, <2>4, <2>5, DefaultsStay DEF ConfigInv, CacheTypes
<1>6. CASE life[d] # "gone"
  <2> DEFINE new == [f \in Field |->
                        IF f \in fs THEN r
                        ELSE IF f \in rs THEN Default
                        ELSE IF f \in Sets(d, fs) THEN req[r].seen[f] ELSE row[d][f]]
             want == [f \in Field |-> IF f \in fs THEN r ELSE wanted[d][f]]
  <2>1. /\ life' = [life EXCEPT ![d] = "live"]
        /\ row' = [row EXCEPT ![d] = new]
        /\ wanted' = [wanted EXCEPT ![d] = want]
        /\ padded' = [padded EXCEPT ![d] = (@ \ fs) \cup rs]
        /\ raced' = IF req[r].stale THEN raced \cup {d} ELSE raced
        /\ UNCHANGED <<cache, defaults, leaked, dirty>>
    BY <1>2, <1>6 DEF WriteBack
  <2>2. CommitBy(r, d, x)
    BY <1>2, <1>6 DEF WriteBack, Commit, CommitBy
  <2>3. new \in Row /\ want \in Row
    BY <1>2 DEF ConfigInv, DocTypes, Row
  <2>4. /\ \A f \in fs : new[f] = r /\ want[f] = r
        /\ \A f \in Field \ fs : want[f] = wanted[d][f]
        /\ \A f \in Field \ fs : f \in rs => new[f] = Default
        /\ \A f \in Field \ fs : f \notin rs => new[f] \in {req[r].seen[f], row[d][f]}
    BY <1>2
  <2> HIDE DEF new, want, x
  <2>5. DocTypes'
    BY <1>2, <2>1, <2>3 DEF ConfigInv, DocTypes
  <2>6. Touches({d}) /\ life'[d] = "live" /\ row'[d] = new /\ wanted'[d] = want
    BY <1>2, <1>6, <2>1 DEF ConfigInv, DocTypes, Touches
  <2>7. Requests' /\ Remembers /\ req'[r] = x
    BY <1>2, <1>3, <1>4, <2>2, <2>6, CommitMoves
  <2>8. ASSUME NEW f \in Field, NEW v \in Request, v = new[f]
        PROVE  Provided(v, d, f)'
    <3>1. CASE f \in fs
      BY <1>2, <1>3, <2>4, <2>7, <2>8, <3>1 DEF Provided, Keeps
    <3>2. CASE f \notin fs
      <4>1. Provided(v, d, f)
        BY <1>1, <1>2, <2>4, <2>8, <3>2 DEF Traced, ConfigInv, Documents
      <4> QED
        BY <2>1, <2>7, <4>1, ProvidedStays DEF ConfigInv
    <3> QED
      BY <3>1, <3>2
  <2>9. ASSUME NEW f \in Field, d \notin raced'
        PROVE  new[f] = want[f] \/ Excused(d, f)'
    <3>1. ~ req[r].stale /\ d \notin raced /\ padded'[d] = (padded[d] \ fs) \cup rs
          /\ leaked' = leaked
      BY <2>1, <2>9 DEF ConfigInv, DocTypes
    <3>2. CASE f \in fs
      BY <2>4, <3>2
    <3>3. CASE f \notin fs /\ f \in rs
      BY <2>4, <2>6, <3>1, <3>3 DEF Excused
    <3>4. CASE f \notin fs /\ f \notin rs /\ life[d] = "live"
      <4>1. new[f] = row[d][f] /\ want[f] = wanted[d][f]
        BY <1>1, <1>2, <2>4, <3>1, <3>4 DEF Fresh
      <4>2. row[d][f] = wanted[d][f] \/ Excused(d, f)
        BY <3>1, <3>4 DEF ConfigInv, FieldsKept
      <4> QED
        BY <2>6, <3>1, <3>4, <4>1, <4>2 DEF Excused
    <3>5. CASE f \notin fs /\ f \notin rs /\ life[d] # "live"
      <4>1. life[d] = "new" /\ (req[r].seen[f] = Default \/ (f \in Tokens /\ d \in leaked))
        BY <1>1, <1>2, <3>1, <3>5 DEF Fresh
      <4>2. row[d][f] = Default /\ wanted[d][f] = Default
        BY <1>2, <4>1 DEF ConfigInv, Documents
      <4> QED
        BY <2>4, <3>1, <3>5, <4>1, <4>2 DEF Excused
    <3> QED
      BY <3>2, <3>3, <3>4, <3>5
  <2>10. \A c \in Doc \ {d} : /\ wanted'[c] = wanted[c] /\ padded'[c] = padded[c]
                              /\ c \in raced' <=> c \in raced
    BY <2>1 DEF ConfigInv, DocTypes
  <2>11. ASSUME NEW f \in Field, row'[d][f] \in Request
         PROVE  Provided(row[d][f], d, f)'
    <3>1. PICK v \in Request : v = new[f] /\ v = row'[d][f]
      BY <2>6, <2>11
    <3>2. Provided(v, d, f)'
      BY <2>8, <3>1
    <3> QED
      BY <3>1, <3>2 DEF Provided, OfTokens
  <2>12. Kept(d)'
    BY <2>1, <2>6, <2>9, <2>11 DEF Kept, Provided, OfTokens, Excused
  <2> QED
    BY <1>1, <1>2, <1>3, <1>4, <2>1, <2>2, <2>5, <2>6, <2>7, <2>10, <2>12, CommitStep
<1> QED
  BY <1>5, <1>6

LEMMA CreateStep ==
    ASSUME ConfigInv, NEW r \in Request, NEW w \in Host, NEW d \in Doc, Create(r, w, d)
    PROVE  ConfigInv'
<1> DEFINE x == [Idle EXCEPT !.stage = AfterWrite(d), !.doc = d, !.host = w, !.fields = Field]
           new == [f \in Field |-> r]
<1>1. /\ req[r].stage = "idle" /\ d \notin Settings /\ life[d] = "new"
      /\ life' = [life EXCEPT ![d] = "live"]
      /\ row' = [row EXCEPT ![d] = new] /\ wanted' = [wanted EXCEPT ![d] = new]
      /\ UNCHANGED <<cache, defaults, padded, raced, leaked, dirty>>
      /\ CommitBy(r, d, x)
  BY DEF Create, CommitBy
<1>2. /\ x \in Req /\ x.stage = AfterWrite(d) /\ x.doc = d /\ x.fields = Field
      /\ x.stage \in {"drop", "done"} /\ (x.stage = "drop" <=> d \in Listed)
  BY DEF Idle, AfterWrite, Req, Stage, Snapshot, Lists
<1>3. new \in Row /\ \A f \in Field : new[f] = r
  BY DEF Row
<1> HIDE DEF x, new
<1>4. DocTypes'
  BY <1>1, <1>3 DEF ConfigInv, DocTypes
<1>5. Touches({d}) /\ life'[d] = "live" /\ row'[d] = new /\ wanted'[d] = new
  BY <1>1 DEF ConfigInv, DocTypes, Touches
<1>6. Requests' /\ Remembers /\ req'[r] = x
  BY <1>1, <1>2, <1>5, CommitMoves
<1>7. Kept(d)'
  BY <1>1, <1>2, <1>3, <1>5, <1>6 DEF Kept, Provided
<1>8. \A c \in Doc \ {d} : /\ wanted'[c] = wanted[c] /\ padded'[c] = padded[c]
                           /\ c \in raced' <=> c \in raced
  BY <1>1 DEF ConfigInv, DocTypes
<1> QED
  BY <1>1, <1>2, <1>4, <1>5, <1>6, <1>7, <1>8, CommitStep

LEMMA DeleteStep ==
    ASSUME ConfigInv, NEW r \in Request, NEW w \in Host, NEW d \in Doc, Delete(r, w, d)
    PROVE  ConfigInv'
<1> DEFINE x == [Idle EXCEPT !.doc = d, !.host = w,
                     !.stage = IF life[d] = "live" \/ d \in Provider
                               THEN AfterWrite(d) ELSE "done"]
<1>1. /\ req[r].stage = "idle" /\ d \notin Settings /\ life[d] # "new"
      /\ life' = [life EXCEPT ![d] = "gone"]
      /\ UNCHANGED <<row, cache, defaults, wanted, padded, raced, leaked, dirty>>
      /\ CommitBy(r, d, x)
  BY DEF Delete, CommitBy, ghostVars
<1>2. /\ x \in Req /\ x.doc = d /\ x.stage \in {"drop", "done"}
      /\ x.stage = "drop" => d \in Listed
      /\ d \in Listed /\ life[d] = "live" => x.stage = "drop"
  BY DEF Idle, AfterWrite, Req, Stage, Snapshot, Lists
<1> HIDE DEF x
<1>3. DocTypes'
  BY <1>1 DEF ConfigInv, DocTypes
<1>4. Touches({d}) /\ life'[d] = "gone"
  BY <1>1 DEF ConfigInv, DocTypes, Touches
<1>5. Requests' /\ Remembers /\ req'[r] = x
  BY <1>1, <1>2, <1>4, CommitMoves
<1>6. ASSUME NEW f \in Field, row'[d][f] \in Request
      PROVE  Provided(row[d][f], d, f)'
  <2>1. \A v \in Request : Provided(v, d, f) => Provided(v, d, f)'
    BY <1>1, <1>5, ProvidedStays DEF ConfigInv
  <2>2. Provided(row[d][f], d, f) /\ row[d][f] \in Request
    BY <1>1, <1>6 DEF ConfigInv, Documents
  <2> QED
    BY <1>1, <2>1, <2>2 DEF Provided, OfTokens
<1>7. Kept(d)'
  BY <1>1, <1>4, <1>6 DEF Kept, Provided, OfTokens, Excused
<1>8. d \in Listed => Shown(d)' = Shown(d) \/ (x.stage = "drop" /\ x.doc = d)
  BY <1>1, <1>2, <1>4 DEF Shown
<1> QED
  BY <1>1, <1>2, <1>3, <1>4, <1>5, <1>7, <1>8, CommitStep

-----------------------------------------------------------------------------
(* The theorems.                                                             *)

LEMMA ConfigStart == ConfigInit => ConfigInv
<1> SUFFICES ASSUME ConfigInit
             PROVE  ConfigInv
  OBVIOUS
<1>1. DocTypes /\ CacheTypes /\ Defaults
  BY NoDocIsNoDoc DEF ConfigInit, DocTypes, CacheTypes, Defaults, OwnDefaults, Row
<1>2. Requests
  <2>1. Idle \in Req /\ Idle.stage = "idle" /\ Idle.doc = NoDoc /\ Idle.fields = {}
        /\ Idle.resets = {}
    BY DEF Idle, Req, Stage, Snapshot, Lists
  <2>2. \A r \in Request : req[r] = Idle
    BY DEF ConfigInit
  <2>3. \A r \in Request : Sound(req[r]) /\ Fresh(req[r]) /\ Traced(req[r])
    BY <2>1, <2>2 DEF Sound, Fresh, Traced, Updating
  <2> QED
    BY <2>3 DEF ConfigInit, Requests
<1>3. Documents /\ FieldsKept
  BY DEF ConfigInit, Documents, FieldsKept, Excused
<1>4. ListsCurrent
  BY DEF ConfigInit, ListsCurrent, Key
<1> QED
  BY <1>1, <1>2, <1>3, <1>4 DEF ConfigInv

LEMMA ConfigStutter == ConfigInv /\ UNCHANGED configVars => ConfigInv'
<1> SUFFICES ASSUME ConfigInv, UNCHANGED configVars
             PROVE  ConfigInv'
  OBVIOUS
<1>1. UNCHANGED <<life, row, cache, defaults, req, wanted, padded, raced, leaked, dirty>>
  BY DEF configVars
<1>2. DocTypes' /\ CacheTypes' /\ Documents' /\ FieldsKept' /\ Defaults'
  BY <1>1 DEF ConfigInv, DocTypes, CacheTypes, Documents, Provided, OfTokens, FieldsKept, Excused, Defaults
<1>3. Requests'
  BY <1>1 DEF ConfigInv, Requests, Sound, Fresh, Traced, Provided, OfTokens, Shown
<1>4. ListsCurrent'
  BY <1>1 DEF ConfigInv, ListsCurrent, Current, Dropping
<1> QED
  BY <1>2, <1>3, <1>4 DEF ConfigInv

LEMMA ConfigStep == ConfigInv /\ [ConfigNext]_configVars => ConfigInv'
<1> SUFFICES ASSUME ConfigInv, [ConfigNext]_configVars
             PROVE  ConfigInv'
  OBVIOUS
<1>1. ASSUME NEW r \in Request, NEW w \in Host, NEW k \in Key, ListCached(r, w, k)
      PROVE  ConfigInv'
  BY <1>1, ListCachedStep
<1>2. ASSUME NEW r \in Request, NEW w \in Host, NEW d \in Doc, NEW fs \in SUBSET Field,
             NEW rs \in SUBSET Field, StartUpdate(r, w, d, fs, rs)
      PROVE  ConfigInv'
  BY <1>2, StartUpdateStep
<1>3. ASSUME NEW r \in Request, NEW w \in Host, NEW d \in Doc, Create(r, w, d) \/ Delete(r, w, d)
      PROVE  ConfigInv'
  BY <1>3, CreateStep, DeleteStep
<1>4. ASSUME NEW r \in Request,
             \/ SelectList(r) \/ FillCache(r) \/ ReadFirst(r) \/ ReadAgain(r)
             \/ WriteBack(r) \/ DropCache(r) \/ Abandon(r)
      PROVE  ConfigInv'
  BY <1>4, SelectListStep, FillCacheStep, ReadFirstStep, ReadAgainStep, WriteBackStep,
     DropCacheStep, AbandonStep
<1>5. ASSUME NEW k \in Key, Lapse(k)
      PROVE  ConfigInv'
  BY <1>5, LapseStep
<1>6. ASSUME NEW w \in Host, Restart(w)
      PROVE  ConfigInv'
  BY <1>6, RestartStep
<1> QED
  BY <1>1, <1>2, <1>3, <1>4, <1>5, <1>6, ConfigStutter DEF ConfigNext

\* The invariant of the document store: what each request has read and may still
\* write back is the document as it is, or the request is marked out of date
\* (the read-merge-write of update_tenant_settings, update_client,
\* update_identity_provider and update_tenant_policy_template).
THEOREM ConfigInvariant == ConfigSpec => []ConfigInv
BY ConfigStart, ConfigStep, PTL DEF ConfigSpec

LEMMA ConfigInvIsTyped == ConfigInv => ConfigTypeOK
<1> SUFFICES ASSUME ConfigInv
             PROVE  ConfigTypeOK
  OBVIOUS
<1>1. \A r \in Request : Sound(req[r]) /\ req[r] \in Req
  BY DEF ConfigInv, Requests, Sound
<1>2. ASSUME NEW r \in Request
      PROVE  /\ req[r].stage \in Stage
             /\ req[r].seen \in Snapshot
             /\ req[r].stage = "write" => req[r].seen \in Row /\ req[r].doc \in Doc
             /\ req[r].stage = "fill" => req[r].list \in [req[r].key -> Snapshot]
  BY <1>1 DEF Sound, Req, Updating
<1> QED
  BY <1>2 DEF ConfigInv, DocTypes, CacheTypes, Defaults, ConfigTypeOK

\* Type correctness of the document store: every stored document is complete,
\* every cached list holds one entry per document of its tenant, and a request
\* that is to write holds a complete document (get_tenant_settings never returns
\* a part of the settings, a missing template or client is a 404).
THEOREM ConfigTypeCorrect == ConfigSpec => []ConfigTypeOK
BY ConfigInvariant, ConfigInvIsTyped, PTL

\* A field holds what the last request that provided it asked for, as long as the
\* updates of its document do not overlap, but for a default that a later update of
\* its section passed on and for the token section of settings first written from
\* changed defaults (update_tenant_settings, update_identity_provider,
\* update_client, update_tenant_policy_template).
THEOREM UpdatesKeepFields == ConfigSpec => []FieldsKept
<1>1. ConfigInv => FieldsKept
  BY DEF ConfigInv
<1> QED
  BY <1>1, ConfigInvariant, PTL

\* A field never holds a value meant for another field or another document,
\* however updates overlap, but for the token section of settings first written
\* from defaults that PUT settings/tokens changed.
THEOREM ValuesStayHome == ConfigSpec => []NoForeignValues
<1>1. ConfigInv => NoForeignValues
  BY DEF ConfigInv, Documents, Provided, OfTokens, NoForeignValues
<1> QED
  BY <1>1, ConfigInvariant, PTL

\* The lists of templates and of providers in Redis are current but for a writer
\* before its DEL, one that died there, and a reader that filled the key with an
\* older SELECT (get_tenant_policy_templates, list_identity_providers).
THEOREM CachedListsCurrent == ConfigSpec => []ListsCurrent
<1>1. ConfigInv => ListsCurrent
  BY DEF ConfigInv
<1> QED
  BY <1>1, ConfigInvariant, PTL

-----------------------------------------------------------------------------
(* The two side by side.                                                     *)

LEMMA PlatformStep ==
    AuditInv /\ ConfigInv /\ [PlatformNext]_platformVars => AuditInv' /\ ConfigInv'
<1> SUFFICES ASSUME AuditInv, ConfigInv, [PlatformNext]_platformVars
             PROVE  AuditInv' /\ ConfigInv'
  OBVIOUS
<1>1. [AuditNext]_auditVars /\ [ConfigNext]_configVars
  BY DEF PlatformNext, platformVars
<1> QED
  BY <1>1, StepInv, ConfigStep

\* Type correctness of the two components together: flushes are owned by a
\* worker's loop, publish() or stop(), and requests carry documents and lists of
\* their tenant (AuditService, get_tenant_settings).
THEOREM PlatformTypeCorrect == PlatformSpec => []PlatformTypeOK
<1>1. PlatformInit => AuditInv /\ ConfigInv
  BY InitInv, ConfigStart DEF PlatformInit
<1>2. AuditInv /\ ConfigInv => PlatformTypeOK
  BY ConfigInvIsTyped
     DEF PlatformTypeOK, AuditInv, MemoryType, DeliveryInv, RedisType, AuditTypeOK
<1> QED
  BY <1>1, <1>2, PlatformStep, PTL DEF PlatformSpec

=============================================================================
