------------------------- MODULE RequestPathProofs -------------------------
(***************************************************************************)
(* Proofs about what every request passes: the gate and the connection pool. *)
(*                                                                           *)
(* TokenGate: the key of a live token is in the keyset, and a refusal is      *)
(* final, for any number of processes and tokens, any size of the cache and   *)
(* any intervals that satisfy GateAssumption.                                 *)
(*                                                                           *)
(* TenantPool: handlers run under their request's tenant, and waiting         *)
(* requests are served, for any connections, requests and tenants.            *)
(***************************************************************************)
EXTENDS TokenGate, TenantPool, TLAPS

(* The gate.                                                                 *)

LEMMA Intervals ==
    /\ Rotation \in Nat /\ Rotation > 0 /\ Check \in Nat /\ Check > 0
    /\ Ttl \in Nat /\ Ttl > 0 /\ MemoCap \in Nat /\ MemoCap > 0
    /\ Retention \in Nat /\ Retention >= Rotation + Check + Ttl
BY GateAssumption DEF GateAssumption

LEMMA Margin ==
    ASSUME NEW a \in Int, NEW n \in Nat, n - a < Rotation
    PROVE  n < a + Rotation + Check /\ n + Check < a + Rotation + Check
BY Intervals

LEMMA LifeMargin ==
    ASSUME NEW a \in Int, NEW n \in Nat, n < a + Rotation + Check
    PROVE  n + Ttl < a + Rotation + Check + Ttl /\ a >= n - Retention
BY Intervals

USE Intervals

Keysets == [keys : SUBSET Int, active : Int]

\* A keyset in the file at time n.
IsFile(d, n) == d \in Keysets /\ d.keys \subseteq 0 .. n /\ d.active \in d.keys

\* A keyset in memory, when the file holds d: it was in the file once.  Of the keys
\* made since it lacks all, of the older ones none; what the file has pruned since
\* is too old to have signed a live token.
Fits(K, d, n) ==
    K # NoKeyset =>
        /\ K.keys \subseteq 0 .. n /\ K.active \in K.keys
        /\ K.active <= d.active
        /\ \A k \in d.keys : k <= K.active => k \in K.keys
        /\ \A k \in K.keys : k >= n - Retention => k \in d.keys

\* The file goes from d to e: no key becomes active twice, and no young one is lost.
Newer(d, e, n) ==
    /\ d.active <= e.active
    /\ \A k \in e.keys : k <= d.active => k \in d.keys
    /\ \A k \in d.keys : k >= n - Retention => k \in e.keys

\* What a process knows of the keys.  One that has looked at its active key since
\* its host booted, and need not look again, has one that is not much older than
\* an interval.
MemInv(w) ==
    /\ mem[w].active <= mtime[w] /\ mtime[w] <= disk.active
    /\ mem[w] = NoKeyset => mtime[w] = Never
    /\ Fits(mem[w], disk, now)
    /\ Fits(draft[w], disk, now)
    /\ draft[w] # NoKeyset => ~ Loaded(w) /\ mem[w].active <= draft[w].active
    /\ w \notin blind => due[w] <= now \/ due[w] < mem[w].active + Rotation + Check

ClockInv ==
    /\ now \in Nat
    /\ IsFile(disk, now)
    /\ mem \in [Process -> Keysets]
    /\ mtime \in [Process -> Int]
    /\ draft \in [Process -> Keysets]
    /\ due \in [Process -> Nat]
    /\ blind \subseteq Process
    /\ \A w \in Process : MemInv(w)

\* A cache: signed tokens, each once, and no more than its size.
MemoInv(w) ==
    /\ memo[w] \in Seq(Jwt)
    /\ Len(memo[w]) <= MemoCap
    /\ \A m, n \in DOMAIN memo[w] : memo[w][m] = memo[w][n] => m = n
    /\ \A j \in Memoised(w) : Signed(j)

\* The values of everything but the keys and the caches.
ValuesOK ==
    /\ jwts \in [Jwt -> [key : Nat, exp : Nat, early : BOOLEAN]]
    /\ bloom \in [Process -> SUBSET Jwt]
    /\ call \in [Call -> (Process \X Jwt) \cup {NoCall}]
    /\ refused \in [Process -> SUBSET Jwt]

\* A token lives for Ttl from a time when its key was the active one of a process.
TokenInv(j) ==
    Signed(j) =>
        /\ jwts[j].key <= disk.active
        /\ ~ jwts[j].early => jwts[j].exp < jwts[j].key + Rotation + Check + Ttl
        /\ ~ jwts[j].early /\ ~ Expired(j) => jwts[j].key \in disk.keys

CallInv == \A w \in Process, j \in Jwt : InFlight(w, j) => Signed(j)

\* No keyset the process has or can still get holds the key of j.
NoKey(w, j) ==
    /\ jwts[j].key \notin mem[w].keys
    /\ jwts[j].key \notin draft[w].keys
    /\ jwts[j].key \notin disk.keys

\* Neither the cache nor a verification, finished or to come, lets j in.
Gone(w, j) ==
    /\ j \notin Memoised(w)
    /\ ~ InFlight(w, j)
    /\ Expired(j) \/ NoKey(w, j)

\* A refused token was signed, and is revoked or gone.
RefusedInv(w) == \A j \in refused[w] : Signed(j) /\ (j \in bloom[w] \/ Gone(w, j))

GateInv ==
    /\ ClockInv
    /\ ValuesOK
    /\ memo \in [Process -> Seq(Jwt)]
    /\ \A w \in Process : MemoInv(w)
    /\ CallInv
    /\ \A j \in Jwt : TokenInv(j)
    /\ \A w \in Process : RefusedInv(w)

-----------------------------------------------------------------------------
LEMMA GateInitially == GateInit => GateInv
<1> SUFFICES ASSUME GateInit PROVE GateInv
  OBVIOUS
<1>1. /\ now = 0 /\ disk = [keys |-> {0}, active |-> 0]
      /\ mem = [w \in Process |-> disk] /\ mtime = [w \in Process |-> 0]
      /\ draft = [w \in Process |-> NoKeyset]
      /\ due = [w \in Process |-> 0] /\ blind = {}
  BY DEF GateInit
<1>2. IsFile(disk, now)
  BY <1>1 DEF IsFile, Keysets
<1>3. NoKeyset \in Keysets /\ Fits(NoKeyset, disk, now) /\ Fits(disk, disk, now)
  BY <1>1, <1>2 DEF Fits, IsFile, NoKeyset, Keysets, Never
<1>4. \A w \in Process : MemInv(w)
  <2> TAKE w \in Process
  <2>1. mem[w] = disk /\ mtime[w] = 0 /\ draft[w] = NoKeyset /\ due[w] = 0
    BY <1>1
  <2>2. disk # NoKeyset
    BY <1>1 DEF NoKeyset, Never
  <2> QED
    BY <1>1, <1>3, <2>1, <2>2 DEF MemInv
<1>5. ClockInv
  <2>1. disk \in Keysets /\ 0 \in Nat /\ 0 \in Int
    BY <1>2 DEF IsFile
  <2>2. mem \in [Process -> Keysets] /\ mtime \in [Process -> Int]
        /\ draft \in [Process -> Keysets] /\ due \in [Process -> Nat]
    BY <1>1, <1>3, <2>1
  <2> QED
    BY <1>1, <1>2, <1>4, <2>2 DEF ClockInv
<1> USE DEF GateInit
<1>6. ValuesOK
  BY DEF ValuesOK, Unsigned
<1>7. memo \in [Process -> Seq(Jwt)] /\ \A w \in Process : MemoInv(w)
  BY DEF MemoInv, Memoised
<1>8. CallInv
  BY DEF CallInv, InFlight, NoCall
<1>9. \A j \in Jwt : TokenInv(j)
  BY DEF TokenInv, Signed
<1>10. \A w \in Process : RefusedInv(w)
  BY DEF RefusedInv
<1> QED
  BY <1>5, <1>6, <1>7, <1>8, <1>9, <1>10 DEF GateInv

-----------------------------------------------------------------------------
LEMMA FitsSelf == ASSUME NEW n \in Nat, NEW d, IsFile(d, n) PROVE Fits(d, d, n)
BY DEF Fits, IsFile, Keysets

LEMMA FitsNewer ==
    ASSUME NEW n \in Nat, NEW d, NEW e, NEW K, IsFile(d, n), IsFile(e, n),
           Newer(d, e, n), Fits(K, d, n)
    PROVE  Fits(K, e, n)
<1> SUFFICES ASSUME K # NoKeyset PROVE Fits(K, e, n)
  BY DEF Fits
<1>1. d.active \in Int /\ e.active \in Int /\ K.active \in Int /\ K.keys \subseteq Int
      /\ d.keys \subseteq Int /\ e.keys \subseteq Int
  BY DEF Fits, IsFile, Keysets
<1> QED
  BY <1>1 DEF Fits, Newer

LEMMA FitsLater ==
    ASSUME NEW n \in Nat, NEW d, NEW K, Fits(K, d, n)
    PROVE  Fits(K, d, n + 1)
BY DEF Fits

LEMMA NewerSelf == ASSUME NEW n \in Nat, NEW d, IsFile(d, n) PROVE Newer(d, d, n)
BY DEF Newer, IsFile, Keysets

\* What a step on the keys may do: the file moves on, and a keyset comes from the
\* file or from what was read of it.
KeysMove ==
    /\ ClockInv'
    /\ now' = now
    /\ Newer(disk, disk', now)
    /\ \A w \in Process :
          /\ mem'[w].keys \subseteq mem[w].keys \cup draft[w].keys \cup disk'.keys
          /\ draft'[w].keys \subseteq draft[w].keys \cup disk'.keys

\* A process that does nothing, while another moves the file on.
LEMMA OtherStays ==
    ASSUME ClockInv, NEW v \in Process, now' = now, IsFile(disk', now), Newer(disk, disk', now),
           mem'[v] = mem[v], mtime'[v] = mtime[v], draft'[v] = draft[v], due'[v] = due[v],
           v \notin blind' => v \notin blind
    PROVE  MemInv(v)'
<1>1. MemInv(v) /\ now \in Nat /\ IsFile(disk, now) /\ mtime[v] \in Int
  BY DEF ClockInv
<1>2. Fits(mem[v], disk', now) /\ Fits(draft[v], disk', now)
  BY <1>1, FitsNewer DEF MemInv
<1>3. disk.active \in Int /\ disk'.active \in Int /\ disk.active <= disk'.active
  BY <1>1 DEF IsFile, Keysets, Newer
<1>4. mtime[v] <= disk'.active
  BY <1>1, <1>3 DEF MemInv
<1>5. draft[v] # NoKeyset => mtime[v] # disk'.active /\ mem[v].active <= draft[v].active
  BY <1>1, <1>3 DEF MemInv, Loaded
<1> QED
  BY <1>1, <1>2, <1>4, <1>5 DEF MemInv, Loaded

LEMMA StayMoves ==
    ASSUME ClockInv, now' = now, UNCHANGED gateClock
    PROVE  KeysMove
<1>1. disk' = disk /\ mem' = mem /\ mtime' = mtime /\ draft' = draft /\ due' = due /\ blind' = blind
  BY DEF gateClock, fileClock
<1>2. now \in Nat /\ IsFile(disk, now)
  BY DEF ClockInv
<1>3. Newer(disk, disk', now)
  BY <1>1, <1>2, NewerSelf
<1>4. \A v \in Process : MemInv(v)'
  BY <1>1, <1>2, <1>3, OtherStays
<1> QED
  BY <1>1, <1>3, <1>4 DEF KeysMove, ClockInv

LEMMA ReadMoves == ASSUME ClockInv, NEW w \in Process, ReadKeyset(w) PROVE KeysMove
<1>1. /\ now' = now /\ disk' = disk /\ mem' = mem /\ mtime' = mtime /\ due' = due /\ blind' = blind
      /\ draft' = [draft EXCEPT ![w] = disk] /\ ~ Loaded(w)
  BY DEF ReadKeyset
<1>2. now \in Nat /\ IsFile(disk, now) /\ disk \in Keysets
  BY DEF ClockInv, IsFile
<1>3. Newer(disk, disk', now)
  BY <1>1, <1>2, NewerSelf
<1>4. draft' \in [Process -> Keysets] /\ draft'[w] = disk
      /\ \A v \in Process : v # w => draft'[v] = draft[v]
  BY <1>1, <1>2 DEF ClockInv
<1>5. MemInv(w)'
  <2>1. Fits(disk, disk, now)
    BY <1>2, FitsSelf
  <2>2. MemInv(w) /\ mtime[w] \in Int /\ mem[w].active \in Int /\ disk.active \in Int
    BY <1>2 DEF ClockInv, Keysets
  <2>3. mem[w].active <= disk.active
    BY <2>2 DEF MemInv
  <2> QED
    BY <1>1, <1>4, <2>1, <2>2, <2>3 DEF MemInv, Loaded
<1>6. \A v \in Process : MemInv(v)'
  BY <1>1, <1>2, <1>3, <1>4, <1>5, OtherStays
<1>7. ClockInv'
  BY <1>1, <1>2, <1>4, <1>6 DEF ClockInv
<1> QED
  BY <1>1, <1>3, <1>4, <1>7 DEF KeysMove

LEMMA KeepMoves == ASSUME ClockInv, NEW w \in Process, KeepKeyset(w) PROVE KeysMove
<1>1. /\ now' = now /\ disk' = disk /\ due' = due /\ blind' = blind
      /\ mem' = [mem EXCEPT ![w] = draft[w]]
      /\ mtime' = [mtime EXCEPT ![w] = disk.active]
      /\ draft' = [draft EXCEPT ![w] = NoKeyset] /\ draft[w] # NoKeyset
  BY DEF KeepKeyset
<1>2. now \in Nat /\ IsFile(disk, now) /\ disk \in Keysets /\ disk.active \in Int
      /\ NoKeyset \in Keysets
  BY DEF ClockInv, IsFile, Keysets, NoKeyset, Never
<1>3. Newer(disk, disk', now)
  BY <1>1, <1>2, NewerSelf
<1>4. /\ draft' \in [Process -> Keysets] /\ draft'[w] = NoKeyset
      /\ mem' \in [Process -> Keysets] /\ mem'[w] = draft[w]
      /\ mtime' \in [Process -> Int] /\ mtime'[w] = disk.active
      /\ \A v \in Process : v # w => draft'[v] = draft[v] /\ mem'[v] = mem[v] /\ mtime'[v] = mtime[v]
  BY <1>1, <1>2 DEF ClockInv
<1>5. MemInv(w)'
  <2>1. MemInv(w) /\ due[w] \in Nat /\ mem[w].active \in Int /\ draft[w].active \in Int
    BY DEF ClockInv, Keysets
  <2>2. draft[w].active <= disk.active /\ mem[w].active <= draft[w].active
    BY <1>1, <2>1 DEF MemInv, Fits
  <2>3. w \notin blind => due[w] <= now \/ due[w] < draft[w].active + Rotation + Check
    <3>1. w \notin blind => due[w] <= now \/ due[w] < mem[w].active + Rotation + Check
      BY <2>1 DEF MemInv
    <3> QED
      BY <2>1, <2>2, <3>1
  <2>4. Fits(NoKeyset, disk, now)
    BY DEF Fits
  <2>5. Fits(draft[w], disk, now)
    BY <2>1 DEF MemInv
  <2>6. disk.active <= disk.active
    BY <1>2
  <2> QED
    BY <1>1, <1>4, <2>2, <2>3, <2>4, <2>5, <2>6 DEF MemInv
<1>6. \A v \in Process : MemInv(v)'
  BY <1>1, <1>2, <1>3, <1>4, <1>5, OtherStays
<1>7. ClockInv'
  BY <1>1, <1>2, <1>4, <1>6 DEF ClockInv
<1>8. \A v \in Process :
          /\ mem'[v].keys \subseteq mem[v].keys \cup draft[v].keys \cup disk'.keys
          /\ draft'[v].keys \subseteq draft[v].keys \cup disk'.keys
  BY <1>4 DEF NoKeyset
<1> QED
  BY <1>1, <1>3, <1>7, <1>8 DEF KeysMove

LEMMA TimeoutMoves == ASSUME ClockInv, NEW w \in Process, LockTimesOut(w) PROVE KeysMove
<1>1. /\ now' = now /\ disk' = disk /\ mem' = mem /\ mtime' = mtime /\ draft' = draft
      /\ due' = [due EXCEPT ![w] = now + Check] /\ blind' = blind \cup {w}
  BY DEF LockTimesOut, fileClock
<1>2. now \in Nat /\ IsFile(disk, now) /\ due \in [Process -> Nat] /\ due' \in [Process -> Nat]
  BY <1>1 DEF ClockInv
<1>3. Newer(disk, disk', now)
  BY <1>1, <1>2, NewerSelf
<1>4. MemInv(w)'
  <2>1. MemInv(w)
    BY DEF ClockInv
  <2> QED
    BY <1>1, <2>1 DEF MemInv, Loaded
<1>5. \A v \in Process : v # w => due'[v] = due[v]
  BY <1>1, <1>2
<1>6. \A v \in Process : MemInv(v)'
  BY <1>1, <1>2, <1>3, <1>4, <1>5, OtherStays
<1>7. ClockInv'
  BY <1>1, <1>2, <1>6 DEF ClockInv
<1> QED
  BY <1>1, <1>3, <1>7 DEF KeysMove

\* A rotation adds the key of the present and drops old ones.
LEMMA RotateMoves ==
    ASSUME ClockInv, NEW w \in Process, Rotate(w)
    PROVE  /\ IsFile(disk', now) /\ Newer(disk, disk', now)
           /\ now - disk'.active < Rotation
           /\ mem'[w] = disk' /\ mtime'[w] = disk'.active
<1>1. now \in Nat /\ IsFile(disk, now) /\ disk.active \in 0 .. now /\ disk.keys \subseteq Int
  BY DEF ClockInv, IsFile
<1>2. mem'[w] = disk' /\ mtime'[w] = disk'.active
  BY DEF Rotate, ClockInv
<1>3. CASE ~ OldKey(disk)
  <2>1. disk' = disk
    BY <1>3 DEF Rotate
  <2> QED
    BY <1>1, <1>2, <1>3, <2>1, NewerSelf DEF OldKey
<1>4. CASE OldKey(disk)
  <2>1. disk' = [keys |-> {k \in disk.keys \cup {now} : k >= now - Retention}, active |-> now]
    BY <1>4 DEF Rotate, Pruned
  <2>2. disk.active < now
    BY <1>1, <1>4 DEF OldKey
  <2>3. disk'.active = now /\ disk'.keys = {k \in disk.keys \cup {now} : k >= now - Retention}
    BY <2>1
  <2>4. now \in disk'.keys /\ disk'.keys \subseteq 0 .. now
    <3>1. now >= now - Retention /\ disk.keys \subseteq 0 .. now /\ now \in 0 .. now
      BY <1>1 DEF IsFile
    <3> QED
      BY <2>3, <3>1
  <2>5. IsFile(disk', now)
    <3>1. disk'.keys \subseteq Int
      BY <2>4
    <3> QED
      BY <1>1, <2>1, <2>3, <2>4, <3>1 DEF IsFile, Keysets
  <2>6. Newer(disk, disk', now)
    BY <1>1, <2>2, <2>3 DEF Newer
  <2> QED
    BY <1>1, <1>2, <2>3, <2>5, <2>6
<1> QED
  BY <1>3, <1>4

LEMMA ReadyMoves ==
    ASSUME ClockInv, NEW w \in Process, Ready(w), now' = now
    PROVE  /\ KeysMove
           /\ mem'[w] # NoKeyset
           /\ draft'[w] = NoKeyset
           /\ w \notin blind' => now < mem'[w].active + Rotation + Check
<1>1. /\ now \in Nat /\ IsFile(disk, now) /\ disk.active \in Nat
      /\ mem \in [Process -> Keysets] /\ mtime \in [Process -> Int]
      /\ draft \in [Process -> Keysets]
      /\ due \in [Process -> Nat] /\ blind \subseteq Process
      /\ MemInv(w) /\ mem[w] \in Keysets
  BY DEF ClockInv, IsFile
<1>2. mem[w] # NoKeyset /\ draft[w] = NoKeyset
  BY <1>1 DEF MemInv, Ready, Loaded, Never
<1>3. CASE now < due[w] /\ UNCHANGED gateClock
  <2>1. KeysMove
    BY <1>3, StayMoves
  <2>2. mem' = mem /\ draft' = draft /\ blind' = blind
    BY <1>3 DEF gateClock, fileClock
  <2>3. w \notin blind => now < mem[w].active + Rotation + Check
    <3>1. w \notin blind => due[w] <= now \/ due[w] < mem[w].active + Rotation + Check
      BY <1>1 DEF MemInv
    <3>2. due[w] \in Nat /\ mem[w].active \in Int
      BY <1>1 DEF Keysets
    <3> QED
      BY <1>1, <1>3, <3>1, <3>2
  <2> QED
    BY <1>2, <2>1, <2>2, <2>3
<1>4. CASE /\ now >= due[w]
           /\ due' = [due EXCEPT ![w] = now + Check]
           /\ blind' = blind \ {w}
           /\ IF OldKey(mem[w]) THEN Rotate(w) ELSE UNCHANGED <<disk, mem, mtime>>
           /\ UNCHANGED draft
  <2>1. /\ IsFile(disk', now) /\ Newer(disk, disk', now)
        /\ mem'[w] # NoKeyset /\ Fits(mem'[w], disk', now)
        /\ mem'[w].active <= mtime'[w] /\ mtime'[w] <= disk'.active
        /\ now - mem'[w].active < Rotation
        /\ mem'[w].keys \subseteq mem[w].keys \cup disk'.keys
        /\ mem' \in [Process -> Keysets] /\ mtime' \in [Process -> Int]
        /\ \A v \in Process : v # w => mem'[v] = mem[v] /\ mtime'[v] = mtime[v]
    <3>1. CASE OldKey(mem[w])
      <4>1. /\ IsFile(disk', now) /\ Newer(disk, disk', now)
            /\ now - disk'.active < Rotation
            /\ mem'[w] = disk' /\ mtime'[w] = disk'.active
        BY <1>4, <3>1, RotateMoves
      <4>2. disk' \in Keysets /\ disk'.active \in Int /\ disk'.active \in 0 .. now
        BY <4>1 DEF IsFile, Keysets
      <4>3. disk' # NoKeyset
        BY <4>2 DEF NoKeyset, Never
      <4>4. Fits(disk', disk', now)
        BY <1>1, <4>1, FitsSelf
      <4>5. /\ mem' = [mem EXCEPT ![w] = disk']
            /\ mtime' = [mtime EXCEPT ![w] = disk'.active]
        BY <1>4, <3>1 DEF Rotate
      <4>6. /\ mem' \in [Process -> Keysets] /\ mtime' \in [Process -> Int]
            /\ \A v \in Process : v # w => mem'[v] = mem[v] /\ mtime'[v] = mtime[v]
        BY <1>1, <4>2, <4>5
      <4> QED
        BY <4>1, <4>2, <4>3, <4>4, <4>6
    <3>2. CASE ~ OldKey(mem[w])
      <4>1. disk' = disk /\ mem' = mem /\ mtime' = mtime
        BY <1>4, <3>2
      <4>2. now - mem[w].active < Rotation
        BY <1>1, <3>2 DEF OldKey, Keysets
      <4> QED
        BY <1>1, <1>2, <4>1, <4>2, NewerSelf DEF MemInv
    <3> QED
      BY <3>1, <3>2
  <2>2. /\ due' \in [Process -> Nat] /\ blind' \subseteq Process /\ due'[w] = now + Check
        /\ draft' = draft
        /\ \A v \in Process : v # w => due'[v] = due[v] /\ (v \notin blind' => v \notin blind)
    BY <1>1, <1>4
  <2>3. mem'[w].active \in Int
    BY <2>1 DEF Keysets
  <2>4. now < mem'[w].active + Rotation + Check /\ now + Check < mem'[w].active + Rotation + Check
    BY <1>1, <2>1, <2>3, Margin
  <2>5. Fits(NoKeyset, disk', now)
    BY DEF Fits
  <2>6. MemInv(w)'
    BY <1>2, <2>1, <2>2, <2>4, <2>5 DEF MemInv
  <2>7. \A v \in Process : MemInv(v)'
    BY <2>1, <2>2, <2>6, OtherStays
  <2>8. ClockInv'
    BY <1>1, <2>1, <2>2, <2>7 DEF ClockInv
  <2>9. KeysMove
    BY <2>1, <2>2, <2>8 DEF KeysMove
  <2> QED
    BY <1>2, <2>1, <2>2, <2>4, <2>9
<1> QED
  BY <1>3, <1>4 DEF Ready

-----------------------------------------------------------------------------
\* What a step on the keys leaves of the rest of the invariant.
LEMMA KeysMoveKeeps ==
    ASSUME GateInv, KeysMove, UNCHANGED jwts
    PROVE  /\ \A j \in Jwt : TokenInv(j)'
           /\ \A j \in Jwt : Signed(j)' = Signed(j)
           /\ \A j \in Jwt : Expired(j)' = Expired(j)
           /\ \A w \in Process : \A j \in Jwt : Signed(j) /\ NoKey(w, j) => NoKey(w, j)'
<1>1. /\ now' = now /\ now \in Nat
      /\ disk.active \in Int /\ disk'.active \in Int /\ disk.active <= disk'.active
      /\ disk.keys \subseteq Int
      /\ \A k \in disk'.keys : k <= disk.active => k \in disk.keys
      /\ \A k \in disk.keys : k >= now - Retention => k \in disk'.keys
  BY DEF GateInv, KeysMove, ClockInv, IsFile, Keysets, Newer
<1>2. ASSUME NEW j \in Jwt, Signed(j)
      PROVE  jwts[j].key \in Nat /\ jwts[j].exp \in Nat /\ jwts[j].key <= disk.active
  BY <1>2 DEF GateInv, ValuesOK, TokenInv
<1>3. ASSUME NEW j \in Jwt PROVE TokenInv(j)'
  <2> SUFFICES ASSUME Signed(j) PROVE TokenInv(j)'
    BY DEF TokenInv, Signed
  <2>1. jwts[j].key <= disk'.active
    BY <1>1, <1>2
  <2>2. TokenInv(j)
    BY DEF GateInv
  <2>3. ASSUME ~ jwts[j].early, ~ (jwts[j].exp <= now)
        PROVE  jwts[j].key \in disk'.keys
    <3>1. jwts[j].key \in disk.keys /\ jwts[j].exp < jwts[j].key + Rotation + Check + Ttl
      BY <2>2, <2>3 DEF TokenInv, Expired
    <3>2. jwts[j].key >= now - Retention
      BY <1>1, <1>2, <2>3, <3>1
    <3> QED
      BY <1>1, <3>1, <3>2
  <2> QED
    BY <1>1, <2>1, <2>2, <2>3 DEF TokenInv, Signed, Expired
<1>4. \A j \in Jwt : Signed(j)' = Signed(j) /\ Expired(j)' = Expired(j)
  BY <1>1 DEF Signed, Expired
<1>5. ASSUME NEW w \in Process, NEW j \in Jwt, Signed(j), NoKey(w, j)
      PROVE  NoKey(w, j)'
  <2>1. jwts[j].key \notin disk'.keys
    BY <1>1, <1>2, <1>5 DEF NoKey
  <2> QED
    BY <1>5, <2>1 DEF NoKey, KeysMove
<1> QED
  BY <1>3, <1>4, <1>5

\* A process whose refusals stay, and which caches and verifies nothing refused.
LEMMA RefusedStays ==
    ASSUME GateInv, KeysMove, UNCHANGED jwts, NEW w \in Process,
           refused'[w] = refused[w], bloom[w] \subseteq bloom'[w],
           \A j \in refused[w] :
              j \notin bloom[w] => j \notin Memoised(w)' /\ ~ InFlight(w, j)'
    PROVE  RefusedInv(w)'
<1> SUFFICES ASSUME NEW j \in refused[w]
             PROVE  Signed(j)' /\ (j \in bloom'[w] \/ Gone(w, j)')
  BY DEF RefusedInv
<1>1. j \in Jwt /\ Signed(j) /\ (j \in bloom[w] \/ Gone(w, j))
  BY DEF GateInv, ValuesOK, RefusedInv
<1>2. Signed(j)' /\ Expired(j)' = Expired(j) /\ (NoKey(w, j) => NoKey(w, j)')
  BY <1>1, KeysMoveKeeps
<1> QED
  BY <1>1, <1>2 DEF Gone

LEMMA StillGone ==
    ASSUME GateInv, NEW w \in Process, NEW j \in refused[w], j \notin bloom[w]
    PROVE  j \notin Memoised(w) /\ ~ InFlight(w, j)
BY DEF GateInv, RefusedInv, Gone

\* Steps on the keys alone.
LEMMA KeysOnly ==
    ASSUME GateInv, KeysMove, UNCHANGED <<jwts, bloom, memo, call, refused>>
    PROVE  GateInv'
<1>1. \A w \in Process : Memoised(w)' = Memoised(w) /\ \A j : InFlight(w, j)' = InFlight(w, j)
  BY DEF Memoised, InFlight
<1>2. \A j \in Jwt : TokenInv(j)'
  BY KeysMoveKeeps
<1>3. \A w \in Process : MemoInv(w)'
  BY <1>1 DEF GateInv, MemoInv, Signed
<1>4. CallInv'
  BY <1>1 DEF GateInv, CallInv, Signed
<1>5. \A w \in Process : RefusedInv(w)'
  BY <1>1, RefusedStays, StillGone
<1> QED
  BY <1>2, <1>3, <1>4, <1>5 DEF GateInv, KeysMove, ValuesOK

-----------------------------------------------------------------------------
\* Using an entry of the cache keeps the cache in order, and adds only j.
LEMMA RememberedKeeps ==
    ASSUME NEW w \in Process, NEW j \in Jwt, MemoInv(w), memo' = [memo EXCEPT ![w] = Remembered(w, j)],
           memo \in [Process -> Seq(Jwt)],
           Signed(j), UNCHANGED jwts
    PROVE  MemoInv(w)' /\ Memoised(w)' \subseteq Memoised(w) \cup {j}
<1> DEFINE s == memo[w]
           n == Slot(w, j)
           m == IF n > Len(s) THEN n ELSE Len(s)
           t == [i \in 1 .. m |-> IF i = 1 THEN j ELSE IF i <= n THEN s[i - 1] ELSE s[i]]
<1>1. s \in Seq(Jwt) /\ Len(s) \in Nat /\ DOMAIN s = 1 .. Len(s) /\ Len(s) <= MemoCap
      /\ \A a, b \in 1 .. Len(s) : s[a] = s[b] => a = b
  BY DEF MemoInv
<1>2. /\ n \in 1 .. MemoCap /\ n <= Len(s) + 1
      /\ \A i \in 1 .. Len(s) : s[i] = j => i = n
  <2>1. CASE j \in Memoised(w)
    <3>1. \E i \in DOMAIN s : s[i] = j
      BY <2>1 DEF Memoised
    <3>2. n = CHOOSE i \in DOMAIN s : s[i] = j
      BY <2>1 DEF Slot
    <3>3. n \in DOMAIN s /\ s[n] = j
      BY <3>1, <3>2
    <3> QED
      BY <1>1, <3>3
  <2>2. CASE j \notin Memoised(w)
    <3>1. n = IF Len(s) < MemoCap THEN Len(s) + 1 ELSE MemoCap
      BY <2>2 DEF Slot
    <3>2. \A i \in 1 .. Len(s) : s[i] # j
      BY <1>1, <2>2 DEF Memoised
    <3> QED
      BY <1>1, <3>1, <3>2
  <2> QED
    BY <2>1, <2>2
<1>3. memo'[w] = t
  BY DEF Remembered
<1>4. m \in Nat /\ m <= MemoCap /\ m <= (IF n > Len(s) THEN Len(s) + 1 ELSE Len(s))
  BY <1>1, <1>2
<1>5. \A i \in 1 .. m : t[i] \in Jwt /\ (t[i] = j \/ t[i] \in Memoised(w))
  <2> SUFFICES ASSUME NEW i \in 1 .. m
               PROVE  t[i] \in Jwt /\ (t[i] = j \/ t[i] \in Memoised(w))
    OBVIOUS
  <2>1. CASE i = 1
    BY <2>1
  <2>2. CASE i # 1 /\ i <= n
    <3>1. t[i] = s[i - 1] /\ i - 1 \in 1 .. Len(s)
      BY <1>1, <1>2, <1>4, <2>2
    <3> QED
      BY <1>1, <3>1 DEF Memoised
  <2>3. CASE i # 1 /\ ~ (i <= n)
    <3>1. t[i] = s[i] /\ i \in 1 .. Len(s)
      BY <1>1, <1>2, <1>4, <2>3
    <3> QED
      BY <1>1, <3>1 DEF Memoised
  <2> QED
    BY <2>1, <2>2, <2>3
<1>6. t \in Seq(Jwt) /\ Len(t) = m /\ DOMAIN t = 1 .. m
  <2>1. DOMAIN t = 1 .. m /\ t \in [1 .. m -> Jwt]
    BY <1>5
  <2> HIDE DEF t, m
  <2> QED
    BY <1>4, <2>1
<1>7. ASSUME NEW a \in 1 .. m, NEW b \in 1 .. m, t[a] = t[b]
      PROVE  a = b
  <2> DEFINE From(i) == IF i <= n THEN i - 1 ELSE i
  <2>1. \A i \in 1 .. m : i # 1 =>
            From(i) \in 1 .. Len(s) /\ From(i) # n /\ t[i] = s[From(i)]
    BY <1>1, <1>2, <1>4
  <2>2. \A i \in 1 .. m : i # 1 => t[i] # j
    BY <1>2, <2>1
  <2>3. t[1] = j
    BY <1>2, <1>4
  <2>4. CASE a = 1 \/ b = 1
    BY <1>7, <2>2, <2>3, <2>4
  <2>5. CASE a # 1 /\ b # 1
    <3>1. From(a) = From(b)
      BY <1>1, <1>7, <2>1, <2>5
    <3> QED
      BY <1>2, <2>1, <2>5, <3>1
  <2> QED
    BY <2>4, <2>5
<1>8. Memoised(w)' \subseteq Memoised(w) \cup {j}
  <2> HIDE DEF t, m, n, s
  <2>1. Memoised(w)' = {t[i] : i \in DOMAIN t}
    BY <1>3 DEF Memoised
  <2> QED
    BY <1>5, <1>6, <2>1
<1>9. \A i \in Memoised(w)' : Signed(i)'
  BY <1>8 DEF MemoInv, Signed
<1> HIDE DEF t, m, n, s
<1> QED
  BY <1>3, <1>4, <1>6, <1>7, <1>8, <1>9 DEF MemoInv

LEMMA MemoStays ==
    ASSUME NEW w \in Process, MemoInv(w), memo'[w] = memo[w], UNCHANGED jwts
    PROVE  MemoInv(w)' /\ Memoised(w)' = Memoised(w)
BY DEF MemoInv, Memoised, Signed

-----------------------------------------------------------------------------
\* One lemma for each action.
LEMMA TickKeeps == GateInv /\ Tick => GateInv'
<1> SUFFICES ASSUME GateInv, Tick PROVE GateInv'
  OBVIOUS
<1>1. /\ now' = now + 1 /\ now \in Nat
      /\ disk' = disk /\ mem' = mem /\ mtime' = mtime /\ draft' = draft
      /\ due' = due /\ blind' = blind
      /\ jwts' = jwts /\ bloom' = bloom /\ memo' = memo /\ call' = call /\ refused' = refused
  BY DEF GateInv, ClockInv, Tick, gateClock, fileClock
<1>2. ClockInv'
  <2>1. ASSUME NEW w \in Process PROVE MemInv(w)'
    <3>1. MemInv(w) /\ due[w] \in Nat
      BY DEF GateInv, ClockInv
    <3>2. Fits(mem[w], disk, now + 1) /\ Fits(draft[w], disk, now + 1)
      BY <1>1, <3>1, FitsLater DEF MemInv
    <3>3. due[w] <= now => due[w] <= now + 1
      BY <1>1, <3>1
    <3> QED
      BY <1>1, <3>1, <3>2, <3>3 DEF MemInv, Loaded
  <2>2. IsFile(disk, now + 1)
    BY <1>1 DEF GateInv, ClockInv, IsFile
  <2> QED
    BY <1>1, <2>1, <2>2 DEF GateInv, ClockInv
<1>3. \A j \in Jwt : Signed(j)' = Signed(j) /\ (Expired(j) => Expired(j)')
  <2>1. \A j \in Jwt : jwts[j].exp \in Nat
    BY DEF GateInv, ValuesOK
  <2> QED
    BY <1>1, <2>1 DEF Signed, Expired
<1>4. \A w \in Process :
          /\ MemoInv(w)' /\ Memoised(w)' = Memoised(w)
          /\ \A j \in Jwt : InFlight(w, j)' = InFlight(w, j) /\ NoKey(w, j)' = NoKey(w, j)
  BY <1>1, MemoStays DEF GateInv, InFlight, NoKey
<1>5. CallInv'
  BY <1>3, <1>4 DEF GateInv, CallInv
<1>6. \A j \in Jwt : TokenInv(j)'
  BY <1>1, <1>3 DEF GateInv, TokenInv
<1>7. \A w \in Process : RefusedInv(w)'
  <2> TAKE w \in Process
  <2>1. RefusedInv(w) /\ refused[w] \subseteq Jwt
    BY DEF GateInv, ValuesOK
  <2> QED
    BY <1>1, <1>3, <1>4, <2>1 DEF RefusedInv, Gone
<1> QED
  BY <1>1, <1>2, <1>4, <1>5, <1>6, <1>7 DEF GateInv, ValuesOK

LEMMA KeyStepsKeep ==
    ASSUME GateInv, NEW w \in Process,
           \/ ReadKeyset(w) \/ KeepKeyset(w) \/ LockTimesOut(w) \/ UseKeys(w)
    PROVE  GateInv'
<1>1. ClockInv
  BY DEF GateInv
<1>2. KeysMove
  <2>1. CASE ReadKeyset(w)
    BY <1>1, <2>1, ReadMoves
  <2>2. CASE KeepKeyset(w)
    BY <1>1, <2>2, KeepMoves
  <2>3. CASE LockTimesOut(w)
    BY <1>1, <2>3, TimeoutMoves
  <2>4. CASE UseKeys(w)
    BY <1>1, <2>4, ReadyMoves DEF UseKeys
  <2> QED
    BY <2>1, <2>2, <2>3, <2>4
<1>3. UNCHANGED <<jwts, bloom, memo, call, refused>>
  BY DEF ReadKeyset, KeepKeyset, LockTimesOut, UseKeys
<1> QED
  BY <1>2, <1>3, KeysOnly

LEMMA LearnKeeps == ASSUME GateInv, NEW w \in Process, NEW j \in Jwt, Learn(w, j) PROVE GateInv'
<1>1. /\ UNCHANGED gateClock /\ now' = now
      /\ jwts' = jwts /\ memo' = memo /\ call' = call /\ refused' = refused
      /\ bloom' \in [Process -> SUBSET Jwt] /\ \A v \in Process : bloom[v] \subseteq bloom'[v]
  BY DEF GateInv, ValuesOK, Learn
<1>2. KeysMove
  BY <1>1, StayMoves DEF GateInv
<1>3. \A v \in Process :
          /\ MemoInv(v)' /\ Memoised(v)' = Memoised(v)
          /\ \A i \in Jwt : InFlight(v, i)' = InFlight(v, i)
  BY <1>1, MemoStays DEF GateInv, InFlight
<1>4. \A i \in Jwt : TokenInv(i)'
  BY <1>1, <1>2, KeysMoveKeeps
<1>5. CallInv'
  BY <1>1, <1>3 DEF GateInv, CallInv, Signed
<1>6. \A v \in Process : RefusedInv(v)'
  <2> TAKE v \in Process
  <2>1. refused[v] \subseteq Jwt
    BY DEF GateInv, ValuesOK
  <2> QED
    BY <1>1, <1>2, <1>3, <2>1, RefusedStays, StillGone
<1> QED
  BY <1>1, <1>2, <1>3, <1>4, <1>5, <1>6 DEF GateInv, KeysMove, ValuesOK

LEMMA RestartMoves ==
    ASSUME ClockInv, NEW w \in Process, RestartProcess(w)
    PROVE  KeysMove
<1>1. PICK d \in now .. now + Check :
        /\ mem' = [mem EXCEPT ![w] = NoKeyset]
        /\ mtime' = [mtime EXCEPT ![w] = Never]
        /\ draft' = [draft EXCEPT ![w] = NoKeyset]
        /\ due' = [due EXCEPT ![w] = d]
        /\ blind' = IF d > now THEN blind \cup {w} ELSE blind \ {w}
        /\ now' = now /\ disk' = disk
  BY DEF RestartProcess
<1>2. now \in Nat /\ IsFile(disk, now) /\ disk.active \in Nat /\ d \in Nat
      /\ NoKeyset \in Keysets /\ Never \in Int /\ blind' \subseteq Process
  BY <1>1 DEF ClockInv, IsFile, Keysets, NoKeyset, Never
<1>3. Newer(disk, disk', now)
  BY <1>1, <1>2, NewerSelf
<1>4. /\ mem' \in [Process -> Keysets] /\ mem'[w] = NoKeyset
      /\ mtime' \in [Process -> Int] /\ mtime'[w] = Never
      /\ draft' \in [Process -> Keysets] /\ draft'[w] = NoKeyset
      /\ due' \in [Process -> Nat] /\ due'[w] = d
      /\ \A v \in Process : v # w =>
            /\ mem'[v] = mem[v] /\ mtime'[v] = mtime[v] /\ draft'[v] = draft[v]
            /\ due'[v] = due[v] /\ (v \notin blind' => v \notin blind)
  BY <1>1, <1>2 DEF ClockInv
<1>5. MemInv(w)'
  <2>1. Fits(NoKeyset, disk, now)
    BY DEF Fits
  <2>2. w \notin blind' => d <= now
    BY <1>1, <1>2
  <2>3. NoKeyset.active <= Never /\ Never <= disk.active
    BY <1>2 DEF NoKeyset, Never
  <2> QED
    BY <1>1, <1>4, <2>1, <2>2, <2>3 DEF MemInv
<1>6. \A v \in Process : MemInv(v)'
  BY <1>1, <1>2, <1>3, <1>4, <1>5, OtherStays
<1>7. ClockInv'
  BY <1>1, <1>2, <1>4, <1>6 DEF ClockInv
<1>8. \A v \in Process :
          /\ mem'[v].keys \subseteq mem[v].keys \cup draft[v].keys \cup disk'.keys
          /\ draft'[v].keys \subseteq draft[v].keys \cup disk'.keys
  BY <1>4 DEF NoKeyset
<1> QED
  BY <1>1, <1>3, <1>7, <1>8 DEF KeysMove

LEMMA RestartKeeps == ASSUME GateInv, NEW w \in Process, RestartProcess(w) PROVE GateInv'
<1>1. /\ memo' = [memo EXCEPT ![w] = <<>>]
      /\ call' = [c \in Call |-> IF \E j \in Jwt : call[c] = <<w, j>> THEN NoCall ELSE call[c]]
      /\ refused' = [refused EXCEPT ![w] = {}]
      /\ jwts' = jwts /\ bloom' = bloom
  BY DEF RestartProcess
<1>2. KeysMove
  BY RestartMoves DEF GateInv
<1>3. ValuesOK'
  BY <1>1 DEF GateInv, ValuesOK
<1>4. memo' \in [Process -> Seq(Jwt)] /\ memo'[w] = <<>>
      /\ \A v \in Process : v # w => memo'[v] = memo[v] /\ Memoised(v)' = Memoised(v)
  BY <1>1 DEF GateInv, Memoised
<1>5. \A v \in Process : MemoInv(v)'
  <2>1. MemoInv(w)'
    BY <1>4 DEF MemoInv, Memoised
  <2> QED
    BY <1>1, <1>4, <2>1, MemoStays DEF GateInv
<1>6. \A v \in Process, i \in Jwt : InFlight(v, i)' => InFlight(v, i)
  BY <1>1 DEF InFlight, NoCall
<1>7. CallInv'
  BY <1>1, <1>6 DEF GateInv, CallInv, Signed
<1>8. \A i \in Jwt : TokenInv(i)'
  BY <1>1, <1>2, KeysMoveKeeps
<1>9. \A v \in Process : RefusedInv(v)'
  <2> TAKE v \in Process
  <2>1. CASE v = w
    BY <1>1, <2>1 DEF GateInv, ValuesOK, RefusedInv
  <2>2. CASE v # w
    <3>1. refused'[v] = refused[v] /\ refused[v] \subseteq Jwt
      BY <1>1, <2>2 DEF GateInv, ValuesOK
    <3> QED
      BY <1>1, <1>2, <1>4, <1>6, <2>2, <3>1, RefusedStays, StillGone
  <2> QED
    BY <2>1, <2>2
<1> QED
  BY <1>2, <1>3, <1>4, <1>5, <1>7, <1>8, <1>9 DEF GateInv, KeysMove

LEMMA RefuseRevokedKeeps ==
    ASSUME GateInv, NEW w \in Process, NEW j \in Jwt, RefuseRevoked(w, j)
    PROVE  GateInv'
<1>1. /\ UNCHANGED gateClock /\ now' = now
      /\ jwts' = jwts /\ memo' = memo /\ bloom' = bloom /\ call' = call
      /\ Signed(j) /\ j \in bloom[w]
      /\ refused' = [refused EXCEPT ![w] = @ \cup {j}]
      /\ refused' \in [Process -> SUBSET Jwt]
  BY DEF GateInv, ValuesOK, RefuseRevoked, TurnAway
<1>2. KeysMove
  BY <1>1, StayMoves DEF GateInv
<1>3. \A v \in Process :
          /\ MemoInv(v)' /\ Memoised(v)' = Memoised(v)
          /\ \A i \in Jwt : InFlight(v, i)' = InFlight(v, i)
  BY <1>1, MemoStays DEF GateInv, InFlight
<1>4. \A i \in Jwt : TokenInv(i)' /\ Signed(i)' = Signed(i) /\ Expired(i)' = Expired(i)
                     /\ \A v \in Process : Signed(i) /\ NoKey(v, i) => NoKey(v, i)'
  BY <1>1, <1>2, KeysMoveKeeps
<1>5. CallInv'
  BY <1>3, <1>4 DEF GateInv, CallInv
<1>6. \A v \in Process : RefusedInv(v)'
  <2> SUFFICES ASSUME NEW v \in Process, NEW i \in refused'[v]
               PROVE  Signed(i)' /\ (i \in bloom'[v] \/ Gone(v, i)')
    BY DEF RefusedInv
  <2>1. i \in Jwt /\ (i \in refused[v] \/ (i = j /\ v = w))
    BY <1>1 DEF GateInv, ValuesOK
  <2>2. i \in refused[v] => Signed(i) /\ (i \in bloom[v] \/ Gone(v, i))
    BY DEF GateInv, RefusedInv
  <2> QED
    BY <1>1, <1>3, <1>4, <2>1, <2>2 DEF Gone
<1> QED
  BY <1>1, <1>2, <1>3, <1>4, <1>5, <1>6 DEF GateInv, KeysMove, ValuesOK

LEMMA SignKeeps ==
    ASSUME GateInv, NEW w \in Process, NEW j \in Jwt, Sign(w, j)
    PROVE  GateInv'
<1>1. /\ ~ Signed(j) /\ Ready(w)
      /\ now' = now /\ bloom' = bloom /\ memo' = memo /\ call' = call /\ refused' = refused
      /\ jwts' = [jwts EXCEPT ![j] = [key |-> mem'[w].active, exp |-> now + Ttl,
                                      early |-> w \in blind']]
  BY DEF Sign
<1>2. /\ KeysMove /\ mem'[w] # NoKeyset
      /\ w \notin blind' => now < mem'[w].active + Rotation + Check
  BY <1>1, ReadyMoves DEF GateInv
<1>3. /\ now \in Nat /\ disk.active \in Int /\ disk'.active \in Int /\ disk.active <= disk'.active
      /\ disk.keys \subseteq Int
      /\ \A k \in disk'.keys : k <= disk.active => k \in disk.keys
      /\ \A k \in disk.keys : k >= now - Retention => k \in disk'.keys
      /\ jwts \in [Jwt -> [key : Nat, exp : Nat, early : BOOLEAN]]
  BY <1>2 DEF GateInv, ValuesOK, KeysMove, ClockInv, IsFile, Keysets, Newer
<1>4. PICK a \in Nat :
        /\ a = mem'[w].active /\ a <= disk'.active
        /\ a >= now - Retention => a \in disk'.keys
  <2>1. Fits(mem'[w], disk', now)
    BY <1>2 DEF KeysMove, ClockInv, MemInv
  <2>2. /\ mem'[w].active \in mem'[w].keys /\ mem'[w].keys \subseteq 0 .. now
        /\ mem'[w].active <= disk'.active
        /\ \A k \in mem'[w].keys : k >= now - Retention => k \in disk'.keys
    BY <1>2, <2>1 DEF Fits
  <2> QED
    BY <1>3, <2>2
<1>5. /\ jwts'[j] = [key |-> a, exp |-> now + Ttl, early |-> w \in blind']
      /\ \A i \in Jwt : i # j => jwts'[i] = jwts[i]
      /\ jwts' \in [Jwt -> [key : Nat, exp : Nat, early : BOOLEAN]]
  BY <1>1, <1>3, <1>4
<1>6. Signed(j)'
  BY <1>3, <1>5 DEF Signed, Unsigned
<1>7. \A i \in Jwt : i # j => Signed(i)' = Signed(i) /\ Expired(i)' = Expired(i)
  BY <1>1, <1>5 DEF Signed, Expired
<1>8. /\ \A v \in Process : Memoised(v)' = Memoised(v)
      /\ \A v \in Process, i \in Jwt : InFlight(v, i)' = InFlight(v, i)
      /\ \A i \in Jwt : Signed(i) => Signed(i)'
  BY <1>1, <1>6, <1>7 DEF Memoised, InFlight
<1>9. \A v \in Process : MemoInv(v)'
  <2> TAKE v \in Process
  <2>1. MemoInv(v)
    BY DEF GateInv
  <2>2. Memoised(v) \subseteq Jwt
    <3>1. \A i \in DOMAIN memo[v] : memo[v][i] \in Jwt
      BY <2>1 DEF MemoInv
    <3> QED
      BY <3>1 DEF Memoised
  <2> QED
    BY <1>1, <1>8, <2>1, <2>2 DEF MemoInv
<1>10. CallInv'
  BY <1>8 DEF GateInv, CallInv
<1>11. ASSUME NEW i \in Jwt PROVE TokenInv(i)'
  <2>1. CASE i = j
    <3>1. jwts'[i].key = a /\ jwts'[i].exp = now + Ttl /\ jwts'[i].early = (w \in blind')
      BY <1>5, <2>1
    <3>2. w \notin blind' => now + Ttl < a + Rotation + Check + Ttl /\ a >= now - Retention
      BY <1>2, <1>3, <1>4, LifeMargin
    <3> QED
      BY <1>4, <3>1, <3>2 DEF TokenInv
  <2>2. CASE i # j
    <3> SUFFICES ASSUME Signed(i) PROVE TokenInv(i)'
      BY <1>7, <2>2 DEF TokenInv
    <3>1. jwts[i].key \in Nat /\ jwts[i].exp \in Nat /\ jwts[i].key <= disk.active
      BY <1>3 DEF GateInv, TokenInv
    <3>2. ASSUME ~ jwts[i].early, ~ Expired(i)
          PROVE  jwts[i].key \in disk'.keys
      <4>1. jwts[i].key \in disk.keys /\ jwts[i].exp < jwts[i].key + Rotation + Check + Ttl
            /\ ~ (jwts[i].exp <= now)
        BY <3>2 DEF GateInv, TokenInv, Expired
      <4>2. jwts[i].key >= now - Retention
        BY <1>3, <3>1, <4>1
      <4> QED
        BY <1>3, <4>1, <4>2
    <3>3. jwts[i].key <= disk'.active
      BY <1>3, <3>1
    <3>4. TokenInv(i)
      BY DEF GateInv
    <3> QED
      BY <1>5, <1>7, <2>2, <3>2, <3>3, <3>4 DEF TokenInv
  <2> QED
    BY <2>1, <2>2
<1>12. ASSUME NEW v \in Process PROVE RefusedInv(v)'
  <2> SUFFICES ASSUME NEW i \in refused[v]
               PROVE  Signed(i)' /\ (i \in bloom[v] \/ Gone(v, i)')
    BY <1>1 DEF RefusedInv
  <2>1. i \in Jwt /\ Signed(i) /\ i # j /\ (i \in bloom[v] \/ Gone(v, i))
    BY <1>1 DEF GateInv, ValuesOK, RefusedInv
  <2>2. NoKey(v, i) => NoKey(v, i)'
    <3>1. jwts[i].key \in Nat /\ jwts[i].key <= disk.active /\ jwts'[i] = jwts[i]
      BY <1>3, <1>5, <2>1 DEF GateInv, TokenInv
    <3>2. jwts[i].key \notin disk.keys => jwts[i].key \notin disk'.keys
      BY <1>3, <3>1
    <3> QED
      BY <1>2, <3>1, <3>2 DEF NoKey, KeysMove
  <2> QED
    BY <1>7, <1>8, <2>1, <2>2 DEF Gone
<1> QED
  BY <1>1, <1>2, <1>5, <1>9, <1>10, <1>11, <1>12 DEF GateInv, KeysMove, ValuesOK

\* A cache takes in a token that nobody has refused, or that is revoked.
LEMMA CacheMoves ==
    ASSUME GateInv, UNCHANGED <<now, gateClock, jwts, bloom, refused>>,
           NEW w \in Process, NEW j \in Jwt, Signed(j),
           j \in Memoised(w) \/ InFlight(w, j),
           memo' = [memo EXCEPT ![w] = Remembered(w, j)] \/ memo' = memo,
           call' \in [Call -> (Process \X Jwt) \cup {NoCall}],
           \A v \in Process, i \in Jwt : InFlight(v, i)' => InFlight(v, i)
    PROVE  GateInv'
<1>1. KeysMove
  BY StayMoves DEF GateInv
<1>2. \A i \in Jwt : TokenInv(i)'
  BY <1>1, KeysMoveKeeps
<1>3. /\ memo' \in [Process -> Seq(Jwt)]
      /\ \A v \in Process : MemoInv(v)'
      /\ \A v \in Process : Memoised(v)' \subseteq Memoised(v) \cup (IF v = w THEN {j} ELSE {})
  <2>1. memo \in [Process -> Seq(Jwt)] /\ \A v \in Process : MemoInv(v)
    BY DEF GateInv
  <2>2. CASE memo' = memo
    BY <2>1, <2>2, MemoStays
  <2>3. CASE memo' = [memo EXCEPT ![w] = Remembered(w, j)]
    <3>1. MemoInv(w)' /\ Memoised(w)' \subseteq Memoised(w) \cup {j}
      BY <2>1, <2>3, RememberedKeeps
    <3>2. \A v \in Process : v # w => memo'[v] = memo[v]
      BY <2>1, <2>3
    <3>3. \A v \in Process : v # w => MemoInv(v)' /\ Memoised(v)' = Memoised(v)
      BY <2>1, <3>2, MemoStays
    <3>4. memo'[w] \in Seq(Jwt)
      BY <3>1 DEF MemoInv
    <3>5. memo' \in [Process -> Seq(Jwt)]
      BY <2>1, <2>3, <3>4
    <3> QED
      BY <3>1, <3>3, <3>5
  <2> QED
    BY <2>2, <2>3
<1>4. CallInv'
  BY DEF GateInv, CallInv, Signed
<1>5. ASSUME NEW v \in Process PROVE RefusedInv(v)'
  <2>1. refused[v] \subseteq Jwt
    BY DEF GateInv, ValuesOK
  <2>2. ASSUME NEW i \in refused[v], i \notin bloom[v]
        PROVE  i \notin Memoised(v)' /\ ~ InFlight(v, i)'
    <3>1. i \notin Memoised(v) /\ ~ InFlight(v, i)
      BY <2>2, StillGone
    <3> QED
      BY <1>3, <2>1, <3>1
  <2> QED
    BY <1>1, <2>2, RefusedStays
<1> QED
  BY <1>1, <1>2, <1>3, <1>4, <1>5 DEF GateInv, KeysMove, ValuesOK

LEMMA ServeCachedKeeps ==
    ASSUME GateInv, NEW w \in Process, NEW j \in Jwt, ServeCached(w, j)
    PROVE  GateInv'
<1>1. /\ UNCHANGED <<now, gateClock, jwts, bloom, refused>> /\ call' = call
      /\ Signed(j) /\ j \in Memoised(w)
      /\ memo' = [memo EXCEPT ![w] = Remembered(w, j)]
  BY DEF ServeCached
<1>2. call' \in [Call -> (Process \X Jwt) \cup {NoCall}]
  BY <1>1 DEF GateInv, ValuesOK
<1>3. \A v \in Process, i \in Jwt : InFlight(v, i)' => InFlight(v, i)
  BY <1>1 DEF InFlight
<1> QED
  BY <1>1, <1>2, <1>3, CacheMoves

LEMMA RememberKeeps ==
    ASSUME GateInv, NEW c \in Call, NEW w \in Process, NEW j \in Jwt, Remember(c, w, j)
    PROVE  GateInv'
<1>1. /\ UNCHANGED <<now, gateClock, jwts, bloom, refused>>
      /\ call[c] = <<w, j>> /\ call' = [call EXCEPT ![c] = NoCall]
      /\ memo' = [memo EXCEPT ![w] = Remembered(w, j)] \/ memo' = memo
  BY DEF Remember
<1>2. call' \in [Call -> (Process \X Jwt) \cup {NoCall}]
  BY <1>1 DEF GateInv, ValuesOK
<1>3. InFlight(w, j) /\ Signed(j)
  BY <1>1 DEF InFlight, GateInv, CallInv
<1>4. \A v \in Process, i \in Jwt : InFlight(v, i)' => InFlight(v, i)
  BY <1>1 DEF InFlight, NoCall, GateInv, ValuesOK
<1> QED
  BY <1>1, <1>2, <1>3, <1>4, CacheMoves

LEMMA VerifyKeeps ==
    ASSUME GateInv, NEW c \in Call, NEW w \in Process, NEW j \in Jwt, Verify(c, w, j)
    PROVE  GateInv'
<1>1. /\ now' = now /\ jwts' = jwts /\ bloom' = bloom /\ memo' = memo /\ Ready(w)
      /\ Signed(j) /\ j \notin bloom[w] /\ j \notin Memoised(w) /\ call[c] = NoCall
  BY DEF Verify
<1>2. KeysMove /\ mem'[w] # NoKeyset /\ draft'[w] = NoKeyset
  BY <1>1, ReadyMoves DEF GateInv
<1>3. /\ \A i \in Jwt : TokenInv(i)' /\ Signed(i)' = Signed(i) /\ Expired(i)' = Expired(i)
      /\ \A v \in Process : \A i \in Jwt : Signed(i) /\ NoKey(v, i) => NoKey(v, i)'
  BY <1>1, <1>2, KeysMoveKeeps
<1>4. \A v \in Process : Memoised(v)' = Memoised(v) /\ MemoInv(v)'
  BY <1>1, MemoStays DEF GateInv
<1>5. call \in [Call -> (Process \X Jwt) \cup {NoCall}] /\ refused \in [Process -> SUBSET Jwt]
  BY DEF GateInv, ValuesOK
<1>6. CASE ~ Expired(j) /\ jwts[j].key \in mem'[w].keys
  <2>1. call' = [call EXCEPT ![c] = <<w, j>>] /\ refused' = refused
    BY <1>6 DEF Verify
  <2>2. call' \in [Call -> (Process \X Jwt) \cup {NoCall}]
    BY <1>5, <2>1
  <2>3. \A v \in Process, i \in Jwt :
            InFlight(v, i)' => InFlight(v, i) \/ (v = w /\ i = j)
    BY <1>5, <2>1 DEF InFlight
  <2>4. CallInv'
    BY <1>1, <1>3, <2>3 DEF GateInv, CallInv
  <2>5. j \notin refused[w]
    <3> SUFFICES ASSUME j \in refused[w] PROVE FALSE
      OBVIOUS
    <3>1. Expired(j) \/ NoKey(w, j)
      BY <1>1 DEF GateInv, RefusedInv, Gone
    <3>2. Expired(j) \/ NoKey(w, j)'
      BY <1>1, <1>3, <3>1
    <3> QED
      BY <1>1, <1>6, <3>2 DEF NoKey
  <2>6. ASSUME NEW v \in Process PROVE RefusedInv(v)'
    <3>1. refused[v] \subseteq Jwt
      BY <1>5
    <3>2. ASSUME NEW i \in refused[v], i \notin bloom[v]
          PROVE  i \notin Memoised(v)' /\ ~ InFlight(v, i)'
      BY <1>4, <2>3, <2>5, <3>1, <3>2, StillGone
    <3> QED
      BY <1>1, <1>2, <2>1, <3>2, RefusedStays
  <2> QED
    BY <1>1, <1>2, <1>3, <1>4, <2>1, <2>2, <2>4, <2>6 DEF GateInv, KeysMove, ValuesOK
<1>7. CASE ~ (~ Expired(j) /\ jwts[j].key \in mem'[w].keys)
  <2>1. /\ call' = call
        /\ \/ refused' = refused
           \/ /\ refused' = [refused EXCEPT ![w] = @ \cup {j}]
              /\ ~ InFlight(w, j)
              /\ ~ Behind(mem'[w], j) \/ Expired(j)
    BY <1>7 DEF Verify, TurnAway
  <2>2. refused' \in [Process -> SUBSET Jwt]
    BY <1>5, <2>1
  <2>3. \A v \in Process, i \in Jwt : InFlight(v, i)' = InFlight(v, i)
    BY <2>1 DEF InFlight
  <2>4. CallInv'
    BY <1>3, <2>3 DEF GateInv, CallInv
  <2>5. ASSUME NEW v \in Process, refused'[v] = refused[v] PROVE RefusedInv(v)'
    <3>1. refused[v] \subseteq Jwt
      BY <1>5
    <3> QED
      BY <1>1, <1>2, <1>4, <2>3, <2>5, <3>1, RefusedStays, StillGone
  <2>6. ASSUME refused'[w] = refused[w] \cup {j}, ~ InFlight(w, j),
               ~ Behind(mem'[w], j) \/ Expired(j)
        PROVE  RefusedInv(w)'
    <3>1. Expired(j) \/ NoKey(w, j)'
      <4> SUFFICES ASSUME ~ Expired(j) PROVE NoKey(w, j)'
        OBVIOUS
      <4>1. jwts[j].key \notin mem'[w].keys /\ ~ (mem'[w].active < jwts[j].key)
        BY <1>7, <2>6 DEF Behind
      <4>2. /\ jwts[j].key \in Int /\ mem'[w].active \in Int
            /\ \A k \in disk'.keys : k <= mem'[w].active => k \in mem'[w].keys
        <5>1. Fits(mem'[w], disk', now') /\ mem'[w] \in Keysets
          BY <1>2 DEF KeysMove, ClockInv, MemInv
        <5>2. jwts[j].key \in Int
          BY DEF GateInv, ValuesOK
        <5> QED
          BY <1>2, <5>1, <5>2 DEF Fits, Keysets
      <4>3. jwts[j].key \notin disk'.keys
        BY <4>1, <4>2
      <4> QED
        BY <1>1, <1>2, <4>1, <4>3 DEF NoKey, NoKeyset
    <3>2. Gone(w, j)'
      BY <1>1, <1>3, <1>4, <2>3, <2>6, <3>1 DEF Gone
    <3>3. ASSUME NEW i \in refused[w] PROVE Signed(i)' /\ (i \in bloom'[w] \/ Gone(w, i)')
      <4>1. i \in Jwt /\ Signed(i) /\ (i \in bloom[w] \/ Gone(w, i))
        BY <1>5 DEF GateInv, RefusedInv
      <4> QED
        BY <1>1, <1>3, <1>4, <2>3, <4>1 DEF Gone
    <3> QED
      BY <1>1, <1>3, <2>6, <3>2, <3>3 DEF RefusedInv
  <2>7. \A v \in Process : RefusedInv(v)'
    <3> TAKE v \in Process
    <3>1. refused'[v] = refused[v] \/ (v = w /\ refused'[w] = refused[w] \cup {j}
            /\ ~ InFlight(w, j) /\ (~ Behind(mem'[w], j) \/ Expired(j)))
      BY <1>5, <2>1
    <3> QED
      BY <2>5, <2>6, <3>1
  <2> QED
    BY <1>1, <1>2, <1>3, <1>4, <2>1, <2>2, <2>4, <2>7 DEF GateInv, KeysMove, ValuesOK
<1> QED
  BY <1>6, <1>7

-----------------------------------------------------------------------------
LEMMA GateStep == GateInv /\ [GateNext]_gateVars => GateInv'
<1> SUFFICES ASSUME GateInv, [GateNext]_gateVars PROVE GateInv'
  OBVIOUS
<1>1. CASE Tick
  BY <1>1, TickKeeps
<1>2. ASSUME NEW w \in Process,
             \/ ReadKeyset(w) \/ KeepKeyset(w) \/ LockTimesOut(w)
             \/ UseKeys(w) \/ RestartProcess(w)
      PROVE  GateInv'
  BY <1>2, KeyStepsKeep, RestartKeeps
<1>3. ASSUME NEW w \in Process, NEW j \in Jwt,
             \/ Sign(w, j) \/ ServeCached(w, j) \/ RefuseRevoked(w, j) \/ Learn(w, j)
             \/ \E c \in Call : Verify(c, w, j) \/ Remember(c, w, j)
      PROVE  GateInv'
  BY <1>3, SignKeeps, ServeCachedKeeps, VerifyKeeps, RememberKeeps, RefuseRevokedKeeps, LearnKeeps
<1>4. CASE UNCHANGED gateVars
  <2>1. UNCHANGED gateClock /\ now' = now /\ UNCHANGED <<jwts, bloom, memo, call, refused>>
    BY <1>4 DEF gateVars
  <2>2. KeysMove
    BY <2>1, StayMoves DEF GateInv
  <2> QED
    BY <2>1, <2>2, KeysOnly
<1> QED
  BY <1>1, <1>2, <1>3, <1>4 DEF GateNext

\* Every behaviour of the gate keeps the invariant: clocks, keysets, tokens,
\* caches, verifications under way and refusals agree.
THEOREM GateInvariant == GateSpec => []GateInv
BY GateInitially, GateStep, PTL DEF GateSpec

\* Every state of the gate is well typed, and a cache holds signed tokens, each
\* once, and no more than its size (cached_verify_token).
THEOREM GateTypeCorrect == GateSpec => []GateTypeOK
<1>1. ASSUME GateInv PROVE GateTypeOK
  <2>1. now \in Nat /\ disk.keys \subseteq 0 .. now /\ disk.active \in disk.keys
    BY <1>1 DEF GateInv, ClockInv, IsFile
  <2>2. \A w \in Process :
          /\ mem[w] = NoKeyset \/ (mem[w].keys \subseteq 0 .. now /\ mem[w].active \in mem[w].keys)
          /\ mem[w].active <= mtime[w] /\ mtime[w] <= disk.active
    BY <1>1 DEF GateInv, ClockInv, MemInv, Fits
  <2> QED
    BY <1>1, <2>1, <2>2 DEF GateInv, ClockInv, ValuesOK, MemoInv, GateTypeOK
<1> QED
  BY <1>1, GateInvariant, PTL

\* Whatever intervals satisfy GateAssumption: the key of a token that has not
\* expired is in the file and in the memory of every process that has read the
\* keyset since the key was made, unless the token was signed by a process that had
\* not looked at the age of its active key since a boot, or had found it due and got
\* no lock (_prune_keys, _maybe_rotate_locked, _load_state_from_disk_locked).
THEOREM KeysOutliveTokens == GateSpec => []KeyOutlivesToken
<1>1. ASSUME GateInv PROVE KeyOutlivesToken
  <2> SUFFICES ASSUME NEW j \in Jwt, Signed(j), ~ Expired(j), ~ jwts[j].early, NEW w \in Process
               PROVE  /\ jwts[j].key \in disk.keys
                      /\ Behind(mem[w], j) \/ jwts[j].key \in mem[w].keys
    BY <1>1 DEF KeyOutlivesToken, GateInv, TokenInv
  <2>1. jwts[j].key \in disk.keys /\ jwts[j].key \in Nat
    BY <1>1 DEF GateInv, TokenInv, ValuesOK
  <2>2. Fits(mem[w], disk, now) /\ mem[w].active \in Int
    BY <1>1 DEF GateInv, ClockInv, MemInv, Keysets
  <2>3. CASE mem[w] = NoKeyset
    BY <2>1, <2>3 DEF Behind, NoKeyset, Never
  <2>4. CASE mem[w] # NoKeyset
    BY <2>1, <2>2, <2>4 DEF Fits, Behind
  <2> QED
    BY <2>1, <2>3, <2>4
<1> QED
  BY <1>1, GateInvariant, PTL

\* A token the gate of a process has turned away for good is not let through by
\* that process again, whatever is cached, evicted, reloaded or rotated in between
\* (middle_ware, cached_verify_token, _ensure_state_loaded_locked).
THEOREM RefusalsAreFinal == GateSpec => []RefusalIsFinal
<1>1. GateInv => RefusalIsFinal
  BY DEF GateInv, RefusedInv, Gone, NoKey, RefusalIsFinal, Accepts
<1> QED
  BY <1>1, GateInvariant, PTL


-----------------------------------------------------------------------------
(* The pool.                                                                 *)

Stages == {"new", "ask", "lookup", "wait", "set", "run", "clear", "done"}

\* The stages of a request that has a connection, and those in which the
\* connection carries its tenant.
Borrowing == {"lookup", "set", "run", "clear"}
Marked == {"run", "clear"}

PoolInv == PoolTypeOK /\ OwnTenantOnly

\* The same for one connection and one request, in the form the steps use.
ConnInv(c) ==
    /\ serves[c] = Nobody => setting[c] = Nobody
    /\ \A r \in Http : serves[c] = r =>
          /\ http[r].stage \in Borrowing
          /\ setting[c] = IF http[r].stage \in Marked THEN http[r].tenant ELSE Nobody

HttpInv(r) ==
    http[r].stage \in Borrowing => \E c \in Conn : serves[c] = r

Flat ==
    /\ setting \in [Conn -> Owner \cup {Nobody}]
    /\ serves \in [Conn -> Http \cup {Nobody}]
    /\ http \in [Http -> [stage : Stages, tenant : Owner \cup {Nobody}]]
    /\ \A c \in Conn : ConnInv(c)
    /\ \A r \in Http : HttpInv(r)

HIDE Intervals

USE PoolAssumption DEF PoolAssumption

LEMMA FlatIsInv == Flat => PoolInv
<1> SUFFICES ASSUME Flat PROVE PoolInv
  OBVIOUS
<1>1. PoolTypeOK
  BY DEF Flat, PoolTypeOK, ConnInv, HttpInv, Held, Stages, Borrowing
<1>2. OwnTenantOnly
  <2> SUFFICES ASSUME NEW c \in Conn
               PROVE  setting[c] =
                        IF \E r \in Http : serves[c] = r /\ http[r].stage \in Marked
                        THEN http[serves[c]].tenant ELSE Nobody
    BY DEF OwnTenantOnly, Marked
  <2>1. CASE serves[c] = Nobody
    BY <2>1 DEF Flat, ConnInv
  <2>2. CASE serves[c] \in Http
    BY <2>2 DEF Flat, ConnInv
  <2> QED
    BY <2>1, <2>2 DEF Flat
<1> QED
  BY <1>1, <1>2 DEF PoolInv

LEMMA InitFlat == PoolInit => Flat
BY DEF PoolInit, Flat, ConnInv, HttpInv, Fresh, Stages, Borrowing, Marked

\* A request takes a free connection.
LEMMA LendFlat ==
    ASSUME Flat, NEW r \in Http, NEW c \in Conn, NEW stage \in {"lookup", "set"},
           http[r].stage \in {"ask", "wait"}, Lend(r, c), Goes(r, stage)
    PROVE  Flat'
<1>1. http' = [http EXCEPT ![r].stage = stage] /\ stage \in Borrowing /\ stage \notin Marked
  BY DEF Goes, Borrowing, Marked
<1>2. /\ serves' = [serves EXCEPT ![c] = r]
      /\ serves[c] = Nobody /\ setting[c] = Nobody /\ setting' = setting
  BY DEF Lend, Flat, ConnInv
<1>3. ASSUME NEW d \in Conn PROVE ConnInv(d)'
  <2>1. CASE d = c
    BY <1>1, <1>2, <2>1 DEF Flat, ConnInv
  <2>2. CASE d # c
    <3>1. serves'[d] = serves[d] /\ serves[d] # r
      BY <1>2, <2>2 DEF Flat, ConnInv, Borrowing
    <3> QED
      BY <1>1, <1>2, <3>1 DEF Flat, ConnInv
  <2> QED
    BY <2>1, <2>2
<1>4. ASSUME NEW q \in Http PROVE HttpInv(q)'
  <2>1. CASE q = r
    BY <1>2, <2>1 DEF Flat, HttpInv
  <2>2. CASE q # r
    BY <1>1, <1>2, <2>2 DEF Flat, HttpInv
  <2> QED
    BY <2>1, <2>2
<1>5. /\ serves' \in [Conn -> Http \cup {Nobody}]
      /\ http' \in [Http -> [stage : Stages, tenant : Owner \cup {Nobody}]]
  BY <1>1, <1>2 DEF Flat, Stages
<1> QED
  BY <1>2, <1>3, <1>4, <1>5 DEF Flat

\* A request gives back what it has, wherever it goes on.
LEMMA GiveBackFlat ==
    ASSUME Flat, NEW r \in Http, Return(r), Unset(r),
           NEW q \in [stage : Stages \ Borrowing, tenant : Owner \cup {Nobody}],
           http' = [http EXCEPT ![r] = q]
    PROVE  Flat'
<1>1. /\ serves' \in [Conn -> Http \cup {Nobody}]
      /\ setting' \in [Conn -> Owner \cup {Nobody}]
      /\ http' \in [Http -> [stage : Stages, tenant : Owner \cup {Nobody}]]
  BY DEF Flat, Return, Unset
<1>2. ASSUME NEW c \in Conn PROVE ConnInv(c)'
  BY DEF Flat, ConnInv, Return, Unset
<1>3. ASSUME NEW p \in Http PROVE HttpInv(p)'
  <2>1. CASE p = r
    BY <2>1 DEF Flat, HttpInv
  <2>2. CASE p # r
    BY <2>2 DEF Flat, HttpInv, Return
  <2> QED
    BY <2>1, <2>2
<1> QED
  BY <1>1, <1>2, <1>3 DEF Flat

LEMMA StepFlat == Flat /\ [PoolNext]_poolVars => Flat'
<1> SUFFICES ASSUME Flat, [PoolNext]_poolVars PROVE Flat'
  OBVIOUS
<1>1. ASSUME NEW r \in Http, Arrive(r) PROVE Flat'
  <2>1. PICK q \in [stage : {"wait", "ask", "done"}, tenant : Owner \cup {Nobody}] :
            http' = [http EXCEPT ![r] = q]
    BY <1>1 DEF Arrive, Goes, Flat, Fresh
  <2>2. \A c \in Conn : serves[c] # r
    BY <1>1 DEF Arrive, Flat, ConnInv, Fresh, Borrowing
  <2> QED
    BY <1>1, <2>1, <2>2 DEF Arrive, Flat, ConnInv, HttpInv, Stages, Borrowing
<1>2. ASSUME NEW r \in Http, LookUp(r) PROVE Flat'
  <2>0. http \in [Http -> [stage : Stages, tenant : Owner \cup {Nobody}]]
    BY DEF Flat
  <2>1. \E q \in [stage : Stages \ Borrowing, tenant : Owner \cup {Nobody}] :
            http' = [http EXCEPT ![r] = q]
    <3>1. CASE \E t \in Owner : http' = [http EXCEPT ![r] = [stage |-> "wait", tenant |-> t]]
      BY <3>1 DEF Stages, Borrowing
    <3>2. CASE Goes(r, "done")
      <4>1. http[r] \in [stage : Stages, tenant : Owner \cup {Nobody}]
        BY <2>0
      <4>2. [http[r] EXCEPT !.stage = "done"] = [stage |-> "done", tenant |-> http[r].tenant]
        BY <4>1
      <4>3. http' = [http EXCEPT ![r] = [stage |-> "done", tenant |-> http[r].tenant]]
        BY <3>2, <4>2 DEF Goes
      <4> QED
        BY <4>1, <4>3 DEF Stages, Borrowing
    <3> QED
      BY <1>2, <3>1, <3>2 DEF LookUp
  <2> QED
    BY <1>2, <2>1, GiveBackFlat DEF LookUp, GiveBack
<1>3. ASSUME NEW r \in Http, SetTenant(r) PROVE Flat'
  BY <1>3 DEF SetTenant, Goes, Flat, ConnInv, HttpInv, Stages, Borrowing, Marked
<1>4. ASSUME NEW r \in Http, Respond(r) PROVE Flat'
  BY <1>4 DEF Respond, Goes, Flat, ConnInv, HttpInv, Stages, Borrowing, Marked
<1>5. ASSUME NEW r \in Http, Clear(r) \/ Raise(r) PROVE Flat'
  <2>1. http' = [http EXCEPT ![r] = [stage |-> "done", tenant |-> http[r].tenant]]
    BY <1>5 DEF Clear, Raise, Goes, Flat
  <2>2. [stage |-> "done", tenant |-> http[r].tenant]
            \in [stage : Stages \ Borrowing, tenant : Owner \cup {Nobody}]
    BY DEF Stages, Borrowing, Flat
  <2> QED
    BY <1>5, <2>1, <2>2, GiveBackFlat DEF Clear, Raise, GiveBack
<1>6. ASSUME NEW r \in Http, NEW c \in Conn, TakeForLookup(r, c) PROVE Flat'
  BY <1>6, LendFlat DEF TakeForLookup
<1>7. ASSUME NEW r \in Http, NEW c \in Conn, TakeForHandler(r, c) PROVE Flat'
  BY <1>7, LendFlat DEF TakeForHandler
<1>8. CASE UNCHANGED poolVars
  BY <1>8 DEF poolVars, Flat, ConnInv, HttpInv
<1> QED
  BY <1>1, <1>2, <1>3, <1>4, <1>5, <1>6, <1>7, <1>8 DEF PoolNext

LEMMA AlwaysFlat == PoolSpec => []Flat
BY InitFlat, StepFlat, PTL DEF PoolSpec

\* A request has a connection exactly while it is between acquire() and the end
\* of its block (get_database_pool).
THEOREM PoolTypeCorrect == PoolSpec => []PoolTypeOK
<1>1. Flat => PoolTypeOK
  BY FlatIsInv DEF PoolInv
<1> QED
  BY <1>1, AlwaysFlat, PTL

\* Handlers run under their request's tenant, lookups under none, whatever the
\* handlers raise (get_database_pool).
THEOREM TenantsStayApart == PoolSpec => []OwnTenantOnly
<1>1. Flat => OwnTenantOnly
  BY FlatIsInv DEF PoolInv
<1> QED
  BY <1>1, AlwaysFlat, PTL

\* However many requests wait for however few connections, one of them is free
\* or will be given back (get_database_pool).
THEOREM NobodyWaitsForWaiters == PoolSpec => []WaitersAreServed
<1>1. Flat => WaitersAreServed
  BY DEF Flat, ConnInv, WaitersAreServed, Borrowing
<1> QED
  BY <1>1, AlwaysFlat, PTL

=============================================================================
