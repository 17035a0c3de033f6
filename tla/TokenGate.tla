----------------------------- MODULE TokenGate -----------------------------
(***************************************************************************)
(* The gate in time: when a signed token stops being accepted.              *)
(*                                                                           *)
(* A token is refused once its jti is in the Bloom filter of the worker      *)
(* (middle_ware), once it has expired, or once the key that signed it has    *)
(* been pruned (decode_token); but a worker that has verified a token keeps  *)
(* the result in an lru_cache and asks neither the clock nor the keys again  *)
(* (cached_verify_token).                                                    *)
(*                                                                           *)
(* SigningKeys follows a rotation through its file-system calls.  Here it is *)
(* one step on the file, as long as the lock excludes; a key is the time it  *)
(* was created, a file has the time of its active key as its mtime, and      *)
(* every process verifies with the keyset it has in memory.  The questions   *)
(* are whether the intervals of the configuration fit together, and what a   *)
(* refusal is worth.                                                         *)
(***************************************************************************)
EXTENDS Integers, Sequences

CONSTANTS
    Process,   \* worker processes
    Jwt,       \* access tokens
    Call,      \* threads between a verification and the store of its result
    Rotation,  \* JWT_KEY_ROTATION_INTERVAL_SECONDS
    Check,     \* JWT_KEY_ROTATION_CHECK_INTERVAL_SECONDS
    Retention, \* JWT_KEY_RETENTION_SECONDS
    Ttl,       \* life of an access token
    MemoCap,   \* maxsize of the lru_cache
    MaxTime    \* bound: length of a behaviour

\* The defaults are 7 days, 5 minutes, 14 days and at most hours: a key is kept
\* for as long as it can be active and its last token can live.
ASSUME GateAssumption ==
    /\ {Rotation, Check, Ttl, MemoCap} \subseteq Nat \ {0}
    /\ {Retention, MaxTime} \subseteq Nat
    /\ Retention >= Rotation + Check + Ttl

VARIABLES
    now,      \* the clock
    disk,     \* the keyset file: creation times of the keys, and the active one
    mem,      \* _state of each process
    mtime,    \* _state_mtime of each process
    draft,    \* keyset whose text a process has read, but not the file's mtime
    due,      \* _last_rotation_check of each process, plus the interval
    blind,    \* processes that have not looked at the age of their active key since
              \* their host booted, or found it due and got no lock
    jwts,     \* the tokens signed so far
    bloom,    \* Bloom filter of each process
    memo,     \* lru_cache of each process, most recent first
    call,     \* verifications that have succeeded and are not cached yet
    refused   \* history: tokens a process has turned away for good

fileClock == <<disk, mem, mtime, draft>>
gateClock == <<fileClock, due, blind>>
gateVars == <<now, gateClock, jwts, bloom, memo, call, refused>>

Never == -1
NoKeyset == [keys |-> {}, active |-> Never]
NoCall == <<>>

Unsigned == [key |-> 0, exp |-> 0, early |-> FALSE]
Signed(j) == jwts[j] # Unsigned
Memoised(w) == {memo[w][i] : i \in DOMAIN memo[w]}
InFlight(w, j) == \E c \in Call : call[c] = <<w, j>>

GateInit ==
    /\ now = 0
    /\ disk = [keys |-> {0}, active |-> 0]
    /\ mem = [w \in Process |-> disk]
    /\ mtime = [w \in Process |-> 0]
    /\ draft = [w \in Process |-> NoKeyset]
    /\ due = [w \in Process |-> 0]
    /\ blind = {}
    /\ jwts = [j \in Jwt |-> Unsigned]
    /\ bloom = [w \in Process |-> {}]
    /\ memo = [w \in Process |-> <<>>]
    /\ call = [c \in Call |-> NoCall]
    /\ refused = [w \in Process |-> {}]

-----------------------------------------------------------------------------
(* Keys.                                                                     *)

\* Mutant: only the key that became active is kept.
PrunedToActive(ks) == {k \in ks : k >= now}

\* _prune_keys(); the active key was created now and is kept.
Pruned(ks) == {k \in ks : k >= now - Retention}

\* stat() shows the mtime the process knows: it keeps the state it has, which is
\* older than the file if another process rotated between its last read and stat.
Loaded(w) == mtime[w] = disk.active

\* _load_state_from_disk_locked(): the text of the file ...
ReadKeyset(w) ==
    /\ ~ Loaded(w)
    /\ draft[w] = NoKeyset
    /\ draft' = [draft EXCEPT ![w] = disk]
    /\ UNCHANGED <<now, disk, mem, mtime, due, blind, jwts, bloom, memo, call, refused>>

\* ... and then its mtime.
KeepKeyset(w) ==
    /\ draft[w] # NoKeyset
    /\ mem' = [mem EXCEPT ![w] = draft[w]]
    /\ mtime' = [mtime EXCEPT ![w] = disk.active]
    /\ draft' = [draft EXCEPT ![w] = NoKeyset]
    /\ UNCHANGED <<now, disk, due, blind, jwts, bloom, memo, call, refused>>

OldKey(keyset) == now - keyset.active >= Rotation

\* The keyset is read again under the lock, and rotated unless another process has.
Rotate(w) ==
    /\ disk' = IF OldKey(disk)
               THEN [keys |-> Pruned(disk.keys \cup {now}), active |-> now]
               ELSE disk
    /\ mem' = [mem EXCEPT ![w] = disk']
    /\ mtime' = [mtime EXCEPT ![w] = disk'.active]

\* ensure_ready(): _maybe_rotate_locked() looks at the age of the active key in
\* memory once in an interval of its process.
Ready(w) ==
    /\ Loaded(w)
    /\ \/ now < due[w] /\ UNCHANGED gateClock
       \/ /\ now >= due[w]
          /\ due' = [due EXCEPT ![w] = now + Check]
          /\ blind' = blind \ {w}
          /\ IF OldKey(mem[w]) THEN Rotate(w) ELSE UNCHANGED <<disk, mem, mtime>>
          /\ UNCHANGED draft

\* The lock stays taken for ten seconds: TimeoutError.  The rotation loop ignores
\* it, a login fails, VerifyToken() answers 500, which is not cached; the next
\* look is an interval away.
LockTimesOut(w) ==
    /\ Loaded(w)
    /\ now >= due[w]
    /\ OldKey(mem[w])
    /\ due' = [due EXCEPT ![w] = now + Check]
    /\ blind' = blind \cup {w}
    /\ UNCHANGED <<now, fileClock, jwts, bloom, memo, call, refused>>

\* The turns of _rotation_loop(), jwks(), and decode_token() for userinfo() and
\* introspect(), whose answers are not cached.
UseKeys(w) ==
    /\ Ready(w)
    /\ gateClock' # gateClock
    /\ UNCHANGED <<now, jwts, bloom, memo, call, refused>>

\* create_jwt_token() and sign_token().
Sign(w, j) ==
    /\ ~ Signed(j)
    /\ Ready(w)
    /\ jwts' = [jwts EXCEPT ![j] = [key |-> mem'[w].active, exp |-> now + Ttl,
                                    early |-> w \in blind']]
    /\ UNCHANGED <<now, bloom, memo, call, refused>>

-----------------------------------------------------------------------------
(* The gate.                                                                 *)

Expired(j) == jwts[j].exp <= now

\* A keyset from before the key of j was made.
Behind(keyset, j) == keyset.active < jwts[j].key

\* The place j leaves, or else a new one, or the last one's when the cache is full.
Slot(w, j) ==
    IF j \in Memoised(w) THEN CHOOSE n \in DOMAIN memo[w] : memo[w][n] = j
    ELSE IF Len(memo[w]) < MemoCap THEN Len(memo[w]) + 1 ELSE MemoCap

\* The cache with j in front; the entries before its slot move back by one, and
\* the entry used longest ago falls out.
Remembered(w, j) ==
    LET s == memo[w]  n == Slot(w, j)
    IN  [i \in 1 .. (IF n > Len(s) THEN n ELSE Len(s)) |->
            IF i = 1 THEN j ELSE IF i <= n THEN s[i - 1] ELSE s[i]]

\* A hit of the lru_cache.
ServeCached(w, j) ==
    /\ Signed(j)
    /\ j \notin bloom[w]
    /\ j \in Memoised(w)
    /\ memo' = [memo EXCEPT ![w] = Remembered(w, j)]
    /\ UNCHANGED <<now, gateClock, jwts, bloom, call, refused>>

TurnAway(w, j) == refused' = [refused EXCEPT ![w] = @ \cup {j}]

\* Mutant: the result is cached before it is looked at.
VerifyCachesAll(c, w, j) ==
    /\ Signed(j)
    /\ j \notin bloom[w]
    /\ j \notin Memoised(w)
    /\ call[c] = NoCall
    /\ Ready(w)
    /\ call' = [call EXCEPT ![c] = <<w, j>>]
    /\ IF \/ ~ Expired(j) /\ jwts[j].key \in mem'[w].keys
          \/ InFlight(w, j) \/ (Behind(mem'[w], j) /\ ~ Expired(j))
       THEN UNCHANGED refused
       ELSE TurnAway(w, j)
    /\ UNCHANGED <<now, jwts, bloom, memo>>

\* A miss: VerifyToken() decodes the token in a thread.  An exception is not
\* cached: a 401 is for good, but for a key the process does not know yet, and
\* while another of its threads is about to cache the same token.
Verify(c, w, j) ==
    /\ Signed(j)
    /\ j \notin bloom[w]
    /\ j \notin Memoised(w)
    /\ call[c] = NoCall
    /\ Ready(w)
    /\ IF ~ Expired(j) /\ jwts[j].key \in mem'[w].keys
       THEN call' = [call EXCEPT ![c] = <<w, j>>] /\ UNCHANGED refused
       ELSE /\ IF InFlight(w, j) \/ (Behind(mem'[w], j) /\ ~ Expired(j))
               THEN UNCHANGED refused
               ELSE TurnAway(w, j)
            /\ UNCHANGED call
    /\ UNCHANGED <<now, jwts, bloom, memo>>

\* The thread stores its result, unless another was faster, and the token is let in.
Remember(c, w, j) ==
    /\ call[c] = <<w, j>>
    /\ call' = [call EXCEPT ![c] = NoCall]
    /\ memo' = IF j \in Memoised(w) THEN memo ELSE [memo EXCEPT ![w] = Remembered(w, j)]
    /\ UNCHANGED <<now, gateClock, jwts, bloom, refused>>

\* middle_ware() finds the jti in the Bloom filter.
RefuseRevoked(w, j) ==
    /\ Signed(j)
    /\ j \in bloom[w]
    /\ TurnAway(w, j)
    /\ UNCHANGED <<now, gateClock, jwts, bloom, memo, call>>

\* A revocation reaches a process.
Learn(w, j) ==
    /\ Signed(j)
    /\ bloom' = [bloom EXCEPT ![w] = @ \cup {j}]
    /\ UNCHANGED <<now, gateClock, jwts, memo, call, refused>>

\* A process starts: it has no keyset, its caches are empty, its filter is filled
\* again, and its last check lies at 0 on a clock that counts from the boot of the
\* host, which may have been less than an interval ago.
RestartProcess(w) ==
    \E d \in now .. now + Check :
        /\ mem' = [mem EXCEPT ![w] = NoKeyset]
        /\ mtime' = [mtime EXCEPT ![w] = Never]
        /\ draft' = [draft EXCEPT ![w] = NoKeyset]
        /\ due' = [due EXCEPT ![w] = d]
        /\ blind' = IF d > now THEN blind \cup {w} ELSE blind \ {w}
        /\ memo' = [memo EXCEPT ![w] = <<>>]
        /\ call' = [c \in Call |-> IF \E j \in Jwt : call[c] = <<w, j>> THEN NoCall ELSE call[c]]
        /\ refused' = [refused EXCEPT ![w] = {}]
        /\ UNCHANGED <<now, disk, jwts, bloom>>

Tick ==
    /\ now < MaxTime
    /\ now' = now + 1
    /\ UNCHANGED <<gateClock, jwts, bloom, memo, call, refused>>

GateNext ==
    \/ Tick
    \/ \E w \in Process :
          \/ ReadKeyset(w) \/ KeepKeyset(w) \/ LockTimesOut(w)
          \/ UseKeys(w) \/ RestartProcess(w)
    \/ \E w \in Process, j \in Jwt :
          \/ Sign(w, j) \/ ServeCached(w, j) \/ RefuseRevoked(w, j) \/ Learn(w, j)
          \/ \E c \in Call : Verify(c, w, j) \/ Remember(c, w, j)

GateSpec == GateInit /\ [][GateNext]_gateVars
-----------------------------------------------------------------------------
(* Properties.                                                               *)

\* Clock, keysets, tokens, filters and caches hold values the code can give them;
\* a cache holds signed tokens, each once, and no more than its size.
GateTypeOK ==
    /\ now \in Nat
    /\ disk.keys \subseteq 0 .. now /\ disk.active \in disk.keys
    /\ \A w \in Process :
          /\ mem[w] = NoKeyset \/ (mem[w].keys \subseteq 0 .. now /\ mem[w].active \in mem[w].keys)
          /\ mem[w].active <= mtime[w] /\ mtime[w] <= disk.active
    /\ due \in [Process -> Nat]
    /\ blind \subseteq Process
    /\ jwts \in [Jwt -> [key : Nat, exp : Nat, early : BOOLEAN]]
    /\ bloom \in [Process -> SUBSET Jwt]
    /\ call \in [Call -> (Process \X Jwt) \cup {NoCall}]
    /\ refused \in [Process -> SUBSET Jwt]
    /\ \A w \in Process :
          /\ memo[w] \in Seq(Jwt)
          /\ Len(memo[w]) <= MemoCap
          /\ \A m, n \in DOMAIN memo[w] : memo[w][m] = memo[w][n] => m = n
          /\ \A j \in Memoised(w) : Signed(j)

\* A token that has not expired can be verified: the key that signed it has not
\* been pruned from the file by any process, and every process that has read the
\* keyset since has it in memory.  The exception are tokens signed before the
\* process looked at its active key after a boot, or after it found the key due and
\* timed out on the lock (_maybe_rotate_locked, _prune_keys, sign_token).
KeyOutlivesToken ==
    \A j \in Jwt :
        Signed(j) /\ ~ Expired(j) /\ ~ jwts[j].early =>
            /\ jwts[j].key \in disk.keys
            /\ \A w \in Process : Behind(mem[w], j) \/ jwts[j].key \in mem[w].keys

\* The gate of w lets the token through.
Accepts(w, j) ==
    /\ j \notin bloom[w]
    /\ j \in Memoised(w) \/ (~ Expired(j) /\ jwts[j].key \in mem[w].keys)

\* A refusal is final: a token that a process has turned away, because it was
\* revoked, expired, or its key pruned, does not come back through the cache, a
\* reload of the keys, a rotation or another token's eviction.  Not refusals in
\* this sense: the answer of a process whose memory is older than the key, an
\* error (500), and one given while another thread had just verified the token
\* (middle_ware, cached_verify_token, decode_token).
RefusalIsFinal ==
    \A w \in Process : \A j \in refused[w] : ~ Accepts(w, j)

=============================================================================
