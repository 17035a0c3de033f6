---------------------------- MODULE SigningKeys ----------------------------
(***************************************************************************)
(* The shared keyset of app/core/signing_keys.py: every worker process has  *)
(* a SigningKeyManager, all of them read, create and rotate one JSON file   *)
(* under a lock file that may be broken when it looks abandoned.            *)
(*                                                                          *)
(* A step is one file-system call; the code between two of them is local to *)
(* the process, which runs one call of the manager at a time (RLock).  A    *)
(* key is the number of its generation.  The age of a key is what its       *)
(* created_at is compared with: "due" is past rotation_interval_seconds,    *)
(* "old" is past retention_seconds.                                         *)
(***************************************************************************)
EXTENDS Integers, FiniteSets

CONSTANTS
    Proc,       \* worker processes
    MaxKeys,    \* bound: keys ever generated
    MaxCrashes  \* bound: processes killed

ASSUME KeyBoundsAssumption == MaxKeys \in Nat /\ MaxCrashes \in Nat

VARIABLES
    disk,     \* the keyset file
    tmp,      \* the file next to it that os.replace() renames
    lock,     \* the process that created the lock file, or NoLock
    stale,    \* is the lock file more than 30 seconds old?
    robbed,   \* history: was a lock file removed from under a process inside?
    pc,       \* pc[p]: the next file-system call of process p
    why,      \* why[p]: what p takes the lock for, "init" or "rotate"
    mem,      \* mem[p]: _state and _state_mtime
    draft,    \* draft[p]: a keyset p has read or built and not yet stored in _state
    gen,      \* keys generated so far
    age,      \* age[k]: "fresh", "due" or "old"
    signed,   \* history: keys that signed a token
    writes,   \* history: files written, the clock of their mtimes
    crashes   \* history: processes killed

fileVars == <<disk, tmp, writes>>
lockVars == <<lock, stale, robbed>>
keyVars  == <<gen, age>>
procVars == <<pc, why, mem, draft>>
keysetVars == <<fileVars, lockVars, procVars, keyVars, signed, crashes>>

-----------------------------------------------------------------------------
Key    == 1 .. MaxKeys
NoLock == "nobody"

ASSUME NoLockAssumption == NoLock \notin Proc

\* mtime 0: no file, or nothing loaded.
Keyset == [keys : SUBSET Key, active : Key \cup {0}, mtime : Nat]
Absent == [keys |-> {}, active |-> 0, mtime |-> 0]

\* Where a process is inside `with self._file_lock()`.
Inside == {"locked", "load_locked", "decide", "write", "replace", "restat", "unlock", "fail"}

Goto(p, step) == pc' = [pc EXCEPT ![p] = step]

KeysetInit ==
    /\ disk = Absent
    /\ tmp = Absent
    /\ lock = NoLock
    /\ stale = FALSE
    /\ robbed = FALSE
    /\ pc = [p \in Proc |-> "idle"]
    /\ why = [p \in Proc |-> "init"]
    /\ mem = [p \in Proc |-> Absent]
    /\ draft = [p \in Proc |-> Absent]
    /\ gen = 0
    /\ age = [k \in Key |-> "fresh"]
    /\ signed = {}
    /\ writes = 0
    /\ crashes = 0

-----------------------------------------------------------------------------
(***************************************************************************)
(* ensure_ready(), which sign_token(), decode_token(), jwks() and every     *)
(* turn of the rotation loop call first.                                    *)
(***************************************************************************)
CallManager(p) ==
    /\ pc[p] = "idle"
    /\ Goto(p, "stat")
    /\ UNCHANGED <<fileVars, lockVars, why, mem, draft, keyVars, signed, crashes>>

\* _ensure_state_loaded_locked(): is there a file, and is it the one we know?
Stat(p) ==
    /\ pc[p] = "stat"
    /\ Goto(p, IF disk = Absent THEN "lock"
               ELSE IF mem[p].mtime # disk.mtime THEN "read" ELSE "check")
    /\ why' = [why EXCEPT ![p] = "init"]
    /\ UNCHANGED <<fileVars, lockVars, mem, draft, keyVars, signed, crashes>>

\* self._state and self._state_mtime: the keyset that was read or written, with
\* the mtime of whatever file has that name by now.
Store(p) ==
    /\ mem' = [mem EXCEPT ![p] = [draft[p] EXCEPT !.mtime = disk.mtime]]
    /\ draft' = [draft EXCEPT ![p] = Absent]

\* _load_state_from_disk_locked(): the text of the file ...
Read(p) ==
    /\ pc[p] = "read"
    /\ draft' = [draft EXCEPT ![p] = disk]
    /\ Goto(p, "load")
    /\ UNCHANGED <<fileVars, lockVars, why, mem, keyVars, signed, crashes>>

\* ... and then its mtime.
Load(p) ==
    /\ pc[p] = "load"
    /\ Store(p)
    /\ Goto(p, "check")
    /\ UNCHANGED <<fileVars, lockVars, why, keyVars, signed, crashes>>

\* _maybe_rotate_locked(): nothing to do, or checked too short a while ago.
NoRotation(p) ==
    /\ pc[p] = "check"
    /\ Goto(p, "answer")
    /\ UNCHANGED <<fileVars, lockVars, why, mem, draft, keyVars, signed, crashes>>

\* Mutant of RotationDue: it looks at the active key of the file.
RotationDueOnDisk(p) ==
    /\ pc[p] = "check"
    /\ age[disk.active] # "fresh"
    /\ Goto(p, "lock")
    /\ why' = [why EXCEPT ![p] = "rotate"]
    /\ UNCHANGED <<fileVars, lockVars, mem, draft, keyVars, signed, crashes>>

\* _maybe_rotate_locked(): the active key is due.
RotationDue(p) ==
    /\ pc[p] = "check"
    /\ age[mem[p].active] # "fresh"
    /\ Goto(p, "lock")
    /\ why' = [why EXCEPT ![p] = "rotate"]
    /\ UNCHANGED <<fileVars, lockVars, mem, draft, keyVars, signed, crashes>>

\* The call goes on with the loaded state: sign_token() signs with the active
\* key, the others only read.
Answer(p) ==
    /\ pc[p] = "answer"
    /\ signed' \in {signed, signed \cup {mem[p].active}}
    /\ Goto(p, "idle")
    /\ UNCHANGED <<fileVars, lockVars, why, mem, draft, keyVars, crashes>>

-----------------------------------------------------------------------------
\* Mutant of Acquire: open() without O_EXCL.
AcquireAnyway(p) ==
    /\ pc[p] = "lock"
    /\ lock' = p
    /\ stale' = FALSE
    /\ Goto(p, "locked")
    /\ UNCHANGED <<robbed, fileVars, why, mem, draft, keyVars, signed, crashes>>

(***************************************************************************)
(* _file_lock().                                                            *)
(***************************************************************************)
Acquire(p) ==
    /\ pc[p] = "lock"
    /\ lock = NoLock
    /\ lock' = p
    /\ stale' = FALSE
    /\ Goto(p, "locked")
    /\ UNCHANGED <<robbed, fileVars, why, mem, draft, keyVars, signed, crashes>>

\* open() raised FileExistsError: now look at the file.
LockTaken(p) ==
    /\ pc[p] = "lock"
    /\ lock # NoLock
    /\ Goto(p, "age")
    /\ UNCHANGED <<fileVars, lockVars, why, mem, draft, keyVars, signed, crashes>>

\* The lock file looks abandoned.
FindStale(p) ==
    /\ pc[p] = "age"
    /\ stale
    /\ Goto(p, "break")
    /\ UNCHANGED <<fileVars, lockVars, why, mem, draft, keyVars, signed, crashes>>

\* It does not, or it is gone: sleep and try again.
TryAgain(p) ==
    /\ pc[p] = "age"
    /\ ~stale
    /\ Goto(p, "lock")
    /\ UNCHANGED <<fileVars, lockVars, why, mem, draft, keyVars, signed, crashes>>

\* Mutant of BreakLock: the file is not removed.
BreakNothing(p) ==
    /\ pc[p] = "break"
    /\ Goto(p, "lock")
    /\ UNCHANGED <<fileVars, lockVars, why, mem, draft, keyVars, signed, crashes>>

\* unlink() of whatever lock file has that name by now; then try again.
BreakLock(p) ==
    /\ pc[p] = "break"
    /\ lock' = NoLock
    /\ stale' = FALSE
    /\ robbed' = (robbed \/ \E q \in Proc : lock = q /\ pc[q] \in Inside)
    /\ Goto(p, "lock")
    /\ UNCHANGED <<fileVars, why, mem, draft, keyVars, signed, crashes>>

\* The call fails: ten seconds have passed (TimeoutError), or the file was removed
\* between exists() and stat(), and nothing catches the FileNotFoundError.
GiveUp(p) ==
    /\ pc[p] = "age"
    /\ ~stale
    /\ Goto(p, "idle")
    /\ UNCHANGED <<fileVars, lockVars, why, mem, draft, keyVars, signed, crashes>>

\* finally: unlink() of whatever lock file has that name.
Unlock(p) ==
    /\ pc[p] \in {"unlock", "fail"}
    /\ lock' = NoLock
    /\ stale' = FALSE
    /\ Goto(p, IF pc[p] = "fail" THEN "idle" ELSE IF why[p] = "init" THEN "check" ELSE "answer")
    /\ UNCHANGED <<robbed, fileVars, why, mem, draft, keyVars, signed, crashes>>

-----------------------------------------------------------------------------
\* Under the lock: read the file, to rotate it or because it has appeared.
ReadLocked(p) ==
    /\ pc[p] = "locked"
    /\ why[p] = "rotate" \/ disk # Absent
    /\ draft' = [draft EXCEPT ![p] = disk]
    /\ Goto(p, "load_locked")
    /\ UNCHANGED <<fileVars, lockVars, why, mem, keyVars, signed, crashes>>

\* Mutant of LoadLocked: the rotation starts from the state in memory.
LoadLockedNothing(p) ==
    /\ pc[p] = "load_locked"
    /\ mem' = IF why[p] = "rotate" THEN mem ELSE [mem EXCEPT ![p] = disk]
    /\ draft' = [draft EXCEPT ![p] = Absent]
    /\ Goto(p, IF why[p] = "init" THEN "unlock" ELSE "decide")
    /\ UNCHANGED <<fileVars, lockVars, why, keyVars, signed, crashes>>

LoadLocked(p) ==
    /\ pc[p] = "load_locked"
    /\ Store(p)
    /\ Goto(p, IF why[p] = "init" THEN "unlock" ELSE "decide")
    /\ UNCHANGED <<fileVars, lockVars, why, keyVars, signed, crashes>>

\* _generate_key_record_locked(): a keyset with a new active key is to be written.
Propose(p, keys, k) ==
    /\ k = gen + 1
    /\ k \in Key
    /\ gen' = k
    /\ draft' = [draft EXCEPT ![p] = [keys |-> keys, active |-> k, mtime |-> 0]]
    /\ Goto(p, "write")
    /\ UNCHANGED <<fileVars, lockVars, why, mem, age, signed, crashes>>

\* _build_initial_state_locked(), when there is still no file.
BuildInitial(p) ==
    /\ pc[p] = "locked"
    /\ why[p] = "init"
    /\ disk = Absent
    /\ Propose(p, {gen + 1}, gen + 1)

\* _prune_keys(): the active key and those within retention_seconds.
PruneKeys(keys, active) == {k \in keys : k = active \/ age[k] # "old"}

\* _maybe_rotate_locked(), second look: another process has rotated, or we do.
AlreadyRotated(p) ==
    /\ pc[p] = "decide"
    /\ age[mem[p].active] = "fresh"
    /\ Goto(p, "unlock")
    /\ UNCHANGED <<fileVars, lockVars, why, mem, draft, keyVars, signed, crashes>>

\* Mutant of Rotate: the new key is made active and not appended.
RotateWithoutAppend(p) ==
    /\ pc[p] = "decide"
    /\ age[mem[p].active] # "fresh"
    /\ Propose(p, PruneKeys(mem[p].keys, gen + 1), gen + 1)

Rotate(p) ==
    /\ pc[p] = "decide"
    /\ age[mem[p].active] # "fresh"
    /\ Propose(p, PruneKeys(mem[p].keys \cup {gen + 1}, gen + 1), gen + 1)

\* _write_state_locked(): the temporary file, the rename, the mtime.
WriteTemp(p) ==
    /\ pc[p] = "write"
    /\ writes' = writes + 1
    /\ tmp' = [draft[p] EXCEPT !.mtime = writes']
    /\ Goto(p, "replace")
    /\ UNCHANGED <<disk, lockVars, why, mem, draft, keyVars, signed, crashes>>

Replace(p) ==
    /\ pc[p] = "replace"
    /\ tmp # Absent
    /\ disk' = tmp
    /\ tmp' = Absent
    /\ Goto(p, "restat")
    /\ UNCHANGED <<writes, lockVars, why, mem, draft, keyVars, signed, crashes>>

\* Somebody else has renamed it: FileNotFoundError, through the finally.
ReplaceFails(p) ==
    /\ pc[p] = "replace"
    /\ tmp = Absent
    /\ draft' = [draft EXCEPT ![p] = Absent]
    /\ Goto(p, "fail")
    /\ UNCHANGED <<fileVars, lockVars, why, mem, keyVars, signed, crashes>>

Restat(p) ==
    /\ pc[p] = "restat"
    /\ Store(p)
    /\ Goto(p, "unlock")
    /\ UNCHANGED <<fileVars, lockVars, why, keyVars, signed, crashes>>

-----------------------------------------------------------------------------
\* The process is killed and started again; its lock and temporary file stay.
Crash(p) ==
    /\ pc[p] # "idle"
    /\ crashes < MaxCrashes
    /\ crashes' = crashes + 1
    /\ Goto(p, "idle")
    /\ mem' = [mem EXCEPT ![p] = Absent]
    /\ draft' = [draft EXCEPT ![p] = Absent]
    /\ UNCHANGED <<fileVars, lockVars, why, keyVars, signed>>

\* Thirty seconds pass over a lock file that nobody is going to remove.  (The
\* code inside the lock takes far less: a live owner does not reach that age.)
LockAges ==
    /\ lock # NoLock
    /\ pc[lock] \notin Inside
    /\ stale' = TRUE
    /\ UNCHANGED <<lock, robbed, fileVars, procVars, keyVars, signed, crashes>>

\* rotation_interval_seconds pass.  The guard leaves keys to replace this one
\* with, one for each process and one more for each that is killed.
KeyDue(k) ==
    /\ k \in 1 .. gen
    /\ age[k] = "fresh"
    /\ gen + Cardinality(Proc) + MaxCrashes <= MaxKeys
    /\ age' = [age EXCEPT ![k] = "due"]
    /\ UNCHANGED <<fileVars, lockVars, procVars, gen, signed, crashes>>

\* retention_seconds pass.  They exceed rotation_interval_seconds by so much
\* that no process has the key as its active one any more, and that every token
\* it signed has expired.
KeyOld(k) ==
    /\ k \in 1 .. gen
    /\ age[k] = "due"
    /\ disk.active # k
    /\ \A p \in Proc : mem[p].active # k /\ draft[p].active # k
    /\ age' = [age EXCEPT ![k] = "old"]
    /\ UNCHANGED <<fileVars, lockVars, procVars, gen, signed, crashes>>

-----------------------------------------------------------------------------
UnlockedStep(p) ==
    \/ Stat(p) \/ Read(p) \/ Load(p) \/ NoRotation(p) \/ RotationDue(p) \/ Answer(p)
    \/ Acquire(p) \/ LockTaken(p) \/ FindStale(p) \/ TryAgain(p) \/ BreakLock(p) \/ GiveUp(p)

LockedStep(p) ==
    \/ ReadLocked(p) \/ LoadLocked(p) \/ BuildInitial(p) \/ AlreadyRotated(p) \/ Rotate(p)
    \/ WriteTemp(p) \/ Replace(p) \/ ReplaceFails(p) \/ Restat(p) \/ Unlock(p)

KeysetNext ==
    \/ \E p \in Proc : CallManager(p) \/ UnlockedStep(p) \/ LockedStep(p) \/ Crash(p)
    \/ \E k \in Key : KeyDue(k) \/ KeyOld(k)
    \/ LockAges

KeysetSpec == KeysetInit /\ [][KeysetNext]_keysetVars

(***************************************************************************)
(* Fairness.  The rotation loop of every process calls the manager again    *)
(* and again, and a call that has started is carried on.  A call looks at   *)
(* the age of the key only if the last look is rotation_check_interval_-    *)
(* seconds back: not every time, but again and again.  Time passes over an  *)
(* abandoned lock.  Nothing is assumed about keys becoming due.             *)
(***************************************************************************)
KeysetFairness ==
    /\ \A p \in Proc :
          /\ WF_keysetVars(CallManager(p))
          /\ WF_keysetVars(UnlockedStep(p))
          /\ WF_keysetVars(LockedStep(p))
          /\ SF_keysetVars(RotationDue(p))
    /\ WF_keysetVars(LockAges)

FairKeysetSpec == KeysetSpec /\ KeysetFairness

-----------------------------------------------------------------------------
KeysetTypeOK ==
    /\ disk \in Keyset
    /\ tmp \in Keyset
    /\ lock \in Proc \cup {NoLock}
    /\ stale \in BOOLEAN
    /\ robbed \in BOOLEAN
    /\ pc \in [Proc -> Inside \cup
                {"idle", "stat", "read", "load", "check", "answer", "lock", "age",
                 "break"}]
    /\ why \in [Proc -> {"init", "rotate"}]
    /\ mem \in [Proc -> Keyset]
    /\ draft \in [Proc -> Keyset]
    /\ gen \in 0 .. MaxKeys
    /\ age \in [Key -> {"fresh", "due", "old"}]
    /\ signed \subseteq Key
    /\ writes \in Nat
    /\ crashes \in 0 .. MaxCrashes

\* The lock file keeps every other process out of the code that rewrites the
\* keyset, however processes die and abandoned locks are broken, until a waiter
\* breaks a lock that is no longer the abandoned one it has looked at.
LockExcludes ==
    ~robbed => \A p, q \in Proc : pc[p] \in Inside /\ pc[q] \in Inside => p = q

\* A key that signed a token stays in the published keyset until its retention
\* is over, whoever creates, reloads, rotates and prunes the file meanwhile or dies
\* in the middle of it, as long as no such lock was broken.
TokensStayValid == ~robbed => \A k \in signed : age[k] # "old" => k \in disk.keys

\* The same without that condition (test_key_rotation_keeps_existing_tokens_valid).
RotationKeepsTokens == \A k \in signed : age[k] # "old" => k \in disk.keys

\* The active key is in the keyset, in the file and in the memory of each process:
\* the "Active signing key is missing from keyset" error cannot happen, not even
\* after processes died at any point of a rewrite.
ActiveKeyPresent ==
    \A s \in {disk, tmp} \cup {mem[p] : p \in Proc} : s.mtime # 0 => s.active \in s.keys

\* A due key is replaced, even if the process that was replacing it died and
\* left its lock file behind.
DueKeyIsReplaced ==
    \A k \in Key : (disk.active = k /\ age[k] = "due") ~> (disk.active # k)

\* A file that is replaced between the reading of its text and of its mtime
\* leaves a process with old keys that it takes for the current ones.  It finds
\* out: its active key is due, so a rotation check reads the file again.  (Two
\* processes that rotate at once, after a lock was broken, may not find out.)
StaleMemoryHeals ==
    \A p \in Proc :
        (mem[p].mtime = disk.mtime /\ mem[p].keys # disk.keys) 
            ~> (mem[p].keys = disk.keys \/ robbed)

=============================================================================
