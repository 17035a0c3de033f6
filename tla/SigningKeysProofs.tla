------------------------- MODULE SigningKeysProofs -------------------------
(***************************************************************************)
(* Proofs about SigningKeys, for any number of processes.                   *)
(*                                                                          *)
(* KeysetTypeOK and ActiveKeyPresent hold however processes die: a keyset   *)
(* is well formed when it is built, and files are only ever replaced as a   *)
(* whole.  LockExcludes and TokensStayValid hold until a waiter breaks a    *)
(* lock whose creator is inside: up to then whoever is inside owns the lock *)
(* file, and the keyset that replaces the file was built from that file.    *)
(***************************************************************************)
EXTENDS SigningKeys, TLAPS

\* A keyset that can be used.
WellFormed(s) == s.active \in s.keys

FileInv ==
    /\ disk = Absent \/ (WellFormed(disk) /\ disk.mtime # 0)
    /\ tmp = Absent \/ (WellFormed(tmp) /\ tmp.mtime # 0)

\* What process p has in its hands at each point of a call.
ProcInv(p) ==
    /\ mem[p] = Absent \/ (WellFormed(mem[p]) /\ disk # Absent)
    /\ pc[p] \in {"check", "answer", "decide", "unlock"} => WellFormed(mem[p])
    /\ pc[p] \in {"load", "load_locked", "write", "replace", "restat"} => WellFormed(draft[p])
    /\ pc[p] \in {"read", "load", "load_locked", "restat"} => disk # Absent
    /\ pc[p] \in {"lock", "age", "break", "locked"} /\ why[p] = "rotate" => disk # Absent

BaseInv ==
    /\ KeysetTypeOK
    /\ FileInv
    /\ \A p \in Proc : ProcInv(p)

LEMMA AbsentIsKeyset == Absent \in Keyset /\ ~WellFormed(Absent)
BY DEF Absent, Keyset, WellFormed

\* What a process that does not move keeps.
LEMMA ProcFrame ==
    ASSUME NEW p, ProcInv(p), disk # Absent => disk' # Absent,
           mem'[p] = mem[p], draft'[p] = draft[p], pc'[p] = pc[p], why'[p] = why[p]
    PROVE  ProcInv(p)'
BY DEF ProcInv, WellFormed

LEMMA BaseInit == KeysetInit => BaseInv
<1> SUFFICES ASSUME KeysetInit PROVE BaseInv
  OBVIOUS
<1>1. KeysetTypeOK
  <2>1. gen \in 0 .. MaxKeys /\ crashes \in 0 .. MaxCrashes
    BY KeyBoundsAssumption DEF KeysetInit, KeyBoundsAssumption
  <2> QED
    BY <2>1, AbsentIsKeyset DEF KeysetInit, KeysetTypeOK
<1>2. FileInv
  BY DEF KeysetInit, FileInv
<1>3. \A p \in Proc : ProcInv(p)
  BY DEF KeysetInit, ProcInv
<1> QED
  BY <1>1, <1>2, <1>3 DEF BaseInv

LEMMA BaseUnlocked ==
    ASSUME BaseInv, NEW p \in Proc, CallManager(p) \/ UnlockedStep(p)
    PROVE  BaseInv'
<1> USE DEF BaseInv
<1>1. ProcInv(p)
  OBVIOUS
<1>2. KeysetTypeOK'
  <2>1. CASE CallManager(p)
    BY <2>1 DEF CallManager, Goto, fileVars, lockVars, keyVars, KeysetTypeOK
  <2>2. CASE Stat(p)
    BY <2>2 DEF Stat, Goto, fileVars, lockVars, keyVars, KeysetTypeOK
  <2>3. CASE Read(p)
    BY <2>3 DEF Read, Goto, fileVars, lockVars, keyVars, KeysetTypeOK
  <2>4. CASE Load(p)
    <3>1. [draft[p] EXCEPT !.mtime = disk.mtime] \in Keyset
      BY DEF KeysetTypeOK, Keyset
    <3> QED
      BY <2>4, <3>1, AbsentIsKeyset DEF Load, Store, Goto, fileVars, lockVars, keyVars, KeysetTypeOK
  <2>5. CASE NoRotation(p)
    BY <2>5 DEF NoRotation, Goto, fileVars, lockVars, keyVars, KeysetTypeOK
  <2>6. CASE RotationDue(p)
    BY <2>6 DEF RotationDue, Goto, fileVars, lockVars, keyVars, KeysetTypeOK
  <2>7. CASE Answer(p)
    <3>1. mem[p].active \in Key
      BY <1>1, <2>7 DEF Answer, ProcInv, WellFormed, KeysetTypeOK, Keyset
    <3> QED
      BY <2>7, <3>1 DEF Answer, Goto, fileVars, lockVars, keyVars, KeysetTypeOK
  <2>8. CASE Acquire(p)
    BY <2>8 DEF Acquire, Goto, fileVars, lockVars, keyVars, KeysetTypeOK, Inside
  <2>9. CASE FindStale(p)
    BY <2>9 DEF FindStale, Goto, fileVars, lockVars, keyVars, KeysetTypeOK
  <2>10. CASE BreakLock(p)
    BY <2>10 DEF BreakLock, Goto, fileVars, lockVars, keyVars, KeysetTypeOK
  <2>11. CASE GiveUp(p)
    BY <2>11 DEF GiveUp, Goto, fileVars, lockVars, keyVars, KeysetTypeOK
  <2>12. CASE LockTaken(p) \/ TryAgain(p)
    BY <2>12 DEF LockTaken, TryAgain, Goto, fileVars, lockVars, keyVars, KeysetTypeOK
  <2> QED
    BY <2>1, <2>2, <2>3, <2>4, <2>5, <2>6, <2>7, <2>8, <2>9, <2>10, <2>11, <2>12
       DEF UnlockedStep
<1>3. UNCHANGED <<disk, tmp>>
  BY DEF UnlockedStep, CallManager, Stat, Read, Load, NoRotation, RotationDue, Answer, Acquire,
         LockTaken, FindStale, TryAgain, BreakLock, GiveUp, fileVars
<1>4. ProcInv(p)'
  <2>1. CASE CallManager(p)
    BY <1>1, <2>1 DEF CallManager, Goto, fileVars, KeysetTypeOK, ProcInv, WellFormed
  <2>2. CASE Stat(p)
    <3>1. disk # Absent /\ mem[p].mtime = disk.mtime => WellFormed(mem[p])
      BY <1>1 DEF ProcInv, FileInv, Absent
    <3> QED
      BY <1>1, <1>3, <2>2, <3>1 DEF Stat, Goto, KeysetTypeOK, ProcInv, WellFormed
  <2>3. CASE Read(p)
    BY <1>1, <2>3 DEF Read, Goto, fileVars, KeysetTypeOK, FileInv, ProcInv, WellFormed
  <2>4. CASE Load(p)
    BY <1>1, <2>4 DEF Load, Store, Goto, fileVars, KeysetTypeOK, Keyset, ProcInv, WellFormed
  <2>5. CASE NoRotation(p)
    BY <1>1, <2>5 DEF NoRotation, Goto, fileVars, KeysetTypeOK, ProcInv, WellFormed
  <2>6. CASE RotationDue(p)
    BY <1>1, <2>6, AbsentIsKeyset
       DEF RotationDue, Goto, fileVars, KeysetTypeOK, ProcInv, WellFormed
  <2>7. CASE Answer(p)
    BY <1>1, <2>7 DEF Answer, Goto, fileVars, KeysetTypeOK, ProcInv, WellFormed
  <2>8. CASE Acquire(p)
    BY <1>1, <2>8 DEF Acquire, Goto, fileVars, KeysetTypeOK, ProcInv, WellFormed
  <2>9. CASE FindStale(p)
    BY <1>1, <2>9 DEF FindStale, Goto, fileVars, KeysetTypeOK, ProcInv, WellFormed
  <2>10. CASE BreakLock(p)
    BY <1>1, <2>10 DEF BreakLock, Goto, fileVars, KeysetTypeOK, ProcInv, WellFormed
  <2>11. CASE GiveUp(p)
    BY <1>1, <2>11 DEF GiveUp, Goto, fileVars, KeysetTypeOK, ProcInv, WellFormed
  <2>12. CASE LockTaken(p) \/ TryAgain(p)
    BY <1>1, <2>12 DEF LockTaken, TryAgain, Goto, fileVars, KeysetTypeOK, ProcInv, WellFormed
  <2> QED
    BY <2>1, <2>2, <2>3, <2>4, <2>5, <2>6, <2>7, <2>8, <2>9, <2>10, <2>11, <2>12
       DEF UnlockedStep
<1>5. ASSUME NEW q \in Proc, q # p
      PROVE  mem'[q] = mem[q] /\ draft'[q] = draft[q] /\ pc'[q] = pc[q] /\ why'[q] = why[q]
  BY <1>5 DEF UnlockedStep, CallManager, Stat, Read, Load, Store, NoRotation, RotationDue, Answer,
              Acquire, LockTaken, FindStale, TryAgain, BreakLock, GiveUp, Goto, KeysetTypeOK
<1>6. \A q \in Proc : ProcInv(q)'
  BY <1>3, <1>4, <1>5, ProcFrame
<1> QED
  BY <1>2, <1>3, <1>6 DEF FileInv, WellFormed

LEMMA ProposeType ==
    ASSUME BaseInv, NEW p \in Proc, NEW keys \in SUBSET (Key \cup {gen + 1}),
           gen + 1 \in keys, Propose(p, keys, gen + 1)
    PROVE  /\ KeysetTypeOK'
           /\ WellFormed(draft'[p])
           /\ pc'[p] = "write"
           /\ UNCHANGED <<disk, tmp, mem, why>>
<1>1. gen + 1 \in Key /\ gen + 1 \in 0 .. MaxKeys
  BY KeyBoundsAssumption DEF Propose, Key, BaseInv, KeysetTypeOK, KeyBoundsAssumption
<1>2. [keys |-> keys, active |-> gen + 1, mtime |-> 0] \in Keyset
  BY <1>1 DEF Keyset
<1>3. KeysetTypeOK'
  BY <1>1, <1>2
     DEF Propose, Goto, fileVars, lockVars, BaseInv, KeysetTypeOK, Inside
<1>4. draft'[p] = [keys |-> keys, active |-> gen + 1, mtime |-> 0] /\ pc'[p] = "write"
  BY DEF Propose, Goto, BaseInv, KeysetTypeOK
<1> QED
  BY <1>3, <1>4 DEF WellFormed, Propose, fileVars

LEMMA BaseLocked ==
    ASSUME BaseInv, NEW p \in Proc, LockedStep(p)
    PROVE  BaseInv'
<1> USE DEF BaseInv
<1>1. ProcInv(p)
  OBVIOUS
<1>2. CASE ReadLocked(p)
  <2>1. disk # Absent
    BY <1>1, <1>2 DEF ReadLocked, ProcInv
  <2>2. KeysetTypeOK'
    BY <1>2 DEF ReadLocked, Goto, fileVars, lockVars, keyVars, KeysetTypeOK, Inside
  <2>3. ProcInv(p)'
    BY <1>1, <1>2, <2>1
       DEF ReadLocked, Goto, fileVars, KeysetTypeOK, FileInv, ProcInv, WellFormed
  <2>4. ASSUME NEW q \in Proc, q # p PROVE ProcInv(q)'
    BY <1>2, <2>4, ProcFrame DEF ReadLocked, Goto, fileVars, KeysetTypeOK
  <2> QED
    BY <1>2, <2>2, <2>3, <2>4 DEF ReadLocked, fileVars, FileInv, WellFormed
<1>3. CASE LoadLocked(p)
  <2>1. [draft[p] EXCEPT !.mtime = disk.mtime] \in Keyset
    BY DEF KeysetTypeOK, Keyset
  <2>2. KeysetTypeOK'
    BY <1>3, <2>1, AbsentIsKeyset
       DEF LoadLocked, Store, Goto, fileVars, lockVars, keyVars, KeysetTypeOK, Inside
  <2>3. ProcInv(p)'
    BY <1>1, <1>3
       DEF LoadLocked, Store, Goto, fileVars, KeysetTypeOK, Keyset, ProcInv, WellFormed
  <2>4. ASSUME NEW q \in Proc, q # p PROVE ProcInv(q)'
    BY <1>3, <2>4, ProcFrame DEF LoadLocked, Store, Goto, fileVars, KeysetTypeOK
  <2> QED
    BY <1>3, <2>2, <2>3, <2>4 DEF LoadLocked, fileVars, FileInv, WellFormed
<1>4. CASE BuildInitial(p) \/ Rotate(p)
  <2>1. PICK keys \in SUBSET (Key \cup {gen + 1}) :
            gen + 1 \in keys /\ Propose(p, keys, gen + 1)
    <3>1. CASE BuildInitial(p)
      BY <3>1 DEF BuildInitial
    <3>2. CASE Rotate(p)
      <4>1. mem[p].keys \subseteq Key
        BY DEF KeysetTypeOK, Keyset
      <4> QED
        BY <3>2, <4>1 DEF Rotate, PruneKeys
    <3> QED
      BY <1>4, <3>1, <3>2
  <2>2. /\ KeysetTypeOK'
        /\ WellFormed(draft'[p])
        /\ pc'[p] = "write"
        /\ UNCHANGED <<disk, tmp, mem, why>>
    BY <2>1, ProposeType
  <2>3. ProcInv(p)'
    BY <1>1, <2>2 DEF ProcInv, WellFormed
  <2>4. ASSUME NEW q \in Proc, q # p PROVE ProcInv(q)'
    BY <2>1, <2>2, <2>4, ProcFrame DEF Propose, Goto, KeysetTypeOK
  <2> QED
    BY <2>2, <2>3, <2>4 DEF FileInv, WellFormed
<1>5. CASE AlreadyRotated(p)
  <2>1. KeysetTypeOK'
    BY <1>5 DEF AlreadyRotated, Goto, fileVars, lockVars, keyVars, KeysetTypeOK, Inside
  <2>2. ProcInv(p)'
    BY <1>1, <1>5 DEF AlreadyRotated, Goto, fileVars, KeysetTypeOK, ProcInv, WellFormed
  <2>3. ASSUME NEW q \in Proc, q # p PROVE ProcInv(q)'
    BY <1>5, <2>3, ProcFrame DEF AlreadyRotated, Goto, fileVars, KeysetTypeOK
  <2> QED
    BY <1>5, <2>1, <2>2, <2>3 DEF AlreadyRotated, fileVars, FileInv, WellFormed
<1>6. CASE WriteTemp(p)
  <2>1. tmp' \in Keyset /\ writes' \in Nat /\ WellFormed(tmp') /\ tmp'.mtime # 0
    BY <1>1, <1>6 DEF WriteTemp, ProcInv, WellFormed, KeysetTypeOK, Keyset
  <2>2. KeysetTypeOK'
    BY <1>6, <2>1 DEF WriteTemp, Goto, lockVars, keyVars, KeysetTypeOK, Inside
  <2>3. ProcInv(p)'
    BY <1>1, <1>6 DEF WriteTemp, Goto, KeysetTypeOK, ProcInv, WellFormed
  <2>4. ASSUME NEW q \in Proc, q # p PROVE ProcInv(q)'
    BY <1>6, <2>4, ProcFrame DEF WriteTemp, Goto, KeysetTypeOK
  <2> QED
    BY <1>6, <2>1, <2>2, <2>3, <2>4 DEF WriteTemp, FileInv, WellFormed
<1>7. CASE Replace(p)
  <2>1. disk' # Absent /\ disk' = tmp /\ tmp' = Absent
    BY <1>7 DEF Replace
  <2>2. KeysetTypeOK'
    BY <1>7, AbsentIsKeyset DEF Replace, Goto, lockVars, keyVars, KeysetTypeOK, Inside
  <2>3. ProcInv(p)'
    BY <1>1, <1>7, <2>1 DEF Replace, Goto, KeysetTypeOK, ProcInv, WellFormed
  <2>4. ASSUME NEW q \in Proc, q # p PROVE ProcInv(q)'
    BY <1>7, <2>1, <2>4, ProcFrame DEF Replace, Goto, KeysetTypeOK
  <2> QED
    BY <2>1, <2>2, <2>3, <2>4 DEF FileInv, WellFormed
<1>8. CASE ReplaceFails(p)
  <2>1. KeysetTypeOK'
    BY <1>8, AbsentIsKeyset
       DEF ReplaceFails, Goto, fileVars, lockVars, keyVars, KeysetTypeOK, Inside
  <2>2. ProcInv(p)'
    BY <1>1, <1>8 DEF ReplaceFails, Goto, fileVars, KeysetTypeOK, ProcInv, WellFormed
  <2>3. ASSUME NEW q \in Proc, q # p PROVE ProcInv(q)'
    BY <1>8, <2>3, ProcFrame DEF ReplaceFails, Goto, fileVars, KeysetTypeOK
  <2> QED
    BY <1>8, <2>1, <2>2, <2>3 DEF ReplaceFails, fileVars, FileInv, WellFormed
<1>9. CASE Restat(p)
  <2>1. [draft[p] EXCEPT !.mtime = disk.mtime] \in Keyset
    BY DEF KeysetTypeOK, Keyset
  <2>2. KeysetTypeOK'
    BY <1>9, <2>1, AbsentIsKeyset
       DEF Restat, Store, Goto, fileVars, lockVars, keyVars, KeysetTypeOK, Inside
  <2>3. ProcInv(p)'
    BY <1>1, <1>9 DEF Restat, Store, Goto, fileVars, KeysetTypeOK, Keyset, ProcInv, WellFormed
  <2>4. ASSUME NEW q \in Proc, q # p PROVE ProcInv(q)'
    BY <1>9, <2>4, ProcFrame DEF Restat, Store, Goto, fileVars, KeysetTypeOK
  <2> QED
    BY <1>9, <2>2, <2>3, <2>4 DEF Restat, fileVars, FileInv, WellFormed
<1>10. CASE Unlock(p)
  <2>1. KeysetTypeOK'
    BY <1>10 DEF Unlock, Goto, fileVars, lockVars, keyVars, KeysetTypeOK
  <2>2. ProcInv(p)'
    BY <1>1, <1>10 DEF Unlock, Goto, fileVars, KeysetTypeOK, ProcInv, WellFormed
  <2>3. ASSUME NEW q \in Proc, q # p PROVE ProcInv(q)'
    BY <1>10, <2>3, ProcFrame DEF Unlock, Goto, fileVars, KeysetTypeOK
  <2> QED
    BY <1>10, <2>1, <2>2, <2>3 DEF Unlock, fileVars, FileInv, WellFormed
<1> QED
  BY <1>2, <1>3, <1>4, <1>5, <1>6, <1>7, <1>8, <1>9, <1>10 DEF LockedStep

LEMMA BaseStep == BaseInv /\ [KeysetNext]_keysetVars => BaseInv'
<1> SUFFICES ASSUME BaseInv, [KeysetNext]_keysetVars PROVE BaseInv'
  OBVIOUS
<1> USE DEF BaseInv
<1>1. ASSUME NEW p \in Proc, CallManager(p) \/ UnlockedStep(p) PROVE BaseInv'
  BY <1>1, BaseUnlocked
<1>2. ASSUME NEW p \in Proc, LockedStep(p) PROVE BaseInv'
  BY <1>2, BaseLocked
<1>3. ASSUME NEW p \in Proc, Crash(p) PROVE BaseInv'
  <2>1. crashes' \in 0 .. MaxCrashes
    BY <1>3, KeyBoundsAssumption DEF Crash, KeysetTypeOK, KeyBoundsAssumption
  <2>2. KeysetTypeOK'
    BY <1>3, <2>1, AbsentIsKeyset DEF Crash, Goto, fileVars, lockVars, keyVars, KeysetTypeOK
  <2>3. ProcInv(p)'
    BY <1>3 DEF Crash, Goto, fileVars, KeysetTypeOK, ProcInv
  <2>4. ASSUME NEW q \in Proc, q # p PROVE ProcInv(q)'
    BY <1>3, <2>4, ProcFrame DEF Crash, Goto, fileVars, KeysetTypeOK
  <2> QED
    BY <1>3, <2>2, <2>3, <2>4 DEF Crash, fileVars, FileInv, WellFormed
<1>4. ASSUME NEW k \in Key, KeyDue(k) \/ KeyOld(k) PROVE BaseInv'
  <2>1. KeysetTypeOK'
    BY <1>4 DEF KeyDue, KeyOld, fileVars, lockVars, procVars, KeysetTypeOK
  <2>2. \A p \in Proc : ProcInv(p)'
    BY <1>4 DEF KeyDue, KeyOld, fileVars, procVars, ProcInv, WellFormed
  <2> QED
    BY <1>4, <2>1, <2>2 DEF KeyDue, KeyOld, fileVars, FileInv, WellFormed
<1>5. CASE LockAges
  <2>1. KeysetTypeOK'
    BY <1>5 DEF LockAges, fileVars, procVars, keyVars, KeysetTypeOK
  <2>2. \A p \in Proc : ProcInv(p)'
    BY <1>5 DEF LockAges, fileVars, procVars, ProcInv, WellFormed
  <2> QED
    BY <1>5, <2>1, <2>2 DEF LockAges, fileVars, FileInv, WellFormed
<1>6. CASE UNCHANGED keysetVars
  <2>1. KeysetTypeOK'
    BY <1>6 DEF keysetVars, fileVars, lockVars, procVars, keyVars, KeysetTypeOK
  <2>2. \A p \in Proc : ProcInv(p)'
    BY <1>6 DEF keysetVars, fileVars, procVars, ProcInv, WellFormed
  <2> QED
    BY <1>6, <2>1, <2>2 DEF keysetVars, fileVars, FileInv, WellFormed
<1> QED
  BY <1>1, <1>2, <1>3, <1>4, <1>5, <1>6 DEF KeysetNext

LEMMA BaseHolds == KeysetSpec => []BaseInv
BY BaseInit, BaseStep, PTL DEF KeysetSpec

\* The variables of the keyset model keep their types, in every behaviour.
THEOREM KeysetTypeCorrect == KeysetSpec => []KeysetTypeOK
<1>1. BaseInv => KeysetTypeOK
  BY DEF BaseInv
<1> QED
  BY <1>1, BaseHolds, PTL

\* However many processes die, and wherever, the active key is in the keyset: in
\* the file, and in the memory of every process.
THEOREM ActiveKeyIsPresent == KeysetSpec => []ActiveKeyPresent
<1>1. BaseInv => ActiveKeyPresent
  BY DEF BaseInv, FileInv, ProcInv, WellFormed, Absent, ActiveKeyPresent
<1> QED
  BY <1>1, BaseHolds, PTL

-----------------------------------------------------------------------------
(***************************************************************************)
(* Until a lock is broken that is not an abandoned one.                     *)
(***************************************************************************)

\* Whoever is inside has created the lock file that is there.
LockInv == ~robbed => \A p \in Proc : pc[p] \in Inside => lock = p

\* A process that takes a step keeps the others where they are.
LEMMA OthersStay ==
    ASSUME KeysetTypeOK, NEW p \in Proc, NEW q \in Proc, q # p,
           CallManager(p) \/ UnlockedStep(p) \/ LockedStep(p)
    PROVE  mem'[q] = mem[q] /\ draft'[q] = draft[q] /\ pc'[q] = pc[q]
BY DEF CallManager, UnlockedStep, Stat, Read, Load, NoRotation, RotationDue, Answer, Acquire,
       LockTaken, FindStale, TryAgain, BreakLock, GiveUp, LockedStep, ReadLocked, LoadLocked, BuildInitial,
       AlreadyRotated, Rotate, Propose, WriteTemp, Replace, ReplaceFails, Restat, Unlock,
       Store, Goto, KeysetTypeOK

LEMMA RobbedStays == ASSUME KeysetTypeOK, [KeysetNext]_keysetVars PROVE robbed => robbed'
BY DEF KeysetNext, CallManager, UnlockedStep, Stat, Read, Load, NoRotation, RotationDue, Answer,
       Acquire, LockTaken, FindStale, TryAgain, BreakLock, GiveUp, LockedStep, ReadLocked,
       LoadLocked, BuildInitial, AlreadyRotated, Rotate, Propose, WriteTemp, Replace, ReplaceFails,
       Restat, Unlock, Crash, KeyDue, KeyOld, LockAges, lockVars, keysetVars

LEMMA LockStep ==
    ASSUME KeysetTypeOK, LockInv, [KeysetNext]_keysetVars
    PROVE  LockInv'
<1> SUFFICES ASSUME ~robbed' PROVE \A p \in Proc : pc'[p] \in Inside => lock' = p
  BY DEF LockInv
<1>0. \A p \in Proc : pc[p] \in Inside => lock = p
  BY RobbedStays DEF LockInv
<1> HIDE DEF LockInv
<1>1. ASSUME NEW p \in Proc, CallManager(p) \/ UnlockedStep(p)
      PROVE  \A q \in Proc : pc'[q] \in Inside => lock' = q
  <2>1. \A q \in Proc : q # p => pc'[q] = pc[q]
    BY <1>1, OthersStay
  <2>2. CASE Acquire(p)
    <3>1. lock = NoLock /\ lock' = p
      BY <2>2 DEF Acquire
    <3>2. \A q \in Proc : pc[q] \notin Inside
      BY <1>0, <3>1, NoLockAssumption DEF NoLockAssumption
    <3> QED
      BY <2>1, <3>1, <3>2
  <2>3. CASE BreakLock(p)
    <3>1. \A q \in Proc : ~(lock = q /\ pc[q] \in Inside)
      BY <2>3 DEF BreakLock
    <3>2. \A q \in Proc : pc[q] \notin Inside
      BY <1>0, <3>1
    <3>3. pc'[p] = "lock"
      BY <2>3 DEF BreakLock, Goto, KeysetTypeOK
    <3> QED
      BY <2>1, <3>2, <3>3 DEF Inside
  <2>4. CASE ~Acquire(p) /\ ~BreakLock(p)
    <3>1. lock' = lock /\ pc'[p] \notin Inside
      BY <1>1, <2>4
         DEF CallManager, UnlockedStep, Stat, Read, Load, NoRotation, RotationDue, Answer,
             LockTaken, FindStale, TryAgain, GiveUp, Goto, Inside, lockVars, KeysetTypeOK
    <3> QED
      BY <1>0, <2>1, <3>1
  <2> QED
    BY <2>2, <2>3, <2>4
<1>2. ASSUME NEW p \in Proc, LockedStep(p)
      PROVE  \A q \in Proc : pc'[q] \in Inside => lock' = q
  <2>1. \A q \in Proc : q # p => pc'[q] = pc[q]
    BY <1>2, OthersStay
  <2>2. pc[p] \in Inside
    BY <1>2 DEF LockedStep, ReadLocked, LoadLocked, BuildInitial, AlreadyRotated, Rotate,
                WriteTemp, Replace, ReplaceFails, Restat, Unlock, Inside
  <2>3. CASE Unlock(p)
    <3>1. pc'[p] \notin Inside
      BY <2>3 DEF Unlock, Goto, Inside, KeysetTypeOK
    <3>2. \A q \in Proc : q # p => pc[q] \notin Inside
      BY <1>0, <2>2
    <3> QED
      BY <2>1, <3>1, <3>2
  <2>4. CASE ~Unlock(p)
    <3>1. lock' = lock
      BY <1>2, <2>4
         DEF LockedStep, ReadLocked, LoadLocked, BuildInitial, AlreadyRotated, Rotate, Propose,
             WriteTemp, Replace, ReplaceFails, Restat, lockVars
    <3> QED
      BY <1>0, <2>1, <2>2, <3>1
  <2> QED
    BY <2>3, <2>4
<1>3. ASSUME NEW p \in Proc, Crash(p)
      PROVE  \A q \in Proc : pc'[q] \in Inside => lock' = q
  <2>1. lock' = lock /\ pc'[p] = "idle" /\ \A q \in Proc : q # p => pc'[q] = pc[q]
    BY <1>3 DEF Crash, Goto, lockVars, KeysetTypeOK
  <2> QED
    BY <1>0, <2>1 DEF Inside
<1>4. ASSUME NEW k \in Key, KeyDue(k) \/ KeyOld(k)
      PROVE  \A q \in Proc : pc'[q] \in Inside => lock' = q
  BY <1>0, <1>4 DEF KeyDue, KeyOld, lockVars, procVars
<1>5. CASE LockAges
  BY <1>0, <1>5 DEF LockAges, procVars
<1>6. CASE UNCHANGED keysetVars
  BY <1>0, <1>6 DEF keysetVars, lockVars, procVars
<1> QED
  BY <1>1, <1>2, <1>3, <1>4, <1>5, <1>6 DEF KeysetNext

LEMMA LockHolds == KeysetSpec => [](BaseInv /\ LockInv)
<1>1. KeysetInit => LockInv
  BY DEF KeysetInit, LockInv, Inside
<1>2. BaseInv /\ LockInv /\ [KeysetNext]_keysetVars => LockInv'
  BY LockStep DEF BaseInv
<1> QED
  BY <1>1, <1>2, BaseInit, BaseStep, PTL DEF KeysetSpec

\* For any number of processes and crashes: at most one process is inside the lock
\* until a waiter breaks a lock that is not abandoned.
THEOREM LockExcludesOthers == KeysetSpec => []LockExcludes
<1>1. LockInv => LockExcludes
  BY DEF LockInv, LockExcludes
<1> QED
  BY <1>1, LockHolds, PTL

\* Keys within their retention that are in the file.
Kept(keys) == \A k \in keys : age[k] # "old" => k \in disk.keys

\* What process p has read is still in the file, and what it is about to write
\* holds what is in the file.
KeepInv(p) ==
    /\ Kept(mem[p].keys)
    /\ pc[p] = "load" => Kept(draft[p].keys)
    /\ pc[p] = "load_locked" => draft[p].keys = disk.keys
    /\ pc[p] = "decide" => mem[p].keys = disk.keys
    /\ pc[p] \in {"write", "replace"} =>
          \A k \in disk.keys : age[k] # "old" => k \in draft[p].keys
    /\ pc[p] = "replace" => tmp.keys = draft[p].keys
    /\ pc[p] = "restat" => draft[p].keys = disk.keys

KeepAll == ~robbed => Kept(signed) /\ \A p \in Proc : KeepInv(p)

\* A process that does not move, while the files stay or change under somebody
\* else's lock, and keys only get older.
LEMMA KeepFrame ==
    ASSUME NEW q \in Proc, KeepInv(q), mem[q].keys \subseteq Key, draft[q].keys \subseteq Key,
           disk.keys \subseteq Key,
           mem'[q] = mem[q], draft'[q] = draft[q], pc'[q] = pc[q],
           \A k \in Key : age[k] = "old" => age'[k] = "old",
           \/ UNCHANGED <<disk, tmp>>
           \/ /\ pc[q] \notin Inside
              /\ \A k \in disk.keys : age[k] # "old" => k \in disk'.keys
    PROVE  KeepInv(q)'
<1>1. \A k \in mem[q].keys : age'[k] # "old" => k \in disk'.keys
  BY DEF KeepInv, Kept
<1>2. pc[q] = "load" => \A k \in draft[q].keys : age'[k] # "old" => k \in disk'.keys
  BY DEF KeepInv, Kept
<1>3. CASE UNCHANGED <<disk, tmp>>
  BY <1>1, <1>2, <1>3 DEF KeepInv, Kept
<1>4. CASE pc[q] \notin Inside
  BY <1>1, <1>2, <1>4 DEF KeepInv, Kept, Inside
<1> QED
  BY <1>3, <1>4

\* The process that moves, when it does not touch the files.
LEMMA KeepMove ==
    ASSUME BaseInv, NEW p \in Proc, KeepInv(p),
           CallManager(p) \/ UnlockedStep(p) \/ LockedStep(p),
           ~WriteTemp(p), ~Replace(p)
    PROVE  KeepInv(p)' /\ UNCHANGED <<disk, tmp, age>>
<1> USE DEF BaseInv
<1>1. UNCHANGED <<disk, tmp, age>>
  BY DEF CallManager, UnlockedStep, Stat, Read, Load, NoRotation, RotationDue, Answer, Acquire,
         LockTaken, FindStale, TryAgain, BreakLock, GiveUp, LockedStep, ReadLocked, LoadLocked, BuildInitial,
         AlreadyRotated, Rotate, Propose, ReplaceFails, Restat, Unlock, fileVars, keyVars
<1>2. CASE Read(p) \/ ReadLocked(p)
  <2>1. /\ mem' = mem
        /\ draft'[p] = disk
        /\ pc'[p] \in {"load", "load_locked"}
    BY <1>2 DEF Read, ReadLocked, Goto, KeysetTypeOK
  <2> QED
    BY <1>1, <2>1 DEF KeepInv, Kept
<1>3. CASE Load(p) \/ LoadLocked(p) \/ Restat(p)
  <2>1. mem'[p] = [draft[p] EXCEPT !.mtime = disk.mtime] /\ draft[p] \in Keyset
    BY <1>3 DEF Load, LoadLocked, Restat, Store, KeysetTypeOK
  <2>2. mem'[p].keys = draft[p].keys
    BY <2>1 DEF Keyset
  <2>3. CASE Load(p)
    <3>1. pc'[p] = "check" /\ pc[p] = "load"
      BY <2>3 DEF Load, Goto, KeysetTypeOK
    <3> QED
      BY <1>1, <2>2, <3>1 DEF KeepInv, Kept
  <2>4. CASE LoadLocked(p) \/ Restat(p)
    <3>1. pc'[p] \in {"unlock", "decide"} /\ pc[p] \in {"load_locked", "restat"}
      BY <2>4 DEF LoadLocked, Restat, Goto, KeysetTypeOK
    <3> QED
      BY <1>1, <2>2, <3>1 DEF KeepInv, Kept
  <2> QED
    BY <1>3, <2>3, <2>4
<1>4. CASE BuildInitial(p) \/ Rotate(p)
  <2>1. mem' = mem /\ pc'[p] = "write"
    BY <1>4 DEF BuildInitial, Rotate, Propose, Goto, KeysetTypeOK
  <2>2. \A k \in disk.keys : age[k] # "old" => k \in draft'[p].keys
    <3>1. CASE BuildInitial(p)
      BY <3>1 DEF BuildInitial, Absent
    <3>2. CASE Rotate(p)
      <4>1. draft'[p].keys = PruneKeys(mem[p].keys \cup {gen + 1}, gen + 1)
        BY <3>2 DEF Rotate, Propose, KeysetTypeOK
      <4>2. mem[p].keys = disk.keys
        BY <3>2 DEF Rotate, KeepInv
      <4> QED
        BY <4>1, <4>2 DEF PruneKeys
    <3> QED
      BY <1>4, <3>1, <3>2
  <2> QED
    BY <1>1, <2>1, <2>2 DEF KeepInv, Kept
<1>5. CASE ~(Read(p) \/ ReadLocked(p) \/ Load(p) \/ LoadLocked(p) \/ Restat(p)
               \/ BuildInitial(p) \/ Rotate(p))
  <2>1. /\ mem' = mem
        /\ pc'[p] \in {"idle", "stat", "read", "check", "answer", "lock", "age", "break", "locked",
                        "unlock", "fail"}
    BY <1>5
       DEF CallManager, UnlockedStep, Stat, NoRotation, RotationDue, Answer, Acquire,
           LockTaken, FindStale, TryAgain, BreakLock, GiveUp, LockedStep, AlreadyRotated, ReplaceFails, Unlock,
           Goto, KeysetTypeOK
  <2> QED
    BY <1>1, <2>1 DEF KeepInv, Kept
<1> QED
  BY <1>1, <1>2, <1>3, <1>4, <1>5

LEMMA KeepStep ==
    ASSUME BaseInv, LockInv, KeepAll, [KeysetNext]_keysetVars
    PROVE  KeepAll'
<1> DEFINE Keep == Kept(signed) /\ \A p \in Proc : KeepInv(p)
<1> SUFFICES ASSUME ~robbed' PROVE Keep'
  BY DEF KeepAll
<1> USE DEF BaseInv
<1>k. Kept(signed) /\ (\A p \in Proc : KeepInv(p)) /\ ~robbed
  BY RobbedStays DEF KeepAll
<1> USE <1>k
<1>0. /\ disk.keys \subseteq Key
      /\ \A q \in Proc : mem[q].keys \subseteq Key /\ draft[q].keys \subseteq Key
  BY DEF KeysetTypeOK, Keyset
<1>1. ASSUME NEW p \in Proc, CallManager(p) \/ UnlockedStep(p) \/ LockedStep(p) PROVE Keep'
  <2>1. \A q \in Proc : q # p => mem'[q] = mem[q] /\ draft'[q] = draft[q] /\ pc'[q] = pc[q]
    BY <1>1, OthersStay
  <2>2. CASE WriteTemp(p)
    <3>1. /\ UNCHANGED <<disk, age, signed, mem, draft>>
          /\ tmp' = [draft[p] EXCEPT !.mtime = writes']
          /\ pc[p] = "write" /\ pc'[p] = "replace"
      BY <2>2 DEF WriteTemp, Goto, keyVars, KeysetTypeOK
    <3>2. tmp'.keys = draft[p].keys
      BY <3>1 DEF KeysetTypeOK, Keyset
    <3>3. KeepInv(p)'
      BY <3>1, <3>2 DEF KeepInv, Kept
    <3>4. ASSUME NEW q \in Proc, q # p PROVE KeepInv(q)'
      <4>1. pc[q] \notin Inside
        BY <3>1, <3>4 DEF LockInv, Inside
      <4> QED
        BY <1>0, <2>1, <3>1, <3>4, <4>1, KeepFrame
    <3> QED
      BY <3>1, <3>3, <3>4 DEF Kept
  <2>3. CASE Replace(p)
    <3>1. /\ UNCHANGED <<age, signed, mem, draft>>
          /\ disk' = tmp
          /\ pc[p] = "replace" /\ pc'[p] = "restat"
      BY <2>3 DEF Replace, Goto, keyVars, KeysetTypeOK
    <3>2. disk'.keys = draft[p].keys
      BY <3>1 DEF KeepInv
    <3>3. \A k \in disk.keys : age[k] # "old" => k \in disk'.keys
      BY <3>1, <3>2 DEF KeepInv
    <3>4. KeepInv(p)'
      BY <3>1, <3>2, <3>3 DEF KeepInv, Kept
    <3>5. ASSUME NEW q \in Proc, q # p PROVE KeepInv(q)'
      <4>1. pc[q] \notin Inside
        BY <3>1, <3>5 DEF LockInv, Inside
      <4> QED
        BY <1>0, <2>1, <3>1, <3>3, <3>5, <4>1, KeepFrame
    <3> QED
      BY <3>1, <3>3, <3>4, <3>5 DEF Kept
  <2>4. CASE ~WriteTemp(p) /\ ~Replace(p)
    <3>1. KeepInv(p)' /\ UNCHANGED <<disk, tmp, age>>
      BY <1>1, <2>4, KeepMove
    <3>2. ASSUME NEW q \in Proc, q # p PROVE KeepInv(q)'
      BY <1>0, <2>1, <3>1, <3>2, KeepFrame
    <3>3. \A k \in signed' : age[k] # "old" => k \in disk.keys
      <4>1. CASE Answer(p)
        <5>1. mem[p].active \in mem[p].keys
          BY <4>1 DEF Answer, ProcInv, WellFormed
        <5> QED
          BY <4>1, <5>1 DEF Answer, KeepInv, Kept
      <4>2. CASE ~Answer(p)
        <5>1. signed' = signed
          BY <1>1, <4>2
             DEF CallManager, UnlockedStep, Stat, Read, Load, NoRotation, RotationDue, Acquire,
                 LockTaken, FindStale, TryAgain, BreakLock, GiveUp, LockedStep, ReadLocked, LoadLocked,
                 BuildInitial, AlreadyRotated, Rotate, Propose, WriteTemp, Replace,
                 ReplaceFails, Restat, Unlock
        <5> QED
          BY <5>1 DEF Kept
      <4> QED
        BY <4>1, <4>2
    <3> QED
      BY <3>1, <3>2, <3>3 DEF Kept
  <2> QED
    BY <2>2, <2>3, <2>4
<1>2. ASSUME NEW p \in Proc, Crash(p) PROVE Keep'
  <2>1. /\ UNCHANGED <<disk, tmp, age, signed>>
        /\ mem'[p] = Absent /\ draft'[p] = Absent /\ pc'[p] = "idle"
        /\ \A q \in Proc : q # p => mem'[q] = mem[q] /\ draft'[q] = draft[q] /\ pc'[q] = pc[q]
    BY <1>2 DEF Crash, Goto, fileVars, keyVars, KeysetTypeOK
  <2>2. KeepInv(p)'
    BY <2>1 DEF KeepInv, Kept, Absent
  <2>3. ASSUME NEW q \in Proc, q # p PROVE KeepInv(q)'
    BY <1>k, <1>0, <2>1, <2>3, KeepFrame
  <2> QED
    BY <1>k, <2>1, <2>2, <2>3 DEF Kept
<1>3. ASSUME NEW k \in Key, KeyDue(k) \/ KeyOld(k) PROVE Keep'
  <2>1. /\ UNCHANGED <<disk, tmp, mem, draft, pc, signed>>
        /\ \A i \in Key : age[i] = "old" => age'[i] = "old"
    BY <1>3 DEF KeyDue, KeyOld, fileVars, procVars, KeysetTypeOK
  <2>2. ASSUME NEW q \in Proc PROVE KeepInv(q)'
    BY <1>0, <2>1, KeepFrame
  <2> QED
    BY <2>1, <2>2 DEF Kept, KeysetTypeOK
<1>4. CASE LockAges
  BY <1>4 DEF LockAges, fileVars, procVars, keyVars, KeepInv, Kept
<1>5. CASE UNCHANGED keysetVars
  BY <1>5 DEF keysetVars, fileVars, procVars, keyVars, KeepInv, Kept
<1> QED
  BY <1>1, <1>2, <1>3, <1>4, <1>5 DEF KeysetNext

\* For any number of processes, rotations and crashes: a key that signed a token
\* stays in the keyset file for its retention, until a waiter breaks a lock that is
\* not abandoned.
THEOREM TokensRemainValid == KeysetSpec => []TokensStayValid
<1>1. KeysetInit => KeepAll
  BY DEF KeysetInit, KeepAll, KeepInv, Kept, Absent
<1>2. BaseInv /\ LockInv /\ KeepAll /\ [KeysetNext]_keysetVars => KeepAll'
  BY KeepStep
<1>3. KeepAll => TokensStayValid
  BY DEF KeepAll, Kept, TokensStayValid
<1> QED
  BY <1>1, <1>2, <1>3, LockHolds, PTL DEF KeysetSpec

=============================================================================
