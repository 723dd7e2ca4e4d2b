--------------------------- MODULE StateLock_proofs ---------------------------
(* What the lock file guarantees for any number of processes: theorems about the *)
(* instance Lock of StateLock.                                                   *)
EXTENDS MCWorkstation, TLAPS

USE SentinelAssumption

\* Control points at which a process has created its file and not yet given it up.
Engaged == {"write", "chmod", "holding", "check", "unlink"}

\* While no reclaim has raced, every engaged process owns the path, and a verdict
\* against a payload is a verdict against a process that is gone.
OwnersInPlace ==
    \A p \in Proc : pc[p] \in Engaged =>
        path = p /\ (pc[p] # "write" => written)

VerdictsSound ==
    \A p \in Proc : pc[p] = "reclaim" /\ seen[p] \in Proc => pc[seen[p]] = "gone"

AbsentAreGone == \A p \in pidAbsent : pc[p] = "gone"

\* A written file at the path belongs to its creator, so that a process at
\* "write" has not written yet.
WriterPending == \A p \in Proc : pc[p] = "write" /\ path = p => ~written

LockInv ==
    /\ Lock!TypeOK /\ VerdictsSound /\ AbsentAreGone /\ WriterPending
    /\ ~raced => OwnersInPlace

\* A stolen process is still working and its file is not at the path.
StolenInv ==
    /\ Lock!TypeOK
    /\ \A p \in stolen : path # p /\ pc[p] \in {"write", "chmod", "holding", "check"}

------------------------------------------------------------------------------
\* Every reachable state is well typed.
THEOREM TypeCorrect == Lock!Spec => []Lock!TypeOK
<1>1. Lock!Init => Lock!TypeOK
  BY SentinelAssumption DEF Lock!Init, Lock!TypeOK, Lock!Control
<1>2. Lock!TypeOK /\ [Lock!Next]_(Lock!vars) => Lock!TypeOK'
  <2> SUFFICES ASSUME Lock!TypeOK, [Lock!Next]_(Lock!vars) PROVE Lock!TypeOK'
    OBVIOUS
  <2> USE DEF Lock!TypeOK, Lock!Control, Lock!Goto, Lock!RemoveFile, Lock!fileVars
  <2>1. ASSUME NEW p \in Proc, Lock!Start(p) PROVE Lock!TypeOK'
    BY <2>1 DEF Lock!Start
  <2>2. ASSUME NEW p \in Proc, Lock!OpenExclusive(p) PROVE Lock!TypeOK'
    BY <2>2 DEF Lock!OpenExclusive
  <2>3. ASSUME NEW p \in Proc, Lock!OpenExists(p) PROVE Lock!TypeOK'
    BY <2>3 DEF Lock!OpenExists
  <2>4. ASSUME NEW p \in Proc, Lock!WritePayload(p) PROVE Lock!TypeOK'
    BY <2>4 DEF Lock!WritePayload, Lock!StorePayload
  <2>5. ASSUME NEW p \in Proc, Lock!WriteFails(p) PROVE Lock!TypeOK'
    BY <2>5 DEF Lock!WriteFails, Lock!StorePayload
  <2>6. ASSUME NEW p \in Proc, Lock!Chmod(p) PROVE Lock!TypeOK'
    BY <2>6 DEF Lock!Chmod
  <2>7. ASSUME NEW p \in Proc, Lock!ReadMissing(p) PROVE Lock!TypeOK'
    BY <2>7 DEF Lock!ReadMissing
  <2>8. ASSUME NEW p \in Proc, Lock!ReadLockPayload(p) PROVE Lock!TypeOK'
    BY <2>8 DEF Lock!ReadLockPayload
  <2>9. ASSUME NEW p \in Proc, Lock!Judge(p) PROVE Lock!TypeOK'
    BY <2>9 DEF Lock!Judge
  <2>10. ASSUME NEW p \in Proc, Lock!Reclaim(p) PROVE Lock!TypeOK'
    BY <2>10 DEF Lock!Reclaim, Lock!AfterReclaim, Lock!StillJudged
  <2>11. ASSUME NEW p \in Proc, Lock!ReclaimFails(p) PROVE Lock!TypeOK'
    BY <2>11 DEF Lock!ReclaimFails
  <2>12. ASSUME NEW p \in Proc, Lock!BeginRelease(p) PROVE Lock!TypeOK'
    BY <2>12 DEF Lock!BeginRelease
  <2>13. ASSUME NEW p \in Proc, Lock!CheckNonce(p) PROVE Lock!TypeOK'
    BY <2>13 DEF Lock!CheckNonce
  <2>14. ASSUME NEW p \in Proc, Lock!UnlinkOwn(p) PROVE Lock!TypeOK'
    BY <2>14 DEF Lock!UnlinkOwn
  <2>15. ASSUME NEW p \in Proc, Lock!Crash(p) PROVE Lock!TypeOK'
    BY <2>15 DEF Lock!Crash
  <2>16. ASSUME NEW p \in Proc, Lock!RecyclePid(p) PROVE Lock!TypeOK'
    BY <2>16 DEF Lock!RecyclePid
  <2>17. CASE Lock!Age
    BY <2>17 DEF Lock!Age
  <2>18. CASE UNCHANGED Lock!vars
    BY <2>18 DEF Lock!vars
  <2> QED
    BY <2>1, <2>2, <2>3, <2>4, <2>5, <2>6, <2>7, <2>8, <2>9, <2>10, <2>11, <2>12,
       <2>13, <2>14, <2>15, <2>16, <2>17, <2>18 DEF Lock!Next, Lock!AcquireStep, Lock!ReleaseStep
<1> QED
  BY <1>1, <1>2, PTL DEF Lock!Spec

------------------------------------------------------------------------------
\* Mutual exclusion of the lock, up to the one race of reclaiming by path: for any
\* number of processes, crashes and recycled PIDs, a process that works under the
\* lock owns the file at the path unless a reclaim removed a file it never judged.
THEOREM ExclusionUnlessRaced == Lock!Spec => []HoldsUnlessRaced
<1>1. Lock!Init => LockInv
  <2> SUFFICES ASSUME Lock!Init PROVE LockInv
    OBVIOUS
  <2>1. Lock!TypeOK
    BY DEF Lock!Init, Lock!TypeOK, Lock!Control
  <2>2. \A p \in Proc : pc[p] = "idle" \/ (pc[p] = "gone" /\ p \in Departed)
    BY DEF Lock!Init
  <2>3. \A p \in Proc : p \in Departed => pc[p] = "gone"
    BY DEF Lock!Init
  <2>4. AbsentAreGone
    BY <2>3 DEF Lock!Init, AbsentAreGone
  <2>5. VerdictsSound /\ WriterPending /\ OwnersInPlace
    BY <2>2 DEF VerdictsSound, WriterPending, OwnersInPlace, Engaged
  <2> QED
    BY <2>1, <2>4, <2>5 DEF LockInv
<1>2. LockInv /\ Lock!TypeOK' /\ [Lock!Next]_(Lock!vars) => LockInv'
  <2> SUFFICES ASSUME LockInv, Lock!TypeOK', [Lock!Next]_(Lock!vars) PROVE LockInv'
    OBVIOUS
  <2> USE DEF LockInv, Lock!TypeOK, Lock!Control, VerdictsSound, AbsentAreGone, WriterPending,
              OwnersInPlace, Engaged, Lock!Goto, Lock!RemoveFile, Lock!fileVars
  <2>1. ASSUME NEW p \in Proc, Lock!Start(p) PROVE LockInv'
    BY <2>1 DEF Lock!Start
  <2>2. ASSUME NEW p \in Proc, Lock!OpenExclusive(p) PROVE LockInv'
    BY <2>2 DEF Lock!OpenExclusive
  <2>3. ASSUME NEW p \in Proc, Lock!OpenExists(p) PROVE LockInv'
    BY <2>3 DEF Lock!OpenExists
  <2>4. ASSUME NEW p \in Proc, Lock!WritePayload(p) PROVE LockInv'
    BY <2>4 DEF Lock!WritePayload, Lock!StorePayload
  <2>5. ASSUME NEW p \in Proc, Lock!WriteFails(p) PROVE LockInv'
    BY <2>5 DEF Lock!WriteFails, Lock!StorePayload
  <2>6. ASSUME NEW p \in Proc, Lock!Chmod(p) PROVE LockInv'
    BY <2>6 DEF Lock!Chmod
  <2>7. ASSUME NEW p \in Proc, Lock!ReadMissing(p) PROVE LockInv'
    BY <2>7 DEF Lock!ReadMissing
  <2>8. ASSUME NEW p \in Proc, Lock!ReadLockPayload(p) PROVE LockInv'
    BY <2>8 DEF Lock!ReadLockPayload
  <2>9. ASSUME NEW p \in Proc, Lock!Judge(p) PROVE LockInv'
    BY <2>9 DEF Lock!Judge, Lock!Stale
  <2>10. ASSUME NEW p \in Proc, Lock!Reclaim(p) PROVE LockInv'
    <3>1. VerdictsSound' /\ AbsentAreGone' /\ WriterPending'
      BY <2>10 DEF Lock!Reclaim, Lock!AfterReclaim
    <3>2. ASSUME ~raced' PROVE OwnersInPlace'
      <4>1. ~raced /\ Lock!StillJudged(p) /\ path \in Proc /\ pc[p] = "reclaim"
        BY <2>10, <3>2 DEF Lock!Reclaim
      <4>2. pc[path] \notin Engaged
        BY <4>1 DEF Lock!StillJudged
      <4>3. \A q \in Proc : pc[q] \notin Engaged
        BY <4>1, <4>2
      <4> QED
        BY <2>10, <4>3 DEF Lock!Reclaim, Lock!AfterReclaim
    <3> QED
      BY <3>1, <3>2
  <2>11. ASSUME NEW p \in Proc, Lock!ReclaimFails(p) PROVE LockInv'
    BY <2>11 DEF Lock!ReclaimFails
  <2>12. ASSUME NEW p \in Proc, Lock!BeginRelease(p) PROVE LockInv'
    BY <2>12 DEF Lock!BeginRelease
  <2>13. ASSUME NEW p \in Proc, Lock!CheckNonce(p) PROVE LockInv'
    BY <2>13 DEF Lock!CheckNonce, Lock!NonceMatches
  <2>14. ASSUME NEW p \in Proc, Lock!UnlinkOwn(p) PROVE LockInv'
    BY <2>14 DEF Lock!UnlinkOwn
  <2>15. ASSUME NEW p \in Proc, Lock!Crash(p) PROVE LockInv'
    BY <2>15 DEF Lock!Crash
  <2>16. ASSUME NEW p \in Proc, Lock!RecyclePid(p) PROVE LockInv'
    BY <2>16 DEF Lock!RecyclePid
  <2>17. CASE Lock!Age
    BY <2>17 DEF Lock!Age
  <2>18. CASE UNCHANGED Lock!vars
    BY <2>18 DEF Lock!vars
  <2> QED
    BY <2>1, <2>2, <2>3, <2>4, <2>5, <2>6, <2>7, <2>8, <2>9, <2>10, <2>11, <2>12,
       <2>13, <2>14, <2>15, <2>16, <2>17, <2>18 DEF Lock!Next, Lock!AcquireStep, Lock!ReleaseStep
<1>3. LockInv => HoldsUnlessRaced
  BY DEF LockInv, OwnersInPlace, Engaged, HoldsUnlessRaced, Lock!HoldsUnlessRaced
<1> QED
  BY <1>1, <1>2, <1>3, TypeCorrect, PTL DEF Lock!Spec

\* The nonce check of release(), with no assumption about races: a process whose
\* lock was taken from it while it worked never removes its successor's lock.
THEOREM StolenLockSurvives == Lock!Spec => []StolenLockSurvivesRelease
<1>1. Lock!Init => StolenInv
  BY SentinelAssumption DEF Lock!Init, StolenInv, Lock!TypeOK, Lock!Control
<1>2. StolenInv /\ Lock!TypeOK' /\ [Lock!Next]_(Lock!vars) => StolenInv'
  <2> SUFFICES ASSUME StolenInv, Lock!TypeOK', [Lock!Next]_(Lock!vars) PROVE StolenInv'
    OBVIOUS
  <2> USE DEF StolenInv, Lock!TypeOK, Lock!Control, Lock!Goto, Lock!RemoveFile, Lock!fileVars
  <2>1. ASSUME NEW p \in Proc, Lock!Start(p) PROVE StolenInv'
    BY <2>1 DEF Lock!Start
  <2>2. ASSUME NEW p \in Proc, Lock!OpenExclusive(p) PROVE StolenInv'
    BY <2>2 DEF Lock!OpenExclusive
  <2>3. ASSUME NEW p \in Proc, Lock!OpenExists(p) PROVE StolenInv'
    BY <2>3 DEF Lock!OpenExists
  <2>4. ASSUME NEW p \in Proc, Lock!WritePayload(p) PROVE StolenInv'
    BY <2>4 DEF Lock!WritePayload, Lock!StorePayload
  <2>5. ASSUME NEW p \in Proc, Lock!WriteFails(p) PROVE StolenInv'
    BY <2>5 DEF Lock!WriteFails, Lock!StorePayload
  <2>6. ASSUME NEW p \in Proc, Lock!Chmod(p) PROVE StolenInv'
    BY <2>6 DEF Lock!Chmod
  <2>7. ASSUME NEW p \in Proc, Lock!ReadMissing(p) PROVE StolenInv'
    BY <2>7 DEF Lock!ReadMissing
  <2>8. ASSUME NEW p \in Proc, Lock!ReadLockPayload(p) PROVE StolenInv'
    BY <2>8 DEF Lock!ReadLockPayload
  <2>9. ASSUME NEW p \in Proc, Lock!Judge(p) PROVE StolenInv'
    BY <2>9 DEF Lock!Judge, Lock!Stale
  <2>10. ASSUME NEW p \in Proc, Lock!Reclaim(p) PROVE StolenInv'
    BY <2>10 DEF Lock!Reclaim, Lock!AfterReclaim, Lock!StillJudged
  <2>11. ASSUME NEW p \in Proc, Lock!ReclaimFails(p) PROVE StolenInv'
    BY <2>11 DEF Lock!ReclaimFails
  <2>12. ASSUME NEW p \in Proc, Lock!BeginRelease(p) PROVE StolenInv'
    BY <2>12 DEF Lock!BeginRelease
  <2>13. ASSUME NEW p \in Proc, Lock!CheckNonce(p) PROVE StolenInv'
    BY <2>13 DEF Lock!CheckNonce, Lock!NonceMatches
  <2>14. ASSUME NEW p \in Proc, Lock!UnlinkOwn(p) PROVE StolenInv'
    BY <2>14 DEF Lock!UnlinkOwn
  <2>15. ASSUME NEW p \in Proc, Lock!Crash(p) PROVE StolenInv'
    BY <2>15 DEF Lock!Crash
  <2>16. ASSUME NEW p \in Proc, Lock!RecyclePid(p) PROVE StolenInv'
    BY <2>16 DEF Lock!RecyclePid
  <2>17. CASE Lock!Age
    BY <2>17 DEF Lock!Age
  <2>18. CASE UNCHANGED Lock!vars
    BY <2>18 DEF Lock!vars
  <2> QED
    BY <2>1, <2>2, <2>3, <2>4, <2>5, <2>6, <2>7, <2>8, <2>9, <2>10, <2>11, <2>12,
       <2>13, <2>14, <2>15, <2>16, <2>17, <2>18 DEF Lock!Next, Lock!AcquireStep, Lock!ReleaseStep
<1>3. StolenInv => StolenLockSurvivesRelease
  BY DEF StolenInv, StolenLockSurvivesRelease, Lock!StolenLockSurvivesRelease
<1> QED
  BY <1>1, <1>2, <1>3, TypeCorrect, PTL DEF Lock!Spec
==============================================================================
