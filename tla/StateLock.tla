------------------------------ MODULE StateLock ------------------------------
(***************************************************************************)
(* The host-local lock file of secret-sync (packages/secret-sync/src/      *)
(* state.ts, acquireStateLock).  A process creates the file exclusively,   *)
(* then writes its owner payload; one that finds the file reads it, judges *)
(* whether it is stale, and unlinks a stale one before a second and last   *)
(* try.  Every await of the code is a step of its own here, because the    *)
(* protocol has no atomic "compare and unlink".                            *)
(*                                                                         *)
(* The file is told apart by its creator: a process creates a second file  *)
(* only when its first is no longer at the path.  The nonce of the payload *)
(* is likewise the process.                                                *)
(***************************************************************************)
EXTENDS LockSentinels, Integers, FiniteSets

VARIABLES
    path,      \* creator of the file now at lockFile, or NoFile
    written,   \* that file holds its owner payload
    old,       \* its mtime is more than staleMs in the past
    staleFor,  \* processes whose captured "now" is past mtime + staleMs
    pc,        \* control point of each process
    attempt,   \* loop counter of acquireStateLock, 1 or 2
    seen,      \* what readLockPayload returned to the process
    pidAbsent, \* processes for which kill(pid, 0) would answer ESRCH
    raced,     \* history: some reclaim removed a file it had not judged stale
    stolen     \* history: processes whose file was removed before releasing it

fileVars == <<path, written, old, staleFor>>
vars == <<path, written, old, staleFor, pc, attempt, seen, pidAbsent, raced, stolen>>

Control == {"idle", "open", "write", "chmod", "holding", "check", "unlink",
            "read", "stat", "reclaim", "gone"}

TypeOK ==
    /\ path \in Proc \cup {NoFile}
    /\ written \in BOOLEAN /\ old \in BOOLEAN /\ raced \in BOOLEAN
    /\ staleFor \subseteq Proc /\ stolen \subseteq Proc
    /\ pc \in [Proc -> Control]
    /\ attempt \in [Proc -> {1, 2}]
    /\ seen \in [Proc -> Proc \cup {NoFile, Unwritten}]
    /\ pidAbsent \subseteq Proc

\* What earlier commands left behind.
Init ==
    /\ path \in Departed \cup {NoFile} /\ written \in BOOLEAN /\ (written => path # NoFile)
    /\ old = FALSE /\ staleFor = {}
    /\ pc = [p \in Proc |-> IF p \in Departed THEN "gone" ELSE "idle"]
    /\ attempt = [p \in Proc |-> 1]
    /\ seen = [p \in Proc |-> NoFile]
    /\ pidAbsent = Departed
    /\ raced = FALSE /\ stolen = {}

Goto(p, l) == pc' = [pc EXCEPT ![p] = l]

\* unlink of whatever file the path names at that moment
RemoveFile ==
    /\ path' = NoFile /\ written' = FALSE /\ old' = FALSE /\ staleFor' = {}

------------------------------------------------------------------------------
\* "now" is captured once for both attempts.
Start(p) ==
    /\ pc[p] = "idle"
    /\ Goto(p, "open")
    /\ attempt' = [attempt EXCEPT ![p] = 1]
    /\ staleFor' = IF old THEN staleFor \cup {p} ELSE staleFor
    /\ UNCHANGED <<path, written, old, seen, pidAbsent, raced, stolen>>

\* open(lockFile, 'wx') creates the file ...
OpenExclusive(p) ==
    /\ pc[p] = "open" /\ path = NoFile
    /\ path' = p /\ written' = FALSE /\ old' = FALSE /\ staleFor' = {}
    /\ Goto(p, "write")
    /\ UNCHANGED <<attempt, seen, pidAbsent, raced, stolen>>

\* ... or fails with EEXIST.
OpenExists(p) ==
    /\ pc[p] = "open" /\ path # NoFile
    /\ Goto(p, "read")
    /\ UNCHANGED <<fileVars, attempt, seen, pidAbsent, raced, stolen>>

\* handle.writeFile reaches the path only if the file is still the one opened;
\* a file unlinked meanwhile takes the payload with it.
StorePayload(p) ==
    IF path = p
    THEN written' = TRUE /\ old' = FALSE /\ staleFor' = {} /\ UNCHANGED path
    ELSE UNCHANGED fileVars

WritePayload(p) ==
    /\ pc[p] = "write"
    /\ StorePayload(p)
    /\ Goto(p, "chmod")
    /\ UNCHANGED <<attempt, seen, pidAbsent, raced, stolen>>

\* writeFile or sync throws: the caller gets the error, the file stays, with or
\* without its payload.
WriteFails(p) ==
    /\ pc[p] = "write"
    /\ StorePayload(p) \/ UNCHANGED fileVars
    /\ Goto(p, "idle")
    /\ stolen' = stolen \ {p}
    /\ UNCHANGED <<attempt, seen, pidAbsent, raced>>

\* chmod goes by path: it fails with ENOENT when the file is gone and succeeds
\* on anybody's file.
Chmod(p) ==
    /\ pc[p] = "chmod"
    /\ IF path = NoFile
       THEN Goto(p, "idle") /\ stolen' = stolen \ {p}
       ELSE Goto(p, "holding") /\ UNCHANGED stolen
    /\ UNCHANGED <<fileVars, attempt, seen, pidAbsent, raced>>

------------------------------------------------------------------------------
\* readLockPayload: a file that cannot be read yields neither payload nor mtime.
ReadMissing(p) ==
    /\ pc[p] = "read" /\ path = NoFile
    /\ seen' = [seen EXCEPT ![p] = NoFile]
    /\ Goto(p, "reclaim")   \* age is now - 0: stale
    /\ UNCHANGED <<fileVars, attempt, pidAbsent, raced, stolen>>

ReadLockPayload(p) ==
    /\ pc[p] = "read" /\ path # NoFile
    /\ seen' = [seen EXCEPT ![p] = IF written THEN path ELSE Unwritten]
    /\ Goto(p, "stat")
    /\ UNCHANGED <<fileVars, attempt, pidAbsent, raced, stolen>>

\* Faults for HoldsUnlessRaced and DeadOwnerReclaimed: an owner is judged by age;
\* an owner is never judged stale.
Stale_ByAge(p) == path = NoFile \/ p \in staleFor

Stale_NeverOwned(p) == seen[p] \notin Proc /\ (path = NoFile \/ p \in staleFor)

\* A payload is judged by its PID alone, a missing payload by the mtime that
\* stat returns for the file of that later moment.
Stale(p) ==
    IF seen[p] \in Proc THEN seen[p] \in pidAbsent
    ELSE path = NoFile \/ p \in staleFor

Judge(p) ==
    /\ pc[p] = "stat"
    /\ Goto(p, IF Stale(p) THEN "reclaim" ELSE "idle")
    /\ UNCHANGED <<fileVars, attempt, seen, pidAbsent, raced, stolen>>

\* The file at the path is one the verdict was about: the payload that was read,
\* or a payload-less file nobody is about to complete.
StillJudged(p) == IF written THEN seen[p] = path ELSE pc[path] # "write"

AfterReclaim(p) ==
    IF attempt[p] = 1
    THEN Goto(p, "open") /\ attempt' = [attempt EXCEPT ![p] = 2]
    ELSE Goto(p, "idle") /\ UNCHANGED attempt

Reclaim(p) ==
    /\ pc[p] = "reclaim" /\ path # NoFile
    /\ RemoveFile
    /\ AfterReclaim(p)
    /\ raced' = (raced \/ ~StillJudged(p))
    /\ stolen' = IF pc[path] \in {"write", "chmod", "holding"}
                 THEN stolen \cup {path} ELSE stolen
    /\ UNCHANGED <<seen, pidAbsent>>

\* unlink fails with ENOENT: lock-busy
ReclaimFails(p) ==
    /\ pc[p] = "reclaim" /\ path = NoFile
    /\ Goto(p, "idle")
    /\ UNCHANGED <<fileVars, attempt, seen, pidAbsent, raced, stolen>>

------------------------------------------------------------------------------
\* The holder has finished its command and calls release().
BeginRelease(p) ==
    /\ pc[p] = "holding"
    /\ Goto(p, "check")
    /\ UNCHANGED <<fileVars, attempt, seen, pidAbsent, raced, stolen>>

\* Fault for StolenLockSurvivesRelease: any file is taken for one's own.
NonceMatches_Any(p) == path # NoFile

NonceMatches(p) == path = p /\ written

\* The nonce is read in one step and the file unlinked in another.
CheckNonce(p) ==
    /\ pc[p] = "check"
    /\ IF NonceMatches(p) THEN Goto(p, "unlink") /\ UNCHANGED stolen
       ELSE Goto(p, "idle") /\ stolen' = stolen \ {p}
    /\ UNCHANGED <<fileVars, attempt, seen, pidAbsent, raced>>

UnlinkOwn(p) ==
    /\ pc[p] = "unlink"
    /\ RemoveFile
    /\ Goto(p, "idle")
    /\ UNCHANGED <<attempt, seen, pidAbsent, raced, stolen>>

------------------------------------------------------------------------------
\* The process ends anywhere: killed, crashed, or an error path that exits.
Crash(p) ==
    /\ pc[p] # "gone"
    /\ Goto(p, "gone")
    /\ pidAbsent' = pidAbsent \cup {p}
    /\ stolen' = stolen \ {p}
    /\ UNCHANGED <<fileVars, attempt, seen, raced>>

\* The host gives the PID of a dead process to another program, or takes it back.
RecyclePid(p) ==
    /\ pc[p] = "gone"
    /\ pidAbsent' = IF p \in pidAbsent THEN pidAbsent \ {p} ELSE pidAbsent \cup {p}
    /\ UNCHANGED <<fileVars, pc, attempt, seen, raced, stolen>>

\* staleMs pass without a write to the file.
Age ==
    /\ path # NoFile /\ ~old
    /\ old' = TRUE
    /\ UNCHANGED <<path, written, staleFor, pc, attempt, seen, pidAbsent, raced, stolen>>

AcquireStep(p) ==
    \/ OpenExclusive(p) \/ OpenExists(p) \/ WritePayload(p) \/ Chmod(p)
    \/ ReadMissing(p) \/ ReadLockPayload(p) \/ Judge(p) \/ Reclaim(p) \/ ReclaimFails(p)

ReleaseStep(p) == BeginRelease(p) \/ CheckNonce(p) \/ UnlinkOwn(p)

Next ==
    \/ \E p \in Proc : \/ Start(p) \/ AcquireStep(p) \/ WriteFails(p)
                       \/ ReleaseStep(p) \/ Crash(p) \/ RecyclePid(p)
    \/ Age

Spec == Init /\ [][Next]_vars

\* A running process takes its steps, a command ends, time passes; Retry adds
\* callers that come back after lock-busy, as the lock's documentation asks.
Fairness ==
    /\ \A p \in Proc : WF_vars(AcquireStep(p)) /\ WF_vars(ReleaseStep(p))
    /\ WF_vars(Age)

FairSpec == Spec /\ Fairness

RetrySpec == FairSpec /\ \A p \in Proc : WF_vars(Start(p))

------------------------------------------------------------------------------
\* As long as no reclaim removed a file other than the one it judged, at most
\* one process works under the lock, and the file it made is at the path: what
\* the wx create, the PID check and the nonce give together (state.ts 983-1039).
HoldsUnlessRaced ==
    ~raced => \A p \in Proc : pc[p] = "holding" => path = p /\ written

\* A process whose file was removed while it worked never comes to unlink the
\* file of its successor: release() re-reads the nonce first (state.ts 1000-1010).
StolenLockSurvivesRelease ==
    \A p \in stolen : pc[p] # "unlink"

\* A dead owner does not keep the lock: while its PID stays absent and another
\* process lives on and retries, its file does not stay at the path.
DeadOwnerReclaimed ==
    \A p \in Proc : \A q \in Proc \ {p} :
        ([](pc[q] # "gone") /\ <>[](p \in pidAbsent)) => []<>(path # p)

\* STATE_LOCK_RACE_LIMITS (state.ts 22): "Locks with valid owner metadata are
\* reclaimed only when a same-host signal check confirms the PID is absent; live
\* or indeterminate owners remain busy regardless of age".
LiveOwnerKeepsLock ==
    [][\A p \in Proc : pc[p] = "reclaim" /\ pc'[p] # pc[p] /\ path # NoFile /\ written
           => path \in pidAbsent]_vars
==============================================================================
