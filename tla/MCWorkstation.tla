---------------------------- MODULE MCWorkstation -----------------------------
(* One workstation and the lock of its state file, in one run of two parts that *)
(* share no state; a behaviour is of the part that `part` names:                *)
(*  - workstation: two paths and two branches whose trees differ by a write and *)
(*    a removal; one content typed by the user, one pushed from elsewhere;      *)
(*  - lock: processes that take the lock, one of which ended with it.           *)
EXTENDS Workstation, LockSentinels, TLC

CONSTANTS fileA, fileB, main, dev, m, d

VARIABLES part, path, written, old, staleFor, pc, attempt, seen, pidAbsent, raced, stolen

lockVars == <<path, written, old, staleFor, pc, attempt, seen, pidAbsent, raced, stolen>>
partVars == <<part, vars, lockVars>>

Lock == INSTANCE StateLock

Begun == <<[branch |-> main, tree |-> (fileA :> m @@ fileB :> m), mine |-> FALSE],
           [branch |-> dev, tree |-> (fileA :> d @@ fileB :> Absent), mine |-> FALSE]>>

\* The part that a behaviour is not of stays in one of its initial states.
PartsInit ==
    /\ Init /\ Lock!Init
    /\ part = "lock" \/ (part = "workstation" /\ path = NoFile)

InWorkstation(A) == part = "workstation" /\ A /\ UNCHANGED <<part, lockVars>>
InLock(A) == part = "lock" /\ A /\ UNCHANGED <<part, vars>>

PartsNext == InWorkstation(Next) \/ InLock(Lock!Next)

\* The fairness of Workstation (FairSpec) and of StateLock (RetrySpec)
PartsSpec ==
    /\ PartsInit /\ [][PartsNext]_partVars
    /\ WF_partVars(InWorkstation(FileStep))
    /\ WF_partVars(InWorkstation(\E b \in Branch :
                                    disk.recovery # NoRecovery /\ SwitchBegin(b)))
    /\ \A p \in Proc : /\ WF_partVars(InLock(Lock!AcquireStep(p)))
                       /\ WF_partVars(InLock(Lock!ReleaseStep(p)))
                       /\ WF_partVars(InLock(Lock!Start(p)))
    /\ WF_partVars(InLock(Lock!Age))

HoldsUnlessRaced == Lock!HoldsUnlessRaced
StolenLockSurvivesRelease == Lock!StolenLockSurvivesRelease
DeadOwnerReclaimed == Lock!DeadOwnerReclaimed
==============================================================================
