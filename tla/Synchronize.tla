----------------------------- MODULE Synchronize -----------------------------
(* The commands that bring files and a remote copy together which others change  *)
(* too: four parts that share no state (MCSynchronize, Synchronize_proofs).      *)
(*  - confluence: a tree of files and the pages of a Confluence space;           *)
(*  - sync: secrets and their vault, with whole commands (Sync);                 *)
(*  - rollback: a secret and its vault, with the steps of a rollback (Rollback); *)
(*  - graph: the history of a vault, as far as its records are there              *)
(*    (CommitGraph).                                                             *)
(* A behaviour is of the part that `part` names; the others rest in an initial   *)
(* state.                                                                        *)
EXTENDS Confluence, SyncPlan

CONSTANTS
    Blob, ContentOf, Typed, FirstRecords, Time,                    \* of Rollback
    MaxPushes, MaxRollbacks, MaxEdits, MaxFaults,
    Commit, Branch, MaxNodes                                       \* of CommitGraph

VARIABLES
    part,
    syncBaseline, syncLocal, remote,                               \* of Sync
    accepted, listed, local, baseline, recovery, records, cmd,     \* of Rollback
    plan, edits, faults, edited, late,
    commits                                                        \* of CommitGraph

syncVars == <<syncBaseline, syncLocal, remote>>
rollVars == <<accepted, listed, local, baseline, recovery, records, cmd, plan, edits, faults,
              edited, late>>
fileVars == <<part, vars, syncVars, rollVars, commits>>

Syncing == INSTANCE Sync WITH baseline <- syncBaseline, local <- syncLocal
Roll == INSTANCE Rollback WITH First <- FirstRecords
Graph == INSTANCE CommitGraph WITH history <- commits

ASSUME AssumptionOfConfluence == ConfluenceAssumption
ASSUME AssumptionOfRollback == Roll!RollbackAssumption
ASSUME AssumptionOfTheGraph == Graph!GraphAssumption

WikiRests == page = [id \in Id |-> IF id = Target THEN TargetPage ELSE NoPage]
SyncRests == [q \in Path |-> Absent] = syncLocal /\ syncLocal = remote
RollbackRests == local = Absent /\ baseline = Unknown

FileInit ==
    /\ Init /\ Syncing!Init /\ Roll!Init /\ Graph!Init
    /\ \/ part = "confluence" /\ SyncRests /\ RollbackRests
       \/ part = "sync" /\ WikiRests /\ RollbackRests
       \/ part = "rollback" /\ WikiRests /\ SyncRests
       \/ part = "graph" /\ WikiRests /\ SyncRests /\ RollbackRests

InWiki(A) == part = "confluence" /\ A /\ UNCHANGED <<part, syncVars, rollVars, commits>>
InSync(A) == part = "sync" /\ A /\ UNCHANGED <<part, vars, rollVars, commits>>
InRollback(A) == part = "rollback" /\ A /\ UNCHANGED <<part, vars, syncVars, commits>>
InGraph(A) == part = "graph" /\ A /\ UNCHANGED <<part, vars, syncVars, rollVars>>

FileNext ==
    InWiki(Next) \/ InSync(Syncing!Next) \/ InRollback(Roll!Next) \/ InGraph(Graph!Next)

FileSpec == FileInit /\ [][FileNext]_fileVars

ChangesAreJustified == [][ChangeIsJustified]_fileVars
PushRespectsRemote == Syncing!PushRespectsRemote
PullRespectsLocal == Syncing!PullRespectsLocal
SyncedAfterCommand == Syncing!SyncedAfterCommand
RecordsAgree == Roll!RecordsAgree
RetryIsSafe == Roll!RetryIsSafe
GraphExact == part = "graph" => Graph!GraphExact
==============================================================================
