------------------------------- MODULE Rollback -------------------------------
(***************************************************************************)
(* The rollback of one file of secret-sync to an old revision, and the     *)
(* restore of one (packages/secret-sync/src/rollback.ts, restore.ts): first *)
(* a recovery record is saved, then a commit is published, then the file   *)
(* is replaced, then the baseline is saved and the record dropped.  The    *)
(* command may be interrupted anywhere and is repeated by the user; the    *)
(* vault may answer uncertainly or list late; the user may edit, and other *)
(* commits may appear, at any time.                                         *)
(*                                                                         *)
(* One branch and one file.  A revision is a blob; two blobs may have the   *)
(* same content.  A commit that leaves the file alone keeps its blob.       *)
(* cmd is the command that holds the state lock; restore reads the remote   *)
(* before it takes the lock, which is the variable plan.                    *)
(***************************************************************************)
EXTENDS SyncPlan, Integers, FiniteSets

CONSTANTS
    Blob, ContentOf,
    Typed,        \* contents the user types
    First,        \* the remote history at the start
    Time,         \* timestamps of the runs of the command
    MaxPushes, MaxRollbacks, MaxEdits, MaxFaults

Revision == Blob \cup {Absent}
CommitRecord == [id : Nat, parents : SUBSET Nat, blob : Revision, kind : {"push", "rollback"},
                 time : Time \cup {0}]     \* the time of a push does not matter

RollbackAssumption ==
    /\ ContentOf \in [Blob -> Content] /\ Typed \subseteq Content
    /\ (Blob \cup Content) \cap {Absent, Unknown} = {} /\ Blob \cap Content = {}
    /\ IsFiniteSet(First) /\ First \subseteq CommitRecord
    /\ \A c, d \in First : c.id = d.id => c = d
    /\ MaxPushes \in Nat /\ MaxRollbacks \in Nat /\ MaxEdits \in Nat /\ MaxFaults \in Nat

VARIABLES
    accepted, listed,  \* commit records the vault has, and those it lists
    local,             \* the content of the file
    baseline,          \* the baseline of the file in state.json: a blob or a mark
    recovery,          \* the recovery record in state.json
    records,           \* operation records on disk
    cmd,               \* the running rollback, or Idle
    plan,              \* what a restore read before it took the lock, or Idle
    edits, faults,
    edited,            \* history: the file was changed by the user since the record was saved
    late               \* history: an edit came between the last check and the rename

vars == <<accepted, listed, local, baseline, recovery, records, cmd, plan, edits, faults,
          edited, late>>

Idle == [step |-> "idle"]
NoRecovery == [pending |-> FALSE]

Recovery == [id : Nat, source : Nat, blob : Blob, preimage : RemoteSlot]
Running == [step : {"save-recovery", "recheck-heads", "publish", "observe", "recheck",
                    "replace", "verify", "save"},
            blob : Blob, head : Nat, seen : RemoteSlot, id : Nat, time : Time \cup {0}]

TypeOK ==
    /\ accepted \subseteq CommitRecord /\ listed \subseteq accepted
    /\ local \in RemoteSlot /\ baseline \in Revision \cup {Unknown}
    /\ recovery \in Recovery \cup {NoRecovery}
    /\ records \subseteq [id : Nat, blob : Blob, time : Time]
    /\ cmd \in Running \cup {Idle}
    /\ plan \in [step : {"loaded"}, target : Revision, current : BOOLEAN] \cup {Idle}
    /\ edits \in 0..MaxEdits /\ faults \in 0..MaxFaults
    /\ edited \in BOOLEAN /\ late \in BOOLEAN

\* A worktree that follows the history, or a new one.
Init ==
    /\ accepted = First /\ listed = First
    /\ \E c \in First :
         /\ \A d \in First : c.id \notin d.parents
         /\ \/ local = (IF c.blob = Absent THEN Absent ELSE ContentOf[c.blob]) /\ baseline = c.blob
            \/ local = Absent /\ baseline = Unknown
    /\ recovery = NoRecovery /\ records = {}
    /\ cmd = Idle /\ plan = Idle
    /\ edits = 0 /\ faults = 0 /\ edited = FALSE /\ late = FALSE

remoteVars == <<accepted, listed>>
ghosts == <<edits, faults, edited, late>>

------------------------------------------------------------------------------
\* What a command loads: records of one id must be equal, parents must be there.
HistoryLoads ==
    /\ \A c, d \in listed : c.id = d.id => c = d
    /\ \A c \in listed : c.parents \subseteq {d.id : d \in listed}

Heads == {c \in listed : \A d \in listed : c.id \notin d.parents}

SingleHead(h) == HistoryLoads /\ Heads = {h}

\* The slot of a revision in the comparison.
SlotOf(revision) == IF revision \in Blob THEN ContentOf[revision] ELSE revision

Status(h) == CompareFile(SlotOf(baseline), local, SlotOf(h.blob))

FreshId ==
    LET used == {c.id : c \in accepted} \cup {r.id : r \in records}
                  \cup (IF recovery = NoRecovery THEN {} ELSE {recovery.id})
    IN  CHOOSE n \in 1..(Cardinality(used) + 1) : n \notin used

At(step) == cmd # Idle /\ cmd.step = step
Go(step) == cmd' = [cmd EXCEPT !.step = step]
Stop == cmd' = Idle

Pending == recovery # NoRecovery

\* requireReachableBlob, and the refusal of a run that does not fit the pending one.
MayRoll(h, blob) ==
    /\ cmd = Idle /\ SingleHead(h)
    /\ \E c \in listed : c.blob = blob
    /\ Pending => recovery.blob = blob /\ h.id \in {recovery.source, recovery.id}

Begin(h, blob, step, id, time) ==
    cmd' = [step |-> step, blob |-> blob, head |-> h.id, seen |-> local, id |-> id, time |-> time]

\* The head proves the pending rollback.
Proven(h) ==
    Pending /\ h.id = recovery.id /\ h.kind = "rollback" /\ h.parents = {recovery.source}

\* Fault for RetryIsSafe: the preimage is not compared on a retry.
ConvergeAllowed_AnyPreimage(h, blob) == local = ContentOf[blob] \/ Proven(h)

\* Fault for RollbackEnds: only a file at its target is acknowledged.
ConvergeAllowed_TargetOnly(h, blob) == local = ContentOf[blob]

ConvergeAllowed(h, blob) ==
    \/ local = ContentOf[blob]
    \/ Proven(h) /\ local = recovery.preimage

\* The head is at the revision already: nothing to publish.
AlreadyAcknowledged(h, blob) ==
    /\ MayRoll(h, blob) /\ h.blob = blob
    /\ Pending => Proven(h)
    /\ local = ContentOf[blob] /\ baseline = blob
    /\ recovery' = NoRecovery
    /\ UNCHANGED <<remoteVars, local, baseline, records, cmd, plan, ghosts>>

Converge(h, blob) ==
    /\ MayRoll(h, blob) /\ h.blob = blob
    /\ Pending => Proven(h)
    /\ ~(local = ContentOf[blob] /\ baseline = blob)
    /\ ConvergeAllowed(h, blob)
    /\ Begin(h, blob, IF local = ContentOf[blob] THEN "verify" ELSE "recheck", h.id, 0)
    /\ UNCHANGED <<remoteVars, local, baseline, recovery, records, plan, ghosts>>

CleanForRollback(h, blob) ==
    /\ MayRoll(h, blob) /\ h.blob # blob
    /\ Status(h) = "clean"

\* A new rollback writes its operation record first.
Prepare(h, blob, now) ==
    /\ CleanForRollback(h, blob) /\ ~Pending
    /\ Cardinality(records) < MaxRollbacks
    /\ records' = records \cup {[id |-> FreshId, blob |-> blob, time |-> now]}
    /\ Begin(h, blob, "save-recovery", FreshId, now)
    /\ UNCHANGED <<remoteVars, local, baseline, recovery, plan, ghosts>>

SaveRecovery ==
    /\ At("save-recovery")
    /\ recovery' = [id |-> cmd.id, source |-> cmd.head, blob |-> cmd.blob, preimage |-> cmd.seen]
    /\ edited' = (local # cmd.seen)
    /\ Go("recheck-heads")
    /\ UNCHANGED <<remoteVars, local, baseline, records, plan, edits, faults, late>>

\* Fault for RecordsAgree: the retry publishes with its own time.
OperationTime_OfTheRun(r, now) == now

\* The retry publishes what the operation record says.
OperationTime(r, now) == r.time

\* A retry finds the commit not published, or not listed.
Retry(h, blob, now) ==
    /\ CleanForRollback(h, blob) /\ Pending
    /\ local = recovery.preimage
    /\ \E r \in records : /\ r.id = recovery.id /\ r.blob = blob
                          /\ Begin(h, blob, "recheck-heads", r.id, OperationTime(r, now))
    /\ UNCHANGED <<remoteVars, local, baseline, recovery, records, plan, ghosts>>

RecheckHeads ==
    /\ At("recheck-heads")
    /\ IF HistoryLoads /\ {h.id : h \in Heads} = {cmd.head} THEN Go("publish") ELSE Stop
    /\ UNCHANGED <<remoteVars, local, baseline, recovery, records, plan, ghosts>>

------------------------------------------------------------------------------
\* What createItem may do: accepted or not, listed or not, answered or uncertain.
Outcome == {o \in [accepted : BOOLEAN, listed : BOOLEAN, certain : BOOLEAN] :
              (o.listed => o.accepted) /\ (o.certain => o.accepted)}

Prompt(o) == o.listed /\ o.certain

\* Fault for RetryIsSafe: a publication that failed cleans up.
AfterFailure_CleanUp == Stop /\ recovery' = NoRecovery

AfterFailure == Stop /\ UNCHANGED recovery

\* publishCommit; an uncertain answer is settled by looking for the record.
Publish(o) ==
    LET c == [id |-> cmd.id, parents |-> {cmd.head}, blob |-> cmd.blob,
              kind |-> "rollback", time |-> cmd.time]
        stored == IF o.accepted THEN accepted \cup {c} ELSE accepted
        shown == IF o.listed THEN listed \cup {c} ELSE listed
    IN  /\ At("publish")
        /\ Prompt(o) \/ faults < MaxFaults
        /\ faults' = IF Prompt(o) THEN faults ELSE faults + 1
        /\ accepted' = stored /\ listed' = shown
        /\ IF o.certain \/ {d \in shown : d.id = c.id} = {c}
           THEN Go("observe") /\ UNCHANGED recovery
           ELSE AfterFailure
        /\ UNCHANGED <<local, baseline, records, plan, edits, edited, late>>

\* The look at the heads after the publication only fails when nothing can be loaded.
Observe ==
    /\ At("observe")
    /\ IF HistoryLoads THEN Go("recheck") ELSE Stop
    /\ UNCHANGED <<remoteVars, local, baseline, recovery, records, plan, ghosts>>

\* writeFileAtomically with the content seen before the publication.
Recheck ==
    /\ At("recheck")
    /\ IF local = cmd.seen THEN Go("replace") ELSE Stop
    /\ late' = FALSE
    /\ UNCHANGED <<remoteVars, local, baseline, recovery, records, plan, edits, faults, edited>>

Replace ==
    /\ At("replace") /\ Go("verify")
    /\ local' = ContentOf[cmd.blob]
    /\ UNCHANGED <<remoteVars, baseline, recovery, records, plan, ghosts>>

Verify ==
    /\ At("verify")
    /\ IF local = ContentOf[cmd.blob] THEN Go("save") ELSE Stop
    /\ UNCHANGED <<remoteVars, local, baseline, recovery, records, plan, ghosts>>

SavedBaseline(blob) == blob

\* One save moves the baseline and drops the recovery record.
Save ==
    /\ At("save") /\ Stop
    /\ baseline' = SavedBaseline(cmd.blob) /\ recovery' = NoRecovery
    /\ UNCHANGED <<remoteVars, local, records, plan, ghosts>>

------------------------------------------------------------------------------
\* restore reads the target and the head of the branch, and then takes the lock; a
\* branch without the file, or without commits, stands for its absence.
RestoreLoad(target) ==
    /\ plan = Idle /\ HistoryLoads
    /\ target = Absent \/ \E c \in listed : c.blob = target
    /\ plan' = [step |-> "loaded", target |-> target,
                current |-> \E h \in Heads : Heads = {h} /\ h.blob = target]
    /\ UNCHANGED <<remoteVars, local, baseline, recovery, records, cmd, ghosts>>

\* The write, and with --acknowledge-remote the baseline in a second step that a
\* crash or a failed save may leave out.
RestoreApply(overwrite, acknowledge, saved) ==
    LET target == SlotOf(plan.target)
    IN  /\ plan # Idle /\ cmd = Idle
        /\ local \in {Absent, target} \/ overwrite
        /\ acknowledge => plan.current
        /\ plan' = Idle
        /\ local' = target /\ edited' = TRUE
        /\ baseline' = IF acknowledge /\ saved THEN plan.target ELSE baseline
        /\ UNCHANGED <<remoteVars, recovery, records, cmd, edits, faults, late>>

\* pull and push of the file as whole commands (module Workstation has their steps).
Pull(h, allowDelete) ==
    /\ cmd = Idle /\ SingleHead(h)
    /\ \/ /\ Status(h) = "clean" /\ UNCHANGED local
       \/ /\ \/ Status(h) \in {"remote-added", "remote-modified"}
             \/ Status(h) = "remote-deleted" /\ allowDelete
          /\ local' = SlotOf(h.blob)
    /\ baseline' = h.blob
    /\ UNCHANGED <<remoteVars, recovery, records, cmd, plan, ghosts>>

RoomForPush == Cardinality({c \in accepted : c.kind = "push"}) < MaxPushes

NewCommit(blob) ==
    LET c == [id |-> FreshId, parents |-> {h.id : h \in Heads}, blob |-> blob,
              kind |-> "push", time |-> 0]
    IN  accepted' = accepted \cup {c} /\ listed' = listed \cup {c}

Push(h) ==
    /\ cmd = Idle /\ SingleHead(h) /\ RoomForPush
    /\ Status(h) \in {"local-added", "local-modified", "local-deleted"}
    /\ \E blob \in Revision : /\ SlotOf(blob) = local
                              /\ NewCommit(blob) /\ baseline' = blob
    /\ UNCHANGED <<local, recovery, records, cmd, plan, ghosts>>

\* A push of anything by anybody, or a resolve that joins the heads.
OtherCommit ==
    /\ HistoryLoads /\ RoomForPush
    /\ \E blob \in Revision :
         /\ Cardinality(Heads) > 1 => \E h \in Heads : h.blob = blob
         /\ NewCommit(blob)
    /\ UNCHANGED <<local, baseline, recovery, records, cmd, plan, ghosts>>

Edit ==
    /\ edits < MaxEdits /\ edits' = edits + 1
    /\ \E x \in (Typed \cup {Absent}) \ {local} : local' = x
    /\ edited' = TRUE
    /\ late' = (late \/ At("replace"))
    /\ UNCHANGED <<remoteVars, baseline, recovery, records, cmd, plan, faults>>

\* The process ends, or a save fails.
Crash ==
    /\ cmd # Idle /\ faults < MaxFaults
    /\ faults' = faults + 1 /\ Stop
    /\ UNCHANGED <<remoteVars, local, baseline, recovery, records, plan, edits, edited, late>>

Surface ==
    /\ \E c \in accepted \ listed : listed' = listed \cup {c}
    /\ UNCHANGED <<accepted, local, baseline, recovery, records, cmd, plan, ghosts>>

\* A run of rollback for this revision.
Roll(blob) ==
    \E h \in listed :
       \/ AlreadyAcknowledged(h, blob) \/ Converge(h, blob)
       \/ \E now \in Time : Prepare(h, blob, now) \/ Retry(h, blob, now)

RollStep ==
    \/ SaveRecovery \/ RecheckHeads \/ Observe \/ Recheck \/ Replace \/ Verify \/ Save
    \/ \E o \in Outcome : Publish(o)

Next ==
    \/ \E blob \in Blob : Roll(blob)
    \/ RollStep \/ Edit \/ Crash \/ Surface \/ OtherCommit
    \/ \E h \in listed : Push(h) \/ \E allowDelete \in BOOLEAN : Pull(h, allowDelete)
    \/ \E target \in Revision : RestoreLoad(target)
    \/ \E overwrite, acknowledge, saved \in BOOLEAN : RestoreApply(overwrite, acknowledge, saved)

Spec == Init /\ [][Next]_vars

\* A running command takes its steps, the user repeats an interrupted rollback as
\* the README asks, and the vault lists what it has accepted.
FairSpec ==
    /\ Spec /\ WF_vars(RollStep) /\ WF_vars(Surface)
    /\ WF_vars(\E blob \in Blob : Pending /\ Roll(blob))

------------------------------------------------------------------------------
\* However often a rollback is retried after an uncertain answer, the records of
\* its commit are equal.  Two that differ would be corruption to every client of
\* the vault for good (rollback.ts 434-486, history-store.ts 142, records.ts 702-726).
DuplicatesAgree == \A c, d \in accepted : c.id = d.id => c = d

RecordsAgree == TypeOK /\ DuplicatesAgree

\* A rollback replaces only a content that some commit keeps, although the file was
\* last compared before the publication or by an earlier run; but for the window
\* between the last check and the rename (rollback.ts 285-295, 418-420, 520-523).
OverwritesOnlyCommitted ==
    Replace => local \in {SlotOf(c.blob) : c \in accepted} \cup {Absent, ContentOf[cmd.blob]}
               \/ late

\* The evidence of a rollback is dropped only when its commit is in the vault and
\* the baseline is at its revision; nothing else replaces it (README: "Other edits,
\* different retries, and an advanced remote head are refused with recovery
\* evidence retained"; rollback.ts 222-237, 263-271, 553-562).
RetiredOnlyWhenDone ==
    Pending /\ recovery' # recovery =>
        /\ recovery' = NoRecovery /\ baseline' = recovery.blob
        /\ \E c \in accepted : c.id = recovery.id

\* A rollback that is interrupted and repeated neither destroys what nobody keeps nor
\* forgets what it has begun.
RetryIsSafe == [][OverwritesOnlyCommitted /\ RetiredOnlyWhenDone]_vars

\* A commit that the rollback does not know of stands on top of its commit, or of
\* its source, or beside them.
HeadMoved ==
    \E c \in accepted : /\ c.id \notin {recovery.source, recovery.id}
                        /\ \A d \in accepted : c.id \notin d.parents

\* An interrupted rollback that is repeated comes to its end, unless the user
\* changed the file or the branch moved on (README: "Rerun the same file, branch,
\* and revision after an interrupted publication, write, or state save").
RollbackEnds == Pending ~> (~Pending \/ edited \/ HeadMoved)
==============================================================================
