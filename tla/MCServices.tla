------------------------------ MODULE MCServices ------------------------------
(* The clients of two services that lose requests and answers, in one run of    *)
(* two parts that share no state; a behaviour is of the part that `part` names: *)
(*  - release: two runners that release the same version through GitHub;        *)
(*  - store: three uploads to 1Password for two workers, so that one is taken   *)
(*    after another failed.                                                     *)
EXTENDS ReleaseTag

CONSTANTS Blob, CommitRecord, Workers, MaxRetries

VARIABLES part, backend, client, phase, stage, tries, posted, accepted, told, twins

storeVars == <<backend, client, phase, stage, tries, posted, accepted, told, twins>>
allVars == <<part, vars, storeVars>>

Store == INSTANCE SecretStore WITH Commit <- CommitRecord

ASSUME AssumptionOfTheStore == Store!StoreAssumption

PartsInit ==
    /\ Init /\ Store!Init
    /\ part = "store" \/ (part = "release" /\ backend = "sdk" /\ twins = {})

InRelease(A) == part = "release" /\ A /\ UNCHANGED <<part, storeVars>>
InStore(A) == part = "store" /\ A /\ UNCHANGED <<part, vars>>

PartsNext == InRelease(Next) \/ InStore(Store!Next)

PartsSpec ==
    /\ PartsInit /\ [][PartsNext]_allVars
    /\ \A j \in Job : /\ WF_allVars(InRelease(ReleaseStep(j) \/ PullStep(j)))
                      /\ SF_allVars(InRelease(Recover(j)))

CommitLast == Store!CommitLast
CreatesOnce == Store!CreatesOnce
==============================================================================
