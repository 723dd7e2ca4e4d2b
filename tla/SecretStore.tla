------------------------------ MODULE SecretStore ------------------------------
(* A command that publishes blobs and then their commit through one of the two  *)
(* stores, 1Password Connect and the 1Password SDK: the bounded pool of uploads, *)
(* createItem with its deadline, the shared client of the SDK, and the reads     *)
(* with their retries that settle an uncertain create. The provider answers late *)
(* or never, and lists what it holds late.                                       *)
EXTENDS FiniteSets, Naturals

CONSTANTS
    Blob,         \* the uploads of the command
    Commit,       \* and the record that refers to them
    Workers,      \* limits.concurrency
    MaxRetries    \* of a read

Record == Blob \cup {Commit}

StoreAssumption ==
    /\ Commit \notin Blob /\ IsFiniteSet(Blob)
    /\ Workers \in Nat \ {0} /\ MaxRetries \in Nat

VARIABLES
    backend,    \* remote.type of the configuration
    client,     \* of the SDK, shared by all calls: none, pending or ready
    phase,      \* of the command
    stage,      \* of each record: where its publication is
    tries,      \* retries of the read that is going on
    posted,     \* creates on their way to the provider
    accepted,   \* what the provider holds
    told,       \* what createItem said
    twins       \* blobs whose content an earlier attempt left in the vault

vars == <<backend, client, phase, stage, tries, posted, accepted, told, twins>>

\* "init": awaits the client; "body": the headers of a success came; "find" and "adopt":
\* the reads after an uncertain create; "expired": its deadline came before the client.
Stage == {"idle", "init", "sent", "body", "find", "adopt", "done", "failed", "expired"}
Ended == {"done", "failed", "expired"}
Verdict == {"none", "created", "uncertain", "refused", "guessed"}

\* The types of the variables.
TypeOK ==
    /\ backend \in {"connect", "sdk"} /\ client \in {"none", "pending", "ready"}
    /\ phase \in {"uploading", "committing", "published", "failed"}
    /\ stage \in [Record -> Stage] /\ tries \in [Record -> 0..MaxRetries]
    /\ posted \subseteq Record /\ accepted \subseteq Record
    /\ told \in [Record -> Verdict] /\ twins \subseteq Blob

Init ==
    /\ backend \in {"connect", "sdk"} /\ client = "none" /\ phase = "uploading"
    /\ stage = [r \in Record |-> "idle"] /\ tries = [r \in Record |-> 0]
    /\ posted = {} /\ accepted = {} /\ told = [r \in Record |-> "none"]
    /\ twins \in SUBSET Blob

command == <<backend, phase, twins>>

------------------------------------------------------------------------------
\* createItem: from the call to the verdict

\* What createItem ends with: a verdict, and where publishBlob or publishCommit goes on.
After(verdict) ==
    IF verdict = "created" THEN "done" ELSE IF verdict = "uncertain" THEN "find" ELSE "failed"

Settle(r, verdict) ==
    /\ told' = [told EXCEPT ![r] = verdict]
    /\ stage' = [stage EXCEPT ![r] = After(verdict)]

Send(r) == stage' = [stage EXCEPT ![r] = "sent"] /\ posted' = posted \cup {r} /\ UNCHANGED told

\* The endpoint, the token or the payload is rejected before anything is sent.
RejectedEarly(r) == Settle(r, "refused") /\ UNCHANGED <<client, posted>>

\* One POST, never repeated.
BeginConnect(r) == backend = "connect" /\ Send(r) /\ UNCHANGED client

\* The deadline runs from here. Pending initialisation is shared.
BeginSdk(r) ==
    /\ backend = "sdk"
    /\ IF client = "ready" THEN Send(r) /\ UNCHANGED client
       ELSE /\ client' = "pending" /\ stage' = [stage EXCEPT ![r] = "init"]
            /\ UNCHANGED <<posted, told>>

Begin(r) == BeginConnect(r) \/ BeginSdk(r) \/ RejectedEarly(r)

\* Fault for CreatesOnce: the expiry of a waiting call is not looked at.
Served_Expired == {r \in Record : stage[r] \in {"init", "expired"}}

\* The calls that a client serves when it arrives: the expired ones send nothing.
Served == {r \in Record : stage[r] = "init"}

ClientArrives ==
    /\ client = "pending" /\ client' = "ready"
    /\ stage' = [r \in Record |-> IF r \in Served THEN "sent" ELSE stage[r]]
    /\ posted' = posted \cup Served
    /\ UNCHANGED <<command, tries, accepted, told>>

\* Every waiting call fails; a later call starts another initialisation.
ClientFails ==
    /\ client = "pending" /\ client' = "none"
    /\ stage' = [r \in Record |-> IF stage[r] = "init" THEN "failed" ELSE stage[r]]
    /\ told' = [r \in Record |-> IF stage[r] = "init" THEN "refused" ELSE told[r]]
    /\ UNCHANGED <<command, tries, posted, accepted>>

\* The provider stores the record, or the create is lost; whether or not anyone waits.
ProviderAccepts(r) ==
    /\ r \in posted /\ posted' = posted \ {r} /\ accepted' = accepted \cup {r}
    /\ UNCHANGED <<command, client, stage, tries, told>>

ProviderLoses(r) ==
    /\ r \in posted /\ posted' = posted \ {r}
    /\ UNCHANGED <<command, client, stage, tries, accepted, told>>

\* 401, 403, 404, any other 4xx and a redirect are answers of a provider that did not store.
Refuse(r) ==
    /\ stage[r] = "sent" /\ r \in posted
    /\ posted' = posted \ {r} /\ Settle(r, "refused")
    /\ UNCHANGED <<command, client, tries, accepted>>

\* 429, 5xx, a broken connection: nothing is known.
Ambiguous(r) ==
    /\ stage[r] = "sent" /\ Settle(r, "uncertain")
    /\ UNCHANGED <<command, client, tries, posted, accepted>>

\* mapSdkError reads the verdict off the text of the error: a message with "abort",
\* "cancel", "reject" or "denied" in it counts as a definite failure of authentication.
GuessRefusal(r) ==
    /\ backend = "sdk" /\ stage[r] = "sent" /\ Settle(r, "guessed")
    /\ UNCHANGED <<command, client, tries, posted, accepted>>

\* Connect: the headers of a success, whose body is still to be read.
Headers(r) ==
    /\ backend = "connect" /\ stage[r] = "sent" /\ r \in accepted
    /\ stage' = [stage EXCEPT ![r] = "body"]
    /\ UNCHANGED <<command, client, tries, posted, accepted, told>>

\* A body that is cut off, too large or not an item leaves the create uncertain.
Body(r) ==
    /\ stage[r] = "body" /\ \E verdict \in {"created", "uncertain"} : Settle(r, verdict)
    /\ UNCHANGED <<command, client, tries, posted, accepted>>

\* The SDK returns the item, or something that is not one.
Item(r) ==
    /\ backend = "sdk" /\ stage[r] = "sent" /\ r \in accepted
    /\ \E verdict \in {"created", "uncertain"} : Settle(r, verdict)
    /\ UNCHANGED <<command, client, tries, posted, accepted>>

\* One deadline covers the wait for the client, the headers and the body.
Bounded(r) == stage[r] \in {"init", "sent", "body"}

Deadline(r) ==
    /\ Bounded(r)
    /\ IF stage[r] = "init"
       THEN /\ stage' = [stage EXCEPT ![r] = "expired"]
            /\ told' = [told EXCEPT ![r] = "refused"]
       ELSE Settle(r, "uncertain")
    /\ UNCHANGED <<command, client, tries, posted, accepted>>

------------------------------------------------------------------------------
\* The reads that settle an uncertain create

\* Connect repeats a read that timed out, the SDK does not: its requests cannot be
\* cancelled, and each repetition would leave one more behind.
Transient(kind) == kind = "transient" \/ (kind = "deadline" /\ backend = "connect")

Retried(r, kind) == Transient(kind) /\ tries[r] < MaxRetries

ReadFails(r) ==
    /\ stage[r] \in {"find", "adopt"}
    /\ \E kind \in {"transient", "deadline", "definite"} :
         IF Retried(r, kind)
         THEN tries' = [tries EXCEPT ![r] = @ + 1] /\ UNCHANGED stage
         ELSE stage' = [stage EXCEPT ![r] = "failed"] /\ UNCHANGED tries
    /\ UNCHANGED <<command, client, posted, accepted, told>>

Proceed(r, next) ==
    /\ stage' = [stage EXCEPT ![r] = next] /\ tries' = [tries EXCEPT ![r] = 0]
    /\ UNCHANGED <<command, client, posted, accepted, told>>

\* reconcileRecordByLogicalId: the listing may not show what the provider holds.
Find(r) ==
    /\ stage[r] = "find"
    /\ \/ r \in accepted /\ Proceed(r, "done")
       \/ Proceed(r, IF r \in Blob THEN "adopt" ELSE "failed")

\* reconcileBlobByContent: a blob of an earlier attempt with the same bytes will do.
Adopt(r) ==
    /\ stage[r] = "adopt"
    /\ \/ r \in twins /\ Proceed(r, "done")
       \/ Proceed(r, "failed")

------------------------------------------------------------------------------
\* The pool and the command

Active == {b \in Blob : stage[b] \notin Ended \cup {"idle"}}
Failures == {r \in Record : stage[r] \in {"failed", "expired"}}

\* A worker takes the next upload when its last one succeeded. It does not look at what
\* became of the others, nor of the command.
Take(b) ==
    /\ stage[b] = "idle"
    /\ Cardinality(Active) + Cardinality(Failures \cap Blob) < Workers
    /\ Begin(b)
    /\ UNCHANGED <<command, tries, accepted>>

\* Promise.all rejects with the first failure; the lock is released, the error printed.
PoolRejects ==
    /\ phase = "uploading" /\ Failures # {} /\ phase' = "failed"
    /\ UNCHANGED <<backend, twins, client, stage, tries, posted, accepted, told>>

\* Fault for CommitLast: the pool is taken for settled when no upload is active.
AllUploaded_Settled == Active = {}

AllUploaded == \A b \in Blob : stage[b] = "done"

\* The heads are looked at once more, and the commit is created.
PublishCommit ==
    /\ phase = "uploading" /\ AllUploaded
    /\ \/ phase' = "committing" /\ Begin(Commit)
       \/ phase' = "failed" /\ UNCHANGED <<client, stage, posted, told>>
    /\ UNCHANGED <<backend, twins, tries, accepted>>

CommandReturns ==
    /\ phase = "committing" /\ stage[Commit] \in Ended
    /\ phase' = IF stage[Commit] = "done" THEN "published" ELSE "failed"
    /\ UNCHANGED <<backend, twins, client, stage, tries, posted, accepted, told>>

------------------------------------------------------------------------------

\* What the provider does
Provider(r) == ProviderAccepts(r) \/ ProviderLoses(r) \/ Refuse(r) \/ Ambiguous(r)
               \/ GuessRefusal(r) \/ Headers(r) \/ Item(r)

Settles(r) == Body(r) \/ Deadline(r) \/ ReadFails(r) \/ Find(r) \/ Adopt(r)

Next ==
    \/ \E r \in Record : Provider(r) \/ Settles(r)
    \/ \E b \in Blob : Take(b)
    \/ ClientArrives \/ ClientFails \/ PoolRejects \/ PublishCommit \/ CommandReturns

Spec == Init /\ [][Next]_vars

------------------------------------------------------------------------------

\* An error guessed from its text says no more than an uncertain create.
ToldForSure == [r \in Record |-> IF told[r] = "guessed" THEN "uncertain" ELSE told[r]]

Promise == INSTANCE CreateOnce WITH told <- ToldForSure

\* createItem keeps what vault protocol and rollback build on: no create is repeated, and
\* what failed for sure, also by a deadline before the client was there, is never stored
\* later (README.md: "Expiry before the create starts throws a timeout with no write
\* issued"); only the SDK errors classified by their text are not that sure.
CreatesOnce == Promise!Spec

\* The commit leaves when every blob it refers to is stored, under its own id or an adopted
\* one, and never after the command failed, although uploads go on then (concurrency.ts:39).
CommitLast ==
    Commit \in posted \cup accepted =>
        Blob \subseteq accepted \cup twins /\ phase # "uploading" /\ Failures \cap Blob = {}

==============================================================================
