------------------------------ MODULE CreateOnce ------------------------------
(* What a SecretStore promises of createItem, whatever happens on the way: a    *)
(* record is stored at most once, "created" is said of what is stored, and what *)
(* was refused is never stored afterwards.                                      *)

CONSTANT Record

VARIABLES
    accepted,   \* the records the provider holds
    told        \* what the caller of createItem was told of each

vars == <<accepted, told>>

Verdict == {"none", "created", "uncertain", "refused"}

Init == accepted = {} /\ told = [r \in Record |-> "none"]

Accept(r) ==
    /\ r \notin accepted /\ told[r] # "refused"
    /\ accepted' = accepted \cup {r}
    /\ UNCHANGED told

\* Several callers may hear of one failure at once.
Tell(rs, verdict) ==
    /\ \A r \in rs : told[r] = "none"
    /\ verdict = "created" => rs \subseteq accepted
    /\ verdict = "refused" => rs \cap accepted = {}
    /\ told' = [r \in Record |-> IF r \in rs THEN verdict ELSE told[r]]
    /\ UNCHANGED accepted

Next ==
    \/ \E r \in Record : Accept(r)
    \/ \E rs \in SUBSET Record, verdict \in Verdict : Tell(rs, verdict)

Spec == Init /\ [][Next]_vars

==============================================================================
