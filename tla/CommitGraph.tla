----------------------------- MODULE CommitGraph -----------------------------
(***************************************************************************)
(* The commit graph of secret-sync (packages/secret-sync/src/graph.ts): the *)
(* traversals that decide which commits are the heads of a branch, whether *)
(* the history is usable, and what a bounded walk returns.  A history is a *)
(* function from the ids of the records seen so far to                     *)
(* [branch, parents]; records reach a reader in any order, so that parents *)
(* may be missing.  Each loop is a function of the number of its turns.     *)
(***************************************************************************)
EXTENDS Integers, Sequences, FiniteSets, SequencesExt, FiniteSetsExt

CONSTANTS
    Commit,    \* commit ids, naturals: the code orders ids as strings
    Branch,    \* branch names
    MaxNodes   \* MAX_GRAPH_NODES

GraphAssumption == Commit \subseteq Nat /\ IsFiniteSet(Commit) /\ MaxNodes \in Nat \ {0}

VARIABLE history

Records == [branch : Branch, parents : SUBSET Commit]

Parents(H, c) == IF c \in DOMAIN H THEN H[c].parents ELSE {}

\* What a loop ends with: a set of commits, or an error.
None == "none"
Corrupt == "corrupt"
TooLarge == "too-large"
Incomplete == "incomplete"
Outcome(verdict, set) ==
    [ok |-> verdict = None, value |-> IF verdict = None THEN set ELSE verdict]

\* indexCommitsById, detectCycle and findMissingParents refuse a history of too many records.
Oversized(H) == Cardinality(DOMAIN H) > MaxNodes

------------------------------------------------------------------------------
\* collectAncestors: a stack of ids; "visiting" holds the ids on it. The stack is a sequence of
\* frames, each with what is left of the parents that one commit pushed: they are pushed in
\* ascending order (operations.ts 205), and so the greatest of the last frame comes next.
Pushed(stack, ids) == IF ids = {} THEN stack ELSE Append(stack, ids)

WalkTurn(H, limit, start, s) ==
    LET current == Max(Last(s.stack))
        rest == Pushed(Front(s.stack), Last(s.stack) \ {current})
        visited == s.visited \cup {current}
        fresh == Parents(H, current) \ visited
    IN  IF s.stack = <<>> \/ s.verdict # None THEN s
        ELSE IF current \in s.visited
        THEN [s EXCEPT !.stack = rest, !.visiting = @ \ {current}]
        ELSE IF Cardinality(visited) > limit THEN [s EXCEPT !.verdict = TooLarge]
        ELSE IF current \notin DOMAIN H THEN [s EXCEPT !.stack = rest, !.visited = visited]
        ELSE IF \E p \in Parents(H, current) :
                   p \in s.visiting \ visited \/ (p = start /\ current # start)
        THEN [s EXCEPT !.verdict = Corrupt]
        ELSE [stack     |-> Pushed(rest, fresh),
              visiting  |-> (s.visiting \cup fresh)
                              \ (IF current # start \/ Pushed(rest, fresh) = <<>>
                                 THEN {current} ELSE {}),
              visited   |-> visited,
              ancestors |-> s.ancestors \cup (Parents(H, current) \ {start}),
              verdict   |-> None]

\* Every turn visits another commit, as no id is twice on the stack.
WalkTurns(H, limit, start) ==
    LET turn[n \in 0..Cardinality(Commit)] ==
            IF n = 0 THEN [stack |-> <<{start}>>, visiting |-> {start}, visited |-> {},
                           ancestors |-> {}, verdict |-> None]
            ELSE WalkTurn(H, limit, start, turn[n - 1])
    IN  turn

CollectAncestors(H, start, limit) ==
    LET s == WalkTurns(H, limit, start)[Cardinality(Commit)]
    IN  Outcome(s.verdict, s.ancestors)

\* detectCycle: visit, one call or return at a time. "path" are the ids of state 1, "done" those
\* of state 2; a call for an id on the path has found a cycle.
VisitTurn(H, s) ==
    LET open == (IF s.path = <<>> THEN DOMAIN H ELSE Parents(H, Last(s.path))) \ s.done
    IN  IF s.cyclic THEN s
        ELSE IF open = {} THEN
             IF s.path = <<>> THEN s
             ELSE [s EXCEPT !.path = Front(@), !.done = @ \cup {Last(s.path)}]
        ELSE IF Min(open) \in Range(s.path) THEN [s EXCEPT !.cyclic = TRUE]
        ELSE [s EXCEPT !.path = Append(@, Min(open))]

\* Every id is called once and returns once.
VisitTurns(H) ==
    LET turn[n \in 0..2 * Cardinality(Commit)] ==
            IF n = 0 THEN [path |-> <<>>, done |-> {}, cyclic |-> FALSE]
            ELSE VisitTurn(H, turn[n - 1])
    IN  turn

DetectCycle(H) == VisitTurns(H)[2 * Cardinality(Commit)].cyclic

\* Fault for GraphExact: only direct children dominate.
Deciding_ByChild(H, candidate, others) == {o \in others : candidate \in H[o].parents}

\* deriveBranchHeads: the commits of the branch that no other one descends from. A candidate is
\* compared with the others in turn until one dominates, or cannot be walked.
Deciding(H, candidate, others) ==
    {o \in others : LET up == CollectAncestors(H, o, MaxNodes) IN up.ok => candidate \in up.value}

Scoped(H, b) == {c \in DOMAIN H : H[c].branch = b}

DeriveBranchHeads(H, b) ==
    LET scoped == Scoped(H, b)
        deciding == [c \in scoped |-> Deciding(H, c, scoped \ {c})]
        walked(c) == CollectAncestors(H, Min(deciding[c]), MaxNodes)
        failed == {c \in scoped : deciding[c] # {} /\ ~walked(c).ok}
    IN  IF Oversized(H) THEN Outcome(TooLarge, {})
        ELSE IF DetectCycle(H) THEN Outcome(Corrupt, {})
        ELSE IF failed # {} THEN walked(Min(failed))
        ELSE Outcome(None, {c \in scoped : deciding[c] = {}})

\* Fault for GraphExact: the check for missing parents is left out.
FindMissingParents_None(H) == {}

FindMissingParents(H) == (UNION {H[c].parents : c \in DOMAIN H}) \ DOMAIN H

\* classifyBranchState: corrupt before incomplete before what the heads say.
StateOfHeads(heads) ==
    IF ~heads.ok THEN [status |-> heads.value, heads |-> {}]
    ELSE IF heads.value = {} THEN [status |-> Corrupt, heads |-> {}]
    ELSE [status |-> IF Cardinality(heads.value) = 1 THEN "single" ELSE "diverged",
          heads  |-> heads.value]

ClassifyBranchState(H, b) ==
    IF Oversized(H) THEN [status |-> TooLarge, heads |-> {}]
    ELSE IF DetectCycle(H) THEN [status |-> Corrupt, heads |-> {}]
    ELSE IF FindMissingParents(H) # {} THEN [status |-> Incomplete, heads |-> {}]
    ELSE IF Scoped(H, b) = {} THEN [status |-> "empty", heads |-> {}]
    ELSE StateOfHeads(DeriveBranchHeads(H, b))

\* collectReachableCommits: smallest id first; the bound is checked before a
\* missing record is noticed.
ReachTurn(H, limit, s) ==
    LET current == Min(s.queue)
        seen == s.seen \cup {current}
    IN  IF s.queue = {} \/ s.verdict # None THEN s
        ELSE IF Cardinality(seen) > limit THEN [s EXCEPT !.verdict = TooLarge]
        ELSE IF current \notin DOMAIN H THEN [s EXCEPT !.verdict = Incomplete]
        ELSE [s EXCEPT !.queue = (@ \cup Parents(H, current)) \ seen, !.seen = seen]

ReachTurns(H, limit, heads) ==
    LET turn[n \in 0..Cardinality(Commit)] ==
            IF n = 0 THEN [queue |-> heads, seen |-> {}, verdict |-> None]
            ELSE ReachTurn(H, limit, turn[n - 1])
    IN  turn

Reach(H, heads, limit) ==
    LET s == ReachTurns(H, limit, heads)[Cardinality(Commit)]
    IN  Outcome(s.verdict, s.seen)

Bounded(limit) == IF limit < MaxNodes THEN limit ELSE MaxNodes

\* Fault for GraphExact: the bound is off by one.
CollectReachableCommits_Exclusive(H, heads, limit) == Reach(H, heads, Bounded(limit) - 1)

CollectReachableCommits(H, heads, limit) == Reach(H, heads, Bounded(limit))

------------------------------------------------------------------------------
\* Records surface one by one, in any order and with any parents.
Init == history = <<>>

\* A record that lists itself as a parent is not decoded.
Decodes(c, record) == c \notin record.parents

Surface(c, record) ==
    /\ c \notin DOMAIN history
    /\ Decodes(c, record)
    /\ history' = [x \in DOMAIN history \cup {c} |-> IF x = c THEN record ELSE history[x]]

Next == \E c \in Commit, record \in Records : Surface(c, record)

Spec == Init /\ [][Next]_history

------------------------------------------------------------------------------
\* What the traversals should compute: the lineage of S is the least set that holds S and
\* is closed under parents, and the ancestors of c are the lineage of its parents.
Closed(H, S) == \A x \in S : Parents(H, x) \subseteq S

Lineage(H, S) ==
    {a \in Commit : \A T \in SUBSET Commit : S \subseteq T /\ Closed(H, T) => a \in T}

Ancestors(H, c) == Lineage(H, Parents(H, c))

Acyclic(H) == \A c \in DOMAIN H : c \notin Ancestors(H, c)

\* The parents that resolve, push, rollback and branch give a commit: heads, none
\* of which descends from another.
HeadJoins(H) ==
    \A c \in DOMAIN H : \A p \in H[c].parents : H[c].parents \cap Ancestors(H, p) = {}

Sound == Acyclic(history) /\ HeadJoins(history)

\* On every history whose joins are joins of heads, the stack walk of
\* collectAncestors (graph.ts 42-94) finds exactly the ancestors and never takes
\* a diamond for a cycle, whatever the order of ids and the missing records; the
\* bound is inclusive.
AncestorsExact ==
    Sound => \A c \in Commit :
        LET up == Ancestors(history, c) IN
        \A limit \in 1..MaxNodes :
            CollectAncestors(history, c, limit) =
                Outcome(IF Cardinality(up \cup {c}) <= limit THEN None ELSE TooLarge, up)

\* detectCycle (graph.ts 96-135) reports a cycle if and only if there is one.
CycleExact == DetectCycle(history) <=> ~Acyclic(history)

\* The heads cover the branch, or there is too much to walk.
Covers(heads, scoped) ==
    /\ heads.ok =>
         /\ heads.value = scoped \ UNION {Ancestors(history, o) : o \in scoped}
         /\ scoped \subseteq Lineage(history, heads.value)
    /\ ~heads.ok =>
         \/ Oversized(history)
         \/ \E o \in scoped : Cardinality(Lineage(history, {o})) > MaxNodes

\* deriveBranchHeads (graph.ts 155-194): the heads of a branch are the commits of
\* the branch that no other commit of it descends from, also through commits of
\* other branches, and together with their ancestors they cover the branch. They
\* are found unless there is too much to walk.
HeadsExact ==
    Sound => \A b \in Branch : Covers(DeriveBranchHeads(history, b), Scoped(history, b))

\* A state with heads is of a history without cycles whose heads have all their ancestors.
Trusted(state) ==
    state.status \in {"single", "diverged"} =>
        Acyclic(history) /\ \A h \in state.heads : Ancestors(history, h) \subseteq DOMAIN history
Usable(b, status) ==
    FindMissingParents(history) = {} /\ ~Oversized(history) /\ Sound =>
        IF Scoped(history, b) = {} THEN status = "empty" ELSE status \in {"single", "diverged"}

\* classifyBranchState (graph.ts 211-260) never lets a caller act on a partial or
\* cyclic history: "single" and "diverged" mean every ancestor is present. A sound
\* and complete history is never taken for corrupt, and its branch is empty only if
\* nothing was committed to it.
ClassifiedSafely ==
    \A b \in Branch : LET state == ClassifyBranchState(history, b)
                      IN  Trusted(state) /\ Usable(b, state.status)

\* collectReachableCommits (graph.ts 282-317) returns the whole closure or an
\* error, never a truncated one; the bound is inclusive.
ReachableExact ==
    \A heads \in SUBSET Commit :
        LET closure == Lineage(history, heads) IN
        \A limit \in 1..MaxNodes :
            LET got == CollectReachableCommits(history, heads, limit)
            IN  /\ got.ok => got.value = closure
                /\ closure \subseteq DOMAIN history =>
                     (got.ok <=> Cardinality(closure) <= limit)

\* Every traversal of graph.ts computes what it is meant to, on every history.
GraphExact == AncestorsExact /\ CycleExact /\ HeadsExact /\ ClassifiedSafely /\ ReachableExact
==============================================================================
