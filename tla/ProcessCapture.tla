---------------------------- MODULE ProcessCapture ----------------------------
(* captureProcess of release-tag: a command runs in a process group of its own,  *)
(* with a deadline and a limit on its output. What goes wrong is answered by     *)
(* SIGTERM, after a grace by SIGKILL, and after another one by giving up. The    *)
(* processes fork, leave the group, close their pipes, write and end as they     *)
(* like; the events of Node and the timers come in any order that they can have. *)
EXTENDS Naturals

CONSTANTS
    Process,    \* the command and its descendants
    Leader,     \* the command, which leads the group
    Limit,      \* maxOutputBytes, in chunks
    MaxOutput   \* chunks that the processes write

CaptureAssumption == Leader \in Process /\ Limit \in Nat /\ MaxOutput \in Nat

VARIABLES
    forked,     \* processes that there are or were
    alive,      \* and that have not ended
    group,      \* those in the group of the command
    holders,    \* those that have its pipes
    doomed,     \* those that were sent SIGKILL
    ending,     \* how the command ended, before Node has seen it
    written,    \* chunks that went into the pipes
    unread,     \* and that are still there
    capture     \* the local variables of captureProcess

world == <<forked, alive, group, holders, doomed, ending, written>>
vars == <<world, unread, capture>>

------------------------------------------------------------------------------
\* The start: spawn throws, or reports an error (such as ENOENT) and makes no process,
\* or the command runs.

Fresh == [failure |-> "none", code |-> "none", output |-> 0, retained |-> 0,
          exited |-> FALSE, closed |-> FALSE, settled |-> FALSE, terminating |-> FALSE,
          escalated |-> FALSE, reaped |-> FALSE, overflowing |-> FALSE,
          destroyed |-> FALSE, cleanupIncomplete |-> FALSE]

Started(processes, c) ==
    /\ forked = processes /\ alive = processes /\ group = processes /\ holders = processes
    /\ doomed = {} /\ ending = "none" /\ written = 0 /\ unread = 0 /\ capture = c

SpawnThrows == Started({}, [Fresh EXCEPT !.failure = "transport", !.settled = TRUE])
SpawnErrs == Started({}, [Fresh EXCEPT !.failure = "transport"])
Spawned == Started({Leader}, Fresh)

Init == SpawnThrows \/ SpawnErrs \/ Spawned

------------------------------------------------------------------------------
\* The answers to what goes wrong, on the local variables

FailedBy(c, error) == IF c.failure = "none" THEN [c EXCEPT !.failure = error] ELSE c

\* A command that has ended is in its group until Node has seen it.
GroupExists(c) == alive \cap group # {} \/ (Leader \in forked /\ ~c.exited)

\* Faults for CaptureIsSound: descendants may survive; and for EachEnds: nobody looks again
\* after SIGKILL.
MayFinish_Anyhow(c) == c.closed
MayFinish_Gone(c) == c.closed /\ (c.terminating => ~GroupExists(c))

MayFinish(c) == c.closed /\ (c.terminating /\ ~c.escalated => ~GroupExists(c))

FinishIfClosed(c) == IF MayFinish(c) THEN [c EXCEPT !.settled = TRUE] ELSE c

\* Once: SIGTERM, which a process may ignore, and two more timers instead of the deadline.
Terminated(c) ==
    IF c.terminating \/ c.settled THEN c ELSE FinishIfClosed([c EXCEPT !.terminating = TRUE])

\* SIGKILL to the group.
KillGroup == doomed' = doomed \cup (alive \cap group)

\* What is in a stream that is destroyed is lost.
Lost(c, chunks) == IF c.destroyed THEN 0 ELSE chunks

------------------------------------------------------------------------------
\* The events of the child and the timers; there is none after the result

Becomes(c) == ~capture.settled /\ capture' = c

Counted(c) == [c EXCEPT !.output = @ + 1, !.retained = IF @ < Limit THEN @ + 1 ELSE @]

\* Fault for CaptureIsSound: what was kept is compared with the limit, not what came.
Exceeds_Kept(c) == c.retained > Limit

Exceeds(c) == c.output > Limit

\* collect: the chunk that exceeds the limit is cut and ends the command.
Collected(c) ==
    LET more == Counted(c)
    IN  IF ~Exceeds(more) THEN more
        ELSE [Terminated(FailedBy([more EXCEPT !.overflowing = TRUE], "overflow"))
                 EXCEPT !.destroyed = TRUE]

Collect ==
    /\ unread > 0 /\ ~capture.overflowing /\ Becomes(Collected(capture))
    /\ unread' = Lost(Collected(capture), unread - 1) /\ UNCHANGED world

\* One of the two streams fails, and the other one goes on or is all there was.
StreamError ==
    /\ Leader \in forked /\ ~capture.destroyed /\ ~capture.closed
    /\ \E last \in BOOLEAN :
         LET c == [Terminated(FailedBy(capture, "stream")) EXCEPT !.destroyed = last]
         IN  Becomes(c) /\ unread' = Lost(c, unread)
    /\ UNCHANGED world

Exit ==
    /\ ending # "none" /\ ~capture.exited
    /\ LET c == [capture EXCEPT !.exited = TRUE, !.code = ending]
       IN  Becomes(IF ending = "zero" THEN c ELSE Terminated(c))
    /\ UNCHANGED <<world, unread>>

\* After the exit, when both streams are at their end or destroyed.
Close ==
    /\ ~capture.closed /\ (capture.exited \/ Leader \notin forked)
    /\ capture.destroyed \/ (unread = 0 /\ alive \cap holders = {})
    /\ Becomes(FinishIfClosed([capture EXCEPT !.closed = TRUE]))
    /\ UNCHANGED <<world, unread>>

Deadline ==
    /\ ~capture.terminating /\ Becomes(Terminated(FailedBy(capture, "timeout")))
    /\ UNCHANGED <<world, unread>>

Escalation ==
    /\ capture.terminating /\ ~capture.escalated
    /\ Becomes(FinishIfClosed([capture EXCEPT !.escalated = TRUE])) /\ KillGroup
    /\ UNCHANGED <<forked, alive, group, holders, ending, written, unread>>

\* The end of an escaped process is not waited for, nor that of the command itself.
ReapDeadline ==
    /\ capture.escalated /\ ~capture.reaped /\ KillGroup
    /\ LET c == [capture EXCEPT !.reaped = TRUE, !.destroyed = TRUE]
       IN  Becomes(IF c.exited THEN c
                   ELSE [FailedBy(c, "unconfirmed") EXCEPT !.cleanupIncomplete = TRUE, !.settled = TRUE])
    /\ unread' = 0 /\ UNCHANGED <<forked, alive, group, holders, ending, written>>

Event == Collect \/ Exit \/ Close \/ Deadline \/ Escalation \/ ReapDeadline

------------------------------------------------------------------------------
\* The processes

With(set, p, q) == IF p \in set THEN set \cup {q} ELSE set

Fork(p) ==
    /\ p \in alive \ doomed
    /\ \E q \in Process \ forked :
         /\ forked' = forked \cup {q} /\ alive' = alive \cup {q}
         /\ group' = With(group, p, q) /\ holders' = With(holders, p, q)
    /\ UNCHANGED <<doomed, ending, written, unread, capture>>

\* A descendant starts a session of its own, or any process closes its pipes.
Leave(p) ==
    /\ p \in alive \ doomed
    /\ \/ p \in group \ {Leader} /\ group' = group \ {p} /\ UNCHANGED holders
       \/ p \in holders /\ holders' = holders \ {p} /\ UNCHANGED group
    /\ UNCHANGED <<forked, alive, doomed, ending, written, unread, capture>>

Write(p) ==
    /\ p \in (alive \cap holders) \ doomed /\ ~capture.destroyed /\ written < MaxOutput
    /\ written' = written + 1 /\ unread' = unread + 1
    /\ UNCHANGED <<forked, alive, group, holders, doomed, ending, capture>>

End(p) ==
    /\ p \in alive /\ alive' = alive \ {p}
    /\ IF p = Leader THEN ending' \in {"zero", "other"} ELSE UNCHANGED ending
    /\ UNCHANGED <<forked, group, holders, doomed, written, unread, capture>>

Next == Event \/ StreamError \/ \E p \in Process : Fork(p) \/ Leave(p) \/ Write(p) \/ End(p)

\* The event loop goes on and its timers come; of the processes nothing is assumed, not even
\* that they end when they are killed.
Spec == Init /\ [][Next]_vars /\ WF_vars(Event)

------------------------------------------------------------------------------

\* A command that succeeded was read to the end: nothing that any process wrote is missing
\* from its output, and nobody is left to write more (process.ts captureProcess, close).
SuccessIsWhole ==
    capture.settled /\ capture.failure = "none" /\ capture.code = "zero" =>
        capture.retained = written /\ alive \cap holders = {}

\* A command that was given up leaves no process in its group that was not killed, and a
\* command that was not seen to end is reported (process.ts terminate, cleanupIncomplete).
NothingSurvives ==
    capture.settled =>
        /\ capture.terminating => alive \cap group \subseteq doomed
        /\ Leader \in forked /\ ~capture.exited => capture.cleanupIncomplete

\* What a result says of a command is true.
CaptureIsSound == SuccessIsWhole /\ NothingSurvives

\* And there is always a result, whatever the processes do (process.ts terminate).
ResultComes == <>capture.settled

==============================================================================
