---------------------------- MODULE LockSentinels -----------------------------
(* The processes that take the lock of StateLock, and the two marks of a path   *)
(* that no process has made.                                                    *)
CONSTANTS
    Proc,       \* processes of one host that take the lock
    Departed,   \* those of them that ended earlier, the last perhaps with the lock
    NoFile,     \* the path has no file; or: readFile of the path failed
    Unwritten   \* what a reader sees of a file without a valid payload

ASSUME SentinelAssumption ==
    /\ NoFile \notin Proc /\ Unwritten \notin Proc /\ NoFile # Unwritten
    /\ Departed \subseteq Proc
==============================================================================
