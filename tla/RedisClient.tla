------------------------------ MODULE RedisClient ------------------------------
(***************************************************************************)
(* The Redis client of each process (redis/client.ts): it connects once,   *)
(* and when that fails or an error comes up later it hands out a client    *)
(* that answers every command as an empty store would and takes every      *)
(* write.  Followed here for one key that processes read, change and write *)
(* back; of a value only what it was built upon.                           *)
(***************************************************************************)
EXTENDS Naturals

CONSTANTS Users    \* processes

VARIABLES
    up,            \* Redis answers
    value,         \* what the value in Redis was built upon: "true" when every read was answered
    connection,    \* clientPromise of each process
    disabledReason,\* whether each process has one
    phase,         \* of each process: what it does next
    view           \* what it goes on with: "none" yet, or what its value is built upon

dvars == <<up, value, connection, disabledReason, phase, view>>

Proceeds(p, to) == phase' = [phase EXCEPT ![p] = to]
Sees(p, what)     == view' = [view EXCEPT ![p] = what]

DInit ==
    /\ up \in BOOLEAN /\ value = "true"
    /\ connection = [p \in Users |-> "none"] /\ disabledReason = [p \in Users |-> FALSE]
    /\ phase = [p \in Users |-> "idle"] /\ view = [p \in Users |-> "none"]

\* Mutant: what was built is built again when it does not work any more.
BuildsAgain(p) == connection[p] \in {"none", "closed"}

MayBuild(p) == connection[p] = "none" /\ ~disabledReason[p]

\* buildClient: by the first command of a process; those that come meanwhile await it.
BuildClient(p) ==
    /\ MayBuild(p)
    /\ IF up THEN connection' = [connection EXCEPT ![p] = "open"] /\ UNCHANGED disabledReason
             ELSE /\ connection' = [connection EXCEPT ![p] = "disabled"]
                  /\ disabledReason' = [disabledReason EXCEPT ![p] = TRUE]
    /\ UNCHANGED <<up, value, phase, view>>

\* Redis goes, with an error to those connected or without; it comes back, but
\* nobody connects again (retryStrategy).
GoesDown ==
    /\ up /\ up' = FALSE
    /\ connection' = [p \in Users |-> IF connection[p] = "open" THEN "closed" ELSE connection[p]]
    /\ \E heard \in SUBSET {p \in Users : connection[p] = "open"} :
         disabledReason' = [p \in Users |-> disabledReason[p] \/ p \in heard]
    /\ UNCHANGED <<value, phase, view>>

ComesBack == ~up /\ up' = TRUE /\ UNCHANGED <<value, connection, disabledReason, phase, view>>

\* getClient: the disabled client when there is a reason, whatever was built.
Disabled(p)  == disabledReason[p] \/ connection[p] = "disabled"
Connected(p) == ~Disabled(p) /\ connection[p] = "open"
Ready(p)     == Disabled(p) \/ connection[p] # "none"

\* A read: the value, nothing from the disabled client, or an error that the callers
\* take for nothing; a pipeline makes null of it itself.  Redis may refuse a command too.
Read(p) ==
    /\ phase[p] = "idle" /\ Ready(p) /\ Proceeds(p, "write")
    /\ \/ Connected(p) /\ Sees(p, value)
       \/ Connected(p) /\ Sees(p, "refused")
       \/ ~Connected(p) /\ Sees(p, "blind")
    /\ UNCHANGED <<up, value, connection, disabledReason>>

\* The write of what was made of it: 'OK' of the disabled client, or an error, changes nothing.
Write(p) ==
    /\ phase[p] = "write" /\ Ready(p) /\ Proceeds(p, "idle")
    /\ value' = IF Connected(p) THEN view[p] ELSE value
    /\ Sees(p, "none")
    /\ UNCHANGED <<up, connection, disabledReason>>

\* The process ends and another takes its place.
Restart(p) ==
    /\ connection' = [connection EXCEPT ![p] = "none"]
    /\ disabledReason' = [disabledReason EXCEPT ![p] = FALSE]
    /\ Proceeds(p, "idle") /\ Sees(p, "none")
    /\ UNCHANGED <<up, value>>

DNext ==
    \/ \E p \in Users : BuildClient(p) \/ Read(p) \/ Write(p) \/ Restart(p)
    \/ GoesDown \/ ComesBack

DSpec == DInit /\ [][DNext]_dvars

-----------------------------------------------------------------------------
\* What a process made of a read nobody answered never gets over what is stored,
\* although its writes are acknowledged: a process that lost Redis has lost it for
\* good, so nothing it does later arrives (redis/client.ts 138-199).
BlindNeverWrites == value # "blind"
===============================================================================
