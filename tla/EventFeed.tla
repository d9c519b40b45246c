------------------------------- MODULE EventFeed -------------------------------
(***************************************************************************)
(* The events of one session and who follows them.  The loop saves the     *)
(* session under its next version and appends events of that number        *)
(* (session-manager.ts, session-repository.ts); a cancellation writes the  *)
(* session and numbers its event by the last one; a reader asks for what   *)
(* comes after the last number it has (events/route.ts, Last-Event-ID) and  *)
(* gets a page of it, ordered by the number alone.                         *)
(***************************************************************************)
EXTENDS Naturals, FiniteSets

CONSTANTS
    MaxVersion,    \* bound: versions the loop writes
    PageLimit      \* events of an answer at most: 200 in the code

ASSUME FeedAssumption == MaxVersion \in Nat /\ PageLimit \in Nat \ {0}

VARIABLES
    stored,       \* version of the session in MongoDB
    version,      \* session.version, as the loop has it in memory
    events,       \* agent_session_events
    loop,         \* what the loop does next
    canceller,    \* what the cancellation does next, and the number it found
    cursor,       \* the last event id the reader has
    heard         \* the events the reader was sent

fvars == <<stored, version, events, loop, canceller, cursor, heard>>

Event(n, type) == [sequence |-> n, type |-> type]
Greatest0(S) == IF S = {} THEN 0 ELSE CHOOSE n \in S : \A m \in S : m <= n
Sequences == {e.sequence : e \in events}

FInit ==
    /\ stored = 1 /\ version = 1 /\ events = {Event(1, "SESSION_CREATED")}
    /\ loop = "idle" /\ canceller = [at |-> "idle", number |-> 0]
    /\ cursor = 0 /\ heard = {}

\* Mutant: the document is written under the version it had.
SaveUnnumbered ==
    /\ loop = "idle" /\ version < MaxVersion
    /\ stored' = version
    /\ loop' \in {"transition", "checkpoint"}
    /\ UNCHANGED <<version, events, canceller, cursor, heard>>

\* save, before a transition, a checkpoint or the start of a task: the document is overwritten, whatever
\* its version.
Save ==
    /\ loop = "idle" /\ version < MaxVersion
    /\ version' = version + 1 /\ stored' = version + 1
    /\ loop' \in {"transition", "checkpoint"}
    /\ UNCHANGED <<events, canceller, cursor, heard>>

\* A change of the runtime state is told by a second event of the same number.
AppendEvent ==
    /\ \/ /\ loop = "transition" /\ loop' \in {"idle", "twin"}
          /\ events' = events \cup {Event(version, "SESSION_TRANSITION")}
       \/ /\ loop = "twin" /\ loop' = "idle"
          /\ events' = events \cup {Event(version, "RUNTIME_STATE_CHANGED")}
       \/ /\ loop = "checkpoint" /\ loop' = "idle"
          /\ events' = events \cup {Event(version, "CHECKPOINT_CREATED")}
    /\ UNCHANGED <<stored, version, canceller, cursor, heard>>

\* The process dies; the session is loaded and resumed.
Resumed ==
    /\ version' = stored /\ loop' = "idle"
    /\ UNCHANGED <<stored, events, canceller, cursor, heard>>

\* requestCancellation: the document is updated if it has the version that was read, ...
RequestCancellation ==
    /\ canceller.at = "idle" /\ canceller' = [canceller EXCEPT !.at = "number"]
    /\ stored' = stored + 1
    /\ UNCHANGED <<version, events, loop, cursor, heard>>

\* ... then nextSequence reads, ...
NextSequence ==
    /\ canceller.at = "number"
    /\ canceller' = [at |-> "append", number |-> Greatest0(Sequences) + 1]
    /\ UNCHANGED <<stored, version, events, loop, cursor, heard>>

\* ... and the event is appended.
AppendCancelled ==
    /\ canceller.at = "append" /\ canceller' = [canceller EXCEPT !.at = "done"]
    /\ events' = events \cup {Event(canceller.number, "SESSION_CANCELLED")}
    /\ UNCHANGED <<stored, version, loop, cursor, heard>>

\* The first of the news, up to the limit; which of one number come first is not said.
IsPage(page, news) ==
    /\ Cardinality(page) <= PageLimit
    /\ page = news \/ Cardinality(page) = PageLimit
    /\ \A e \in page, d \in news \ page : e.sequence <= d.sequence

\* GET events: a page of what comes after the cursor.
Poll ==
    LET news == {e \in events : e.sequence > cursor}
    IN  \E page \in SUBSET news :
          /\ page # {} /\ IsPage(page, news)
          /\ heard' = heard \cup page
          /\ cursor' = Greatest0({e.sequence : e \in page})
          /\ UNCHANGED <<stored, version, events, loop, canceller>>

FNext ==
    \/ Save \/ AppendEvent \/ Resumed
    \/ RequestCancellation \/ NextSequence \/ AppendCancelled
    \/ Poll

FSpec == FInit /\ [][FNext]_fvars

-----------------------------------------------------------------------------
\* What a reader has passed over without being sent it shares the cancellation's
\* number, or is one of the two events of a change of the runtime state, and the other
\* was sent: no other number is lost to whoever goes on asking, across pages, crashes
\* and cancellations (session-manager.ts 22-62, session-repository.ts 107-148, 166-185).
PassedOverAreTwins ==
    \A e \in events \ heard : e.sequence <= cursor =>
        \/ \E c \in events : c.type = "SESSION_CANCELLED" /\ c.sequence = e.sequence
        \/ \E h \in heard : /\ h.sequence = e.sequence
                            /\ {e.type, h.type} = {"SESSION_TRANSITION", "RUNTIME_STATE_CHANGED"}
===============================================================================
