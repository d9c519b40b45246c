----------------------------- MODULE ProjectMemory -----------------------------
(***************************************************************************)
(* What agent sessions remember for one another (runtime/agent/memory-     *)
(* manager.ts, semantic-memory.ts, embedding-runtime.ts): the notes of a   *)
(* project in the process, under a key made of its kind, and the vectors   *)
(* of notes under scopes, which are saved behind the session's back.  Of a *)
(* note only whose it is and which: a fact says the same whichever session *)
(* of a kind of project came to it.  A score may rank notes in any way;    *)
(* scopes that nobody asks for are left out.                               *)
(***************************************************************************)
EXTENDS Naturals, Sequences, FiniteSets, FiniteSetsExt, SequencesExt

CONSTANTS
    Runs,            \* sessions, one after another or at the same time
    Type, Language,  \* of the repository of each run, the framework with the type
    Facts,           \* facts there are of a kind of project
    LongTerm,        \* 12: notes a session takes along
    KeptNotes,       \* 64: notes kept of a project
    Limit,           \* notes retrieved at most
    MaxUpdates       \* bound: notes each session makes

ASSUME MemoryAssumption ==
    /\ Facts \in Nat /\ LongTerm \in Nat /\ KeptNotes \in Nat \ {0}
    /\ Limit \in Nat /\ MaxUpdates \in Nat

VARIABLES
    projectMemory,   \* _projectMemoryStore
    vectors,         \* records of the process, by scope: _vectorMemoryStore, InMemoryVectorStore
    saved,           \* runtime_vectors, in MongoDB
    remembering,     \* records that are being embedded
    memory,          \* session.memory, <<>> before initialize
    retrieved        \* what the last retrieval of each session returned

mvars == <<projectMemory, vectors, saved, remembering, memory, retrieved>>

Note(whose, kind, n) == [of |-> whose, kind |-> kind, n |-> n]

\* The kind of project a session works on, by which its facts are known.
Kind(s) == <<Type[s], Language[s]>>

\* Mutant: repositories of one language are one project.
KeyByLanguage(s) == <<Language[s], Language[s]>>

projectKey(s) == <<Type[s], Language[s]>>

ProjectKeys == {projectKey(s) : s \in Runs}
SessionScope == <<"session:runtime">>

LastNotes(s, n) == IF Len(s) <= n THEN s ELSE SubSeq(s, Len(s) - n + 1, Len(s))

MInit ==
    /\ projectMemory = [k \in ProjectKeys |-> <<>>] /\ vectors = {} /\ saved = {} /\ remembering = {}
    /\ memory = [s \in Runs |-> <<>>] /\ retrieved = [s \in Runs |-> {}]

\* The repository's facts are some of its kind's.  What the session takes along it
\* keeps for the project once more, after its own.
initialize(s) ==
    /\ memory[s] = <<>>
    /\ \E first \in 1 .. Facts + 1, n \in 0 .. Facts :
         LET persisted == projectMemory[projectKey(s)]
             facts     == [i \in 1 .. n |-> Note(Kind(s), "fact", first + i - 1)]
             longTerm  == LastNotes(persisted, LongTerm)
             learnt    == facts \o longTerm
             records   == {[scope |-> projectKey(s), note |-> x] : x \in ToSet(learnt)}
         IN  /\ first + n <= Facts + 1
             /\ memory' = [memory EXCEPT ![s] = <<Note(<<s>>, "objective", 0)>> \o learnt]
             /\ projectMemory' = [projectMemory EXCEPT ![projectKey(s)] =
                                     LastNotes(persisted \o learnt, KeptNotes)]
             /\ vectors' = vectors \cup records /\ remembering' = remembering \cup records
    /\ UNCHANGED <<saved, retrieved>>

Updates(s) == Cardinality({i \in 1 .. Len(memory[s]) : memory[s][i].kind = "progress"})

\* A note of the session: its record goes to the scope that all sessions share.
update(s) ==
    /\ memory[s] # <<>> /\ Updates(s) < MaxUpdates
    /\ LET x == Note(<<s>>, "progress", Updates(s) + 1)
       IN  /\ memory' = [memory EXCEPT ![s] = Append(@, x)]
           /\ remembering' = remembering \cup {[scope |-> SessionScope, note |-> x]}
    /\ UNCHANGED <<projectMemory, vectors, saved, retrieved>>

\* remember comes to its end; that MongoDB fails is not heard of.
Remembered ==
    \E r \in remembering :
      /\ remembering' = remembering \ {r}
      /\ vectors' = vectors \cup {r} /\ saved' \in {saved, saved \cup {r}}
      /\ UNCHANGED <<projectMemory, memory, retrieved>>

In(scope) == {r.note : r \in {x \in vectors \cup saved : x.scope = scope}}

\* Mutant: as few of its own as of the notes that all sessions share.
HalfOfOwn(s) == kSubset(Min({Limit \div 2, Len(memory[s])}), 1 .. Len(memory[s]))

\* Which of the session's own notes come out best: one it holds twice counts twice.
BestOfOwn(s) == kSubset(Min({Limit, Len(memory[s])}), 1 .. Len(memory[s]))

\* Asked once the memory is there: the best of the session's own notes first, each once;
\* what was found by its meaning, own notes or not, fills up.
retrieve(s) ==
    /\ memory[s] # <<>> /\ Updates(s) = 0
    /\ LET found == In(projectKey(s)) \cup In(SessionScope)
       IN  \E best \in BestOfOwn(s) :
             LET own == {memory[s][i] : i \in best}
             IN  \E n \in 0 .. Min({Limit - Cardinality(own), Cardinality(found)}) :
                 \E more \in kSubset(n, found) :
                   retrieved' = [retrieved EXCEPT ![s] = own \cup more]
    /\ UNCHANGED <<projectMemory, vectors, saved, remembering, memory>>

\* The process ends, and with it all that is not in MongoDB.
ProcessRestarts ==
    /\ projectMemory' = [k \in ProjectKeys |-> <<>>] /\ vectors' = {} /\ remembering' = {}
    /\ UNCHANGED <<saved, memory, retrieved>>

MNext == (\E s \in Runs : initialize(s) \/ update(s) \/ retrieve(s)) \/ Remembered \/ ProcessRestarts

MSpec == MInit /\ [][MNext]_mvars

-----------------------------------------------------------------------------
\* "safe for project memory (cross-session learning) but NOT for session-specific
\* memory" (memory-manager.ts 56-60): across restarts and late saves a session is given
\* facts of its kind of project only, but, against that comment, what others did in any
\* project; and of what it did not remember itself no more than the notes it has fewer
\* than were asked for, or holds twice (memory-manager.ts 126, 138-143, 224-257).
ForeignNotesFillUp ==
    \A s \in Runs :
        /\ \A x \in retrieved[s] \cup ToSet(memory[s]) :
              x.kind = "fact" => x.of = <<Type[s], Language[s]>>
        /\ LET places == {i \in 1 .. Len(memory[s]) : memory[s][i].kind # "progress"}
               known  == {memory[s][i] : i \in places}
           IN  Cardinality(retrieved[s] \ known) + Cardinality(known) <=
                 IF Cardinality(places) > Limit THEN Cardinality(places) ELSE Limit
===============================================================================
