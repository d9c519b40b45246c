------------------------------- MODULE KeyPool -------------------------------
(***************************************************************************)
(* The pool of API keys in Redis (lib/key-manager.ts) and all who use it:  *)
(* requests that pick keys and report how their calls went (lib/retry-     *)
(* engine.ts, lib/recovery/overload-recovery.ts), the races that call with *)
(* several keys at once (lib/racing), and the jobs and admin routes that   *)
(* restore, reset, disable, add and delete keys.                           *)
(*                                                                         *)
(* A key is a hash (its status and counters) and a member of a sorted set. *)
(* No operation is a transaction: an actor reads, decides, and then sends  *)
(* its commands, between which the commands of others may come.  cmds is   *)
(* what an actor has decided to send and has not sent yet.                 *)
(*                                                                         *)
(* Abstracted: scores order the candidates of a pick, so a pick may return *)
(* any usable one; of cooldown_until only whether it lies ahead, of the    *)
(* failure counter only whether it is zero; usage counters.  The marker    *)
(* that keeps a key from being cooled twice in ten seconds is a choice.    *)
(***************************************************************************)
EXTENDS Naturals, Sequences, FiniteSets, SequencesExt

CONSTANTS
    Keys,            \* ids of keys
    Phantom,         \* the id 'none' that recovery reports when there is no key
    Requests,        \* requests under way at a time
    Keepers,         \* runs of the jobs and of the admin routes under way at a time
    RaceWidth        \* how many keys or models a race calls

ASSUME KeyPoolAssumption ==
    /\ Phantom \notin Keys \cup {"no key"} /\ RaceWidth \in Nat \ {0}
    /\ IsFiniteSet(Keys) /\ Requests \cap Keepers = {}

VARIABLES
    hash,            \* gemini:key:<id>
    pool,            \* gemini:key_pool
    cmds,            \* what each actor has still to send
    req,             \* what each request does
    calls,           \* the key each racer of a request calls with, and in what kind of race
    job              \* what each keeper does

vars == <<hash, pool, cmds, req, calls, job>>

Ids    == Keys \cup {Phantom}
Racers == Requests \X (1 .. RaceWidth)
Actors == Requests \cup Racers \cup Keepers
NoCall  == [id |-> "no key", of |-> "no call"]

\* "cooling" and "cooled" are the status 'cooldown' before and after cooldown_until.
Status == {"absent", "unset", "healthy", "cooling", "cooled", "revoked", "disabled"}
Hash   == [status : Status, key : BOOLEAN]

Absent == [status |-> "absent", key |-> FALSE]
Fresh  == [status |-> "healthy", key |-> TRUE]

\* The counter of failures is set to zero with these and not with others.
Failed(h) == h.status \in {"cooling", "cooled", "revoked"}

OutOfService == {"revoked", "disabled"}

-----------------------------------------------------------------------------
(* Commands.  why is what the decision to send it rests on: the status its *)
(* sender had read, a call made with the key, or an admin's wish.          *)

ToHash == {"healthy", "disabled", "cool", "revoke", "add", "del", "use"}
ToPool == {"zadd", "zrem"}
Why    == Status \cup {"call", "admin"}
Command == [do : ToHash \cup ToPool, id : Ids, why : Why]

Cmd(do, id, why) == [do |-> do, id |-> id, why |-> why]

\* The hash a command leaves.
Written(h, do) ==
    CASE do \in {"healthy", "disabled"} -> [h EXCEPT !.status = do]
      [] do = "cool"   -> [h EXCEPT !.status = "cooling"]
      [] do = "revoke" -> [h EXCEPT !.status = "revoked"]
      [] do = "add"    -> Fresh
      [] do = "del"    -> Absent
      [] do = "use"    -> [h EXCEPT !.status = IF @ = "absent" THEN "unset" ELSE @]
      [] OTHER         -> h

\* Restored: healthy again and back in front (the lazy recovery of a pick, and
\* what every job writes).
Restore(id, why) == <<Cmd("healthy", id, why), Cmd("zadd", id, why)>>

\* reportKeyFailure.
ReportKeyFailure(id, type) ==
    IF type = "auth"
      THEN <<Cmd("revoke", id, "call"), Cmd("zrem", id, "call")>>
      ELSE <<Cmd("cool", id, "call"), Cmd("zadd", id, "call")>>

\* One command reaches Redis.
Send(a) ==
    /\ cmds[a] # <<>>
    /\ LET c == Head(cmds[a]) IN
       /\ hash' = [hash EXCEPT ![c.id] = Written(@, c.do)]
       /\ pool' = CASE c.do = "zadd" -> pool \cup {c.id}
                    [] c.do = "zrem" -> pool \ {c.id}
                    [] OTHER         -> pool
    /\ cmds' = [cmds EXCEPT ![a] = Tail(@)]
    /\ UNCHANGED <<req, calls, job>>

-----------------------------------------------------------------------------
(* Requests: getHealthiestKeyObj, and the ways to use it.                  *)

\* Mutant: the check that there is a key in the hash is gone.
UsableUnchecked(h) == h.status \in {"healthy", "cooled"}

\* What a pick may return: a key that is healthy, or whose cooldown is over.
Usable(h) == h.key /\ h.status \in {"healthy", "cooled"}

\* "serial" is an attempt of the retry loop, which picks one key; "keys" a race
\* that picks until it has RaceWidth different ones, or has tried twice as often;
\* "models" a race that picks once for each model.
Modes == {"serial", "keys", "models"}

Idle == [at |-> "idle", mode |-> "serial", seen |-> {}, held |-> <<>>, picks |-> 0]

Wanted(q) ==
    CASE q.mode = "serial" -> q.picks < 1
      [] q.mode = "keys"   -> Len(q.held) < RaceWidth /\ q.picks < 2 * RaceWidth
      [] q.mode = "models" -> q.picks < RaceWidth

Racing(r) == \E i \in 1 .. RaceWidth : calls[<<r, i>>] # NoCall \/ cmds[<<r, i>>] # <<>>

Start(r) ==
    /\ req[r].at = "idle" /\ cmds[r] = <<>> /\ ~Racing(r)
    /\ \E m \in Modes :
       req' = [req EXCEPT ![r] = [Idle EXCEPT !.at = "listing", !.mode = m]]
    /\ UNCHANGED <<hash, pool, cmds, calls, job>>

\* A pick lists the pool ...
ListPool(r) ==
    /\ req[r].at = "listing" /\ cmds[r] = <<>> /\ Wanted(req[r])
    /\ req' = [req EXCEPT ![r].at = "choosing", ![r].seen = pool]
    /\ UNCHANGED <<hash, pool, cmds, calls, job>>

\* What a race of keys has already it does not take again.
HeldWith(q, id) ==
    IF q.mode = "keys" /\ Contains(q.held, id) THEN q.held ELSE Append(q.held, id)

\* ... then reads the hashes of what it listed and takes a usable one, which it
\* restores if its cooldown is over.
Pick(r) ==
    /\ req[r].at = "choosing"
    /\ \E id \in req[r].seen :
       /\ Usable(hash[id])
       /\ req' = [req EXCEPT ![r].at = "listing", ![r].seen = {}, ![r].picks = @ + 1,
                             ![r].held = HeldWith(req[r], id)]
       /\ cmds' = [cmds EXCEPT ![r] =
                      IF hash[id].status = "cooled" THEN Restore(id, "cooled") ELSE <<>>]
    /\ UNCHANGED <<hash, pool, calls, job>>

\* There is none.  A race of models goes on with its next pick, one of keys with
\* what it has; an attempt recovers from overload, which reports the key 'none'
\* unless it was reported shortly before.
PickFails(r) ==
    /\ req[r].at = "choosing" /\ \A id \in req[r].seen : ~Usable(hash[id])
    /\ \/ /\ req[r].mode # "serial"
          /\ req' = [req EXCEPT ![r].at = "listing", ![r].seen = {},
                         ![r].picks = IF req[r].mode = "keys" THEN 2 * RaceWidth ELSE @ + 1]
          /\ UNCHANGED cmds
       \/ /\ req[r].mode = "serial"
          /\ req' = [req EXCEPT ![r] = Idle]
          /\ \E report \in {<<>>, ReportKeyFailure(Phantom, "server")} :
             cmds' = [cmds EXCEPT ![r] = report]
    /\ UNCHANGED <<hash, pool, calls, job>>

\* A race of models that has found but one key.
Kind(q) == IF q.mode = "models" /\ Len(q.held) = 1 THEN "lone" ELSE q.mode

\* The calls go out, one with each key held.  The request is free for others as
\* soon as one of them answers well: those it leaves behind still report.
Call(r) ==
    /\ req[r].at = "listing" /\ cmds[r] = <<>> /\ ~Wanted(req[r])
    /\ calls' = [c \in Racers |->
                    IF c[1] = r /\ c[2] <= Len(req[r].held)
                      THEN [id |-> req[r].held[c[2]], of |-> Kind(req[r])] ELSE calls[c]]
    /\ req' = [req EXCEPT ![r] = Idle]
    /\ UNCHANGED <<hash, pool, cmds, job>>

\* What is reported of a call that did not go well.  An attempt of the retry loop
\* says nothing of a 503, and recovers from another overload or a timeout, which
\* cools the key once or twice; a race says nothing of what throws, and a race of
\* models that has but one reports no 403 and no 429.
Reports(c) ==
    LET id == calls[c].id
        of == calls[c].of
        cooled == ReportKeyFailure(id, "server")
        revoked == ReportKeyFailure(id, "auth")
    IN  {<<>>, cooled}
        \cup (IF of = "lone" THEN {} ELSE {revoked})
        \cup (IF of = "serial" THEN {cooled \o cooled} ELSE {})

\* What is recorded of one that did: counters, in a hash that may be gone.
RecordKeyUsage(id) == <<Cmd("use", id, "call")>>

\* A call ends.
Answer(c) ==
    /\ calls[c] # NoCall
    /\ \E report \in {RecordKeyUsage(calls[c].id)} \cup Reports(c) :
       cmds' = [cmds EXCEPT ![c] = report]
    /\ calls' = [calls EXCEPT ![c] = NoCall]
    /\ UNCHANGED <<hash, pool, req, job>>

Request(r) ==
    Start(r) \/ ListPool(r) \/ Pick(r) \/ PickFails(r) \/ Call(r)

-----------------------------------------------------------------------------
(* Keepers: the restoration a pick starts now and then, the cron job, and  *)
(* the admin routes that go through the whole pool.                        *)

Jobs == {"restore", "cron", "activate-all", "system:activate-all", "clear-failed", "reset"}

\* The restoration that three picks in ten start, and the cron job: a cooldown
\* that is over.
RestoreKeys(h)  == h.status = "cooled"
CronRecovers(h) == h.status = "cooled"

\* PATCH ?action=activate-all, and the system route's activate-all and clear-failed.
ActivateAll(h)       == h.key
HandleActivateAll(h) == h.key /\ h.status \notin OutOfService
HandleClearFailed(h) == Failed(h)

\* resetAllKeys (and activate-keys.mjs) does not look.
ResetAllKeys(h) == TRUE

Selected(j, h) ==
    CASE j = "activate-all"        -> ActivateAll(h)
      [] j = "system:activate-all" -> HandleActivateAll(h)
      [] j = "clear-failed"        -> HandleClearFailed(h)
      [] j = "reset"               -> ResetAllKeys(h)
      [] j = "restore"             -> RestoreKeys(h)
      [] j = "cron"                -> CronRecovers(h)

\* Mutant: the jobs restore whatever is not cooling down.
SelectsUncooled(j, h) ==
    IF j \in {"restore", "cron"} THEN h.status # "cooling" ELSE Selected(j, h)

\* The keys a job makes healthy, by what it reads of them.
Selects(j, h) == Selected(j, h)

\* Only the jobs nobody asked for must leave alone what was taken out of service.
Reason(j, h) == IF j \in {"restore", "cron"} THEN h.status ELSE "admin"

\* The commands that restore keys, those of one after those of the other.
Restorations(order, j) ==
    [n \in 1 .. 2 * Len(order) |->
        LET id == order[(n + 1) \div 2]
        IN  Restore(id, Reason(j, hash[id]))[2 - (n % 2)]]

NoJob == [name |-> "cron", left |-> {}]

StartJob(k) ==
    /\ job[k] = NoJob /\ cmds[k] = <<>> /\ pool # {}
    /\ \E j \in Jobs : job' = [job EXCEPT ![k] = [name |-> j, left |-> pool]]
    /\ UNCHANGED <<hash, pool, cmds, req, calls>>

\* The cron job reads one key after another, the others read all at once.
ReadKeys(k) ==
    /\ job[k].left # {} /\ cmds[k] = <<>>
    /\ LET name == job[k].name IN
       \E ids \in IF name = "cron" THEN {{id} : id \in job[k].left} ELSE {job[k].left} :
       \E order \in SetToSeqs({id \in ids : Selects(name, hash[id])}) :
       /\ cmds' = [cmds EXCEPT ![k] = Restorations(order, name)]
       /\ job' = [job EXCEPT ![k] = IF @.left = ids THEN NoJob
                                            ELSE [name |-> name, left |-> @.left \ ids]]
    /\ UNCHANGED <<hash, pool, req, calls>>

\* The admin routes for a single key: PATCH toggle and reactivate, POST, DELETE.
AdminKey(k) ==
    /\ job[k] = NoJob /\ cmds[k] = <<>>
    /\ \E id \in Keys :
       \E send \in
          (IF hash[id].status = "absent" THEN {<<Cmd("add", id, "admin"), Cmd("zadd", id, "admin")>>}
           ELSE {<<Cmd(IF hash[id].status = "disabled" THEN "healthy" ELSE "disabled", id, "admin"),
                   Cmd("zadd", id, "admin")>>,
                 Restore(id, "admin"),
                 <<Cmd("del", id, "admin"), Cmd("zrem", id, "admin")>>}) :
       cmds' = [cmds EXCEPT ![k] = send]
    /\ UNCHANGED <<hash, pool, req, calls, job>>

Keeper(k) == StartJob(k) \/ ReadKeys(k) \/ AdminKey(k)

\* A cooldown runs out.
Tick(id) ==
    /\ hash[id].status = "cooling" /\ hash' = [hash EXCEPT ![id].status = "cooled"]
    /\ UNCHANGED <<pool, cmds, req, calls, job>>

-----------------------------------------------------------------------------
Init ==
    /\ \E have \in SUBSET Keys :
       /\ hash = [id \in Ids |-> IF id \in have THEN Fresh ELSE Absent]
       /\ pool = have
    /\ cmds = [a \in Actors |-> <<>>]
    /\ req = [r \in Requests |-> Idle]
    /\ calls = [c \in Racers |-> NoCall]
    /\ job = [k \in Keepers |-> NoJob]

Next ==
    \/ \E a \in Actors : Send(a)
    \/ \E r \in Requests : Request(r)
    \/ \E c \in Racers : Answer(c)
    \/ \E k \in Keepers : Keeper(k)
    \/ \E id \in Ids : Tick(id)

Spec == Init /\ [][Next]_vars

-----------------------------------------------------------------------------
(* Properties.                                                             *)

\* Every variable has its type.
TypeOK ==
    /\ hash \in [Ids -> Hash] /\ pool \subseteq Ids
    /\ cmds \in [Actors -> Seq(Command)]
    /\ \A r \in Requests :
          /\ req[r].at \in {"idle", "listing", "choosing"} /\ req[r].mode \in Modes
          /\ req[r].seen \subseteq Ids /\ req[r].held \in Seq(Ids)
          /\ req[r].picks \in Nat
    /\ calls \in [Racers -> [id : Ids, of : Modes \cup {"lone"}] \cup {NoCall}]
    /\ job \in [Keepers -> [name : Jobs, left : SUBSET Ids]]

\* Recovery puts the id 'none' into the pool and jobs make it healthy; late
\* reports bring back the hash of a deleted key.  No call is made with either.
CallsUseRealKeys == \A c \in Racers : calls[c].id # Phantom

\* "Permanently disable revoked/invalid keys" (key-manager.ts): what brings a key
\* back that was revoked or disabled is an admin, the report of a call that was
\* made with it before, or a restoration decided when it was cooling down; no
\* pick and no job does so knowingly.
ComesBackLateOrByAdmin ==
    [][\A id \in Ids :
          hash[id].status \in OutOfService /\ hash'[id].status \notin OutOfService \cup {"absent"} =>
              \E a \in Actors : /\ cmds[a] # <<>> /\ cmds'[a] = Tail(cmds[a])
                                /\ Head(cmds[a]).id = id
                                /\ Head(cmds[a]).why \in {"call", "admin", "cooled"}]_vars
=============================================================================
