---------------------------- MODULE KeyPool_proofs ----------------------------
(***************************************************************************)
(* Proofs about KeyPool, for any keys, requests, keepers and any width of  *)
(* the races.                                                              *)
(*                                                                         *)
(* Both properties are about what may be done later, so the invariant is   *)
(* about the commands that wait: none of them makes a key of the id 'none' *)
(* (the hash of which never holds one), and those that make a key usable   *)
(* rest on a call, an admin or a cooldown that was over (SoundCommand).    *)
(***************************************************************************)
EXTENDS KeyPool, FiniteSetTheorems, TLAPS

RealIds == Ids \ {Phantom}

\* Why a command may bring a key back.
Back == {"call", "admin", "cooled"}

SoundCommand ==
    {c \in Command : /\ c.do = "add" => c.id # Phantom
                     /\ c.do \in {"healthy", "cool", "add"} => c.why \in Back}

HashesOK == hash \in [Ids -> Hash] /\ ~hash[Phantom].key

PoolOK == pool \subseteq Ids

CommandsOK == cmds \in [Actors -> Seq(SoundCommand)]

RequestState ==
    [at : {"idle", "listing", "choosing"}, mode : Modes, seen : SUBSET Ids,
     held : Seq(RealIds), picks : Nat]

RequestsOK == req \in [Requests -> RequestState]

CallsOK ==
    calls \in [Racers -> [id : RealIds, of : Modes \cup {"lone"}] \cup {NoCall}]

JobsOK == job \in [Keepers -> [name : Jobs, left : SUBSET Ids]]

KeysInv == HashesOK /\ PoolOK /\ CommandsOK /\ RequestsOK /\ CallsOK /\ JobsOK

-----------------------------------------------------------------------------
(* The lists of commands.                                                  *)

LEMMA PhantomApart == Phantom \in Ids /\ RealIds = Keys /\ NoCall.id # Phantom
BY KeyPoolAssumption DEF Ids, RealIds, NoCall

LEMMA RaceWidthNat == RaceWidth \in Nat
BY KeyPoolAssumption

\* A key is restored because of a call, an admin or its cooldown.
LEMMA RestoreSound ==
    ASSUME NEW id \in Ids, NEW why \in Back
    PROVE  /\ Restore(id, why) \in Seq(SoundCommand)
           /\ Restore(id, why)[1] \in SoundCommand /\ Restore(id, why)[2] \in SoundCommand
<1>1. Cmd("healthy", id, why) \in SoundCommand /\ Cmd("zadd", id, why) \in SoundCommand
  BY DEF Cmd, SoundCommand, Command, ToHash, ToPool, Why, Status, Back
<1> HIDE DEF Cmd
<1> QED
  BY <1>1 DEF Restore

\* So are the failures of calls.
LEMMA FailureSound ==
    ASSUME NEW id \in Ids, NEW type
    PROVE  ReportKeyFailure(id, type) \in Seq(SoundCommand)
<1>1. /\ Cmd("revoke", id, "call") \in SoundCommand /\ Cmd("zrem", id, "call") \in SoundCommand
      /\ Cmd("cool", id, "call") \in SoundCommand /\ Cmd("zadd", id, "call") \in SoundCommand
  BY DEF Cmd, SoundCommand, Command, ToHash, ToPool, Why, Back
<1> HIDE DEF Cmd
<1> QED
  BY <1>1 DEF ReportKeyFailure

LEMMA UsageSound ==
    ASSUME NEW id \in Ids
    PROVE  RecordKeyUsage(id) \in Seq(SoundCommand)
<1>1. Cmd("use", id, "call") \in SoundCommand
  BY DEF Cmd, SoundCommand, Command, ToHash, ToPool, Why, Back
<1> HIDE DEF Cmd
<1> QED
  BY <1>1 DEF RecordKeyUsage

\* A job restores what has cooled down, unless an admin asked for it.
LEMMA RestorationsSound ==
    ASSUME HashesOK, NEW j \in Jobs, NEW ids \in SUBSET Ids,
           NEW order \in SetToSeqs({id \in ids : Selects(j, hash[id])})
    PROVE  Restorations(order, j) \in Seq(SoundCommand)
<1> DEFINE S == {id \in ids : Selects(j, hash[id])}
           n == Cardinality(S)
<1>1. n \in Nat
  <2>1. IsFiniteSet(Ids)
    BY KeyPoolAssumption, FS_AddElement DEF Ids
  <2>2. IsFiniteSet(S)
    BY <2>1, FS_Subset
  <2> QED
    BY <2>2, FS_CardinalityType
<1>2. order \in [1 .. n -> S]
  BY DEF SetToSeqs
<1>3. \A id \in S : id \in Ids /\ Reason(j, hash[id]) \in Back
  BY DEF Selects, Selected, RestoreKeys, CronRecovers, Reason, Back, Jobs
<1> HIDE DEF S, n
<1>4. Len(order) = n
  BY <1>1, <1>2
<1>5. ASSUME NEW m \in 1 .. 2 * n
      PROVE  Restorations(order, j)[m] \in SoundCommand
  <2>1. (m + 1) \div 2 \in 1 .. n /\ 2 - (m % 2) \in {1, 2}
    BY <1>1
  <2>2. order[(m + 1) \div 2] \in S
    BY <1>2, <2>1
  <2>3. Restorations(order, j)[m] =
          Restore(order[(m + 1) \div 2], Reason(j, hash[order[(m + 1) \div 2]]))[2 - (m % 2)]
    BY <1>4 DEF Restorations
  <2> QED
    BY <1>3, <2>1, <2>2, <2>3, RestoreSound
<1>6. Restorations(order, j) \in [1 .. 2 * n -> SoundCommand]
  BY <1>4, <1>5 DEF Restorations
<1> QED
  BY <1>1, <1>6

-----------------------------------------------------------------------------
LEMMA IdleOK ==
    /\ Idle \in RequestState
    /\ \A m \in Modes : [Idle EXCEPT !.at = "listing", !.mode = m] \in RequestState
<1>1. <<>> \in Seq(RealIds)
  OBVIOUS
<1>2. \A a \in {"idle", "listing"}, m \in Modes :
         [at |-> a, mode |-> m, seen |-> {}, held |-> <<>>, picks |-> 0] \in RequestState
  BY <1>1 DEF RequestState
<1>3. Idle \in RequestState
  <2>1. "serial" \in Modes
    BY DEF Modes
  <2> QED
    BY <1>2, <2>1 DEF Idle
<1>4. ASSUME NEW m \in Modes
      PROVE  [Idle EXCEPT !.at = "listing", !.mode = m] \in RequestState
  <2>1. \A q \in RequestState, a \in {"idle", "listing"} :
           [q EXCEPT !.at = a, !.mode = m] \in RequestState
    BY DEF RequestState
  <2> QED
    BY <1>3, <2>1
<1> QED
  BY <1>2, <1>3, <1>4

LEMMA KeysStart == Init => KeysInv
<1> SUFFICES ASSUME Init PROVE KeysInv
  OBVIOUS
<1>1. HashesOK /\ PoolOK
  <2>1. PICK have \in SUBSET Keys :
           hash = [id \in Ids |-> IF id \in have THEN Fresh ELSE Absent] /\ pool = have
    BY DEF Init
  <2>2. Fresh \in Hash /\ Absent \in Hash /\ ~Absent.key
    BY DEF Hash, Status, Fresh, Absent
  <2> QED
    BY <2>1, <2>2, PhantomApart, KeyPoolAssumption DEF HashesOK, PoolOK, Ids
<1>2. CommandsOK /\ CallsOK
  <2>1. <<>> \in Seq(SoundCommand)
    OBVIOUS
  <2> QED
    BY <2>1 DEF Init, CommandsOK, CallsOK
<1>3. RequestsOK
  BY IdleOK DEF Init, RequestsOK
<1>4. JobsOK
  BY DEF Init, JobsOK, NoJob, Jobs
<1> QED
  BY <1>1, <1>2, <1>3, <1>4 DEF KeysInv

\* A command that reaches Redis makes no key of 'none'.
LEMMA SendOK == ASSUME KeysInv, NEW a \in Actors, Send(a) PROVE KeysInv'
<1> DEFINE c == Head(cmds[a])
<1>1. c \in SoundCommand /\ Tail(cmds[a]) \in Seq(SoundCommand)
  BY DEF Send, KeysInv, CommandsOK
<1>2. HashesOK'
  <2>1. hash' = [hash EXCEPT ![c.id] = Written(@, c.do)] /\ c.id \in Ids
        /\ c.do \in ToHash \cup ToPool /\ hash \in [Ids -> Hash] /\ ~hash[Phantom].key
    BY <1>1 DEF Send, SoundCommand, Command, KeysInv, HashesOK
  <2>2. \A h \in Hash : Written(h, c.do) \in Hash
    BY <2>1 DEF Written, Hash, Status, Fresh, Absent, ToHash, ToPool
  <2>3. \A h \in Hash : ~h.key /\ c.do # "add" => ~Written(h, c.do).key
    BY <2>1 DEF Written, Hash, Absent, ToHash, ToPool
  <2>4. c.id = Phantom => c.do # "add"
    BY <1>1 DEF SoundCommand
  <2> HIDE DEF c
  <2> QED
    BY <2>1, <2>2, <2>3, <2>4, PhantomApart DEF HashesOK
<1>3. PoolOK'
  BY <1>1 DEF Send, SoundCommand, Command, KeysInv, PoolOK
<1>4. CommandsOK'
  BY <1>1 DEF Send, KeysInv, CommandsOK
<1> QED
  BY <1>2, <1>3, <1>4 DEF Send, KeysInv, RequestsOK, CallsOK, JobsOK

\* The steps of a request: only real keys are picked.
LEMMA RequestOK == ASSUME KeysInv, NEW r \in Requests, Request(r) PROVE KeysInv'
<1>0. /\ req \in [Requests -> RequestState] /\ req[r] \in RequestState
      /\ cmds \in [Actors -> Seq(SoundCommand)] /\ r \in Actors
  BY DEF KeysInv, RequestsOK, CommandsOK, Actors
<1>1. CASE Start(r)
  <2>1. PICK m \in Modes : req' = [req EXCEPT ![r] = [Idle EXCEPT !.at = "listing", !.mode = m]]
    BY <1>1 DEF Start
  <2>2. [Idle EXCEPT !.at = "listing", !.mode = m] \in RequestState
    BY IdleOK
  <2>3. RequestsOK'
    BY <1>0, <2>1, <2>2 DEF RequestsOK
  <2> QED
    BY <1>1, <2>3 DEF Start, KeysInv, HashesOK, PoolOK, CommandsOK, CallsOK, JobsOK
<1>2. CASE ListPool(r)
  <2>1. RequestsOK'
    BY <1>0, <1>2 DEF ListPool, RequestsOK, RequestState, KeysInv, PoolOK
  <2> QED
    BY <1>2, <2>1 DEF ListPool, KeysInv, HashesOK, PoolOK, CommandsOK, CallsOK, JobsOK
<1>3. CASE Pick(r)
  <2>1. PICK id \in req[r].seen :
          /\ Usable(hash[id])
          /\ req' = [req EXCEPT ![r].at = "listing", ![r].seen = {}, ![r].picks = @ + 1,
                                ![r].held = HeldWith(req[r], id)]
          /\ cmds' = [cmds EXCEPT ![r] =
                         IF hash[id].status = "cooled" THEN Restore(id, "cooled") ELSE <<>>]
    BY <1>3 DEF Pick
  <2>2. id \in RealIds
    BY <1>0, <2>1 DEF RequestState, Usable, KeysInv, HashesOK, RealIds
  <2>3. HeldWith(req[r], id) \in Seq(RealIds)
    BY <1>0, <2>2 DEF HeldWith, RequestState
  <2>4. RequestsOK'
    <3> DEFINE q == [req[r] EXCEPT !.at = "listing", !.seen = {}, !.picks = @ + 1,
                                   !.held = HeldWith(req[r], id)]
    <3>1. q \in RequestState
      <4>1. req[r].picks + 1 \in Nat /\ req[r].mode \in Modes
        BY <1>0 DEF RequestState
      <4> HIDE DEF RealIds, HeldWith, Modes
      <4> QED
        BY <1>0, <2>3, <4>1 DEF RequestState
    <3>2. req' = [req EXCEPT ![r] = q]
      BY <1>0, <2>1
    <3> HIDE DEF q
    <3> QED
      BY <1>0, <3>1, <3>2 DEF RequestsOK
  <2>5. CommandsOK'
    <3>1. Restore(id, "cooled") \in Seq(SoundCommand)
      BY <2>2, RestoreSound DEF RealIds, Back
    <3> QED
      BY <1>0, <2>1, <3>1 DEF CommandsOK
  <2> QED
    BY <1>3, <2>4, <2>5 DEF Pick, KeysInv, HashesOK, PoolOK, CallsOK, JobsOK
<1>4. CASE PickFails(r)
  <2>1. RequestsOK'
    <3>1. Idle \in RequestState
      BY IdleOK
    <3> DEFINE q == [req[r] EXCEPT !.at = "listing", !.seen = {},
                          !.picks = IF req[r].mode = "keys" THEN 2 * RaceWidth ELSE @ + 1]
    <3>2. q \in RequestState
      <4>1. (IF req[r].mode = "keys" THEN 2 * RaceWidth ELSE req[r].picks + 1) \in Nat
        <5>1. 2 * RaceWidth \in Nat
          BY RaceWidthNat
        <5>2. req[r].picks + 1 \in Nat
          BY <1>0 DEF RequestState
        <5> QED
          BY <5>1, <5>2
      <4> HIDE DEF RealIds, Modes
      <4> QED
        BY <1>0, <4>1 DEF RequestState
    <3>3. req' = [req EXCEPT ![r] = q] \/ req' = [req EXCEPT ![r] = Idle]
      BY <1>0, <1>4 DEF PickFails
    <3> HIDE DEF q, Idle
    <3> QED
      BY <1>0, <3>1, <3>2, <3>3 DEF RequestsOK
  <2>2. CommandsOK'
    <3>1. ReportKeyFailure(Phantom, "server") \in Seq(SoundCommand)
      BY PhantomApart, FailureSound
    <3>2. <<>> \in Seq(SoundCommand)
      OBVIOUS
    <3>3. cmds' = cmds \/ \E report \in {<<>>, ReportKeyFailure(Phantom, "server")} :
                             cmds' = [cmds EXCEPT ![r] = report]
      BY <1>4 DEF PickFails
    <3> QED
      BY <1>0, <3>1, <3>2, <3>3 DEF CommandsOK
  <2> QED
    BY <1>4, <2>1, <2>2 DEF PickFails, KeysInv, HashesOK, PoolOK, CallsOK, JobsOK
<1>5. CASE Call(r)
  <2>1. RequestsOK'
    BY <1>0, <1>5 DEF Call, RequestsOK, RequestState, Idle, Modes
  <2>2. CallsOK'
    <3>1. Kind(req[r]) \in Modes \cup {"lone"}
      BY <1>0 DEF Kind, RequestState
    <3>2. ASSUME NEW c \in Racers, c[2] <= Len(req[r].held)
          PROVE  req[r].held[c[2]] \in RealIds
      <4>1. req[r].held \in Seq(RealIds)
        BY <1>0 DEF RequestState
      <4>3. c[2] \in Nat \ {0}
        <5>1. c[2] \in 1 .. RaceWidth
          BY DEF Racers
        <5> QED
          BY <5>1, RaceWidthNat
      <4>2. c[2] \in 1 .. Len(req[r].held)
        BY <3>2, <4>1, <4>3
      <4> QED
        BY <4>1, <4>2
    <3>3. calls \in [Racers -> [id : RealIds, of : Modes \cup {"lone"}] \cup {NoCall}]
      BY DEF KeysInv, CallsOK
    <3>4. calls' = [c \in Racers |->
                      IF c[1] = r /\ c[2] <= Len(req[r].held)
                        THEN [id |-> req[r].held[c[2]], of |-> Kind(req[r])] ELSE calls[c]]
      BY <1>5 DEF Call
    <3> HIDE DEF RealIds
    <3> QED
      BY <3>1, <3>2, <3>3, <3>4 DEF CallsOK
  <2> QED
    BY <1>5, <2>1, <2>2 DEF Call, KeysInv, HashesOK, PoolOK, CommandsOK, JobsOK
<1> QED
  BY <1>1, <1>2, <1>3, <1>4, <1>5 DEF Request

\* What is said of a call that ends.
LEMMA AnswerOK == ASSUME KeysInv, NEW c \in Racers, Answer(c) PROVE KeysInv'
<1>1. /\ calls[c] # NoCall /\ calls \in [Racers -> [id : RealIds, of : Modes \cup {"lone"}] \cup {NoCall}]
      /\ cmds \in [Actors -> Seq(SoundCommand)] /\ c \in Actors
  BY DEF Answer, KeysInv, CallsOK, CommandsOK, Actors
<1>2. calls[c].id \in Ids
  BY <1>1 DEF RealIds
<1> DEFINE id == calls[c].id
<1>3. /\ ReportKeyFailure(id, "server") \in Seq(SoundCommand)
      /\ ReportKeyFailure(id, "auth") \in Seq(SoundCommand)
      /\ RecordKeyUsage(id) \in Seq(SoundCommand)
  BY <1>2, FailureSound, UsageSound
<1>4. ASSUME NEW s \in Seq(SoundCommand), NEW t \in Seq(SoundCommand)
      PROVE  s \o t \in Seq(SoundCommand)
  OBVIOUS
<1>5. {RecordKeyUsage(id)} \cup Reports(c) \subseteq Seq(SoundCommand)
  <2> DEFINE cooled == ReportKeyFailure(id, "server")
  <2>1. <<>> \in Seq(SoundCommand) /\ cooled \o cooled \in Seq(SoundCommand)
    BY <1>3, <1>4
  <2>2. Reports(c) \subseteq {<<>>, cooled, ReportKeyFailure(id, "auth"), cooled \o cooled}
    BY DEF Reports
  <2> HIDE DEF id, cooled
  <2> QED
    BY <1>3, <2>1, <2>2 DEF cooled
<1>6. CommandsOK' /\ CallsOK'
  BY <1>1, <1>5 DEF Answer, CommandsOK, CallsOK
<1> QED
  BY <1>6 DEF Answer, KeysInv, HashesOK, PoolOK, RequestsOK, JobsOK

\* What the jobs and the admins send.
LEMMA KeeperOK == ASSUME KeysInv, NEW k \in Keepers, Keeper(k) PROVE KeysInv'
<1>0. /\ job \in [Keepers -> [name : Jobs, left : SUBSET Ids]]
      /\ cmds \in [Actors -> Seq(SoundCommand)] /\ k \in Actors
  BY DEF KeysInv, JobsOK, CommandsOK, Actors
<1>1. CASE StartJob(k)
  <2>1. JobsOK'
    BY <1>0, <1>1 DEF StartJob, JobsOK, KeysInv, PoolOK
  <2> QED
    BY <1>1, <2>1 DEF StartJob, KeysInv, HashesOK, PoolOK, CommandsOK, RequestsOK, CallsOK
<1>2. CASE ReadKeys(k)
  <2>1. PICK ids \in SUBSET job[k].left :
           /\ \E order \in SetToSeqs({id \in ids : Selects(job[k].name, hash[id])}) :
                 cmds' = [cmds EXCEPT ![k] = Restorations(order, job[k].name)]
           /\ job' = [job EXCEPT ![k] = IF @.left = ids THEN NoJob ELSE [name |-> job[k].name, left |-> @.left \ ids]]
    <3>1. PICK ids \in IF job[k].name = "cron" THEN {{id} : id \in job[k].left} ELSE {job[k].left} :
             \E order \in SetToSeqs({id \in ids : Selects(job[k].name, hash[id])}) :
                /\ cmds' = [cmds EXCEPT ![k] = Restorations(order, job[k].name)]
                /\ job' = [job EXCEPT ![k] = IF @.left = ids THEN NoJob
                                             ELSE [name |-> job[k].name, left |-> @.left \ ids]]
      BY <1>2 DEF ReadKeys
    <3>2. ids \in SUBSET job[k].left
      BY <3>1
    <3> QED
      BY <3>1, <3>2
  <2>2. PICK order \in SetToSeqs({id \in ids : Selects(job[k].name, hash[id])}) :
           cmds' = [cmds EXCEPT ![k] = Restorations(order, job[k].name)]
    BY <2>1
  <2>3. Restorations(order, job[k].name) \in Seq(SoundCommand)
    <3>1. job[k].name \in Jobs /\ ids \in SUBSET Ids
      BY <1>0, <2>1
    <3> QED
      BY <2>2, <3>1, RestorationsSound DEF KeysInv
  <2>4. CommandsOK'
    BY <1>0, <2>2, <2>3 DEF CommandsOK
  <2>5. JobsOK'
    <3> DEFINE J == [name : Jobs, left : SUBSET Ids]
           next == IF job[k].left = ids THEN NoJob ELSE [name |-> job[k].name, left |-> job[k].left \ ids]
    <3>1. job' = [job EXCEPT ![k] = next]
      BY <2>1
    <3>2. NoJob \in J
      BY DEF NoJob, Jobs
    <3>3. [name |-> job[k].name, left |-> job[k].left \ ids] \in J
      BY <1>0
    <3>4. next \in J
      BY <3>2, <3>3
    <3> HIDE DEF J, next
    <3> QED
      BY <1>0, <3>1, <3>4 DEF JobsOK, J
  <2> QED
    BY <1>2, <2>4, <2>5 DEF ReadKeys, KeysInv, HashesOK, PoolOK, RequestsOK, CallsOK
<1>3. CASE AdminKey(k)
  <2> DEFINE Sends(id) ==
               IF hash[id].status = "absent" THEN {<<Cmd("add", id, "admin"), Cmd("zadd", id, "admin")>>}
               ELSE {<<Cmd(IF hash[id].status = "disabled" THEN "healthy" ELSE "disabled", id, "admin"),
                       Cmd("zadd", id, "admin")>>,
                     Restore(id, "admin"),
                     <<Cmd("del", id, "admin"), Cmd("zrem", id, "admin")>>}
  <2>0. PICK id \in Keys : \E send \in Sends(id) : cmds' = [cmds EXCEPT ![k] = send]
    BY <1>3 DEF AdminKey
  <2>1. PICK send \in Sends(id) : cmds' = [cmds EXCEPT ![k] = send]
    BY <2>0
  <2>2. \A do \in ToHash \cup ToPool : Cmd(do, id, "admin") \in SoundCommand
    BY KeyPoolAssumption DEF Cmd, SoundCommand, Command, Why, Ids, Back
  <2>3. \A do \in ToHash, to \in ToPool :
           <<Cmd(do, id, "admin"), Cmd(to, id, "admin")>> \in Seq(SoundCommand)
    <3> HIDE DEF Cmd
    <3> QED
      BY <2>2
  <2>4. send \in Seq(SoundCommand)
    <3> HIDE DEF Cmd
    <3> QED
      BY <2>1, <2>3 DEF Restore, ToHash, ToPool
  <2>5. CommandsOK'
    BY <1>0, <2>1, <2>4 DEF CommandsOK
  <2> QED
    BY <1>3, <2>5 DEF AdminKey, KeysInv, HashesOK, PoolOK, RequestsOK, CallsOK, JobsOK
<1> QED
  BY <1>1, <1>2, <1>3 DEF Keeper

LEMMA KeysStep == KeysInv /\ [Next]_vars => KeysInv'
<1> SUFFICES ASSUME KeysInv, [Next]_vars PROVE KeysInv'
  OBVIOUS
<1>1. ASSUME NEW id \in Ids, Tick(id) PROVE KeysInv'
  <2>1. HashesOK'
    BY <1>1, PhantomApart DEF Tick, KeysInv, HashesOK, Hash, Status
  <2> QED
    BY <1>1, <2>1 DEF Tick, KeysInv, PoolOK, CommandsOK, RequestsOK, CallsOK, JobsOK
<1>2. CASE UNCHANGED vars
  BY <1>2 DEF vars, KeysInv, HashesOK, PoolOK, CommandsOK, RequestsOK, CallsOK, JobsOK
<1> QED
  BY <1>1, <1>2, SendOK, RequestOK, AnswerOK, KeeperOK DEF Next

\* KeysInv holds of every reachable state.
THEOREM KeysInvariance == Spec => []KeysInv
BY KeysStart, KeysStep, PTL DEF Spec

\* Type correctness, for any keys, requests, keepers and races.
THEOREM KeyTypesCorrect == Spec => []TypeOK
<1>1. KeysInv => TypeOK
  <2> SUFFICES ASSUME KeysInv PROVE TypeOK
    OBVIOUS
  <2>1. SoundCommand \subseteq Command /\ RealIds \subseteq Ids
    BY DEF SoundCommand, RealIds
  <2>2. cmds \in [Actors -> Seq(Command)]
    <3>1. \A s \in Seq(SoundCommand) : s \in Seq(Command)
      BY <2>1
    <3> QED
      BY <3>1 DEF KeysInv, CommandsOK
  <2>3. \A r \in Requests :
           /\ req[r].at \in {"idle", "listing", "choosing"} /\ req[r].mode \in Modes
           /\ req[r].seen \subseteq Ids /\ req[r].held \in Seq(Ids) /\ req[r].picks \in Nat
    <3>1. \A s \in Seq(RealIds) : s \in Seq(Ids)
      BY <2>1
    <3> QED
      BY <3>1 DEF KeysInv, RequestsOK, RequestState
  <2>4. calls \in [Racers -> [id : Ids, of : Modes \cup {"lone"}] \cup {NoCall}]
    BY <2>1 DEF KeysInv, CallsOK
  <2> QED
    BY <2>2, <2>3, <2>4 DEF KeysInv, HashesOK, PoolOK, JobsOK, TypeOK
<1> QED
  BY <1>1, KeysInvariance, PTL

\* No call goes out with the id 'none', whatever the pool holds of it.
THEOREM RealKeysOnly == Spec => []CallsUseRealKeys
<1>1. KeysInv => CallsUseRealKeys
  BY PhantomApart DEF KeysInv, CallsOK, CallsUseRealKeys, RealIds
<1> QED
  BY <1>1, KeysInvariance, PTL

\* Only an admin, a late report or a late restoration brings back a key that was
\* revoked or disabled, for any number of each.
THEOREM ComesBackForAReason == Spec => ComesBackLateOrByAdmin
<1> DEFINE Kept ==
             \A id \in Ids :
               hash[id].status \in OutOfService /\ hash'[id].status \notin OutOfService \cup {"absent"} =>
                   \E a \in Actors : /\ cmds[a] # <<>> /\ cmds'[a] = Tail(cmds[a])
                                     /\ Head(cmds[a]).id = id
                                     /\ Head(cmds[a]).why \in {"call", "admin", "cooled"}
<1>1. KeysInv /\ [Next]_vars => [Kept]_vars
  <2> SUFFICES ASSUME KeysInv, Next, NEW id \in Ids,
                      hash[id].status \in OutOfService,
                      hash'[id].status \notin OutOfService \cup {"absent"}
               PROVE  \E a \in Actors : /\ cmds[a] # <<>> /\ cmds'[a] = Tail(cmds[a])
                                        /\ Head(cmds[a]).id = id
                                        /\ Head(cmds[a]).why \in {"call", "admin", "cooled"}
    OBVIOUS
  <2>1. hash'[id] # hash[id]
    BY DEF OutOfService
  <2>2. PICK a \in Actors : Send(a)
    <3>1. ASSUME NEW x \in Ids, Tick(x) PROVE FALSE
      BY <3>1 DEF Tick, OutOfService, KeysInv, HashesOK, Hash
    <3> QED
      BY <2>1, <3>1 DEF Next, Request, Start, ListPool, Pick, PickFails, Call, Answer, Keeper,
         StartJob, ReadKeys, AdminKey
  <2>3. Head(cmds[a]) \in SoundCommand
    BY <2>2 DEF Send, KeysInv, CommandsOK
  <2> DEFINE c == Head(cmds[a])
  <2>4. /\ hash' = [hash EXCEPT ![c.id] = Written(@, c.do)] /\ cmds[a] # <<>>
        /\ cmds'[a] = Tail(cmds[a]) /\ hash \in [Ids -> Hash]
    BY <2>2 DEF Send, KeysInv, HashesOK, CommandsOK
  <2> HIDE DEF c
  <2>5. c.id = id /\ hash'[id] = Written(hash[id], c.do)
    BY <2>1, <2>4
  <2>6. c.do \in {"healthy", "cool", "add"}
    <3>1. c.do \in ToHash \cup ToPool /\ hash[id] \in Hash
      BY <2>3, <2>4 DEF c, SoundCommand, Command
    <3> QED
      BY <2>5, <3>1 DEF Written, OutOfService, Absent, Hash, ToHash, ToPool
  <2>7. c.why \in {"call", "admin", "cooled"}
    BY <2>3, <2>6 DEF c, SoundCommand, Back
  <2> QED
    BY <2>4, <2>5, <2>7 DEF c
<1> QED
  BY <1>1, KeysInvariance, PTL DEF Spec, ComesBackLateOrByAdmin
===============================================================================
