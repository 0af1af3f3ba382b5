-------------------------- MODULE BroadcastProofs ---------------------------
(***************************************************************************)
(* What holds of the broadcasts of an instance, for any rooms, speakers,   *)
(* ports, windows and segments.                                            *)
(*                                                                         *)
(* Ports: only what a step does to the mixes, the registry and the         *)
(* speakers a sync still has to add matters.  Most steps leave these       *)
(* alone (Same), some take speakers out of one mix (Taken), and one puts a *)
(* speaker in (Added), on a port that is free because it is the lowest of  *)
(* those the registry does not have.                                       *)
(*                                                                         *)
(* Encoders: a spawn belongs to one operation or one restart and is alone  *)
(* (Known).  Uploads: what a manifest lists is in R2, what a pass still    *)
(* has to upload is on the disk (Complete).                                *)
(***************************************************************************)
EXTENDS Broadcast, WellFoundedInduction, TLAPS

-----------------------------------------------------------------------------
(* The lowest free port *)

Less == {p \in Nat \X Nat : p[1] < p[2]}

LEMMA LessIsWellFounded == IsWellFoundedOn(Less, Nat)
  BY NatLessThanWellFounded DEF Less, OpToRel

LEMMA LowestIn == ASSUME NEW S \in SUBSET Nat, S # {} PROVE Lowest(S) \in S
<1>1. PICK p \in S : \A q \in S : ~ (<<q, p>> \in Less)
  BY LessIsWellFounded, WFMin
<1>2. ASSUME NEW q \in S PROVE p <= q
  <2>1. p \in Nat /\ q \in Nat
    OBVIOUS
  <2>2. ~ (q < p)
    BY <1>1, <2>1 DEF Less
  <2>3. QED BY <2>1, <2>2
<1>3. QED BY <1>2 DEF Lowest

-----------------------------------------------------------------------------
(* The inductive invariant *)

Steps == {"idle", "owner", "sync", "resync", "start", "write", "grace", "stop", "halt"}
Operation == [step : Steps, todo : SUBSET Speakers, changed : BOOLEAN]
Write == [ports : SUBSET Ports, by : {"start", "restart"}]
Publisher == [stopped : BOOLEAN, restart : SUBSET Ports, writing : SUBSET Write]

\* The types of TypeOK, of whole functions.
Types ==
    /\ open \subseteq Rooms /\ mode \subseteq open /\ speaking \in [Rooms -> SUBSET Speakers]
    /\ changes \in 0 .. MaxChanges
    /\ chain \in [Rooms -> Seq({"start", "change", "stop"})]
    /\ op \in [Rooms -> Operation]
    /\ session \in [Rooms -> {"none", "idle", "started"}]
    /\ mix \in [Rooms -> [Speakers -> Ports \cup {0}]] /\ used \subseteq Ports
    /\ pub \in [Rooms -> Publisher] /\ encoder \in [Rooms -> SUBSET Ports]
    /\ scenario \in Scenarios

\* Each port of the registry is that of one speaker of one mix, and of no other.
Registered ==
    /\ \A r \in Rooms, s \in Speakers : mix[r][s] # 0 => mix[r][s] \in used
    /\ \A p \in used : \E r \in Rooms, s \in Speakers : mix[r][s] = p
    /\ \A r, q \in Rooms, s, t \in Speakers :
          mix[r][s] # 0 /\ mix[r][s] = mix[q][t] => r = q /\ s = t

\* A sync adds nobody who has a port: that port would be lost.
ToAddUnmixed == \A r \in Rooms : \A s \in op[r].todo : mix[r][s] = 0

MixInv == Types /\ Registered /\ ToAddUnmixed

LEMMA InitInv == Init => MixInv
<1> SUFFICES ASSUME Init PROVE MixInv
  OBVIOUS
<1>1. Types
  BY BroadcastAssumptions
  DEF Init, Types, Operation, Steps, Publisher, Write, Idle, NoMix, NewPublisher
<1>2. Registered /\ ToAddUnmixed
  BY DEF Init, Registered, ToAddUnmixed, NoMix, Idle
<1>3. QED BY <1>1, <1>2 DEF MixInv

-----------------------------------------------------------------------------
(* The three things that happen to the mixes *)

\* Nothing, and no speaker is left to add who was not.
Same ==
    /\ UNCHANGED mixVars
    /\ \A r \in Rooms : op'[r].todo \subseteq op[r].todo

LEMMA SameKeeps == ASSUME MixInv, Types', Same PROVE MixInv'
  BY DEF Same, MixInv, Registered, ToAddUnmixed, mixVars

\* Speakers leave a mix, and those to add, if there are any, were not in it.
Taken(r, gone) ==
    /\ Without(r, gone)
    /\ \A q \in Rooms : q # r => op'[q].todo = op[q].todo
    /\ \A s \in op'[r].todo : mix[r][s] = 0

LEMMA WithoutType ==
    ASSUME Types, NEW r \in Rooms, NEW gone \in SUBSET Speakers, Without(r, gone)
    PROVE  /\ mix' \in [Rooms -> [Speakers -> Ports \cup {0}]]
           /\ used' \subseteq Ports
           /\ \A q \in Rooms, s \in Speakers :
                 mix'[q][s] = IF q = r /\ s \in gone THEN 0 ELSE mix[q][s]
  BY DEF Types, Without

LEMMA TakenKeeps ==
    ASSUME MixInv, Types', NEW r \in Rooms, NEW gone \in SUBSET Speakers, Taken(r, gone)
    PROVE  MixInv'
<1>1. \A q \in Rooms, s \in Speakers :
         mix'[q][s] = IF q = r /\ s \in gone THEN 0 ELSE mix[q][s]
  BY WithoutType DEF MixInv, Taken
<1>2. used' = used \ {mix[r][s] : s \in gone}
  BY DEF Taken, Without
<1>3. Registered'
  <2>1. ASSUME NEW q \in Rooms, NEW s \in Speakers, mix'[q][s] # 0
        PROVE  mix'[q][s] \in used'
    <3>1. mix'[q][s] = mix[q][s] /\ mix[q][s] \in used /\ ~ (q = r /\ s \in gone)
      BY <1>1, <2>1 DEF MixInv, Registered
    <3>2. \A t \in gone : mix[r][t] # mix[q][s]
      BY <2>1, <3>1 DEF MixInv, Registered
    <3>3. QED BY <1>2, <3>1, <3>2
  <2>2. ASSUME NEW p \in used' PROVE \E q \in Rooms, s \in Speakers : mix'[q][s] = p
    <3>1. PICK q \in Rooms, s \in Speakers : mix[q][s] = p
      BY <1>2, <2>2 DEF MixInv, Registered
    <3>2. ~ (q = r /\ s \in gone)
      BY <1>2, <2>2, <3>1
    <3>3. QED BY <1>1, <3>1, <3>2
  <2>3. \A q, o \in Rooms, s, t \in Speakers :
           mix'[q][s] # 0 /\ mix'[q][s] = mix'[o][t] => q = o /\ s = t
    BY <1>1 DEF MixInv, Registered
  <2>4. QED BY <2>1, <2>2, <2>3 DEF Registered
<1>4. ToAddUnmixed'
  <2>1. ASSUME NEW q \in Rooms, NEW s \in op'[q].todo PROVE mix'[q][s] = 0
    <3>1. s \in Speakers
      BY DEF Types, Operation
    <3>2. mix[q][s] = 0
      BY DEF Taken, MixInv, ToAddUnmixed
    <3>3. QED BY <1>1, <3>1, <3>2
  <2>2. QED BY <2>1 DEF ToAddUnmixed
<1>5. QED BY <1>3, <1>4 DEF MixInv

\* A speaker who waits gets a port that the registry does not have.
Added(r, s, p) ==
    /\ mix' = [mix EXCEPT ![r][s] = p] /\ used' = used \cup {p}
    /\ op' = [op EXCEPT ![r].todo = @ \ {s}, ![r].changed = TRUE]

LEMMA AddedKeeps ==
    ASSUME MixInv, Types', NEW r \in Rooms, NEW s \in op[r].todo, NEW p \in Ports \ used,
           Added(r, s, p)
    PROVE  MixInv'
<1>1. s \in Speakers /\ mix[r][s] = 0
  BY DEF MixInv, Types, Operation, ToAddUnmixed
<1>2. p # 0
  BY BroadcastAssumptions
<1>3. \A q \in Rooms, t \in Speakers :
         mix'[q][t] = IF q = r /\ t = s THEN p ELSE mix[q][t]
  BY <1>1 DEF Added, MixInv, Types
<1>4. used' = used \cup {p}
  BY DEF Added
<1>5. Registered'
  <2>1. ASSUME NEW q \in Rooms, NEW t \in Speakers, mix'[q][t] # 0
        PROVE  mix'[q][t] \in used'
    BY <1>3, <1>4, <2>1 DEF MixInv, Registered
  <2>2. ASSUME NEW x \in used' PROVE \E q \in Rooms, t \in Speakers : mix'[q][t] = x
    <3>1. CASE x = p
      BY <1>1, <1>3, <3>1
    <3>2. CASE x # p
      <4>1. PICK q \in Rooms, t \in Speakers : mix[q][t] = x
        BY <1>4, <2>2, <3>2 DEF MixInv, Registered
      <4>2. x # 0
        BY <1>4, <2>2, <3>2, BroadcastAssumptions DEF MixInv, Types
      <4>3. QED BY <1>1, <1>3, <4>1, <4>2
    <3>3. QED BY <3>1, <3>2
  <2>3. \A q, o \in Rooms, t, u \in Speakers :
           mix'[q][t] # 0 /\ mix'[q][t] = mix'[o][u] => q = o /\ t = u
    BY <1>2, <1>3 DEF MixInv, Registered
  <2>4. QED BY <2>1, <2>2, <2>3 DEF Registered
<1>6. ToAddUnmixed'
  <2>1. ASSUME NEW q \in Rooms, NEW t \in op'[q].todo PROVE mix'[q][t] = 0
    <3>1. t \in op[q].todo /\ ~ (q = r /\ t = s) /\ t \in Speakers
      BY DEF Added, MixInv, Types, Operation
    <3>2. mix[q][t] = 0
      BY <3>1 DEF MixInv, ToAddUnmixed
    <3>3. QED BY <1>3, <3>1, <3>2
  <2>2. QED BY <2>1 DEF ToAddUnmixed
<1>7. QED BY <1>5, <1>6 DEF MixInv

-----------------------------------------------------------------------------
(* What happens in the rooms *)

LEMMA RoomsKeep ==
    ASSUME MixInv, NEW r \in Rooms,
           SpeakerComesOrGoes(r) \/ SpeakerKicked(r) \/ onModeTransition(r) \/ RoomCloses(r)
    PROVE  MixInv'
<1>1. changes' \in 0 .. MaxChanges
  BY BroadcastAssumptions
  DEF MixInv, Types, SpeakerComesOrGoes, SpeakerKicked, SpeakerChange, onModeTransition,
      RoomCloses, Happens
<1>2. chain' \in [Rooms -> Seq({"start", "change", "stop"})]
  <2>1. \/ chain' = chain
        \/ \E what \in {"start", "change", "stop"} :
              chain' = [chain EXCEPT ![r] = Append(chain[r], what)]
    <3>1. CASE SpeakerComesOrGoes(r) \/ SpeakerKicked(r)
      BY <3>1 DEF SpeakerComesOrGoes, SpeakerKicked, SpeakerChange, Enqueue
    <3>2. CASE onModeTransition(r)
      BY <3>2 DEF onModeTransition, Enqueue
    <3>3. CASE RoomCloses(r)
      BY <3>3 DEF RoomCloses, Enqueue
    <3>4. QED BY <3>1, <3>2, <3>3
  <2>2. ASSUME NEW what \in {"start", "change", "stop"}
        PROVE  Append(chain[r], what) \in Seq({"start", "change", "stop"})
    BY DEF MixInv, Types
  <2>3. QED BY <2>1, <2>2 DEF MixInv, Types
<1>3. open' \subseteq Rooms /\ mode' \subseteq open'
  BY DEF MixInv, Types, SpeakerComesOrGoes, SpeakerKicked, SpeakerChange, onModeTransition,
         RoomCloses, Happens
<1>4. speaking' \in [Rooms -> SUBSET Speakers]
  <2>1. CASE SpeakerComesOrGoes(r)
    BY <2>1 DEF MixInv, Types, SpeakerComesOrGoes, SpeakerChange
  <2>2. CASE SpeakerKicked(r)
    BY <2>2 DEF MixInv, Types, SpeakerKicked, SpeakerChange
  <2>3. CASE onModeTransition(r)
    BY <2>3 DEF MixInv, Types, onModeTransition
  <2>4. CASE RoomCloses(r)
    BY <2>4 DEF MixInv, Types, RoomCloses
  <2>5. QED BY <2>1, <2>2, <2>3, <2>4
<1>5. UNCHANGED <<op, session, mixVars, pubVars, scenario>>
  BY DEF SpeakerComesOrGoes, SpeakerKicked, SpeakerChange, onModeTransition, RoomCloses
<1>6. Types'
  BY <1>1, <1>2, <1>3, <1>4, <1>5 DEF MixInv, Types, mixVars, pubVars
<1>7. Same
  BY <1>5 DEF Same
<1>8. QED BY <1>6, <1>7, SameKeeps

-----------------------------------------------------------------------------
(* The publisher and the uploads *)

\* The operation of a room goes on to another step, or is done.
LEMMA StepTo ==
    ASSUME Types, NEW r \in Rooms, NEW to \in Steps, Step(r, to)
    PROVE  /\ op' \in [Rooms -> Operation]
           /\ \A q \in Rooms : op'[q].todo = op[q].todo
  BY DEF Types, Operation, Step

LEMMA DoneTo ==
    ASSUME Types, NEW r \in Rooms, Done(r)
    PROVE  /\ op' \in [Rooms -> Operation]
           /\ \A q \in Rooms : op'[q].todo \subseteq op[q].todo
  BY DEF Types, Operation, Steps, Done, Idle

LEMMA SpawnType ==
    ASSUME Types, NEW r \in Rooms, NEW by \in {"start", "restart"}, NEW ports \in SUBSET Ports,
           BeginSpawn(r, by, ports)
    PROVE  pub' \in [Rooms -> Publisher] /\ encoder' \in [Rooms -> SUBSET Ports]
  BY DEF Types, BeginSpawn, Publisher, Write

LEMMA StopType ==
    ASSUME Types, NEW r \in Rooms, StopEncoder(r)
    PROVE  pub' \in [Rooms -> Publisher] /\ encoder' \in [Rooms -> SUBSET Ports]
<1> DEFINE p == [pub[r] EXCEPT !.stopped = TRUE, !.restart = {}]
<1>1. p \in Publisher
  BY DEF Types, Publisher
<1>2. pub' = [pub EXCEPT ![r] = p] /\ encoder' = [encoder EXCEPT ![r] = {}]
  BY DEF StopEncoder
<1> HIDE DEF p
<1>3. QED BY <1>1, <1>2 DEF Types

LEMMA MixPortsType == ASSUME Types, NEW r \in Rooms PROVE MixPorts(r) \subseteq Ports
  BY DEF Types, MixPorts, Mixed

\* Whatever leaves the mixes alone and keeps the rest in its types keeps the invariant.
LEMMA PublisherKeeps ==
    ASSUME MixInv, UNCHANGED <<roomVars, chain, mixVars, scenario>>,
           op' \in [Rooms -> Operation], \A r \in Rooms : op'[r].todo \subseteq op[r].todo,
           session' \in [Rooms -> {"none", "idle", "started"}],
           pub' \in [Rooms -> Publisher], encoder' \in [Rooms -> SUBSET Ports]
    PROVE  MixInv'
<1>1. Types'
  BY DEF MixInv, Types, roomVars, mixVars
<1>2. QED BY <1>1, SameKeeps DEF Same

LEMMA StartKeeps == ASSUME MixInv, NEW r \in Rooms, Start(r) PROVE MixInv'
<1>1. /\ op' \in [Rooms -> Operation]
      /\ \A q \in Rooms : op'[q].todo \subseteq op[q].todo
  BY StepTo DEF Start, MixInv, Steps
<1>2. pub' \in [Rooms -> Publisher] /\ encoder' \in [Rooms -> SUBSET Ports]
  BY SpawnType, MixPortsType DEF Start, MixInv
<1>3. QED BY <1>1, <1>2, PublisherKeeps DEF Start, MixInv, Types

LEMMA RestartKeeps == ASSUME MixInv, NEW r \in Rooms, RestartFires(r) PROVE MixInv'
<1>1. pub[r].restart \subseteq Ports
  BY DEF MixInv, Types, Publisher
<1>2. pub' \in [Rooms -> Publisher] /\ encoder' \in [Rooms -> SUBSET Ports]
  BY <1>1, SpawnType DEF RestartFires, MixInv
<1>3. QED BY <1>2, PublisherKeeps DEF RestartFires, MixInv, Types

LEMMA SpawnKeeps == ASSUME MixInv, NEW r \in Rooms, Spawn(r) PROVE MixInv'
<1>1. PICK w \in pub[r].writing :
         /\ pub' = [pub EXCEPT ![r].writing = @ \ {w}]
         /\ encoder' = encoder \/ encoder' = [encoder EXCEPT ![r] = w.ports]
         /\ Step(r, "grace") \/ UNCHANGED op
  BY DEF Spawn
<1>2. pub' \in [Rooms -> Publisher]
  <2> DEFINE p == [pub[r] EXCEPT !.writing = @ \ {w}]
  <2>1. p \in Publisher
    BY DEF MixInv, Types, Publisher
  <2>2. pub' = [pub EXCEPT ![r] = p]
    BY <1>1
  <2> HIDE DEF p
  <2>3. QED BY <2>1, <2>2 DEF MixInv, Types
<1>3. w.ports \subseteq Ports
  BY DEF MixInv, Types, Publisher, Write
<1>4. encoder' \in [Rooms -> SUBSET Ports]
  BY <1>1, <1>3 DEF MixInv, Types
<1>5. /\ op' \in [Rooms -> Operation]
      /\ \A q \in Rooms : op'[q].todo \subseteq op[q].todo
  <2>1. CASE Step(r, "grace")
    BY <2>1, StepTo DEF MixInv, Steps
  <2>2. CASE UNCHANGED op
    BY <2>2 DEF MixInv, Types
  <2>3. QED BY <1>1, <2>1, <2>2
<1>6. QED BY <1>2, <1>4, <1>5, PublisherKeeps DEF Spawn, MixInv, Types

LEMMA GraceKeeps == ASSUME MixInv, NEW r \in Rooms, GraceOver(r) PROVE MixInv'
<1>1. /\ op' \in [Rooms -> Operation]
      /\ \A q \in Rooms : op'[q].todo \subseteq op[q].todo
  BY DoneTo DEF GraceOver, MixInv
<1>2. session' \in [Rooms -> {"none", "idle", "started"}]
  BY DEF GraceOver, MixInv, Types
<1>3. QED BY <1>1, <1>2, PublisherKeeps DEF GraceOver, pubVars, MixInv, Types

LEMMA StopDoneKeeps == ASSUME MixInv, NEW r \in Rooms, StopDone(r) PROVE MixInv'
<1>1. /\ op' \in [Rooms -> Operation]
      /\ \A q \in Rooms : op'[q].todo \subseteq op[q].todo
  BY DoneTo DEF StopDone, MixInv
<1>2. session' \in [Rooms -> {"none", "idle", "started"}]
  BY DEF StopDone, MixInv, Types
<1>3. QED BY <1>1, <1>2, PublisherKeeps DEF StopDone, pubVars, MixInv, Types

LEMMA ExitKeeps == ASSUME MixInv, NEW r \in Rooms, EncoderExits(r) PROVE MixInv'
<1>1. encoder' \in [Rooms -> SUBSET Ports]
  BY DEF EncoderExits, MixInv, Types
<1>2. QED BY <1>1, PublisherKeeps DEF EncoderExits, MixInv, Types

LEMMA UploadsKeep ==
    ASSUME MixInv, NEW r \in Rooms, EncoderWrites(r) \/ Pass(r) PROVE MixInv'
<1>1. UNCHANGED encoderVars
  BY DEF EncoderWrites, Pass, BeginPass, UploadSegment, UploadManifest
<1>2. QED BY <1>1, PublisherKeeps DEF encoderVars, pubVars, MixInv, Types

-----------------------------------------------------------------------------
(* The controller *)

\* An operation is taken from the chain, and the rooms stay as they are.
LEMMA DequeueType ==
    ASSUME Types, NEW r \in Rooms, NEW what, Dequeue(r, what)
    PROVE  /\ UNCHANGED <<roomVars, scenario>>
           /\ chain' \in [Rooms -> Seq({"start", "change", "stop"})]
           /\ op[r].todo = {}
  BY DEF Types, Dequeue, Idle

LEMMA SyncType ==
    ASSUME Types, NEW r \in Rooms, NEW step \in {"sync", "resync"}, BeginSync(r, step)
    PROVE  /\ op' \in [Rooms -> Operation]
           /\ mix' \in [Rooms -> [Speakers -> Ports \cup {0}]] /\ used' \subseteq Ports
           /\ \E gone \in SUBSET Speakers : Taken(r, gone)
<1> DEFINE gone == Mixed(r) \ speaking[r]
<1> DEFINE o == [step |-> step, todo |-> speaking[r] \ Mixed(r), changed |-> gone # {}]
<1>1. gone \in SUBSET Speakers /\ Without(r, gone)
  BY DEF Mixed, BeginSync
<1>2. o \in Operation /\ op' = [op EXCEPT ![r] = o]
  BY DEF BeginSync, Types, Operation, Steps
<1>3. \A s \in o.todo : mix[r][s] = 0
  BY DEF Mixed, Types
<1> HIDE DEF gone, o
<1>4. op' \in [Rooms -> Operation] /\ \A q \in Rooms : op'[q] = IF q = r THEN o ELSE op[q]
  BY <1>2 DEF Types
<1>5. Taken(r, gone)
  BY <1>1, <1>3, <1>4 DEF Taken
<1>6. QED BY <1>1, <1>4, <1>5, WithoutType

LEMMA StartBroadcastKeeps == ASSUME MixInv, NEW r \in Rooms, startBroadcast(r) PROVE MixInv'
<1>1. /\ op' \in [Rooms -> Operation]
      /\ \A q \in Rooms : op'[q].todo \subseteq op[q].todo
  <2>1. CASE Step(r, "owner")
    BY <2>1, StepTo DEF MixInv, Steps
  <2>2. CASE UNCHANGED op
    BY <2>2 DEF MixInv, Types
  <2>3. QED BY <2>1, <2>2 DEF startBroadcast
<1>2. UNCHANGED <<roomVars, scenario>> /\ chain' \in [Rooms -> Seq({"start", "change", "stop"})]
  BY DequeueType DEF startBroadcast, MixInv
<1>3. Types'
  BY <1>1, <1>2 DEF startBroadcast, MixInv, Types, roomVars, mixVars, pubVars
<1>4. QED BY <1>1, <1>3, SameKeeps DEF Same, startBroadcast

LEMMA OwnerKnownKeeps == ASSUME MixInv, NEW r \in Rooms, OwnerKnown(r) PROVE MixInv'
<1>1. /\ op' \in [Rooms -> Operation]
      /\ mix' \in [Rooms -> [Speakers -> Ports \cup {0}]] /\ used' \subseteq Ports
      /\ \E gone \in SUBSET Speakers : Taken(r, gone)
  BY SyncType DEF OwnerKnown, MixInv
<1>2. session' \in [Rooms -> {"none", "idle", "started"}] /\ pub' \in [Rooms -> Publisher]
  BY DEF OwnerKnown, MixInv, Types, Publisher, NewPublisher
<1>3. Types'
  BY <1>1, <1>2 DEF OwnerKnown, MixInv, Types, roomVars
<1>4. QED BY <1>1, <1>3, TakenKeeps

LEMMA NotOwnerKeeps == ASSUME MixInv, NEW r \in Rooms, NotOwner(r) PROVE MixInv'
<1>1. /\ op' \in [Rooms -> Operation]
      /\ \A q \in Rooms : op'[q].todo \subseteq op[q].todo
  BY DoneTo DEF NotOwner, MixInv
<1>2. QED BY <1>1, PublisherKeeps DEF NotOwner, pubVars, MixInv, Types

LEMMA ReconcileKeeps == ASSUME MixInv, NEW r \in Rooms, reconcile(r) PROVE MixInv'
<1>1. UNCHANGED <<roomVars, scenario>> /\ chain' \in [Rooms -> Seq({"start", "change", "stop"})]
  BY DequeueType DEF reconcile, MixInv
<1>2. CASE BeginSync(r, "resync")
  <2>1. /\ op' \in [Rooms -> Operation]
        /\ mix' \in [Rooms -> [Speakers -> Ports \cup {0}]] /\ used' \subseteq Ports
        /\ \E gone \in SUBSET Speakers : Taken(r, gone)
    BY <1>2, SyncType DEF MixInv
  <2>2. Types'
    BY <1>1, <2>1 DEF reconcile, MixInv, Types, roomVars, pubVars
  <2>3. QED BY <2>1, <2>2, TakenKeeps
<1>3. CASE UNCHANGED <<op, mixVars>>
  <2>1. Types'
    BY <1>1, <1>3 DEF reconcile, MixInv, Types, roomVars, mixVars, pubVars
  <2>2. QED BY <1>3, <2>1, SameKeeps DEF Same
<1>4. QED BY <1>2, <1>3 DEF reconcile

LEMMA StopRoomKeeps == ASSUME MixInv, NEW r \in Rooms, stopRoom(r) PROVE MixInv'
<1>1. /\ UNCHANGED <<roomVars, scenario>> /\ op[r].todo = {}
      /\ chain' \in [Rooms -> Seq({"start", "change", "stop"})]
  BY DequeueType DEF stopRoom, MixInv
<1>2. CASE session[r] = "none"
  <2>1. UNCHANGED <<op, session, mixVars, pubVars>>
    BY <1>2 DEF stopRoom
  <2>2. Types'
    BY <1>1, <2>1 DEF MixInv, Types, roomVars, mixVars, pubVars
  <2>3. QED BY <2>1, <2>2, SameKeeps DEF Same
<1>3. CASE session[r] # "none"
  <2>1. Without(r, Mixed(r)) /\ StopEncoder(r) /\ Step(r, "stop") /\ Mixed(r) \in SUBSET Speakers
    BY <1>3 DEF stopRoom, Mixed
  <2>2. op' \in [Rooms -> Operation] /\ \A q \in Rooms : op'[q].todo = op[q].todo
    BY <2>1, StepTo DEF MixInv, Steps
  <2>3. mix' \in [Rooms -> [Speakers -> Ports \cup {0}]] /\ used' \subseteq Ports
    BY <2>1, WithoutType DEF MixInv
  <2>4. session' \in [Rooms -> {"none", "idle", "started"}]
    BY <1>3 DEF stopRoom, MixInv, Types
  <2>5. pub' \in [Rooms -> Publisher] /\ encoder' \in [Rooms -> SUBSET Ports]
    BY <2>1, StopType DEF MixInv
  <2>6. Types'
    BY <1>1, <2>2, <2>3, <2>4, <2>5 DEF MixInv, Types, roomVars
  <2>7. Taken(r, Mixed(r))
    BY <1>1, <2>1, <2>2 DEF Taken
  <2>8. QED BY <2>1, <2>6, <2>7, TakenKeeps
<1>4. QED BY <1>2, <1>3

LEMMA AddSpeakerKeeps == ASSUME MixInv, NEW r \in Rooms, AddSpeaker(r) PROVE MixInv'
<1>1. PICK s \in op[r].todo :
         \/ Free(r) # {} /\ Added(r, s, Lowest(Free(r)))
         \/ op' = [op EXCEPT ![r].todo = @ \ {s}] /\ UNCHANGED mixVars
         \/ Done(r) /\ UNCHANGED mixVars
  BY DEF AddSpeaker, Added
<1>2. UNCHANGED <<roomVars, chain, session, pubVars, scenario>>
  BY DEF AddSpeaker
<1>3. CASE Free(r) # {} /\ Added(r, s, Lowest(Free(r)))
  <2> DEFINE p == Lowest(Free(r))
  <2>1. Free(r) \subseteq Ports \ used
    BY DEF Free, Pool
  <2>2. p \in Ports \ used
    BY <1>3, <2>1, LowestIn, BroadcastAssumptions
  <2> HIDE DEF p
  <2>3. s \in Speakers
    BY DEF MixInv, Types, Operation
  <2>4. mix' \in [Rooms -> [Speakers -> Ports \cup {0}]] /\ used' \subseteq Ports
    BY <1>3, <2>2, <2>3 DEF Added, MixInv, Types, p
  <2>5. op' \in [Rooms -> Operation]
    BY <1>3 DEF Added, MixInv, Types, Operation
  <2>6. Types'
    BY <1>2, <2>4, <2>5 DEF MixInv, Types, roomVars, pubVars
  <2>7. QED BY <1>3, <2>2, <2>6, AddedKeeps DEF p
<1>4. CASE op' = [op EXCEPT ![r].todo = @ \ {s}] /\ UNCHANGED mixVars
  <2>1. /\ op' \in [Rooms -> Operation]
        /\ \A q \in Rooms : op'[q].todo \subseteq op[q].todo
    BY <1>4 DEF MixInv, Types, Operation
  <2>2. QED BY <1>2, <1>4, <2>1, PublisherKeeps DEF MixInv, Types, pubVars
<1>5. CASE Done(r) /\ UNCHANGED mixVars
  <2>1. /\ op' \in [Rooms -> Operation]
        /\ \A q \in Rooms : op'[q].todo \subseteq op[q].todo
    BY <1>5, DoneTo DEF MixInv
  <2>2. QED BY <1>2, <1>5, <2>1, PublisherKeeps DEF MixInv, Types, pubVars
<1>6. QED BY <1>1, <1>3, <1>4, <1>5

LEMMA SyncDoneKeeps == ASSUME MixInv, NEW r \in Rooms, SyncDone(r) PROVE MixInv'
<1>1. UNCHANGED <<roomVars, chain, session, mixVars, scenario>>
  BY DEF SyncDone
<1>2. /\ op' \in [Rooms -> Operation]
      /\ \A q \in Rooms : op'[q].todo \subseteq op[q].todo
  <2>1. CASE Done(r)
    BY <2>1, DoneTo DEF MixInv
  <2>2. CASE Step(r, "halt") \/ Step(r, "start")
    BY <2>2, StepTo DEF MixInv, Steps
  <2>3. QED BY <2>1, <2>2 DEF SyncDone
<1>3. pub' \in [Rooms -> Publisher] /\ encoder' \in [Rooms -> SUBSET Ports]
  <2>1. CASE UNCHANGED pubVars
    BY <2>1 DEF MixInv, Types, pubVars
  <2>2. CASE pub' = [pub EXCEPT ![r].restart = Restarted(r)] /\ UNCHANGED <<encoder, orphans>>
    BY <2>2, MixPortsType DEF MixInv, Types, Publisher, Restarted
  <2>3. CASE StopEncoder(r)
    BY <2>3, StopType DEF MixInv
  <2>4. QED BY <2>1, <2>2, <2>3 DEF SyncDone
<1>4. QED BY <1>1, <1>2, <1>3, PublisherKeeps DEF MixInv, Types

LEMMA ControllerKeeps == ASSUME MixInv, NEW r \in Rooms, Controller(r) PROVE MixInv'
  BY StartBroadcastKeeps, OwnerKnownKeeps, NotOwnerKeeps, ReconcileKeeps, StopRoomKeeps,
     AddSpeakerKeeps, SyncDoneKeeps, StartKeeps, GraceKeeps, StopDoneKeeps DEF Controller

-----------------------------------------------------------------------------
(* The theorem *)

LEMMA StepKeeps == MixInv /\ [Next]_broadcastVars => MixInv'
<1> SUFFICES ASSUME MixInv, [Next]_broadcastVars PROVE MixInv'
  OBVIOUS
<1>1. CASE Next
  <2>1. PICK r \in Rooms :
           \/ SpeakerComesOrGoes(r) \/ SpeakerKicked(r) \/ onModeTransition(r) \/ RoomCloses(r)
           \/ Controller(r) \/ RestartFires(r) \/ Spawn(r) \/ EncoderExits(r)
           \/ EncoderWrites(r) \/ Pass(r)
    BY <1>1 DEF Next
  <2>2. QED
    BY <2>1, RoomsKeep, ControllerKeeps, RestartKeeps, SpawnKeeps, ExitKeeps, UploadsKeep
<1>2. CASE UNCHANGED broadcastVars
  <2>1. UNCHANGED <<roomVars, chain, op, session, mixVars, pubVars, scenario>>
    BY <1>2 DEF broadcastVars
  <2>2. QED BY <2>1, PublisherKeeps DEF pubVars, MixInv, Types
<1>3. QED BY <1>1, <1>2

LEMMA InvImplies == MixInv => PortsAccounted
<1> SUFFICES ASSUME MixInv PROVE PortsAccounted
  OBVIOUS
<1>1. TypeOK
  <2>1. \A r \in Rooms : \A i \in DOMAIN chain[r] : chain[r][i] \in {"start", "change", "stop"}
    BY DEF MixInv, Types
  <2>2. \A r \in Rooms : /\ op[r].step \in Steps
                         /\ pub[r].restart \subseteq Ports /\ pub[r].writing \subseteq Write
    BY DEF MixInv, Types, Operation, Publisher
  <2>3. QED BY <2>1, <2>2 DEF MixInv, Types, TypeOK, Steps, Write
<1>2. used = UNION {MixPorts(r) : r \in Rooms}
  <2>1. ASSUME NEW p \in used PROVE \E r \in Rooms : p \in MixPorts(r)
    <3>1. PICK r \in Rooms, s \in Speakers : mix[r][s] = p
      BY DEF MixInv, Registered
    <3>2. p # 0
      BY BroadcastAssumptions DEF MixInv, Types
    <3>3. QED BY <3>1, <3>2 DEF MixPorts, Mixed
  <2>2. ASSUME NEW r \in Rooms, NEW p \in MixPorts(r) PROVE p \in used
    BY DEF MixInv, Registered, MixPorts, Mixed
  <2>3. QED BY <2>1, <2>2
<1>3. \A r \in Rooms : \A s, t \in Mixed(r) : mix[r][s] = mix[r][t] => s = t
  BY DEF MixInv, Registered, Mixed
<1>4. \A r, q \in Rooms : r # q => MixPorts(r) \cap MixPorts(q) = {}
  BY DEF MixInv, Registered, MixPorts, Mixed
<1>5. QED BY <1>1, <1>2, <1>3, <1>4 DEF PortsAccounted

\* Whatever rooms open, close, fail and resync over one registry, however few its ports:
\* no port is leaked and none is given to two speakers (mixer-port-registry.ts:10).
THEOREM PortsAccountedAlways == Spec => []PortsAccounted
<1>1. Init => MixInv
  BY InitInv
<1>2. MixInv /\ [Next]_broadcastVars => MixInv'
  BY StepKeeps
<1>3. MixInv => PortsAccounted
  BY InvImplies
<1>4. QED BY <1>1, <1>2, <1>3, PTL DEF Spec

-----------------------------------------------------------------------------
(* Every encoder is known to its session *)

\* What a room's operation, session and publisher have to do with one another while no
\* write of an SDP outlasts what comes after it: a spawn belongs to the operation that
\* starts the encoder or to a restart of a session that has started, and it is alone.
Known(r) ==
    /\ encoder[r] # {} => session[r] # "none"
    /\ op[r].step \in {"owner", "stop"} => session[r] = "none"
    /\ op[r].step \in {"sync", "resync"} => session[r] # "none"
    /\ op[r].step \in {"start", "write", "grace"} => session[r] = "idle"
    /\ op[r].step = "halt" => session[r] = "started"
    /\ pub[r].restart # {} => session[r] = "started" /\ op[r].step # "halt"
    /\ \A w \in pub[r].writing :
          /\ encoder[r] = {} /\ \A v \in pub[r].writing : v = w
          /\ \/ w.by = "restart" /\ session[r] = "started" /\ op[r].step # "halt"
             \/ w.by = "start" /\ session[r] = "idle" /\ op[r].step = "write"

Tidy == orphans = {} /\ \A r \in Rooms : Known(r)
TidyInv == MixInv /\ (~Slow => Tidy)

\* The rooms other than r are left alone.
OnlyRoom(r) ==
    \A q \in Rooms \ {r} :
       op'[q] = op[q] /\ session'[q] = session[q] /\ pub'[q] = pub[q] /\ encoder'[q] = encoder[q]

LEMMA RoomTidy ==
    ASSUME Tidy, NEW r \in Rooms, OnlyRoom(r), orphans' = {}, Known(r)' PROVE Tidy'
<1>1. ASSUME NEW q \in Rooms PROVE Known(q)'
  <2>1. CASE q = r
    BY <2>1
  <2>2. CASE q # r
    BY <2>2 DEF Tidy, OnlyRoom, Known
  <2>3. QED BY <2>1, <2>2
<1>2. QED BY <1>1 DEF Tidy

LEMMA StepAt ==
    ASSUME Types, NEW r \in Rooms, NEW to, Step(r, to)
    PROVE  /\ op'[r].step = to
           /\ \A q \in Rooms \ {r} : op'[q] = op[q]
  BY DEF Types, Operation, Step

LEMMA DoneAt ==
    ASSUME Types, NEW r \in Rooms, Done(r)
    PROVE  op'[r].step = "idle" /\ \A q \in Rooms \ {r} : op'[q] = op[q]
  BY DEF Types, Done, Idle

LEMMA SyncAt ==
    ASSUME Types, NEW r \in Rooms, NEW step, BeginSync(r, step)
    PROVE  op'[r].step = step /\ \A q \in Rooms \ {r} : op'[q] = op[q]
  BY DEF Types, BeginSync

\* A stop leaves no encoder, no restart and no write.
LEMMA StopAt ==
    ASSUME Types, ~Slow, NEW r \in Rooms, StopEncoder(r)
    PROVE  /\ encoder'[r] = {} /\ pub'[r].restart = {} /\ pub'[r].writing = {}
           /\ orphans' = orphans
           /\ \A q \in Rooms \ {r} : pub'[q] = pub[q] /\ encoder'[q] = encoder[q]
<1> DEFINE p == [pub[r] EXCEPT !.stopped = TRUE, !.restart = {}]
<1>1. p.restart = {} /\ p.writing = {}
  BY DEF Types, Publisher, StopEncoder
<1>2. pub' = [pub EXCEPT ![r] = p] /\ encoder' = [encoder EXCEPT ![r] = {}] /\ orphans' = orphans
  BY DEF StopEncoder, Killed
<1> HIDE DEF p
<1>3. QED BY <1>1, <1>2 DEF Types

\* A spawn that begins when no other is under way is alone.
LEMMA SpawnAt ==
    ASSUME Types, NEW r \in Rooms, NEW by, NEW ports, BeginSpawn(r, by, ports), pub[r].writing = {}
    PROVE  /\ encoder'[r] = {} /\ pub'[r].restart = {}
           /\ pub'[r].writing = {[ports |-> ports, by |-> by]} /\ orphans' = orphans
           /\ \A q \in Rooms \ {r} : pub'[q] = pub[q] /\ encoder'[q] = encoder[q]
  BY DEF Types, BeginSpawn, Killed

LEMMA StartTidy ==
    ASSUME MixInv, ~Slow, Tidy, NEW r \in Rooms, Start(r) PROVE Tidy'
<1>1. op[r].step = "start" /\ session[r] = "idle" /\ orphans = {}
  BY DEF Start, Tidy, Known
<1>2. pub[r].writing = {}
  <2>1. ASSUME NEW w \in pub[r].writing PROVE FALSE
    BY <1>1 DEF Tidy, Known
  <2>2. QED BY <2>1
<1>3. /\ encoder'[r] = {} /\ pub'[r].restart = {} /\ orphans' = orphans
      /\ pub'[r].writing = {[ports |-> MixPorts(r), by |-> "start"]}
      /\ \A q \in Rooms \ {r} : pub'[q] = pub[q] /\ encoder'[q] = encoder[q]
  BY <1>2, SpawnAt DEF Start, MixInv
<1>4. op'[r].step = "write" /\ \A q \in Rooms \ {r} : op'[q] = op[q]
  BY StepAt DEF Start, MixInv
<1>5. session' = session
  BY DEF Start
<1>6. Known(r)'
  BY <1>1, <1>3, <1>4, <1>5 DEF Known
<1>7. QED BY <1>1, <1>3, <1>4, <1>5, <1>6, RoomTidy DEF OnlyRoom

LEMMA RestartTidy ==
    ASSUME MixInv, ~Slow, Tidy, NEW r \in Rooms, RestartFires(r) PROVE Tidy'
<1>1. /\ pub[r].writing = {} /\ session[r] = "started" /\ op[r].step # "halt" /\ orphans = {}
      /\ UNCHANGED <<op, session>>
  BY DEF RestartFires, Tidy, Known
<1>2. /\ encoder'[r] = {} /\ pub'[r].restart = {} /\ orphans' = orphans
      /\ pub'[r].writing = {[ports |-> pub[r].restart, by |-> "restart"]}
      /\ \A q \in Rooms \ {r} : pub'[q] = pub[q] /\ encoder'[q] = encoder[q]
  BY <1>1, SpawnAt DEF RestartFires, MixInv
<1>3. Known(r)'
  BY <1>1, <1>2 DEF Known, Tidy
<1>4. QED BY <1>1, <1>2, <1>3, RoomTidy DEF OnlyRoom

\* The write that ends is the only one, and its session knows the encoder.
LEMMA SpawnTidy ==
    ASSUME MixInv, ~Slow, Tidy, NEW r \in Rooms, Spawn(r) PROVE Tidy'
<1>1. PICK w \in pub[r].writing :
         /\ pub' = [pub EXCEPT ![r].writing = @ \ {w}]
         /\ IF session[r] = "none"
            THEN orphans' = orphans \cup {[room |-> r, ports |-> w.ports]} /\ UNCHANGED encoder
            ELSE /\ encoder' = [encoder EXCEPT ![r] = w.ports]
                 /\ orphans' = IF encoder[r] = {} THEN orphans
                               ELSE orphans \cup {[room |-> r, ports |-> encoder[r]]}
         /\ IF w.by = "start" THEN Step(r, "grace") ELSE UNCHANGED op
  BY DEF Spawn
<1>2. /\ encoder[r] = {} /\ (\A v \in pub[r].writing : v = w) /\ session[r] # "none"
      /\ orphans = {} /\ session' = session
      /\ \/ w.by = "restart" /\ session[r] = "started" /\ op[r].step # "halt"
         \/ w.by = "start" /\ session[r] = "idle" /\ op[r].step = "write"
  BY DEF Tidy, Known, Spawn
<1>3. /\ pub'[r].writing = {} /\ pub'[r].restart = pub[r].restart
      /\ \A q \in Rooms \ {r} : pub'[q] = pub[q]
  <2> DEFINE p == [pub[r] EXCEPT !.writing = @ \ {w}]
  <2>1. p.writing = {} /\ p.restart = pub[r].restart
    BY <1>2 DEF MixInv, Types, Publisher
  <2>2. pub' = [pub EXCEPT ![r] = p]
    BY <1>1
  <2> HIDE DEF p
  <2>3. QED BY <2>1, <2>2 DEF MixInv, Types
<1>4. orphans' = {} /\ \A q \in Rooms \ {r} : encoder'[q] = encoder[q]
  BY <1>1, <1>2 DEF MixInv, Types
<1>5. CASE w.by = "start"
  <2>1. op'[r].step = "grace" /\ \A q \in Rooms \ {r} : op'[q] = op[q]
    BY <1>1, <1>5, StepAt DEF MixInv
  <2>2. Known(r)'
    BY <1>2, <1>3, <1>5, <2>1 DEF Known, Tidy
  <2>3. QED BY <1>2, <1>3, <1>4, <2>1, <2>2, RoomTidy DEF OnlyRoom
<1>6. CASE w.by # "start"
  <2>1. Known(r)' /\ op' = op
    BY <1>1, <1>2, <1>3, <1>6 DEF Known, Tidy
  <2>2. QED BY <1>2, <1>3, <1>4, <2>1, RoomTidy DEF OnlyRoom
<1>7. QED BY <1>5, <1>6

LEMMA GraceTidy ==
    ASSUME MixInv, ~Slow, Tidy, NEW r \in Rooms, GraceOver(r) PROVE Tidy'
<1>1. op'[r].step = "idle" /\ \A q \in Rooms \ {r} : op'[q] = op[q]
  BY DoneAt DEF GraceOver, MixInv
<1>2. session'[r] = "started" /\ \A q \in Rooms \ {r} : session'[q] = session[q]
  BY DEF GraceOver, MixInv, Types
<1>3. UNCHANGED <<pub, encoder, orphans>> /\ op[r].step = "grace"
  BY DEF GraceOver, pubVars
<1>4. Known(r)'
  BY <1>1, <1>2, <1>3 DEF Known, Tidy
<1>5. QED BY <1>1, <1>2, <1>3, <1>4, RoomTidy DEF OnlyRoom, Tidy

LEMMA StopDoneTidy ==
    ASSUME MixInv, ~Slow, Tidy, NEW r \in Rooms, StopDone(r) PROVE Tidy'
<1>1. op'[r].step = "idle" /\ \A q \in Rooms \ {r} : op'[q] = op[q]
  BY DoneAt DEF StopDone, MixInv
<1>2. /\ UNCHANGED <<pub, encoder, orphans>> /\ op[r].step \in {"stop", "halt"}
      /\ session'[r] = IF op[r].step = "halt" THEN "idle" ELSE session[r]
      /\ \A q \in Rooms \ {r} : session'[q] = session[q]
  BY DEF StopDone, pubVars, MixInv, Types
<1>3. Known(r)'
  BY <1>1, <1>2 DEF Known, Tidy
<1>4. QED BY <1>1, <1>2, <1>3, RoomTidy DEF OnlyRoom, Tidy

LEMMA StartBroadcastTidy ==
    ASSUME MixInv, ~Slow, Tidy, NEW r \in Rooms, startBroadcast(r) PROVE Tidy'
<1>1. UNCHANGED <<session, pub, encoder, orphans>> /\ op[r].step = "idle"
  BY DEF startBroadcast, Dequeue, pubVars, Idle
<1>2. CASE session[r] = "none"
  <2>1. op'[r].step = "owner" /\ \A q \in Rooms \ {r} : op'[q] = op[q]
    BY <1>2, StepAt DEF startBroadcast, MixInv
  <2>2. Known(r)'
    BY <1>1, <1>2, <2>1 DEF Known, Tidy
  <2>3. QED BY <1>1, <2>1, <2>2, RoomTidy DEF OnlyRoom, Tidy
<1>3. CASE session[r] # "none"
  <2>1. op' = op
    BY <1>3 DEF startBroadcast
  <2>2. QED BY <1>1, <2>1 DEF Tidy, Known
<1>4. QED BY <1>2, <1>3

LEMMA OwnerKnownTidy ==
    ASSUME MixInv, ~Slow, Tidy, NEW r \in Rooms, OwnerKnown(r) PROVE Tidy'
<1>1. op[r].step = "owner" /\ session[r] = "none" /\ orphans = {} /\ encoder' = encoder
  BY DEF OwnerKnown, Tidy, Known
<1>2. pub[r].writing = {}
  <2>1. ASSUME NEW w \in pub[r].writing PROVE FALSE
    BY <1>1 DEF Tidy, Known
  <2>2. QED BY <2>1
<1>3. orphans' = {}
  BY <1>1, <1>2 DEF OwnerKnown
<1>4. op'[r].step = "sync" /\ \A q \in Rooms \ {r} : op'[q] = op[q]
  BY SyncAt DEF OwnerKnown, MixInv
<1>5. /\ session'[r] = "idle" /\ pub'[r].restart = {} /\ pub'[r].writing = {}
      /\ \A q \in Rooms \ {r} : session'[q] = session[q] /\ pub'[q] = pub[q]
  BY DEF OwnerKnown, NewPublisher, MixInv, Types
<1>6. Known(r)'
  BY <1>4, <1>5 DEF Known
<1>7. QED BY <1>1, <1>3, <1>4, <1>5, <1>6, RoomTidy DEF OnlyRoom

\* An operation that only ends, or goes on with a sync of the session it has.
LEMMA OperationTidy ==
    ASSUME MixInv, Tidy, NEW r \in Rooms, UNCHANGED <<session, pub, encoder, orphans>>,
           \A q \in Rooms \ {r} : op'[q] = op[q],
           op[r].step \notin {"write", "halt"},
           \/ op'[r].step = "idle"
           \/ op'[r].step \in {"sync", "resync"} /\ session[r] # "none"
    PROVE  Tidy'
<1>1. Known(r)'
  BY DEF Known, Tidy
<1>2. QED BY <1>1, RoomTidy DEF OnlyRoom, Tidy

LEMMA NotOwnerTidy ==
    ASSUME MixInv, ~Slow, Tidy, NEW r \in Rooms, NotOwner(r) PROVE Tidy'
<1>1. op'[r].step = "idle" /\ \A q \in Rooms \ {r} : op'[q] = op[q]
  BY DoneAt DEF NotOwner, MixInv
<1>2. QED BY <1>1, OperationTidy DEF NotOwner, pubVars

LEMMA ReconcileTidy ==
    ASSUME MixInv, ~Slow, Tidy, NEW r \in Rooms, reconcile(r) PROVE Tidy'
<1>1. UNCHANGED <<session, pub, encoder, orphans>> /\ op[r].step = "idle"
  BY DEF reconcile, Dequeue, pubVars, Idle
<1>2. CASE session[r] # "none" /\ BeginSync(r, "resync")
  <2>1. op'[r].step = "resync" /\ \A q \in Rooms \ {r} : op'[q] = op[q]
    BY <1>2, SyncAt DEF MixInv
  <2>2. QED BY <1>1, <1>2, <2>1, OperationTidy
<1>3. CASE op' = op
  BY <1>1, <1>3 DEF Tidy, Known
<1>4. QED BY <1>2, <1>3 DEF reconcile

LEMMA StopRoomTidy ==
    ASSUME MixInv, ~Slow, Tidy, NEW r \in Rooms, stopRoom(r) PROVE Tidy'
<1>1. CASE session[r] = "none"
  BY <1>1 DEF stopRoom, Tidy, Known, pubVars
<1>2. CASE session[r] # "none"
  <2>1. StopEncoder(r) /\ Step(r, "stop") /\ session' = [session EXCEPT ![r] = "none"]
    BY <1>2 DEF stopRoom
  <2>2. /\ encoder'[r] = {} /\ pub'[r].restart = {} /\ pub'[r].writing = {} /\ orphans' = orphans
        /\ \A q \in Rooms \ {r} : pub'[q] = pub[q] /\ encoder'[q] = encoder[q]
    BY <2>1, StopAt DEF MixInv
  <2>3. op'[r].step = "stop" /\ \A q \in Rooms \ {r} : op'[q] = op[q]
    BY <2>1, StepAt DEF MixInv
  <2>4. session'[r] = "none" /\ \A q \in Rooms \ {r} : session'[q] = session[q]
    BY <2>1 DEF MixInv, Types
  <2>5. Known(r)'
    BY <2>2, <2>3, <2>4 DEF Known
  <2>6. QED BY <2>2, <2>3, <2>4, <2>5, RoomTidy DEF OnlyRoom, Tidy
<1>3. QED BY <1>1, <1>2

LEMMA AddSpeakerStep ==
    ASSUME Types, NEW r \in Rooms, AddSpeaker(r)
    PROVE  op'[r].step \in {"idle", op[r].step} /\ \A q \in Rooms \ {r} : op'[q] = op[q]
<1>1. PICK s \in op[r].todo :
         \/ op' = [op EXCEPT ![r].todo = @ \ {s}, ![r].changed = TRUE]
         \/ op' = [op EXCEPT ![r].todo = @ \ {s}]
         \/ Done(r)
  BY DEF AddSpeaker
<1>2. CASE Done(r)
  BY <1>2, DoneAt
<1>3. CASE ~Done(r)
  BY <1>1, <1>3 DEF Types, Operation
<1>4. QED BY <1>2, <1>3

LEMMA AddSpeakerTidy ==
    ASSUME MixInv, ~Slow, Tidy, NEW r \in Rooms, AddSpeaker(r) PROVE Tidy'
<1>1. UNCHANGED <<session, pub, encoder, orphans>> /\ op[r].step \in {"sync", "resync"}
  BY DEF AddSpeaker, pubVars
<1>2. session[r] # "none"
  BY <1>1 DEF Tidy, Known
<1>3. op'[r].step \in {"idle", op[r].step} /\ \A q \in Rooms \ {r} : op'[q] = op[q]
  BY AddSpeakerStep DEF MixInv
<1>4. QED BY <1>1, <1>2, <1>3, OperationTidy

LEMMA SyncDoneTidy ==
    ASSUME MixInv, ~Slow, Tidy, NEW r \in Rooms, SyncDone(r) PROVE Tidy'
<1>1. /\ session' = session /\ session[r] \in {"idle", "started"}
      /\ op[r].step \in {"sync", "resync"}
  BY DEF SyncDone, Tidy, Known, MixInv, Types
<1>2. CASE Done(r) /\ UNCHANGED pubVars
  <2>1. op'[r].step = "idle" /\ \A q \in Rooms \ {r} : op'[q] = op[q]
    BY <1>2, DoneAt DEF MixInv
  <2>2. QED BY <1>1, <1>2, <2>1, OperationTidy DEF pubVars
<1>3. CASE /\ Synced(r) = "restart" /\ Done(r)
           /\ pub' = [pub EXCEPT ![r].restart = Restarted(r)] /\ UNCHANGED <<encoder, orphans>>
  <2>1. op'[r].step = "idle" /\ \A q \in Rooms \ {r} : op'[q] = op[q]
    BY <1>3, DoneAt DEF MixInv
  <2>2. session[r] = "started"
    BY <1>3 DEF Synced
  <2>3. pub'[r].writing = pub[r].writing /\ \A q \in Rooms \ {r} : pub'[q] = pub[q]
    BY <1>3 DEF MixInv, Types, Publisher
  <2>4. Known(r)'
    BY <1>1, <1>3, <2>1, <2>2, <2>3 DEF Known, Tidy
  <2>5. QED BY <1>1, <1>3, <2>1, <2>3, <2>4, RoomTidy DEF OnlyRoom, Tidy
<1>4. CASE Synced(r) = "halt" /\ StopEncoder(r) /\ Step(r, "halt")
  <2>1. /\ encoder'[r] = {} /\ pub'[r].restart = {} /\ pub'[r].writing = {} /\ orphans' = orphans
        /\ \A q \in Rooms \ {r} : pub'[q] = pub[q] /\ encoder'[q] = encoder[q]
    BY <1>4, StopAt DEF MixInv
  <2>2. op'[r].step = "halt" /\ \A q \in Rooms \ {r} : op'[q] = op[q]
    BY <1>4, StepAt DEF MixInv
  <2>3. session[r] = "started"
    BY <1>4 DEF Synced
  <2>4. Known(r)'
    BY <1>1, <2>1, <2>2, <2>3 DEF Known
  <2>5. QED BY <1>1, <2>1, <2>2, <2>4, RoomTidy DEF OnlyRoom, Tidy
<1>5. CASE Synced(r) = "start" /\ Step(r, "start") /\ UNCHANGED pubVars
  <2>1. op'[r].step = "start" /\ \A q \in Rooms \ {r} : op'[q] = op[q]
    BY <1>5, StepAt DEF MixInv
  <2>2. session[r] = "idle"
    <3>1. session[r] # "started"
      BY <1>5 DEF Synced
    <3>2. QED BY <1>1, <3>1
  <2>3. Known(r)'
    BY <1>1, <1>5, <2>1, <2>2 DEF Known, Tidy, pubVars
  <2>4. QED BY <1>1, <1>5, <2>1, <2>3, RoomTidy DEF OnlyRoom, Tidy, pubVars
<1>6. QED BY <1>2, <1>3, <1>4, <1>5 DEF SyncDone

LEMMA ExitTidy ==
    ASSUME MixInv, ~Slow, Tidy, NEW r \in Rooms, EncoderExits(r) PROVE Tidy'
<1>1. /\ encoder'[r] = {} /\ UNCHANGED <<op, session, pub, orphans>>
      /\ \A q \in Rooms \ {r} : encoder'[q] = encoder[q]
  BY DEF EncoderExits, MixInv, Types
<1>2. Known(r)'
  BY <1>1 DEF Known, Tidy
<1>3. QED BY <1>1, <1>2, RoomTidy DEF OnlyRoom, Tidy

\* What happens in the rooms, and the uploads, touch no session and no encoder.
LEMMA StillTidy ==
    ASSUME Tidy, UNCHANGED <<op, session, pubVars>> PROVE Tidy'
  BY DEF Tidy, Known, pubVars

LEMMA RoomsTidy ==
    ASSUME Tidy, NEW r \in Rooms,
           \/ SpeakerComesOrGoes(r) \/ SpeakerKicked(r) \/ onModeTransition(r) \/ RoomCloses(r)
           \/ EncoderWrites(r) \/ Pass(r)
    PROVE  Tidy'
<1>1. UNCHANGED <<op, session, pubVars>>
  BY DEF SpeakerComesOrGoes, SpeakerKicked, SpeakerChange, onModeTransition, RoomCloses,
         EncoderWrites, Pass, BeginPass, UploadSegment, UploadManifest, encoderVars
<1>2. QED BY <1>1, StillTidy

LEMMA ControllerTidy ==
    ASSUME MixInv, ~Slow, Tidy, NEW r \in Rooms, Controller(r) PROVE Tidy'
  BY StartBroadcastTidy, OwnerKnownTidy, NotOwnerTidy, ReconcileTidy, StopRoomTidy,
     AddSpeakerTidy, SyncDoneTidy, StartTidy, GraceTidy, StopDoneTidy DEF Controller

LEMMA ScenarioStays == [Next]_broadcastVars => scenario' = scenario
<1> SUFFICES ASSUME [Next]_broadcastVars PROVE scenario' = scenario
  OBVIOUS
<1>1. ASSUME NEW r \in Rooms, Controller(r) PROVE scenario' = scenario
  BY <1>1 DEF Controller, startBroadcast, Dequeue, OwnerKnown, NotOwner, reconcile, stopRoom,
         AddSpeaker, SyncDone, Start, GraceOver, StopDone
<1>2. ASSUME NEW r \in Rooms, SpeakerComesOrGoes(r) \/ SpeakerKicked(r) PROVE scenario' = scenario
  BY <1>2 DEF SpeakerComesOrGoes, SpeakerKicked, SpeakerChange
<1>3. ASSUME NEW r \in Rooms,
             \/ onModeTransition(r) \/ RoomCloses(r) \/ RestartFires(r) \/ Spawn(r)
             \/ EncoderExits(r) \/ EncoderWrites(r) \/ Pass(r)
      PROVE  scenario' = scenario
  BY <1>3 DEF onModeTransition, RoomCloses, RestartFires, Spawn, EncoderExits, EncoderWrites,
         Pass, BeginPass, UploadSegment, UploadManifest, encoderVars
<1>4. QED BY <1>1, <1>2, <1>3 DEF Next, broadcastVars

LEMMA NextTidy == TidyInv /\ [Next]_broadcastVars => TidyInv'
<1> SUFFICES ASSUME TidyInv, [Next]_broadcastVars PROVE TidyInv'
  OBVIOUS
<1>1. MixInv /\ MixInv'
  BY StepKeeps DEF TidyInv
<1>2. scenario' = scenario
  BY ScenarioStays
<1>3. ASSUME ~Slow' PROVE Tidy'
  <2>1. ~Slow /\ Tidy
    BY <1>2, <1>3 DEF Slow, TidyInv
  <2>2. CASE UNCHANGED broadcastVars
    BY <2>1, <2>2, StillTidy DEF broadcastVars
  <2>3. CASE Next
    <3>1. PICK r \in Rooms :
             \/ SpeakerComesOrGoes(r) \/ SpeakerKicked(r) \/ onModeTransition(r) \/ RoomCloses(r)
             \/ Controller(r) \/ RestartFires(r) \/ Spawn(r) \/ EncoderExits(r)
             \/ EncoderWrites(r) \/ Pass(r)
      BY <2>3 DEF Next
    <3>2. QED
      BY <1>1, <2>1, <3>1, RoomsTidy, ControllerTidy, RestartTidy, SpawnTidy, ExitTidy
  <2>4. QED BY <2>2, <2>3
<1>4. QED BY <1>1, <1>3 DEF TidyInv

LEMMA TidyAtFirst == Init => TidyInv
  BY InitInv DEF Init, TidyInv, Tidy, Known, Idle, NewPublisher

\* Every encoder that runs is one its room's session knows of and can stop, in whatever
\* order starts, restarts, stops, graces and exits come (hls-publisher.ts:88), as long as
\* the write of an SDP does not outlast what comes after it.
THEOREM NoOrphanAlways == Spec => []NoOrphan
<1>1. Init => TidyInv
  BY TidyAtFirst
<1>2. TidyInv /\ [Next]_broadcastVars => TidyInv'
  BY NextTidy
<1>3. TidyInv => NoOrphan
  BY DEF TidyInv, Tidy, Known, NoOrphan
<1>4. QED BY <1>1, <1>2, <1>3, PTL DEF Spec

-----------------------------------------------------------------------------
(* A manifest has its segments *)

Mirror == [first : Nat, written : Nat, dirty : BOOLEAN, pass : {"idle", "segments"},
           refs : SUBSET Nat, todo : SUBSET Nat, uploaded : SUBSET Nat,
           r2 : SUBSET Nat, manifest : SUBSET Nat]

\* What was uploaded since the room's last stop is in R2; what a pass still has to upload
\* is on the disk, where the encoder keeps one file more than it lists.
Complete(h) ==
    /\ h.manifest \subseteq h.r2
    /\ \A u \in h.uploaded : u <= h.written /\ (u >= h.first => u \in h.r2)
    /\ h.pass = "segments" =>
          /\ h.todo \subseteq h.refs /\ h.refs \ h.todo \subseteq h.r2
          /\ \A x \in h.refs : x >= h.first /\ x <= h.written /\ x >= h.written - Window
          /\ h.written \in h.refs => \A x \in h.refs : x > h.written - Window

\* While a stop clears R2 no pass runs, and none begins.
Halted(r) == op[r].step \in {"stop", "halt"} => hls[r].pass = "idle" /\ pub[r].stopped

Mirrored == \A r \in Rooms : Complete(hls[r]) /\ Halted(r)
Calm == scenario \cap {"slow", "fail"} = {}
UploadInv == TidyInv /\ hls \in [Rooms -> Mirror] /\ (Calm => Mirrored)

LEMMA WriteComplete ==
    ASSUME NEW h \in Mirror, Complete(h), h.pass = "idle" \/ h.written \in h.refs
    PROVE  Complete([h EXCEPT !.written = @ + 1, !.dirty = TRUE])
<1> DEFINE k == [h EXCEPT !.written = @ + 1, !.dirty = TRUE]
<1>1. /\ k.manifest = h.manifest /\ k.r2 = h.r2 /\ k.uploaded = h.uploaded /\ k.pass = h.pass
      /\ k.todo = h.todo /\ k.refs = h.refs /\ k.first = h.first /\ k.written = h.written + 1
  BY DEF Mirror
<1>2. /\ h.written \in Nat /\ h.first \in Nat /\ h.refs \subseteq Nat /\ h.uploaded \subseteq Nat
      /\ h.pass \in {"idle", "segments"} /\ Window \in Nat
  BY BroadcastAssumptions DEF Mirror
<1> HIDE DEF k
<1>3. Complete(k)
  BY <1>1, <1>2 DEF Complete
<1>4. QED BY <1>3 DEF k

\* A pass that begins has to upload what is listed and was not uploaded.
LEMMA BeginComplete ==
    ASSUME NEW h \in Mirror, Complete(h)
    PROVE  /\ Playlist(h) \subseteq Nat
           /\ Complete([h EXCEPT !.dirty = FALSE, !.pass = "segments", !.refs = Playlist(h),
                                 !.todo = Playlist(h) \ h.uploaded])
<1> DEFINE l == Playlist(h)
<1> DEFINE k == [h EXCEPT !.dirty = FALSE, !.pass = "segments", !.refs = l, !.todo = l \ h.uploaded]
<1>1. h.written \in Nat /\ h.first \in Nat /\ Window \in Nat
  BY BroadcastAssumptions DEF Mirror
<1>2. \A x \in l : x \in Nat /\ x >= h.first /\ x <= h.written /\ x > h.written - Window
  BY <1>1 DEF Playlist, Later
<1> HIDE DEF l
<1>3. /\ k.manifest = h.manifest /\ k.r2 = h.r2 /\ k.uploaded = h.uploaded
      /\ k.todo = l \ h.uploaded /\ k.refs = l /\ k.first = h.first /\ k.written = h.written
  BY DEF Mirror
<1> HIDE DEF k
<1>4. Complete(k)
  BY <1>1, <1>2, <1>3 DEF Complete
<1>5. QED BY <1>2, <1>4 DEF k, l

\* The file is there, so it is uploaded and not skipped.
LEMMA RefOnDisk ==
    ASSUME NEW h \in Mirror, Complete(h), h.pass = "segments", NEW ref \in h.todo
    PROVE  ref \in OnDisk(h)
<1>1. h.written \in Nat /\ h.first \in Nat /\ Window \in Nat /\ ref \in Nat
  BY BroadcastAssumptions DEF Mirror
<1>2. ref >= h.first /\ ref <= h.written /\ ref >= h.written - Window
  BY DEF Complete
<1>3. QED BY <1>1, <1>2 DEF OnDisk, Later

LEMMA UploadComplete ==
    ASSUME NEW h \in Mirror, Complete(h), h.pass = "segments", NEW ref \in h.todo
    PROVE  Complete([h EXCEPT !.todo = @ \ {ref}, !.uploaded = @ \cup {ref}, !.r2 = @ \cup {ref}])
<1> DEFINE k == [h EXCEPT !.todo = @ \ {ref}, !.uploaded = @ \cup {ref}, !.r2 = @ \cup {ref}]
<1>1. /\ k.manifest = h.manifest /\ k.r2 = h.r2 \cup {ref} /\ k.uploaded = h.uploaded \cup {ref}
      /\ k.pass = h.pass /\ k.todo = h.todo \ {ref} /\ k.refs = h.refs
      /\ k.first = h.first /\ k.written = h.written
  BY DEF Mirror
<1> HIDE DEF k
<1>2. Complete(k)
  BY <1>1 DEF Complete
<1>3. QED BY <1>2 DEF k

LEMMA ManifestIsComplete ==
    ASSUME NEW h \in Mirror, Complete(h), ReadyForManifest(h)
    PROVE  Complete([h EXCEPT !.pass = "idle", !.manifest = h.refs, !.refs = {}])
<1> DEFINE k == [h EXCEPT !.pass = "idle", !.manifest = h.refs, !.refs = {}]
<1>1. /\ k.manifest = h.refs /\ k.r2 = h.r2 /\ k.uploaded = h.uploaded /\ k.pass = "idle"
      /\ k.first = h.first /\ k.written = h.written
  BY DEF Mirror
<1> HIDE DEF k
<1>2. Complete(k)
  BY <1>1 DEF Complete, ReadyForManifest
<1>3. QED BY <1>2 DEF k

\* The next encoder of the room numbers on, so that nothing it lists counts as uploaded.
LEMMA ClearComplete ==
    ASSUME NEW h \in Mirror, Complete(h), h.pass = "idle"
    PROVE  Complete([h EXCEPT !.r2 = {}, !.manifest = {}, !.first = h.written + 1])
<1> DEFINE k == [h EXCEPT !.r2 = {}, !.manifest = {}, !.first = h.written + 1]
<1>1. /\ k.manifest = {} /\ k.r2 = {} /\ k.uploaded = h.uploaded /\ k.pass = "idle"
      /\ k.first = h.written + 1 /\ k.written = h.written
  BY DEF Mirror
<1>2. h.written \in Nat /\ h.uploaded \subseteq Nat
  BY DEF Mirror
<1> HIDE DEF k
<1>3. Complete(k)
  BY <1>1, <1>2 DEF Complete
<1>4. QED BY <1>3 DEF k

LEMMA ForgetComplete ==
    ASSUME NEW h \in Mirror, Complete(h) PROVE Complete([h EXCEPT !.uploaded = {}])
<1> DEFINE k == [h EXCEPT !.uploaded = {}]
<1>1. /\ k.manifest = h.manifest /\ k.r2 = h.r2 /\ k.uploaded = {} /\ k.pass = h.pass
      /\ k.todo = h.todo /\ k.refs = h.refs /\ k.first = h.first /\ k.written = h.written
  BY DEF Mirror
<1> HIDE DEF k
<1>2. Complete(k)
  BY <1>1 DEF Complete
<1>3. QED BY <1>2 DEF k

-----------------------------------------------------------------------------
(* The mirror of one room changes *)

\* h is what becomes of the mirror of r.
Becomes(r, h) == hls' = [hls EXCEPT ![r] = h]

LEMMA BecomesAt ==
    ASSUME UploadInv, NEW r \in Rooms, NEW h, Becomes(r, h)
    PROVE  hls'[r] = h /\ \A q \in Rooms \ {r} : hls'[q] = hls[q]
  BY DEF UploadInv, Becomes

\* A mirror changes and no operation or publisher does.
LEMMA MirrorKeeps ==
    ASSUME UploadInv, Calm, NEW r \in Rooms, NEW h, Becomes(r, h), UNCHANGED <<op, pub>>,
           Complete(h), h.pass = "idle" \/ op[r].step \notin {"stop", "halt"}
    PROVE  Mirrored'
<1>1. hls'[r] = h /\ \A q \in Rooms \ {r} : hls'[q] = hls[q]
  BY BecomesAt
<1>2. ASSUME NEW q \in Rooms PROVE Complete(hls[q])' /\ Halted(q)'
  <2>1. CASE q = r
    BY <1>1, <2>1 DEF UploadInv, Mirrored, Halted
  <2>2. CASE q # r
    <3>1. hls'[q] = hls[q]
      BY <1>1, <2>2
    <3>2. QED BY <3>1 DEF UploadInv, Mirrored, Halted
  <2>3. QED BY <2>1, <2>2
<1>3. QED BY <1>2 DEF Mirrored

LEMMA MirrorType ==
    ASSUME UploadInv, NEW r \in Rooms, EncoderWrites(r) \/ Pass(r) \/ Start(r) \/ StopDone(r)
    PROVE  hls' \in [Rooms -> Mirror]
<1>1. hls[r] \in Mirror
  BY DEF UploadInv
<1>2. PICK h : Becomes(r, h) /\ h \in Mirror
  <2>1. CASE EncoderWrites(r)
    <3> DEFINE h == [hls[r] EXCEPT !.written = @ + 1, !.dirty = TRUE]
    <3>1. Becomes(r, h)
      BY <2>1 DEF EncoderWrites, Becomes
    <3>2. hls[r].written + 1 \in Nat
      BY <1>1 DEF Mirror
    <3>3. h \in Mirror
      BY <1>1, <3>2 DEF Mirror
    <3>4. QED BY <3>1, <3>3
  <2>2. CASE BeginPass(r)
    <3> DEFINE l == Playlist(hls[r])
    <3> DEFINE h == [hls[r] EXCEPT !.dirty = FALSE, !.pass = "segments", !.refs = l,
                                   !.todo = l \ hls[r].uploaded]
    <3>1. l \subseteq Nat
      BY <1>1, BroadcastAssumptions DEF Playlist, Later, Mirror
    <3>2. Becomes(r, h)
      BY <2>2 DEF BeginPass, Becomes
    <3> HIDE DEF l
    <3>3. h \in Mirror
      BY <1>1, <3>1 DEF Mirror
    <3>4. QED BY <3>2, <3>3
  <2>3. CASE UploadSegment(r)
    <3>1. PICK ref \in hls[r].todo :
             \/ Becomes(r, [hls[r] EXCEPT !.todo = @ \ {ref}, !.uploaded = @ \cup {ref},
                                          !.r2 = @ \cup {ref}])
             \/ Becomes(r, [hls[r] EXCEPT !.todo = @ \ {ref}, !.uploaded = @ \cup {ref}])
             \/ Becomes(r, [hls[r] EXCEPT !.todo = @ \ {ref}])
      BY <2>3 DEF UploadSegment, Becomes
    <3>2. ref \in Nat
      BY <1>1 DEF Mirror
    <3>3. [hls[r] EXCEPT !.todo = @ \ {ref}, !.uploaded = @ \cup {ref}, !.r2 = @ \cup {ref}] \in Mirror
      BY <1>1, <3>2 DEF Mirror
    <3>4. [hls[r] EXCEPT !.todo = @ \ {ref}, !.uploaded = @ \cup {ref}] \in Mirror
      BY <1>1, <3>2 DEF Mirror
    <3>5. [hls[r] EXCEPT !.todo = @ \ {ref}] \in Mirror
      BY <1>1 DEF Mirror
    <3>6. QED BY <3>1, <3>3, <3>4, <3>5
  <2>4. CASE UploadManifest(r)
    <3> DEFINE h == [hls[r] EXCEPT !.pass = "idle", !.manifest = hls[r].refs, !.refs = {}]
    <3>1. Becomes(r, h) /\ h \in Mirror
      BY <1>1, <2>4 DEF UploadManifest, Becomes, Mirror
    <3>2. QED BY <3>1
  <2>5. CASE Start(r)
    <3> DEFINE h == [hls[r] EXCEPT !.uploaded = {}]
    <3>1. Becomes(r, h) /\ h \in Mirror
      BY <1>1, <2>5 DEF Start, Becomes, Mirror
    <3>2. QED BY <3>1
  <2>6. CASE StopDone(r)
    <3> DEFINE h == [hls[r] EXCEPT !.r2 = {}, !.manifest = {}, !.first = hls[r].written + 1]
    <3>1. Becomes(r, h)
      BY <2>6 DEF StopDone, Becomes
    <3>2. hls[r].written + 1 \in Nat
      BY <1>1 DEF Mirror
    <3>3. h \in Mirror
      BY <1>1, <3>2 DEF Mirror
    <3>4. QED BY <3>1, <3>3
  <2>7. QED BY <2>1, <2>2, <2>3, <2>4, <2>5, <2>6 DEF Pass
<1>3. QED BY <1>2 DEF Becomes, UploadInv

LEMMA WritesMirrored ==
    ASSUME UploadInv, Calm, NEW r \in Rooms, EncoderWrites(r) PROVE Mirrored'
<1> DEFINE h == [hls[r] EXCEPT !.written = @ + 1, !.dirty = TRUE]
<1>1. hls[r] \in Mirror /\ Complete(hls[r]) /\ Halted(r)
  BY DEF UploadInv, Mirrored
<1>2. hls[r].pass = "idle" \/ hls[r].written \in hls[r].refs
  BY DEF EncoderWrites, Calm, Slow
<1>3. Complete(h)
  BY <1>1, <1>2, WriteComplete
<1>4. h.pass = hls[r].pass /\ Becomes(r, h) /\ UNCHANGED <<op, pub>>
  BY <1>1 DEF EncoderWrites, Becomes, encoderVars, pubVars, Mirror
<1> HIDE DEF h
<1>5. QED BY <1>1, <1>3, <1>4, MirrorKeeps DEF Halted

LEMMA PassMirrored ==
    ASSUME UploadInv, Calm, NEW r \in Rooms, Pass(r) PROVE Mirrored'
<1>1. hls[r] \in Mirror /\ Complete(hls[r]) /\ Halted(r)
  BY DEF UploadInv, Mirrored
<1>2. UNCHANGED <<op, pub>>
  BY DEF Pass, BeginPass, UploadSegment, UploadManifest, encoderVars, pubVars
<1>3. CASE BeginPass(r)
  <2> DEFINE l == Playlist(hls[r])
  <2> DEFINE h == [hls[r] EXCEPT !.dirty = FALSE, !.pass = "segments", !.refs = l,
                                 !.todo = l \ hls[r].uploaded]
  <2>1. Becomes(r, h) /\ ~pub[r].stopped
    BY <1>3 DEF BeginPass, Becomes
  <2>2. Complete(h)
    BY <1>1, BeginComplete
  <2> HIDE DEF h
  <2>3. QED BY <1>1, <1>2, <2>1, <2>2, MirrorKeeps DEF Halted
<1>4. CASE UploadSegment(r)
  <2>1. hls[r].pass = "segments" /\ "fail" \notin scenario
    BY <1>4 DEF UploadSegment, Calm
  <2>2. PICK ref \in hls[r].todo :
           Becomes(r, [hls[r] EXCEPT !.todo = @ \ {ref}, !.uploaded = @ \cup {ref},
                                     !.r2 = @ \cup {ref}])
    BY <1>1, <1>4, <2>1, RefOnDisk DEF UploadSegment, Becomes
  <2> DEFINE h == [hls[r] EXCEPT !.todo = @ \ {ref}, !.uploaded = @ \cup {ref}, !.r2 = @ \cup {ref}]
  <2>3. Complete(h) /\ Becomes(r, h)
    BY <1>1, <2>1, <2>2, UploadComplete
  <2> HIDE DEF h
  <2>4. QED BY <1>1, <1>2, <2>1, <2>3, MirrorKeeps DEF Halted
<1>5. CASE UploadManifest(r)
  <2> DEFINE h == [hls[r] EXCEPT !.pass = "idle", !.manifest = hls[r].refs, !.refs = {}]
  <2>1. Becomes(r, h) /\ h.pass = "idle"
    BY <1>1, <1>5 DEF UploadManifest, Becomes, Mirror
  <2>2. Complete(h)
    BY <1>1, <1>5, ManifestIsComplete DEF UploadManifest
  <2> HIDE DEF h
  <2>3. QED BY <1>2, <2>1, <2>2, MirrorKeeps
<1>6. QED BY <1>3, <1>4, <1>5 DEF Pass

LEMMA StartMirrored ==
    ASSUME UploadInv, Calm, NEW r \in Rooms, Start(r) PROVE Mirrored'
<1> DEFINE h == [hls[r] EXCEPT !.uploaded = {}]
<1>1. hls[r] \in Mirror /\ Complete(hls[r]) /\ Types
  BY DEF UploadInv, Mirrored, TidyInv, MixInv
<1>2. Complete(h) /\ Becomes(r, h)
  BY <1>1, ForgetComplete DEF Start, Becomes
<1> HIDE DEF h
<1>3. hls'[r] = h /\ \A q \in Rooms \ {r} : hls'[q] = hls[q]
  BY <1>2, BecomesAt
<1>4. op'[r].step = "write" /\ \A q \in Rooms \ {r} : op'[q] = op[q]
  BY <1>1, StepAt DEF Start
<1>5. \A q \in Rooms \ {r} : pub'[q] = pub[q]
  BY <1>1 DEF Start, BeginSpawn, Types
<1>6. QED BY <1>2, <1>3, <1>4, <1>5 DEF Mirrored, Halted, UploadInv

\* R2 is cleared only after the pass has ended.
LEMMA StopDoneMirrored ==
    ASSUME UploadInv, Calm, NEW r \in Rooms, StopDone(r) PROVE Mirrored'
<1> DEFINE h == [hls[r] EXCEPT !.r2 = {}, !.manifest = {}, !.first = hls[r].written + 1]
<1>1. hls[r] \in Mirror /\ Complete(hls[r]) /\ hls[r].pass = "idle" /\ Types
  BY DEF UploadInv, Mirrored, Halted, StopDone, TidyInv, MixInv
<1>2. Complete(h)
  BY <1>1, ClearComplete
<1>3. Becomes(r, h) /\ UNCHANGED pub
  BY <1>1 DEF StopDone, Becomes, pubVars
<1> HIDE DEF h
<1>4. hls'[r] = h /\ \A q \in Rooms \ {r} : hls'[q] = hls[q]
  BY <1>3, BecomesAt
<1>5. op'[r].step = "idle" /\ \A q \in Rooms \ {r} : op'[q] = op[q]
  BY <1>1, DoneAt DEF StopDone
<1>6. QED BY <1>2, <1>3, <1>4, <1>5 DEF Mirrored, Halted, UploadInv

\* The other steps leave the mirrors alone; who goes on to a stop has stopped the encoder.
LEMMA OthersMirrored ==
    ASSUME UploadInv, Calm, NEW r \in Rooms, UNCHANGED hls,
           \A q \in Rooms : \/ op'[q].step \notin {"stop", "halt"}
                            \/ op'[q].step = op[q].step /\ pub'[q].stopped = pub[q].stopped
                            \/ hls[q].pass = "idle" /\ pub'[q].stopped
    PROVE  Mirrored'
<1>1. ASSUME NEW q \in Rooms PROVE Complete(hls[q])' /\ Halted(q)'
  BY DEF UploadInv, Mirrored, Halted
<1>2. QED BY <1>1 DEF Mirrored

LEMMA StopStopped ==
    ASSUME Types, Calm, NEW r \in Rooms, StopEncoder(r)
    PROVE  /\ hls[r].pass = "idle" /\ pub'[r].stopped
           /\ \A q \in Rooms \ {r} : pub'[q] = pub[q]
<1> DEFINE p == [pub[r] EXCEPT !.stopped = TRUE, !.restart = {}]
<1>1. p.stopped = TRUE
  BY DEF Types, Publisher
<1>2. pub' = [pub EXCEPT ![r] = p] /\ hls[r].pass = "idle"
  BY DEF StopEncoder, Calm, Slow
<1> HIDE DEF p
<1>3. QED BY <1>1, <1>2 DEF Types

LEMMA RestartMirrored ==
    ASSUME UploadInv, Calm, NEW r \in Rooms, RestartFires(r) PROVE Mirrored'
<1>1. Types /\ ~Slow /\ Tidy
  BY DEF UploadInv, TidyInv, MixInv, Calm, Slow
<1>2. op[r].step \notin {"stop", "halt"}
  BY <1>1 DEF RestartFires, Tidy, Known
<1>3. UNCHANGED <<op, hls>> /\ \A q \in Rooms \ {r} : pub'[q] = pub[q]
  BY <1>1 DEF RestartFires, BeginSpawn, Types
<1>4. QED BY <1>2, <1>3, OthersMirrored

LEMMA SpawnMirrored ==
    ASSUME UploadInv, Calm, NEW r \in Rooms, Spawn(r) PROVE Mirrored'
<1>1. Types
  BY DEF UploadInv, TidyInv, MixInv
<1>2. PICK w \in pub[r].writing :
         /\ pub' = [pub EXCEPT ![r].writing = @ \ {w}]
         /\ Step(r, "grace") \/ UNCHANGED op
  BY DEF Spawn
<1>3. \A q \in Rooms : pub'[q].stopped = pub[q].stopped
  BY <1>1, <1>2 DEF Types, Publisher
<1>4. \A q \in Rooms : op'[q].step \in {op[q].step, "grace"}
  <2>1. CASE Step(r, "grace")
    BY <1>1, <2>1, StepAt
  <2>2. CASE UNCHANGED op
    BY <2>2
  <2>3. QED BY <1>2, <2>1, <2>2
<1>5. QED BY <1>3, <1>4, OthersMirrored DEF Spawn

\* An operation that goes on to anything but a stop, or is done.
LEMMA GoesOnMirrored ==
    ASSUME UploadInv, Calm, NEW r \in Rooms, UNCHANGED hls,
           op'[r].step \notin {"stop", "halt"},
           \A q \in Rooms \ {r} : op'[q] = op[q] /\ pub'[q] = pub[q]
    PROVE  Mirrored'
  BY OthersMirrored

LEMMA ControllerMirrored ==
    ASSUME UploadInv, Calm, NEW r \in Rooms, Controller(r) PROVE Mirrored'
<1>1. Types
  BY DEF UploadInv, TidyInv, MixInv
<1>2. CASE startBroadcast(r)
  <2>1. UNCHANGED <<hls, pub>> /\ (Step(r, "owner") \/ UNCHANGED op) /\ op[r].step = "idle"
    BY <1>2 DEF startBroadcast, Dequeue, pubVars, Idle
  <2>2. op'[r].step \in {"owner", "idle"} /\ \A q \in Rooms \ {r} : op'[q] = op[q]
    BY <1>1, <2>1, StepAt
  <2>3. QED BY <2>1, <2>2, GoesOnMirrored
<1>3. CASE OwnerKnown(r)
  <2>1. op'[r].step = "sync" /\ \A q \in Rooms \ {r} : op'[q] = op[q]
    BY <1>1, <1>3, SyncAt DEF OwnerKnown
  <2>2. UNCHANGED hls /\ \A q \in Rooms \ {r} : pub'[q] = pub[q]
    BY <1>1, <1>3 DEF OwnerKnown, Types
  <2>3. QED BY <2>1, <2>2, GoesOnMirrored
<1>4. CASE NotOwner(r) \/ GraceOver(r)
  <2>1. op'[r].step = "idle" /\ \A q \in Rooms \ {r} : op'[q] = op[q]
    BY <1>1, <1>4, DoneAt DEF NotOwner, GraceOver
  <2>2. UNCHANGED <<hls, pub>>
    BY <1>4 DEF NotOwner, GraceOver, pubVars
  <2>3. QED BY <2>1, <2>2, GoesOnMirrored
<1>5. CASE reconcile(r)
  <2>1. UNCHANGED <<hls, pub>> /\ (BeginSync(r, "resync") \/ UNCHANGED op) /\ op[r].step = "idle"
    BY <1>5 DEF reconcile, Dequeue, pubVars, Idle
  <2>2. op'[r].step \in {"resync", "idle"} /\ \A q \in Rooms \ {r} : op'[q] = op[q]
    BY <1>1, <2>1, SyncAt
  <2>3. QED BY <2>1, <2>2, GoesOnMirrored
<1>6. CASE stopRoom(r)
  <2>1. UNCHANGED hls /\ op[r].step = "idle"
    BY <1>6 DEF stopRoom, Dequeue, Idle
  <2>2. CASE UNCHANGED <<op, pub>>
    BY <2>1, <2>2, OthersMirrored
  <2>3. CASE StopEncoder(r) /\ Step(r, "stop")
    <3>1. op'[r].step = "stop" /\ \A q \in Rooms \ {r} : op'[q] = op[q]
      BY <1>1, <2>3, StepAt
    <3>2. QED BY <1>1, <2>1, <2>3, <3>1, StopStopped, OthersMirrored
  <2>4. QED BY <1>6, <2>2, <2>3 DEF stopRoom, pubVars
<1>7. CASE AddSpeaker(r)
  <2>1. UNCHANGED <<hls, pub>> /\ op[r].step \in {"sync", "resync"}
    BY <1>7 DEF AddSpeaker, pubVars
  <2>2. op'[r].step \in {"idle", op[r].step} /\ \A q \in Rooms \ {r} : op'[q] = op[q]
    BY <1>1, <1>7, AddSpeakerStep
  <2>3. QED BY <2>1, <2>2, GoesOnMirrored
<1>8. CASE SyncDone(r)
  <2>1. UNCHANGED hls
    BY <1>8 DEF SyncDone
  <2>2. CASE Done(r) \/ Step(r, "start")
    <3>1. op'[r].step \in {"idle", "start"} /\ \A q \in Rooms \ {r} : op'[q] = op[q]
      BY <1>1, <2>2, DoneAt, StepAt
    <3>2. CASE \A q \in Rooms \ {r} : pub'[q] = pub[q]
      BY <2>1, <3>1, <3>2, GoesOnMirrored
    <3>3. CASE StopEncoder(r) /\ Step(r, "halt")
      <4>1. \A q \in Rooms \ {r} : pub'[q] = pub[q]
        BY <1>1, <3>3, StopStopped
      <4>2. QED BY <2>1, <3>1, <4>1, GoesOnMirrored
    <3>4. QED BY <1>1, <1>8, <3>2, <3>3 DEF SyncDone, pubVars, Types
  <2>3. CASE StopEncoder(r) /\ Step(r, "halt")
    <3>1. op'[r].step = "halt" /\ \A q \in Rooms \ {r} : op'[q] = op[q]
      BY <1>1, <2>3, StepAt
    <3>2. QED BY <1>1, <2>1, <2>3, <3>1, StopStopped, OthersMirrored
  <2>4. QED BY <1>8, <2>2, <2>3 DEF SyncDone
<1>9. QED
  BY <1>2, <1>3, <1>4, <1>5, <1>6, <1>7, <1>8, StartMirrored, StopDoneMirrored DEF Controller

LEMMA UploadKeeps == UploadInv /\ [Next]_broadcastVars => UploadInv'
<1> SUFFICES ASSUME UploadInv, [Next]_broadcastVars PROVE UploadInv'
  OBVIOUS
<1>1. TidyInv'
  BY NextTidy DEF UploadInv
<1>2. scenario' = scenario
  BY ScenarioStays
<1>3. CASE UNCHANGED broadcastVars
  <2>1. UNCHANGED <<op, pub, hls>>
    BY <1>3 DEF broadcastVars, pubVars
  <2>2. QED BY <1>1, <1>2, <2>1 DEF UploadInv, Mirrored, Halted, Calm
<1>4. CASE Next
  <2>1. PICK r \in Rooms :
           \/ SpeakerComesOrGoes(r) \/ SpeakerKicked(r) \/ onModeTransition(r) \/ RoomCloses(r)
           \/ Controller(r) \/ RestartFires(r) \/ Spawn(r) \/ EncoderExits(r)
           \/ EncoderWrites(r) \/ Pass(r)
    BY <1>4 DEF Next
  <2>2. hls' \in [Rooms -> Mirror]
    <3>1. CASE EncoderWrites(r) \/ Pass(r) \/ Start(r) \/ StopDone(r)
      BY <3>1, MirrorType
    <3>2. CASE Controller(r) /\ ~Start(r) /\ ~StopDone(r)
      <4>1. UNCHANGED hls
        BY <3>2 DEF Controller, startBroadcast, Dequeue, OwnerKnown, NotOwner, reconcile,
               stopRoom, AddSpeaker, SyncDone, GraceOver
      <4>2. QED BY <4>1 DEF UploadInv
    <3>3. CASE \/ SpeakerComesOrGoes(r) \/ SpeakerKicked(r) \/ onModeTransition(r) \/ RoomCloses(r)
               \/ RestartFires(r) \/ Spawn(r) \/ EncoderExits(r)
      <4>1. UNCHANGED hls
        BY <3>3 DEF SpeakerComesOrGoes, SpeakerKicked, SpeakerChange, onModeTransition,
               RoomCloses, RestartFires, Spawn, EncoderExits
      <4>2. QED BY <4>1 DEF UploadInv
    <3>4. QED BY <2>1, <3>1, <3>2, <3>3
  <2>3. ASSUME Calm' PROVE Mirrored'
    <3>1. Calm
      BY <1>2, <2>3 DEF Calm
    <3>2. CASE \/ SpeakerComesOrGoes(r) \/ SpeakerKicked(r) \/ onModeTransition(r)
               \/ RoomCloses(r) \/ EncoderExits(r)
      <4>1. UNCHANGED <<op, pub, hls>>
        BY <3>2 DEF SpeakerComesOrGoes, SpeakerKicked, SpeakerChange, onModeTransition,
               RoomCloses, EncoderExits, pubVars
      <4>2. QED BY <3>1, <4>1, OthersMirrored
    <3>3. QED
      BY <2>1, <3>1, <3>2, ControllerMirrored, RestartMirrored, SpawnMirrored, WritesMirrored,
         PassMirrored
  <2>4. QED BY <1>1, <2>2, <2>3 DEF UploadInv
<1>5. QED BY <1>3, <1>4

\* R2 never has a manifest with a segment that is not there (hls-publisher.ts:8), whatever
\* the window, the number of segments and the rooms, over any stops and starts of a room.
THEOREM ManifestCompleteAlways == Spec => []ManifestComplete
<1>1. Init => UploadInv
  <2> SUFFICES ASSUME Init PROVE UploadInv
    OBVIOUS
  <2>1. TidyInv
    BY TidyAtFirst
  <2>2. hls \in [Rooms -> Mirror] /\ Mirrored
    BY DEF Init, Mirrored, Mirror, NoHls, Complete, Halted, Idle
  <2>3. QED BY <2>1, <2>2 DEF UploadInv
<1>2. UploadInv /\ [Next]_broadcastVars => UploadInv'
  BY UploadKeeps
<1>3. UploadInv => ManifestComplete
  BY DEF UploadInv, Mirrored, Complete, Calm, ManifestComplete
<1>4. QED BY <1>1, <1>2, <1>3, PTL DEF Spec
=============================================================================
