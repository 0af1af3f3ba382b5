--------------------------- MODULE RoomOwnership ---------------------------
(***************************************************************************)
(* Which instance of a region is the origin of a room.  RoomRegistry keeps *)
(* the CAS claim (a Redis key with a 90 s TTL) and the origin's address;   *)
(* every instance keeps its own cluster, edge attachment, cached owner     *)
(* read and HLS publisher.  room:join resolves who serves the room (claim, *)
(* edge of the claimant, or failure), the heartbeat refreshes or reclaims  *)
(* the claim or steps down, closeRoom and a failed creation delete it.     *)
(* One action per Redis or HTTP call that is awaited; instances crash and  *)
(* restart, and a stalled instance can lose its claim to the TTL.          *)
(*                                                                         *)
(* One instance's calls share one Redis connection, so their replies come  *)
(* back in the order of the calls.                                         *)
(***************************************************************************)
EXTENDS Integers, FiniteSets

CONSTANTS
    Nodes,      \* instances (INSTANCE_ID)
    Clients,    \* joins in flight at most
    None,       \* no instance
    Empty,      \* no cached owner read
    MaxCrashes, \* bound on crashes
    Scenarios   \* what may happen besides joins, heartbeats and expiries

ASSUME OwnershipAssumptions ==
    /\ None \notin Nodes /\ Empty \notin Nodes \cup {None}
    /\ MaxCrashes \in Nat
    /\ Scenarios \subseteq SUBSET {"publish", "close", "failure", "stall", "crash"}

VARIABLES
    owner,      \* cascade:room:{id}:owner
    origin,     \* cascade:room:{id}:origin, its instanceId
    up,         \* running instances
    rooms,      \* instances with a cluster for the room
    edgeOf,     \* instance -> the origin it is attached to, or None
    cache,      \* instance -> cached owner read (isOwner), or Empty
    closing,    \* instance -> progress of its closeRoom
    pub,        \* instance -> its HLS session: "off", "starting", "on"
    beat,       \* instances whose heartbeat still has to register the origin
    join,       \* client -> [step, node, target, again]
    crashes,
    scenario    \* what may happen in this behaviour: a member of Scenarios

vars == <<owner, origin, up, rooms, edgeOf, cache, closing, pub, beat, join, crashes, scenario>>
redis == <<owner, origin>>
local == <<up, rooms, edgeOf, cache, closing, pub, beat, crashes, scenario>>

NotJoining == [step |-> "idle", node |-> None, target |-> None, again |-> FALSE]
JoinSteps == {"idle", "look", "check", "claim", "reread", "poll", "create", "register", "edge", "served"}

TypeOK ==
    /\ owner \in Nodes \cup {None} /\ origin \in Nodes \cup {None}
    /\ up \subseteq Nodes /\ rooms \subseteq up /\ beat \subseteq up
    /\ edgeOf \in [Nodes -> Nodes \cup {None}]
    /\ cache \in [Nodes -> Nodes \cup {None, Empty}]
    /\ closing \in [Nodes -> {"no", "cleanup", "done"}]
    /\ pub \in [Nodes -> {"off", "starting", "on"}]
    /\ join \in [Clients -> [step: JoinSteps, node: Nodes \cup {None}, target: Nodes \cup {None}, again: BOOLEAN]]
    /\ crashes \in 0 .. MaxCrashes
    /\ scenario \in Scenarios

Init ==
    /\ owner = None /\ origin = None
    /\ up = Nodes /\ rooms = {} /\ beat = {}
    /\ edgeOf = [n \in Nodes |-> None]
    /\ cache = [n \in Nodes |-> Empty]
    /\ closing = [n \in Nodes |-> "no"]
    /\ pub = [n \in Nodes |-> "off"]
    /\ join = [c \in Clients |-> NotJoining]
    /\ crashes = 0
    /\ scenario \in Scenarios

-----------------------------------------------------------------------------
(* Helpers *)

isEdgeRoom(n) == edgeOf[n] # None
Node(c) == join[c].node
At(c, step) == join[c].step = step
Goto(c, step) == join' = [join EXCEPT ![c].step = step]

\* broadcastOnRoomClosed: only a session that exists is stopped.
Stopped(n) == IF pub[n] = "on" THEN [pub EXCEPT ![n] = "off"] ELSE pub

evictLocalRoom(n) ==
    /\ rooms' = rooms \ {n}
    /\ cache' = [cache EXCEPT ![n] = Empty]
    /\ pub' = Stopped(n)

-----------------------------------------------------------------------------
(* room:join: resolveClusterForJoin *)

JoinStart(c, n) ==
    /\ At(c, "idle") /\ n \in up
    /\ join' = [join EXCEPT ![c] = [step |-> "look", node |-> n, target |-> None, again |-> FALSE]]
    /\ UNCHANGED <<redis, local>>

JoinLook(c) ==
    /\ At(c, "look")
    /\ Goto(c, IF Node(c) \in rooms THEN "check" ELSE "claim")
    /\ UNCHANGED <<redis, local>>

\* The ghost-cluster guard, on the owner it has just read.
JoinCheck(c) ==
    LET n == Node(c) IN
    /\ At(c, "check")
    /\ IF owner = n \/ isEdgeRoom(n)
       THEN Goto(c, "served") /\ UNCHANGED <<rooms, cache, pub>>
       ELSE Goto(c, "claim") /\ evictLocalRoom(n)
    /\ UNCHANGED <<redis, up, edgeOf, closing, beat, crashes, scenario>>

\* claimOwnership: SET NX ...
JoinClaim(c) ==
    /\ At(c, "claim")
    /\ IF owner = None
       THEN owner' = Node(c) /\ Goto(c, "create")
       ELSE owner' = owner /\ Goto(c, "reread")
    /\ UNCHANGED <<origin, local>>

\* ... and, when that failed, GET, with "self" for a key that is gone by now.
JoinReread(c) ==
    LET n == Node(c)
        current == IF owner = None THEN n ELSE owner IN
    /\ At(c, "reread")
    /\ IF current = n THEN Goto(c, "create")
       ELSE join' = [join EXCEPT ![c].step = "poll", ![c].target = current]
    /\ UNCHANGED <<redis, local>>

\* waitForOriginInfo, attachToOrigin.
JoinAttach(c) ==
    /\ At(c, "poll") /\ origin = join[c].target
    /\ edgeOf' = [edgeOf EXCEPT ![Node(c)] = origin]
    /\ Goto(c, "edge")
    /\ UNCHANGED <<redis, up, rooms, cache, closing, pub, beat, crashes, scenario>>

\* Every poll attempt failed: "another instance owns it but cascade edge setup failed".
JoinPollGivesUp(c) ==
    /\ At(c, "poll") /\ origin # join[c].target
    /\ join' = [join EXCEPT ![c] = NotJoining]
    /\ UNCHANGED <<redis, local>>

\* getOrCreateRoom; a session start that awaits its reply gets it before.
JoinCreate(c) ==
    LET n == Node(c) IN
    /\ join[c].step \in {"create", "edge"}
    /\ pub[n] # "starting"
    /\ rooms' = rooms \cup {n}
    /\ Goto(c, IF At(c, "create") THEN "register" ELSE "served")
    /\ UNCHANGED <<redis, up, edgeOf, cache, closing, pub, beat, crashes, scenario>>

\* doCreateRoom fails (Redis or Laravel): it deletes the claim, whoever holds it.
JoinCreateFails(c) ==
    LET n == Node(c) IN
    /\ "failure" \in scenario
    /\ join[c].step \in {"create", "edge"} /\ n \notin rooms
    /\ owner' = None /\ origin' = None
    /\ cache' = [cache EXCEPT ![n] = Empty]
    /\ join' = [join EXCEPT ![c] = NotJoining]
    /\ UNCHANGED <<up, rooms, edgeOf, closing, pub, beat, crashes, scenario>>

JoinRegister(c) ==
    /\ At(c, "register")
    /\ origin' = Node(c)
    /\ Goto(c, "served")
    /\ UNCHANGED <<owner, local>>

\* An edge whose origin answers neither request is detached and the resolution
\* runs once more; a join that is served refreshes the claim (no new value).
OriginUnreachable(n) == isEdgeRoom(n) /\ edgeOf[n] \notin rooms

\* A recovery that drops the cluster but stays attached.
Bug_JoinDetaches(c) ==
    LET n == Node(c) IN
    /\ At(c, "served") /\ OriginUnreachable(n) /\ ~join[c].again
    /\ edgeOf' = edgeOf
    /\ join' = [join EXCEPT ![c] = NotJoining]
    /\ UNCHANGED <<redis, up, rooms, cache, pub, closing, beat, crashes, scenario>>

JoinDetaches(c) ==
    LET n == Node(c) IN
    /\ At(c, "served") /\ OriginUnreachable(n) /\ ~join[c].again
    /\ edgeOf' = [edgeOf EXCEPT ![n] = None]
    /\ evictLocalRoom(n)
    /\ join' = [join EXCEPT ![c] = [@ EXCEPT !.step = "look", !.again = TRUE]]
    /\ UNCHANGED <<redis, up, closing, beat, crashes, scenario>>

JoinServed(c) ==
    /\ At(c, "served") /\ (OriginUnreachable(Node(c)) => join[c].again)
    /\ join' = [join EXCEPT ![c] = NotJoining]
    /\ UNCHANGED <<redis, local>>

-----------------------------------------------------------------------------
(* The ownership heartbeat: refreshOwnership, registerOrigin, step-down *)

HeartbeatHeld(n) ==
    /\ n \in rooms /\ owner = n
    /\ beat' = IF isEdgeRoom(n) THEN beat ELSE beat \cup {n}
    /\ UNCHANGED <<redis, up, rooms, edgeOf, cache, closing, pub, join, crashes, scenario>>

HeartbeatReclaims(n) ==
    /\ n \in rooms /\ owner = None /\ ~isEdgeRoom(n)
    /\ owner' = n
    /\ cache' = [cache EXCEPT ![n] = Empty]
    /\ beat' = beat \cup {n}
    /\ UNCHANGED <<origin, up, rooms, edgeOf, closing, pub, join, crashes, scenario>>

\* A demotion that keeps publishing.
Bug_HeartbeatLost(n) ==
    /\ n \in rooms /\ owner \notin {n, None} /\ ~isEdgeRoom(n)
    /\ cache' = [cache EXCEPT ![n] = Empty]
    /\ UNCHANGED <<redis, up, rooms, edgeOf, closing, pub, beat, join, crashes, scenario>>

\* stepDownAsOrigin.
HeartbeatLost(n) ==
    /\ n \in rooms /\ owner \notin {n, None} /\ ~isEdgeRoom(n)
    /\ pub[n] # "starting"
    /\ cache' = [cache EXCEPT ![n] = Empty]
    /\ pub' = Stopped(n)
    /\ UNCHANGED <<redis, up, rooms, edgeOf, closing, beat, join, crashes, scenario>>

HeartbeatRegisters(n) ==
    /\ n \in beat
    /\ origin' = n
    /\ beat' = beat \ {n}
    /\ UNCHANGED <<owner, up, rooms, edgeOf, cache, closing, pub, join, crashes, scenario>>

\* The TTLs.  A claim expires when its holder is dead, does not host the room or
\* (in instances with stalls) has not beaten for 90 s.
OwnerAbandoned == owner # None /\ owner \notin rooms

ExpireOwner ==
    /\ owner # None /\ (OwnerAbandoned \/ "stall" \in scenario)
    /\ owner' = None
    /\ UNCHANGED <<origin, local, join>>

ExpireOrigin ==
    /\ origin # None
    /\ origin' = None
    /\ UNCHANGED <<owner, local, join>>

-----------------------------------------------------------------------------
(* isOwner and the publisher *)

isOwner(n) == IF cache[n] = Empty THEN owner = n ELSE cache[n] = n
Read(n) == [cache EXCEPT ![n] = IF @ = Empty THEN owner ELSE @]

CacheExpires(n) ==
    /\ cache[n] # Empty
    /\ cache' = [cache EXCEPT ![n] = Empty]
    /\ UNCHANGED <<redis, up, rooms, edgeOf, closing, pub, beat, join, crashes, scenario>>

\* The heartbeat's own ownership check leaves its answer in the cache ...
HeartbeatOwns(n) ==
    /\ "publish" \in scenario
    /\ n \in rooms /\ cache[n] = Empty
    /\ cache' = Read(n)
    /\ UNCHANGED <<redis, up, rooms, edgeOf, closing, pub, beat, join, crashes, scenario>>

\* ... it promotes the room later, and startBroadcast asks isOwner once more ...
Promote(n) ==
    /\ "publish" \in scenario
    /\ n \in rooms /\ pub[n] = "off"
    /\ cache' = Read(n)
    /\ isOwner(n)
    /\ pub' = [pub EXCEPT ![n] = "starting"]
    /\ UNCHANGED <<redis, up, rooms, edgeOf, closing, beat, join, crashes, scenario>>

\* ... and creates the session if the room has a cluster when the reply is there.
PublisherStarts(n) ==
    /\ pub[n] = "starting"
    /\ pub' = [pub EXCEPT ![n] = IF n \in rooms THEN "on" ELSE "off"]
    /\ UNCHANGED <<redis, up, rooms, edgeOf, cache, closing, beat, join, crashes, scenario>>

Demote(n) ==
    /\ pub[n] = "on" /\ n \in rooms /\ isOwner(n)
    /\ cache' = Read(n)
    /\ pub' = [pub EXCEPT ![n] = "off"]
    /\ UNCHANGED <<redis, up, rooms, edgeOf, closing, beat, join, crashes, scenario>>

-----------------------------------------------------------------------------
(* closeRoom, the relay of room:closed to edges, crashes *)

CloseRoom(n) ==
    /\ "close" \in scenario
    /\ n \in rooms /\ closing[n] = "no"
    /\ pub' = Stopped(n)
    /\ closing' = [closing EXCEPT ![n] = "cleanup"]
    /\ UNCHANGED <<redis, up, rooms, edgeOf, cache, beat, join, crashes, scenario>>

\* RoomRegistry.cleanup (an unconditional DEL) and the coordinator's cleanup.
CloseCleanup(n) ==
    /\ closing[n] = "cleanup"
    /\ owner' = None /\ origin' = None
    /\ cache' = [cache EXCEPT ![n] = Empty]
    /\ edgeOf' = [edgeOf EXCEPT ![n] = None]
    /\ closing' = [closing EXCEPT ![n] = "done"]
    /\ UNCHANGED <<up, rooms, pub, beat, join, crashes, scenario>>

CloseDone(n) ==
    /\ closing[n] = "done"
    /\ rooms' = rooms \ {n}
    /\ closing' = [closing EXCEPT ![n] = "no"]
    /\ UNCHANGED <<redis, up, edgeOf, cache, pub, beat, join, crashes, scenario>>

\* An edge hears room:closed from its origin: handleOriginClosed.
EdgeTold(n) ==
    /\ isEdgeRoom(n) /\ edgeOf[n] \in up \ rooms
    /\ edgeOf' = [edgeOf EXCEPT ![n] = None]
    /\ evictLocalRoom(n)
    /\ UNCHANGED <<redis, up, closing, beat, join, crashes, scenario>>

Crash(n) ==
    /\ "crash" \in scenario /\ n \in up /\ crashes < MaxCrashes
    /\ up' = up \ {n} /\ rooms' = rooms \ {n} /\ beat' = beat \ {n}
    /\ edgeOf' = [edgeOf EXCEPT ![n] = None]
    /\ cache' = [cache EXCEPT ![n] = Empty]
    /\ closing' = [closing EXCEPT ![n] = "no"]
    /\ pub' = [pub EXCEPT ![n] = "off"]
    /\ join' = [c \in Clients |-> IF Node(c) = n THEN NotJoining ELSE join[c]]
    /\ crashes' = crashes + 1
    /\ UNCHANGED <<redis, scenario>>

Restart(n) ==
    /\ n \in Nodes \ up
    /\ up' = up \cup {n}
    /\ UNCHANGED <<redis, rooms, edgeOf, cache, closing, pub, beat, join, crashes, scenario>>

-----------------------------------------------------------------------------
JoinStep(c) ==
    \/ JoinLook(c) \/ JoinCheck(c) \/ JoinClaim(c) \/ JoinReread(c)
    \/ JoinAttach(c) \/ JoinPollGivesUp(c) \/ JoinCreate(c) \/ JoinRegister(c)
    \/ JoinDetaches(c) \/ JoinServed(c)

Heartbeat(n) == HeartbeatHeld(n) \/ HeartbeatReclaims(n) \/ HeartbeatLost(n)
Close(n) == CloseCleanup(n) \/ CloseDone(n)

Next ==
    \/ \E c \in Clients, n \in Nodes : JoinStart(c, n)
    \/ \E c \in Clients : JoinStep(c)
    \/ \E c \in Clients : JoinCreateFails(c)
    \/ \E n \in Nodes : Heartbeat(n)
    \/ \E n \in Nodes : HeartbeatRegisters(n)
    \/ ExpireOwner
    \/ ExpireOrigin
    \/ \E n \in Nodes : CacheExpires(n)
    \/ \E n \in Nodes : HeartbeatOwns(n)
    \/ \E n \in Nodes : Promote(n)
    \/ \E n \in Nodes : PublisherStarts(n)
    \/ \E n \in Nodes : Demote(n)
    \/ \E n \in Nodes : CloseRoom(n)
    \/ \E n \in Nodes : Close(n)
    \/ \E n \in Nodes : EdgeTold(n)
    \/ \E n \in Nodes : Crash(n)
    \/ \E n \in Nodes : Restart(n)

Spec == Init /\ [][Next]_vars

\* Running instances beat and answer, joins go on, caches run out after 5 s and
\* the claim of an instance that does not beat runs out after 90 s.
Fairness ==
    /\ \A c \in Clients : WF_vars(JoinStep(c))
    /\ \A n \in Nodes :
          /\ WF_vars(Heartbeat(n)) /\ WF_vars(HeartbeatRegisters(n))
          /\ WF_vars(CacheExpires(n)) /\ WF_vars(PublisherStarts(n)) /\ WF_vars(Close(n))
    /\ WF_vars(OwnerAbandoned /\ ExpireOwner)

FairSpec == Spec /\ Fairness

-----------------------------------------------------------------------------
(* Properties *)

\* aws-production/23: two origins never write the same stream for long.  An
\* instance that publishes a room another instance has claimed stops, or gets the
\* claim back.
RivalPublisherStops ==
    /\ []TypeOK
    /\ \A n \in Nodes : (pub[n] = "on" /\ owner \notin {n, None}) ~> (pub[n] # "on" \/ owner \in {n, None})

\* realtime-20: a join landing on an edge whose origin is gone does not leave the
\* instance attached to it: sooner or later it serves the room as origin, is
\* attached to an instance that does, or has no cluster.  And an origin can be
\* found (aws-production/38-D): as long as an instance hosts a room as its origin,
\* the address that edges look for is there again whenever it expired or was
\* overwritten by an instance that held the claim before.
Stranded(n) == n \in rooms /\ OriginUnreachable(n)
EdgeHeals ==
    /\ \A n \in Nodes, c \in Clients :
          (Stranded(n) /\ At(c, "served") /\ Node(c) = n /\ ~join[c].again) ~> ~Stranded(n)
    /\ \A n \in Nodes : <>[](n \in rooms /\ owner = n /\ ~isEdgeRoom(n)) => []<>(origin = n)

\* An instance that reclaimed or claimed is told so: the owner claimOwnership
\* reports is "the instanceId currently holding ownership".
ClaimTruthful ==
    [][\A c \in Clients : join[c].step \in {"claim", "reread"} /\ join'[c].step = "create" => owner' = Node(c)]_vars

\* reapOrphanedState keeps its hands off the claim because deleting it "would
\* only risk wiping a live sibling's fresh claim (split-brain surface)".  Nobody
\* deletes the claim of another instance that hosts the room.
LiveClaimKept ==
    [][\A n \in Nodes : owner = n /\ n \in rooms /\ owner' = None =>
          ExpireOwner \/ closing[n] = "cleanup"
          \/ \E c \in Clients : JoinCreateFails(c) /\ Node(c) = n]_vars

\* isOwner: "a briefly-stale `false` only delays - never duplicates - that work".
\* An instance does not promote a room that another one has claimed.
PromoteByOwner == [][\A n \in Nodes : Promote(n) => owner \in {n, None}]_vars

\* closeRoom stops the publisher first, "so no orphaned FFmpeg keeps encoding".
NoOrphanPublisher == \A n \in Nodes : pub[n] = "on" => n \in rooms
=============================================================================
