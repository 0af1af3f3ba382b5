------------------------------- MODULE Media --------------------------------
(***************************************************************************)
(* The media of one room on one instance.  Speakers produce on the source  *)
(* router.  Listeners consume on distribution routers, each with room for  *)
(* Cap of them and made on demand; every producer is piped to every one    *)
(* of them.  The routers live on the workers of WorkerPool, whose death    *)
(* closes the room.                                                        *)
(*                                                                         *)
(* One action per awaited step of audio:produce, of transport:create and   *)
(* of the making of a router.  mediasoup is external: a call on what is    *)
(* closed fails, and the close of a transport, unlike that of a producer,  *)
(* is told to the handlers that were attached before.                      *)
(***************************************************************************)
EXTENDS WorkerPool

CONSTANTS
    Users,
    Producers,   \* bound on the calls of audio:produce
    Listeners,
    Routers,     \* bound on the distribution routers
    Cap,         \* MAX_LISTENERS_PER_DISTRIBUTION_ROUTER
    None,        \* no producer, no router
    MaxTrouble   \* bound on failures and closes

ASSUME MediaAssumptions ==
    /\ Cap \in Nat \ {0} /\ MaxTrouble \in Nat /\ None \notin Producers \cup Routers
    /\ IsFiniteSet(Listeners)

VARIABLES
    open,      \* the room's cluster is not closed
    source,    \* pid of the source router's worker
    up,        \* users whose producer transport is open
    call,      \* the step of each call of audio:produce
    owner,     \* the user of a producer
    live,      \* producers that are not closed
    tracked,   \* client.producers
    ids,       \* sourceProducerIds
    known,     \* producers the source router has
    hooked,    \* producers whose close will be told to the room
    left,      \* routers a producer is still to be piped to
    announced, \* audio:newProducer was sent
    ended,     \* audio:producerClosed was sent, or the user was told to be off the seat
    router,    \* the distribution routers
    pending,   \* pendingDistRouter
    listener,  \* each listener's transport:create
    trouble

produceVars == <<up, call, owner, live, tracked, ids, known, hooked, left, announced, ended>>
listenVars == <<router, pending, listener>>
mediaVars == <<open, source, produceVars, listenVars, trouble, poolVars, scenario>>

NoRouter == [step |-> "none", worker |-> 0, seen |-> {}, piped |-> {}, count |-> 0]
Out == [step |-> "out", at |-> None]

MediaTypeOK ==
    /\ PoolTypeOK /\ open \in BOOLEAN /\ up \subseteq Users /\ trouble \in 0 .. MaxTrouble
    /\ call \in [Producers -> {"new", "produce", "observe", "pipe", "done", "failed"}]
    /\ owner \in [Producers -> Users \cup {None}] /\ tracked \in [Users -> Producers \cup {None}]
    /\ live \cup ids \cup known \cup hooked \cup announced \cup ended \subseteq Producers
    /\ left \in [Producers -> SUBSET Routers]
    /\ \A r \in Routers :
          /\ router[r].step \in {"none", "init", "pipe", "up"}
          /\ router[r].piped \subseteq router[r].seen /\ router[r].count \in 0 .. Cap
    /\ pending \in Routers \cup {None}
    /\ \A l \in Listeners : listener[l].step \in {"out", "wait", "create", "open"}

MediaInit ==
    /\ PoolInit /\ open = TRUE /\ source = pool[1].pid /\ up = Users /\ trouble = 0
    /\ call = [p \in Producers |-> "new"] /\ owner = [p \in Producers |-> None]
    /\ live = {} /\ ids = {} /\ known = {} /\ hooked = {} /\ announced = {} /\ ended = {}
    /\ tracked = [u \in Users |-> None] /\ left = [p \in Producers |-> {}]
    /\ router = [r \in Routers |-> NoRouter] /\ pending = None
    /\ listener = [l \in Listeners |-> Out]

UpRouters == {r \in Routers : router[r].step = "up"}
\* One sort of trouble at a time: nobody leaves where a worker dies.
Trouble == "death" \notin scenario /\ trouble < MaxTrouble /\ trouble' = trouble + 1
Calls(u) == {p \in Producers : owner[p] = u /\ call[p] \in {"produce", "observe", "pipe"}}

-----------------------------------------------------------------------------
(* audio:produce *)

Step(p, to) == call' = [call EXCEPT ![p] = to]

\* A client that waits for the answer has one call under way.
Produce(u, p) ==
    /\ open /\ u \in up /\ call[p] = "new" /\ (\A q \in Producers : q < p => call[q] # "new")
    /\ "twice" \in scenario \/ Calls(u) = {}
    /\ Step(p, "produce") /\ owner' = [owner EXCEPT ![p] = u]
    /\ UNCHANGED <<open, source, up, live, tracked, ids, known, hooked, left, announced, ended,
                   listenVars, trouble, poolVars, scenario>>

\* closeDisplacedProducer finds only what the source router has been given.
Displaced(u) == {tracked[u]} \cap known \cap live

Produced(p) ==
    /\ call[p] = "produce"
    /\ LET u == owner[p] IN
       IF u \notin up
       THEN Step(p, "failed") /\ UNCHANGED <<live, tracked, ended>>
       ELSE /\ live' = (live \cup {p}) \ Displaced(u)
            /\ ended' = ended \cup Displaced(u)
            /\ tracked' = [tracked EXCEPT ![u] = p]
            /\ Step(p, "observe")
    /\ UNCHANGED <<open, source, up, owner, ids, known, hooked, left, announced,
                   listenVars, trouble, poolVars, scenario>>

\* addProducer throws when the producer is closed.  registerProducer begins to pipe it
\* to the routers there are; a router under way takes it from sourceProducerIds.
Observed(p) ==
    /\ call[p] = "observe"
    /\ IF p \in live /\ open
       THEN /\ ids' = ids \cup {p} /\ known' = known \cup {p}
            /\ left' = [left EXCEPT ![p] = UpRouters]
            /\ Step(p, "pipe")
       ELSE Step(p, "failed") /\ UNCHANGED <<ids, known, left>>
    /\ UNCHANGED <<open, source, up, owner, live, tracked, hooked, announced, ended,
                   listenVars, trouble, poolVars, scenario>>

Pipe(p, r) ==
    /\ call[p] = "pipe" /\ r \in left[p] /\ p \in live /\ router[r].step = "up"
    /\ left' = [left EXCEPT ![p] = @ \ {r}]
    /\ router' = [router EXCEPT ![r].piped = @ \cup {p}, ![r].seen = @ \cup {p}]
    /\ UNCHANGED <<open, source, up, call, owner, live, tracked, ids, known, hooked, announced, ended,
                   pending, listener, trouble, poolVars, scenario>>

\* The producer is closed, and whatever its user's client tracks is forgotten.
PipeFails(p) ==
    /\ call[p] = "pipe" /\ left[p] # {}
    /\ \/ p \notin live /\ UNCHANGED trouble
       \/ "fail" \in scenario /\ Trouble
    /\ live' = live \ {p} /\ left' = [left EXCEPT ![p] = {}]
    /\ tracked' = [tracked EXCEPT ![owner[p]] = None]
    /\ Step(p, "failed")
    /\ UNCHANGED <<open, source, up, owner, ids, known, hooked, announced, ended,
                   listenVars, poolVars, scenario>>

\* Only now is the close of the transport listened to.
Announce(p) ==
    /\ call[p] = "pipe" /\ left[p] = {}
    /\ Step(p, "done")
    /\ announced' = announced \cup {p} /\ hooked' = hooked \cup {p}
    /\ UNCHANGED <<open, source, up, owner, live, tracked, ids, known, left, ended,
                   listenVars, trouble, poolVars, scenario>>

\* The user's transports are closed by a leave or a disconnect.
Leaves(u) ==
    /\ u \in up /\ (Calls(u) = {} \/ "early" \in scenario) /\ Trouble
    /\ up' = up \ {u}
    /\ LET mine == {p \in live : owner[p] = u}
       IN /\ live' = live \ mine
          /\ ids' = ids \ mine /\ known' = known \ mine
          /\ ended' = ended \cup (mine \cap hooked)
          /\ tracked' = [tracked EXCEPT ![u] = None]
    /\ UNCHANGED <<open, source, call, owner, hooked, left, announced,
                   listenVars, poolVars, scenario>>

\* closeAllUserProducers of a kick, a locked seat or a shrink: sourceProducerIds keeps
\* what it closes.
Remove(u) ==
    /\ "remove" \in scenario /\ tracked[u] # None /\ Trouble
    /\ Calls(u) = {} \/ "early" \in scenario
    /\ live' = live \ ({tracked[u]} \cap known)
    /\ ended' = ended \cup {tracked[u]}
    /\ tracked' = [tracked EXCEPT ![u] = None]
    /\ UNCHANGED <<open, source, up, call, owner, ids, known, hooked, left, announced,
                   listenVars, poolVars, scenario>>

-----------------------------------------------------------------------------
(* transport:create of a listener *)

routerVars == <<open, source, produceVars, poolVars, scenario>>

\* The capacity is looked at when the router is ready, not when the slot is taken.
Bug_HasRoom(r) == router[r].step = "up"
HasRoom(r) == router[r].step = "up" /\ router[r].count < Cap

Reserve(l, r) ==
    /\ router' = [router EXCEPT ![r].count = @ + 1]
    /\ listener' = [listener EXCEPT ![l] = [step |-> "create", at |-> r]]

\* getLeastLoadedWorker: the first of the least loaded, and any worker rather than the
\* source's.  The room is the only one of the instance.
Eligible == IF Pids \ {source} # {} THEN Pids \ {source} ELSE Pids
Load(w) == Cardinality({r \in Routers : router[r].worker = w /\ router[r].step # "init"})
Place(w) == CHOOSE i \in DOMAIN pool : pool[i].pid = w
LeastLoadedWorkers ==
    {w \in Eligible : \A v \in Eligible :
        Load(w) < Load(v) \/ (Load(w) = Load(v) /\ Place(w) <= Place(v))}

Free(r) == router[r] = NoRouter /\ (\A l \in Listeners : listener[l].at # r)

\* Concurrent callers wait for one and the same router.
AwaitRouter(l) ==
    IF pending # None
    THEN /\ listener' = [listener EXCEPT ![l] = [step |-> "wait", at |-> pending]]
         /\ UNCHANGED <<router, pending>>
    ELSE \E r \in Routers, w \in LeastLoadedWorkers :
            /\ Free(r) /\ (\A q \in Routers : Free(q) => r <= q)
            /\ router' = [router EXCEPT ![r].step = "init", ![r].worker = w]
            /\ pending' = r
            /\ listener' = [listener EXCEPT ![l] = [step |-> "wait", at |-> r]]

getOrCreateDistributionRouter(l) ==
    IF \E r \in Routers : HasRoom(r)
    THEN (\E r \in Routers : HasRoom(r) /\ Reserve(l, r)) /\ UNCHANGED pending
    ELSE AwaitRouter(l)

Ask(l) ==
    /\ open /\ listener[l] = Out
    /\ getOrCreateDistributionRouter(l)
    /\ UNCHANGED <<routerVars, trouble>>

\* The router the caller waited for is ready, and may be full by now.
Resume(l) ==
    /\ listener[l].step = "wait" /\ router[listener[l].at].step = "up"
    /\ IF HasRoom(listener[l].at)
       THEN Reserve(l, listener[l].at) /\ UNCHANGED pending
       ELSE getOrCreateDistributionRouter(l)
    /\ UNCHANGED <<routerVars, trouble>>

\* The slot of a transport that was not made, or is closed, is free again.
Release(l) ==
    /\ router' = [router EXCEPT ![listener[l].at].count = IF @ > 0 THEN @ - 1 ELSE 0]
    /\ listener' = [listener EXCEPT ![l] = Out]

Created(l) ==
    /\ listener[l].step = "create" /\ router[listener[l].at].step = "up"
    /\ listener' = [listener EXCEPT ![l].step = "open"]
    /\ UNCHANGED <<router, pending, routerVars, trouble>>

CreateFails(l) ==
    /\ listener[l].step = "create" /\ "fail" \in scenario /\ Trouble
    /\ Release(l)
    /\ UNCHANGED <<pending, routerVars>>

ListenerLeaves(l) ==
    /\ listener[l].step = "open" /\ Trouble
    /\ Release(l)
    /\ UNCHANGED <<pending, routerVars>>

-----------------------------------------------------------------------------
(* createDistributionRouter *)

Initialized(r) ==
    /\ router[r].step = "init"
    /\ router' = [router EXCEPT ![r].step = "pipe"]
    /\ UNCHANGED <<pending, listener, routerVars, trouble>>

\* What was there when the piping began, without what has come since.
Bug_NextIds(r) == {p \in ids : call[p] = "done"} \ router[r].seen
\* The set is iterated while it changes.
NextIds(r) == ids \ router[r].seen

PipeNext(r) ==
    /\ router[r].step = "pipe"
    /\ \E p \in NextIds(r) \cap live :
          router' = [router EXCEPT ![r].seen = @ \cup {p}, ![r].piped = @ \cup {p}]
    /\ UNCHANGED <<pending, listener, routerVars, trouble>>

\* pendingDistRouter is cleared by a router that is ready, not by one that fails.
Bug_PendingAfterFailure == pending
PendingAfterFailure == None

\* The router is torn down, and everyone who waits for it fails.
RouterFails(r) ==
    /\ router[r].step = "pipe" /\ open
    /\ NextIds(r) # {}
    /\ \/ (NextIds(r) \ live # {} \/ router[r].worker = source) /\ UNCHANGED trouble
       \/ "fail" \in scenario /\ Trouble
    /\ router' = [router EXCEPT ![r] = NoRouter]
    /\ pending' = PendingAfterFailure
    /\ listener' = [l \in Listeners |-> IF listener[l].at = r THEN Out ELSE listener[l]]
    /\ UNCHANGED routerVars

RouterReady(r) ==
    /\ router[r].step = "pipe" /\ NextIds(r) = {}
    /\ router' = [router EXCEPT ![r].step = "up"]
    /\ pending' = None
    /\ UNCHANGED <<listener, routerVars, trouble>>

-----------------------------------------------------------------------------
(* The end of the cluster, and its workers *)

\* close: the routers that are ready go, with every transport.
Close ==
    /\ open' = FALSE /\ up' = {}
    /\ ended' = ended \cup (live \cap hooked)
    /\ live' = {} /\ ids' = {} /\ known' = {} /\ tracked' = [u \in Users |-> None]
    /\ router' = [r \in Routers |-> IF router[r].step = "up" THEN NoRouter ELSE router[r]]
    /\ listener' = [l \in Listeners |->
                       IF listener[l].at \in UpRouters THEN Out ELSE listener[l]]
    /\ UNCHANGED <<source, call, owner, hooked, left, announced, pending>>

RoomCloses ==
    /\ open /\ "close" \in scenario /\ Close
    /\ UNCHANGED <<trouble, poolVars, scenario>>

On == {source} \cup {router[r].worker : r \in UpRouters}

\* A death closes the room before the worker is made anew.
DeathHandled(d) ==
    /\ RoomsClosed(d)
    /\ IF open /\ d.pid \in On THEN Close ELSE UNCHANGED <<open, source, produceVars, listenVars>>
    /\ UNCHANGED trouble

clusterVars == <<open, source, produceVars, listenVars, trouble>>

-----------------------------------------------------------------------------

ProduceStep == \E p \in Producers :
    Produced(p) \/ Observed(p) \/ (\E r \in Routers : Pipe(p, r)) \/ PipeFails(p) \/ Announce(p)

RouterStep == \E r \in Routers : Initialized(r) \/ PipeNext(r) \/ RouterFails(r) \/ RouterReady(r)

PoolStep == \E d \in deaths : DeathHandled(d) \/ (Recreate(d) /\ UNCHANGED clusterVars)

MediaNext ==
    \/ \E u \in Users : Leaves(u) \/ Remove(u) \/ \E p \in Producers : Produce(u, p)
    \/ ProduceStep \/ RouterStep \/ PoolStep
    \/ \E l \in Listeners : Ask(l) \/ Resume(l) \/ Created(l) \/ CreateFails(l) \/ ListenerLeaves(l)
    \/ RoomCloses
    \/ WorkerDies /\ UNCHANGED clusterVars

MediaSpec == MediaInit /\ [][MediaNext]_mediaVars

\* Calls of mediasoup end; a listener without a transport asks again.
MediaFairness ==
    /\ WF_mediaVars(ProduceStep) /\ WF_mediaVars(RouterStep) /\ WF_mediaVars(PoolStep)
    /\ \A l \in Listeners : WF_mediaVars(Ask(l) \/ Resume(l) \/ Created(l))

MediaFairSpec == MediaSpec /\ MediaFairness

-----------------------------------------------------------------------------
(* Properties *)

\* Every speaker the room was told of is piped to every router that has listeners:
\* nobody hears less than the others, whenever a router is made while somebody
\* begins to speak (roomMediaCluster.ts:474).
EveryoneHears ==
    MediaTypeOK /\ (open => \A p \in announced \cap live, r \in UpRouters : p \in router[r].piped)

\* Claim: a user has one live producer (media.handler.ts:568).
AlwaysOneVoice == \A p, q \in live : owner[p] = owner[q] /\ {p, q} \subseteq announced => p = q

\* Claim: the room is told of the end of every producer it was told of (media.handler.ts:555).
EndAlwaysTold == open => announced \subseteq live \cup ended

\* A router's count is that of its listeners, and never above the capacity, however
\* many ask at once (roomMediaCluster.ts:164).
SlotsExact ==
    \A r \in Routers :
        /\ router[r].count <= Cap
        /\ router[r].count = Cardinality({l \in Listeners : listener[l].at = r
                                             /\ listener[l].step \in {"create", "open"}})

\* A listener who waits for a router gets in, however often a router fails, unless the
\* room closes or keeps a producer that was closed on its own (roomMediaCluster.ts:476).
ListenerGetsIn ==
    \A l \in Listeners :
        (listener[l].step = "wait") ~> (listener[l].step = "open" \/ ~open \/ ids \ live # {})

\* The claim without the last exception.
ListenerAlwaysGetsIn ==
    \A l \in Listeners : (listener[l].step = "wait") ~> (listener[l].step = "open" \/ ~open)

\* A closed cluster has no router.
ClosedHasNoRouter == ~open => UpRouters = {}
=============================================================================
