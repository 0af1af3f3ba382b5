----------------------------- MODULE RoomState -----------------------------
(***************************************************************************)
(* The Redis key room:state:{id} of one room and everybody who writes it:  *)
(* doCreateRoom, the seat-count claim of room:join, the room.updated relay *)
(* and the refetch of seat:take GET the key and SETEX a changed copy later *)
(* (two awaits, so anything may run between them); the participant scripts *)
(* and setMode change it atomically and only if it exists; closeRoom DELs  *)
(* it.  The ownership heartbeat heals the participant count from the real  *)
(* socket presence and evaluates the interactive/broadcast mode.           *)
(*                                                                         *)
(* A socket's join and leave are followed only as far as this key sees     *)
(* them.  Time appears as the age of the demote streak, in ticks.          *)
(***************************************************************************)
EXTENDS Integers, FiniteSets

CONSTANTS
    Sockets,
    SeatCounts,      \* payload seat counts and the owner's max_seats
    DefaultSeats,    \* the count doCreateRoom writes
    MaxCount,        \* bound on participantCount: nobody starts to join above it
    Up, Down,        \* ROOM_BROADCAST_THRESHOLD_UP and _DOWN
    DemoteGrace,     \* ROOM_BROADCAST_DEMOTE_GRACE_MS in ticks
    Scenarios,       \* what may happen besides join and leave: one of these sets
    Gone             \* the key does not exist

Sources == {"default", "client", "laravel"}
Modes == {"interactive", "broadcast"}
StateData == [participants: 0 .. MaxCount, seats: SeatCounts \cup {DefaultSeats}, source: Sources, mode: Modes]
Maybe == StateData \cup {Gone}

ASSUME RoomStateAssumptions ==
    /\ Up \in Nat /\ Down \in Nat /\ Down < Up
    /\ IsFiniteSet(Sockets) /\ MaxCount \in Nat /\ 2 * Cardinality(Sockets) <= MaxCount
    /\ DemoteGrace \in Nat
    /\ SeatCounts \subseteq Nat /\ DefaultSeats \in Nat
    /\ Scenarios \subseteq SUBSET {"relay", "refetch", "mode", "close", "transfer"}
    /\ Gone \notin StateData

VARIABLES
    state,      \* the key
    hosted,     \* the room is in RoomManager.rooms
    creating,   \* doCreateRoom: "no", "reading", "absent" (about to save), "exists"
    closing,    \* closeRoom: "no", "decided", "deleted"
    join,       \* socket -> where its join or leave is
    copy,       \* socket -> the state its join read
    ask,        \* socket -> the seatCount of its payload
    counted,    \* socket -> the presence its leave read
    present,    \* sockets in the Socket.IO room
    limit,      \* Laravel's max_seats
    relay,      \* the room.updated being applied: [step, n, copy]
    refetch,    \* the seat:take refetch being applied: [step, n, copy]
    beat,       \* the heartbeat in flight: [step, n, mode]
    owner,      \* this instance is the CAS origin of the room
    speaking,   \* somebody has a resumed audio producer
    streak,     \* demoteEligibleSince, as an age; -1: no streak
    calmFor,    \* history: age of the last evaluation that was above the floor
    scenario    \* what may happen in this behaviour

joinVars == <<join, copy, ask, counted, present>>
roomVars == <<hosted, creating, closing>>
seatVars == <<limit, relay, refetch>>
modeVars == <<beat, owner, speaking, streak, calmFor>>
vars == <<state, roomVars, joinVars, seatVars, modeVars, scenario>>

JoinSteps == {"out", "waiting", "resolving", "claiming", "entering", "counting", "in", "left", "healing"}
IdleWrite == [step |-> "idle", n |-> 0, copy |-> Gone]
IdleBeat == [step |-> "idle", n |-> 0, mode |-> "interactive"]
Ages == 0 .. DemoteGrace
Older(a) == IF a < DemoteGrace THEN a + 1 ELSE a

TypeOK ==
    /\ state \in Maybe
    /\ hosted \in BOOLEAN
    /\ creating \in {"no", "reading", "absent", "exists"}
    /\ closing \in {"no", "decided", "deleted"}
    /\ join \in [Sockets -> JoinSteps]
    /\ copy \in [Sockets -> Maybe]
    /\ ask \in [Sockets -> SeatCounts \cup {DefaultSeats}]
    /\ counted \in [Sockets -> 0 .. Cardinality(Sockets)]
    /\ present \subseteq Sockets
    /\ limit \in SeatCounts
    /\ {relay, refetch} \subseteq [step: {"idle", "fetched", "writing"}, n: SeatCounts \cup {0}, copy: Maybe]
    /\ beat \in [step: {"idle", "counted", "mode", "flip"}, n: 0 .. Cardinality(Sockets), mode: Modes]
    /\ owner \in BOOLEAN /\ speaking \in BOOLEAN
    /\ streak \in Ages \cup {-1} /\ calmFor \in Ages
    /\ scenario \in Scenarios

Init ==
    /\ state = Gone
    /\ hosted = FALSE /\ creating = "no" /\ closing = "no"
    /\ join = [s \in Sockets |-> "out"]
    /\ copy = [s \in Sockets |-> Gone]
    /\ ask = [s \in Sockets |-> DefaultSeats]
    /\ counted = [s \in Sockets |-> 0]
    /\ present = {}
    /\ limit \in SeatCounts
    /\ relay = IdleWrite /\ refetch = IdleWrite
    /\ beat = IdleBeat
    /\ owner = TRUE /\ speaking = FALSE
    /\ streak = -1 /\ calmFor = 0
    /\ scenario \in Scenarios

-----------------------------------------------------------------------------
(* RoomStateRepository.  save writes the whole value; the three scripts     *)
(* change one field of a key that exists and never create one.             *)

FreshState == [participants |-> 0, seats |-> DefaultSeats, source |-> "default", mode |-> "interactive"]
WithSeats(st, n, source) == [st EXCEPT !.seats = n, !.source = source]

save(st) == state' = st
delete == state' = Gone
adjustParticipantCount(d) == state' = IF state = Gone THEN Gone ELSE [state EXCEPT !.participants = @ + d]

\* A heal that only ever raises the count.
Bug_reconcileParticipantCount(n) ==
    state' = IF state = Gone THEN Gone ELSE [state EXCEPT !.participants = IF n > @ THEN n ELSE @]
reconcileParticipantCount(n) == state' = IF state = Gone THEN Gone ELSE [state EXCEPT !.participants = n]

setMode(m) == state' = IF state = Gone THEN Gone ELSE [state EXCEPT !.mode = m]

-----------------------------------------------------------------------------
(* room:join, and the creation of the room by the first one *)

Goto(s, step) == join' = [join EXCEPT ![s] = step]

JoinStart(s, n) ==
    /\ join[s] = "out"
    /\ \A st \in {state, relay.copy, refetch.copy} \cup {copy[t] : t \in Sockets} :
          st # Gone => st.participants + Cardinality({t \in Sockets : join[t] # "out"}) < MaxCount
    /\ ask' = [ask EXCEPT ![s] = n]
    /\ Goto(s, IF hosted THEN "resolving" ELSE "waiting")
    /\ creating' = IF hosted \/ creating # "no" THEN creating ELSE "reading"
    /\ UNCHANGED <<scenario, state, hosted, closing, copy, counted, present, seatVars, modeVars>>

CreateRead ==
    /\ creating = "reading"
    /\ creating' = IF state = Gone THEN "absent" ELSE "exists"
    /\ UNCHANGED <<scenario, state, hosted, closing, joinVars, seatVars, modeVars>>

CreateSave ==
    /\ creating = "absent"
    /\ save(FreshState)
    /\ creating' = "exists"
    /\ UNCHANGED <<scenario, hosted, closing, joinVars, seatVars, modeVars>>

\* After Laravel has been told, the room is registered in the map and every
\* join that waits for this creation goes on.
CreateDone ==
    /\ creating = "exists"
    /\ creating' = "no"
    /\ hosted' = TRUE
    /\ join' = [s \in Sockets |-> IF join[s] = "waiting" THEN "resolving" ELSE join[s]]
    /\ UNCHANGED <<scenario, state, closing, copy, ask, counted, present, seatVars, modeVars>>

\* resolveAuthoritativeSeatCount: only a "default" count may be claimed.
ResolveSeatCount(s) ==
    /\ join[s] = "resolving"
    /\ LET claims == state # Gone /\ state.source = "default" IN
       /\ copy' = [copy EXCEPT ![s] = IF claims THEN state ELSE Gone]
       /\ Goto(s, IF claims THEN "claiming" ELSE "entering")
    /\ UNCHANGED <<scenario, state, roomVars, ask, counted, present, seatVars, modeVars>>

ClaimSeatCount(s) ==
    /\ join[s] = "claiming"
    /\ save(WithSeats(copy[s], ask[s], "client"))
    /\ copy' = [copy EXCEPT ![s] = Gone]
    /\ Goto(s, "entering")
    /\ UNCHANGED <<scenario, roomVars, ask, counted, present, seatVars, modeVars>>

EnterRoom(s) ==
    /\ join[s] = "entering"
    /\ present' = present \cup {s}
    /\ Goto(s, "counting")
    /\ UNCHANGED <<scenario, state, roomVars, copy, ask, counted, seatVars, modeVars>>

CountJoin(s) ==
    /\ join[s] = "counting"
    /\ adjustParticipantCount(1)
    /\ Goto(s, "in")
    /\ ask' = [ask EXCEPT ![s] = DefaultSeats]
    /\ UNCHANGED <<scenario, roomVars, copy, counted, present, seatVars, modeVars>>

(* finalizeLeave: out of the Socket.IO room, then reconcile to the presence *)

LeaveRoom(s) ==
    /\ join[s] = "in"
    /\ present' = present \ {s}
    /\ Goto(s, "left")
    /\ speaking' = (speaking /\ present # {s})
    /\ UNCHANGED <<scenario, state, roomVars, copy, ask, counted, seatVars, beat, owner, streak, calmFor>>

LeaveRead(s) ==
    /\ join[s] = "left"
    /\ counted' = [counted EXCEPT ![s] = Cardinality(present)]
    /\ Goto(s, "healing")
    /\ UNCHANGED <<scenario, state, roomVars, copy, ask, present, seatVars, modeVars>>

\* Redis refuses the reconcile: the finalizer goes on, the count is not healed.
LeaveReadFails(s) ==
    /\ join[s] = "left"
    /\ Goto(s, "out")
    /\ UNCHANGED <<scenario, state, roomVars, copy, ask, counted, present, seatVars, modeVars>>

LeaveReconcile(s) ==
    /\ join[s] = "healing"
    /\ reconcileParticipantCount(counted[s])
    /\ counted' = [counted EXCEPT ![s] = 0]
    /\ Goto(s, "out")
    /\ UNCHANGED <<scenario, roomVars, copy, ask, present, seatVars, modeVars>>

-----------------------------------------------------------------------------
(* The owner changes the room's settings (max_seats may be among them); the *)
(* relay applies the max_seats of the event                                *)

OwnerSetsSeats(n) ==
    /\ "relay" \in scenario
    /\ relay.step = "idle"
    /\ limit' = n
    /\ relay' = [step |-> "fetched", n |-> n, copy |-> Gone]
    /\ UNCHANGED <<scenario, state, roomVars, joinVars, refetch, modeVars>>

RelayRead ==
    /\ relay.step = "fetched"
    /\ relay' = IF state = Gone \/ (state.seats = relay.n /\ state.source = "laravel")
                THEN IdleWrite
                ELSE [relay EXCEPT !.step = "writing", !.copy = state]
    /\ UNCHANGED <<scenario, state, roomVars, joinVars, limit, refetch, modeVars>>

RelaySave ==
    /\ relay.step = "writing"
    /\ save(WithSeats(relay.copy, relay.n, "laravel"))
    /\ relay' = IdleWrite
    /\ UNCHANGED <<scenario, roomVars, joinVars, limit, refetch, modeVars>>

\* refetchAuthoritativeSeatCount: a seat:take beyond the count asks Laravel.
RefetchFetch ==
    /\ "refetch" \in scenario
    /\ refetch.step = "idle"
    /\ state # Gone /\ limit > state.seats
    /\ refetch' = [step |-> "fetched", n |-> limit, copy |-> Gone]
    /\ UNCHANGED <<scenario, state, roomVars, joinVars, limit, relay, modeVars>>

RefetchRead ==
    /\ refetch.step = "fetched"
    /\ refetch' = IF state = Gone THEN IdleWrite ELSE [refetch EXCEPT !.step = "writing", !.copy = state]
    /\ UNCHANGED <<scenario, state, roomVars, joinVars, limit, relay, modeVars>>

RefetchSave ==
    /\ refetch.step = "writing"
    /\ save(WithSeats(refetch.copy, refetch.n, "laravel"))
    /\ refetch' = IdleWrite
    /\ UNCHANGED <<scenario, roomVars, joinVars, limit, relay, modeVars>>

-----------------------------------------------------------------------------
(* RoomModeController.decide and the heartbeat *)

Promotes(mode, n, speaker) == mode = "interactive" /\ n >= Up /\ speaker
Demotes(mode, n) == mode = "broadcast" /\ n <= Down

HeartbeatRead ==
    /\ hosted /\ beat.step = "idle"
    /\ beat' = [step |-> "counted", n |-> Cardinality(present), mode |-> "interactive"]
    /\ UNCHANGED <<scenario, state, roomVars, joinVars, seatVars, owner, speaking, streak, calmFor>>

HeartbeatReconcile ==
    /\ beat.step = "counted"
    /\ reconcileParticipantCount(beat.n)
    /\ beat' = IF hosted /\ owner /\ beat.n > 0 /\ "mode" \in scenario THEN [beat EXCEPT !.step = "mode"] ELSE IdleBeat
    /\ UNCHANGED <<scenario, roomVars, joinVars, seatVars, owner, speaking, streak, calmFor>>

\* A streak that a hold does not end.
Bug_EvaluateHold ==
    /\ ~Promotes(state.mode, beat.n, speaking) /\ ~Demotes(state.mode, beat.n)
    /\ beat' = IdleBeat
    /\ calmFor' = 0
    /\ UNCHANGED streak

EvaluateHold ==
    /\ ~Promotes(state.mode, beat.n, speaking) /\ ~Demotes(state.mode, beat.n)
    /\ beat' = IdleBeat
    /\ streak' = -1 /\ calmFor' = 0

\* A promote that is not persisted.
Bug_EvaluatePromote ==
    /\ Promotes(state.mode, beat.n, speaking)
    /\ beat' = IdleBeat
    /\ streak' = -1 /\ calmFor' = 0

EvaluatePromote ==
    /\ Promotes(state.mode, beat.n, speaking)
    /\ beat' = [beat EXCEPT !.step = "flip", !.mode = "broadcast"]
    /\ streak' = -1 /\ calmFor' = 0

EvaluateDemote ==
    /\ Demotes(state.mode, beat.n)
    /\ IF streak = DemoteGrace \/ DemoteGrace = 0
       THEN /\ beat' = [beat EXCEPT !.step = "flip", !.mode = "interactive"]
            /\ streak' = -1
       ELSE /\ beat' = IdleBeat
            /\ streak' = IF streak = -1 THEN 0 ELSE streak
    /\ UNCHANGED calmFor

EvaluateMode ==
    /\ beat.step = "mode"
    /\ IF state = Gone THEN beat' = IdleBeat /\ UNCHANGED <<streak, calmFor>>
                       ELSE EvaluateHold \/ EvaluatePromote \/ EvaluateDemote
    /\ UNCHANGED <<scenario, state, roomVars, joinVars, seatVars, owner, speaking>>

FlipMode ==
    /\ beat.step = "flip"
    /\ setMode(beat.mode)
    /\ beat' = IdleBeat
    /\ UNCHANGED <<scenario, roomVars, joinVars, seatVars, owner, speaking, streak, calmFor>>

SpeakerStartsOrStops ==
    /\ "mode" \in scenario /\ present # {}
    /\ speaking' = ~speaking
    /\ UNCHANGED <<scenario, state, roomVars, joinVars, seatVars, beat, owner, streak, calmFor>>

Tick ==
    /\ "mode" \in scenario
    /\ streak # -1 \/ calmFor < DemoteGrace
    /\ streak' = IF streak = -1 THEN -1 ELSE Older(streak)
    /\ calmFor' = Older(calmFor)
    /\ UNCHANGED <<scenario, state, roomVars, joinVars, seatVars, beat, owner, speaking>>

-----------------------------------------------------------------------------
(* closeRoom, on the auto-close decision taken when nobody was present *)

CloseDecide ==
    /\ "close" \in scenario
    /\ hosted /\ closing = "no" /\ present = {}
    /\ closing' = "decided"
    /\ UNCHANGED <<scenario, state, hosted, creating, joinVars, seatVars, modeVars>>

\* roomModeService.forget, then DEL of the key.
CloseDelete ==
    /\ closing = "decided"
    /\ delete
    /\ closing' = "deleted"
    /\ streak' = -1
    /\ UNCHANGED <<scenario, hosted, creating, joinVars, seatVars, beat, owner, speaking, calmFor>>

CloseDone ==
    /\ closing = "deleted"
    /\ closing' = "no"
    /\ hosted' = FALSE
    /\ UNCHANGED <<scenario, state, creating, joinVars, seatVars, modeVars>>

\* The 24 h TTL: every heartbeat of a hosted room refreshes it.
KeyExpires ==
    /\ state # Gone /\ ~hosted /\ creating = "no"
    /\ \A s \in Sockets : join[s] \in {"out", "in"}
    /\ delete
    /\ UNCHANGED <<scenario, roomVars, joinVars, seatVars, modeVars>>

(* The claim moves to another instance, which evaluates the mode, and back *)

OwnershipLost ==
    /\ "transfer" \in scenario
    /\ hosted /\ owner
    /\ owner' = FALSE
    /\ UNCHANGED <<scenario, state, roomVars, joinVars, seatVars, beat, speaking, streak, calmFor>>

RivalEvaluates ==
    /\ ~owner /\ present # {}
    /\ ~Demotes("broadcast", Cardinality(present))
    /\ calmFor' = 0
    /\ UNCHANGED <<scenario, state, roomVars, joinVars, seatVars, beat, owner, speaking, streak>>

OwnershipRegained ==
    /\ ~owner
    /\ owner' = TRUE
    /\ UNCHANGED <<scenario, state, roomVars, joinVars, seatVars, beat, speaking, streak, calmFor>>

-----------------------------------------------------------------------------
Create == CreateRead \/ CreateSave \/ CreateDone

JoinOrLeave(s) ==
    \/ ResolveSeatCount(s) \/ ClaimSeatCount(s) \/ EnterRoom(s) \/ CountJoin(s)
    \/ LeaveRead(s) \/ LeaveReadFails(s) \/ LeaveReconcile(s)

Relay == RelayRead \/ RelaySave
Refetch == RefetchRead \/ RefetchSave
Heartbeat == HeartbeatRead \/ HeartbeatReconcile \/ EvaluateMode \/ FlipMode
Close == CloseDelete \/ CloseDone

Next ==
    \/ \E s \in Sockets, n \in SeatCounts : JoinStart(s, n)
    \/ \E s \in Sockets : LeaveRoom(s)
    \/ \E s \in Sockets : JoinOrLeave(s)
    \/ Create
    \/ \E n \in SeatCounts : OwnerSetsSeats(n)
    \/ Relay
    \/ RefetchFetch
    \/ Refetch
    \/ Heartbeat
    \/ SpeakerStartsOrStops
    \/ Tick
    \/ CloseDecide
    \/ Close
    \/ KeyExpires
    \/ OwnershipLost \/ RivalEvaluates \/ OwnershipRegained

Spec == Init /\ [][Next]_vars

\* Handlers that have begun run to their end, the heartbeat timer keeps firing
\* and the clock keeps running.
Fairness ==
    /\ \A s \in Sockets : WF_vars(JoinOrLeave(s))
    /\ WF_vars(Create) /\ WF_vars(Relay) /\ WF_vars(Refetch) /\ WF_vars(Close)
    /\ WF_vars(Heartbeat) /\ WF_vars(Tick)

FairSpec == Spec /\ Fairness

-----------------------------------------------------------------------------
(* Properties *)

Quiet ==
    /\ \A s \in Sockets : join[s] \in {"out", "in"}
    /\ relay.step = "idle" /\ refetch.step = "idle" /\ closing = "no"

\* realtime-01: however joins, leaves and whole-value saves interleaved (and
\* however often a leave could not read the presence), once nobody comes or goes
\* any more the stored participant count becomes the real presence and stays it.
CountHeals ==
    <>[](Quiet /\ hosted) => <>[](state = Gone \/ state.participants = Cardinality(present))

\* realtime-08/17b: a room whose audience stays at or above the up threshold, with
\* somebody speaking, ends up in broadcast, even if a stale save undid a flip, and
\* one whose audience stays at or below the floor becomes interactive.
ModeConverges ==
    /\ <>[](Quiet /\ hosted /\ speaking /\ Cardinality(present) >= Up)
         => <>[](state = Gone \/ state.mode = "broadcast")
    /\ <>[](Quiet /\ hosted /\ present # {} /\ Cardinality(present) <= Down)
         => <>[](state = Gone \/ state.mode = "interactive")

\* realtime-19: a demote is decided only when every evaluation of the room during
\* the last DemoteGrace ticks found the audience at or below the floor.
DemoteDamped ==
    /\ []TypeOK
    /\ [][beat'.step = "flip" /\ beat'.mode = "interactive" /\ beat.step # "flip" => calmFor >= DemoteGrace]_vars

\* event-router: the source is stamped so that a pending "default" "can no longer
\* be claimed by a joiner's payload once Laravel has spoken".
LaravelKeepsCount ==
    [][state # Gone /\ state' # Gone /\ state.source = "laravel" => state'.source = "laravel"]_vars

\* join-room: the seat count is resolved first, "so the get->save here can't
\* lose" the participant count: saving a claim leaves the count as it is.
ClaimKeepsParticipants ==
    [][\A s \in Sockets : ClaimSeatCount(s) /\ state # Gone => state'.participants = state.participants]_vars

\* take-seat: "a smaller count must never bypass the shrink-eviction path owned
\* by the room.updated relay": the refetch of a take does not shrink the room.
RefetchNeverShrinks == [][RefetchSave /\ state # Gone => state'.seats >= state.seats]_vars
=============================================================================
