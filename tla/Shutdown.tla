------------------------------ MODULE Shutdown ------------------------------
(***************************************************************************)
(* How one instance (Home) leaves the fleet.  An operator drains it and    *)
(* may cancel that; a drain is over when no room is left or its ceiling    *)
(* has passed.  Meanwhile a loop asks Laravel to pin the instance's rooms  *)
(* elsewhere, in batches.  SIGTERM drains it too, unless a drain is on,    *)
(* and then closes the sockets and stops the gift buffer of GiftBuffer;    *)
(* a crash skips the drain.                                                *)
(*                                                                         *)
(* Each drain has a number.  Timers and loops carry the number of the      *)
(* drain that started them, which the code need not know.                  *)
(***************************************************************************)
EXTENDS GiftBuffer

CONSTANTS
    Home,
    MaxDrains,   \* bound on how often a drain starts
    MaxRooms,
    MaxFailures  \* REPIN_MAX_CONSECUTIVE_FAILURES

ASSUME ShutdownAssumptions ==
    /\ Home \in Nodes /\ MaxDrains \in Nat \ {0} /\ MaxRooms \in Nat /\ MaxFailures \in Nat \ {0}

VARIABLES
    gen,      \* the number of the last drain
    drain,    \* draining, drained, and by whose timer
    timers,   \* poll intervals and ceilings that run
    loop,     \* the re-pin loop of each drain
    failures, \* consecutive failures of each loop
    summary,  \* repinSummary is not null
    rooms,    \* rooms open on the instance
    pinned,   \* rooms Laravel pins to the instance
    phase,    \* how far the process is in its shutdown
    waited    \* the 120 s of the SIGTERM have passed

drainVars == <<gen, drain, timers, loop, failures, summary, rooms, pinned, phase, waited>>
shutdownVars == <<giftVars, drainVars>>

Drains == 1 .. MaxDrains
Kinds == {"poll", "ceiling"}

ShutdownTypeOK ==
    /\ GiftTypeOK
    /\ gen \in 0 .. MaxDrains
    /\ drain \in [on: BOOLEAN, done: BOOLEAN, by: 0 .. MaxDrains, callback: BOOLEAN]
    /\ timers \subseteq Kinds \X Drains
    /\ loop \in [Drains -> {"none", "flag", "ask", "sleep", "over", "threw"}]
    /\ failures \in [Drains -> 0 .. MaxFailures]
    /\ summary \in BOOLEAN /\ waited \in BOOLEAN
    /\ rooms \in 0 .. MaxRooms /\ pinned \in 0 .. MaxRooms
    /\ phase \in {"serving", "queue", "rooms", "sockets", "buffers", "crash", "gone"}

ShutdownInit ==
    /\ GiftInit
    /\ gen = 0 /\ drain = [on |-> FALSE, done |-> FALSE, by |-> 0, callback |-> FALSE]
    /\ timers = {} /\ summary = FALSE
    /\ loop = [k \in Drains |-> "none"] /\ failures = [k \in Drains |-> 0]
    /\ rooms \in IF "rooms" \in scenario THEN 0 .. MaxRooms ELSE {0}
    /\ pinned = rooms
    /\ phase = "serving" /\ waited = FALSE

Alive == phase # "gone"

-----------------------------------------------------------------------------
(* drain.ts *)

StartDrain(callback) ==
    /\ ~drain.on
    /\ gen' = gen + 1
    /\ drain' = [on |-> TRUE, done |-> FALSE, by |-> 0, callback |-> callback]
    /\ timers' = timers \cup (Kinds \X {gen + 1})
    /\ loop' = [loop EXCEPT ![gen + 1] = "flag"]
    /\ summary' = TRUE

AdminDrain ==
    /\ Alive /\ "drain" \in scenario /\ gen + 1 < MaxDrains
    /\ StartDrain(FALSE)
    /\ UNCHANGED <<failures, rooms, pinned, phase, waited, giftVars>>

\* A reset that forgets the two timers.
Bug_Cleared == timers
\* The handles are those of the last drain.
Cleared == timers \ (Kinds \X {gen})

\* completeDrain; the report resolves what the SIGTERM waits for.
CompleteDrain(k) ==
    /\ ~drain.done
    /\ drain' = [drain EXCEPT !.done = TRUE, !.by = k]
    /\ timers' = Cleared
    /\ phase' = IF drain.callback /\ phase = "rooms" THEN "sockets" ELSE phase

TimerFires ==
    /\ Alive
    /\ \E t \in timers :
          /\ t[1] = "poll" => rooms = 0
          /\ CompleteDrain(t[2])
    /\ UNCHANGED <<gen, loop, failures, summary, rooms, pinned, waited, giftVars>>

\* resetDrain; the draining flag in Laravel is cleared beside it.
AdminUndrain ==
    /\ Alive /\ drain.on /\ "drain" \in scenario
    /\ drain' = [on |-> FALSE, done |-> FALSE, by |-> 0, callback |-> FALSE]
    /\ timers' = Cleared
    /\ summary' = FALSE
    /\ UNCHANGED <<gen, loop, failures, rooms, pinned, phase, waited, giftVars>>

-----------------------------------------------------------------------------
(* runRepinLoop *)

\* The loop looks at the flags of the process, not at the drain it belongs to.
GoesOn == IF drain.on /\ ~drain.done THEN "ask" ELSE "over"

LoopFlagged(k) ==
    /\ Alive /\ loop[k] \in {"flag", "sleep"}
    /\ loop' = [loop EXCEPT ![k] = GoesOn]
    /\ UNCHANGED <<gen, drain, timers, failures, summary, rooms, pinned, phase, waited, giftVars>>

\* Laravel moved n rooms.  Adding up what it says needs the summary of a drain.
Batch(k, n) ==
    /\ n <= pinned /\ pinned' = pinned - n
    /\ failures' = [failures EXCEPT ![k] = 0]
    /\ loop' = [loop EXCEPT ![k] = IF ~summary THEN "threw"
                                   ELSE IF pinned' = 0 \/ n = 0 THEN "over" ELSE "sleep"]

NoBatch(k) ==
    /\ "fail" \in scenario
    /\ failures' = [failures EXCEPT ![k] = @ + 1]
    /\ loop' = [loop EXCEPT ![k] = IF failures'[k] = MaxFailures THEN "over" ELSE "sleep"]
    /\ UNCHANGED pinned

LoopAsks(k) ==
    /\ Alive /\ loop[k] = "ask"
    /\ (\E n \in 0 .. MaxRooms : Batch(k, n)) \/ NoBatch(k)
    /\ UNCHANGED <<gen, drain, timers, summary, rooms, phase, waited, giftVars>>

-----------------------------------------------------------------------------
(* rooms *)

RoomOpens ==
    /\ "rooms" \in scenario /\ phase \in {"serving", "queue", "rooms"}
    /\ rooms < MaxRooms /\ pinned < MaxRooms
    /\ rooms' = rooms + 1 /\ pinned' = pinned + 1
    /\ UNCHANGED <<gen, drain, timers, loop, failures, summary, phase, waited, giftVars>>

\* People go, or follow their room to the instance it is pinned to.
RoomCloses ==
    /\ Alive /\ rooms > 0
    /\ rooms' = rooms - 1
    /\ pinned' \in {pinned, IF pinned > 0 THEN pinned - 1 ELSE 0}
    /\ UNCHANGED <<gen, drain, timers, loop, failures, summary, phase, waited, giftVars>>

-----------------------------------------------------------------------------
(* gracefulShutdown and crashShutdown *)

Signal ==
    /\ phase = "serving" /\ exits < MaxExits
    /\ phase' = "queue"
    /\ UNCHANGED <<gen, drain, timers, loop, failures, summary, rooms, pinned, waited, giftVars>>

\* A SIGTERM while a drain is on does not wait for it.
Waits == ~drain.on

\* The queue consumer has stopped.
EnterDrain ==
    /\ phase = "queue"
    /\ IF Waits
       THEN StartDrain(TRUE) /\ phase' = "rooms"
       ELSE phase' = "sockets" /\ UNCHANGED <<gen, drain, timers, loop, summary>>
    /\ UNCHANGED <<failures, rooms, pinned, waited, giftVars>>

\* The SIGTERM's own 120 s, whatever became of the drain it started.
GiveUpRooms ==
    /\ phase = "rooms"
    /\ waited' = TRUE /\ phase' = "sockets"
    /\ UNCHANGED <<gen, drain, timers, loop, failures, summary, rooms, pinned, giftVars>>

\* io.close, the disconnect handlers, then the timers and the gift buffer.
StopBuffers ==
    /\ phase = "sockets" /\ Stop(Home)
    /\ phase' = "buffers"
    /\ UNCHANGED <<gen, drain, timers, loop, failures, summary, rooms, pinned, waited>>

\* An uncaught exception or too many rejections: the gifts are flushed, no drain.
CrashStop ==
    /\ "crash" \in scenario /\ phase \in {"serving", "queue", "rooms"} /\ Stop(Home)
    /\ phase' = "crash"
    /\ UNCHANGED <<gen, drain, timers, loop, failures, summary, rooms, pinned, waited>>

\* The forced exits: 150 s after SIGTERM, or the caps and the deadline of a crash.
Forced ==
    /\ phase \in {"queue", "rooms", "sockets", "buffers", "crash"} /\ "slow" \in scenario
    /\ End(Home) /\ UNCHANGED exits

Leave ==
    /\ Exit(Home) \/ Forced
    /\ phase' = "gone"
    /\ UNCHANGED <<gen, drain, timers, loop, failures, summary, rooms, pinned, waited>>

-----------------------------------------------------------------------------

GiftStep ==
    /\ \/ \E n \in Nodes, g \in Gifts :
             /\ "rooms" \notin scenario
             /\ n = Home => phase \in {"serving", "queue", "rooms"}
             /\ Send(n, g)
       \/ \E g \in Gifts : Enqueue(g)
       \/ \E n \in Nodes : GiftWork(n)
    /\ UNCHANGED drainVars

LoopStep == \E k \in Drains : LoopFlagged(k) \/ LoopAsks(k)

Process == EnterDrain \/ GiveUpRooms \/ StopBuffers \/ Leave

ShutdownNext ==
    \/ GiftStep \/ AdminDrain \/ AdminUndrain \/ TimerFires \/ LoopStep
    \/ RoomOpens \/ RoomCloses \/ Signal \/ CrashStop \/ Process

ShutdownSpec == ShutdownInit /\ [][ShutdownNext]_shutdownVars

\* Calls end, timers fire; nobody has to drain, cancel, leave or come.
ShutdownFairness ==
    /\ \A g \in Gifts : WF_shutdownVars(Enqueue(g) /\ UNCHANGED drainVars)
    /\ \A n \in Nodes : WF_shutdownVars(GiftWork(n) /\ UNCHANGED drainVars)
    /\ WF_shutdownVars(Process)

ShutdownFairSpec == ShutdownSpec /\ ShutdownFairness

-----------------------------------------------------------------------------
(* Properties *)

\* A cancelled drain neither completes nor marks a later one as complete: only a
\* drain that is on is over, and by its own poll or ceiling (drain.ts:283).
CancelHolds == ShutdownTypeOK /\ (drain.done => drain.on /\ drain.by = gen)

\* Claim: rooms with people in them are cut off only 120 s after the SIGTERM, or when
\* its drain is over (index.ts:115).  A SIGTERM during a drain does not wait.
SignalAlwaysWaits ==
    [][(phase \in {"queue", "rooms"}) /\ phase' = "sockets" /\ rooms' > 0
       => waited' \/ (drain.done' /\ drain.by' = gen)]_shutdownVars

\* Claim: the loop of a drain adds up its totals without failing (drain.ts:186).
NoLoopThrows == \A k \in Drains : loop[k] # "threw"

\* Claim: one loop at a time asks Laravel to move rooms.
OneLoop == \A k, l \in Drains : loop[k] \in {"ask", "sleep"} /\ loop[l] \in {"ask", "sleep"} => k = l
=============================================================================
