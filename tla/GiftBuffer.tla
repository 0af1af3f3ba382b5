----------------------------- MODULE GiftBuffer -----------------------------
(***************************************************************************)
(* The way of a gift from gift:send to Laravel.  The handler shows the     *)
(* gift to the room and then appends it to a Redis list.  Every instance   *)
(* has a timer that pops a batch off the list by a script, posts it, and   *)
(* when the post fails posts its gifts one by one: what fails again goes   *)
(* back to the list with a higher retry count, or to the dead letters.     *)
(* An instance that stops waits, up to a cap, for the flush that is under  *)
(* way and flushes once more.                                              *)
(*                                                                         *)
(* One action per awaited call.  Laravel is external: it books a gift or   *)
(* refuses it, always with the same answer, and the answer may get lost.   *)
(* The dead letters are longer than their cap only after 10 000 gifts,     *)
(* and entries of the list that do not parse are left out.                 *)
(***************************************************************************)
EXTENDS Integers, Sequences, FiniteSets

CONSTANTS
    Gifts,
    Nodes,
    None,        \* no instance
    BatchSize,   \* MAX_BATCH_SIZE
    MaxRetries,  \* GIFT_MAX_RETRIES
    MaxExits,    \* bound on how many instances stop or crash
    Scenarios    \* what happens: subsets of {"fail", "lost", "redis", "slow", "crash"}

ASSUME GiftAssumptions ==
    /\ BatchSize \in Nat \ {0} /\ MaxRetries \in Nat \ {0} /\ MaxExits \in Nat
    /\ None \notin Nodes

VARIABLES
    sending,  \* the instance that has shown a gift and not yet queued it
    shown,    \* gifts the room has seen
    queue,    \* gifts:pending
    dead,     \* gifts:dead_letter
    flush,    \* the flush of each instance
    life,     \* whether an instance runs, waits for its last flush, has stopped, is gone
    exits,    \* how many instances have begun to stop or have crashed
    verdict,  \* what Laravel says to a gift
    booked,   \* gifts Laravel has booked
    answered, \* gifts an instance knows Laravel's verdict of
    told,     \* gifts whose sender got gift:error
    scenario

giftVars == <<sending, shown, queue, dead, flush, life, exits, verdict, booked, answered, told, scenario>>
senderVars == <<sending, shown>>
laravelVars == <<verdict, booked>>

Entry == [gift: Gifts, tries: 0 .. MaxRetries]
Flush == [step: {"idle", "batch", "items"}, rest: Seq(Entry), again: Seq(Entry), over: Seq(Gifts)]
Idle == [step |-> "idle", rest |-> <<>>, again |-> <<>>, over |-> <<>>]

GiftTypeOK ==
    /\ sending \in [Gifts -> Nodes \cup {None}] /\ shown \subseteq Gifts
    /\ queue \in Seq(Entry) /\ dead \in Seq(Gifts)
    /\ flush \in [Nodes -> Flush] /\ \A n \in Nodes : flush[n].step = "idle" => flush[n] = Idle
    /\ life \in [Nodes -> {"up", "waiting", "last", "stopped", "gone"}] /\ exits \in 0 .. MaxExits
    /\ verdict \in [Gifts -> {"ok", "bad"}]
    /\ booked \subseteq Gifts /\ answered \subseteq Gifts /\ told \subseteq Gifts
    /\ scenario \in Scenarios

GiftInit ==
    /\ sending = [g \in Gifts |-> None] /\ shown = {}
    /\ queue = <<>> /\ dead = <<>>
    /\ flush = [n \in Nodes |-> Idle]
    /\ life = [n \in Nodes |-> "up"] /\ exits = 0
    /\ verdict \in [Gifts -> {"ok", "bad"}]
    /\ booked = {} /\ answered = {} /\ told = {}
    /\ scenario \in Scenarios

Runs(n) == life[n] # "gone"
GiftsOf(entries) == {entries[i].gift : i \in DOMAIN entries}
InFlight(n) == GiftsOf(flush[n].rest) \cup GiftsOf(flush[n].again)
               \cup {flush[n].over[i] : i \in DOMAIN flush[n].over}
Good(gs) == {g \in gs : verdict[g] = "ok"}

-----------------------------------------------------------------------------
(* gift:send *)

\* The room sees the gift before it is queued.
Send(n, g) ==
    /\ life[n] = "up" /\ g \notin shown
    /\ sending' = [sending EXCEPT ![g] = n]
    /\ shown' = shown \cup {g}
    /\ UNCHANGED <<queue, dead, flush, life, exits, laravelVars, answered, told, scenario>>

Enqueue(g) ==
    /\ sending[g] # None
    /\ \/ queue' = Append(queue, [gift |-> g, tries |-> 0])
       \/ "redis" \in scenario /\ UNCHANGED queue
    /\ sending' = [sending EXCEPT ![g] = None]
    /\ UNCHANGED <<shown, dead, flush, life, exits, laravelVars, answered, told, scenario>>

-----------------------------------------------------------------------------
(* flush *)

Popped == SubSeq(queue, 1, IF Len(queue) < BatchSize THEN Len(queue) ELSE BatchSize)

Remaining == SubSeq(queue, Len(Popped) + 1, Len(queue))

\* The script may have run although its reply never came.
Pop(n) ==
    /\ flush[n] = Idle /\ queue # <<>>
    /\ queue' = Remaining
    /\ \/ flush' = [flush EXCEPT ![n] = [Idle EXCEPT !.step = "batch", !.rest = Popped]]
       \/ "redis" \in scenario /\ UNCHANGED flush

Tick(n) ==
    /\ life[n] = "up" /\ Pop(n)
    /\ UNCHANGED <<senderVars, dead, life, exits, laravelVars, answered, told, scenario>>

\* A post that was answered: Laravel says of each gift whether it failed.
Answer(gs) ==
    /\ booked' = booked \cup Good(gs)
    /\ answered' = answered \cup gs
    /\ told' = told \cup (gs \ Good(gs))

\* A post that threw: a status that is not ok, a timeout, an answer that got lost.
Throw(gs) ==
    /\ "fail" \in scenario
    /\ booked' \in {booked} \cup (IF "lost" \in scenario THEN {booked \cup Good(gs)} ELSE {})
    /\ UNCHANGED answered

PostBatch(n) ==
    /\ Runs(n) /\ flush[n].step = "batch"
    /\ \/ /\ Answer(GiftsOf(flush[n].rest))
          /\ flush' = [flush EXCEPT ![n] = Idle]
       \/ /\ Throw(GiftsOf(flush[n].rest))
          /\ flush' = [flush EXCEPT ![n].step = "items"]
          /\ UNCHANGED told
    /\ UNCHANGED <<senderVars, queue, dead, life, exits, verdict, scenario>>

\* The retry count is written to the list but never raised.
Bug_RetriesAfter(entry) == entry.tries
RetriesAfter(entry) == entry.tries + 1

\* The sender is told of every failed attempt.
Bug_Notifies(retries) == TRUE
Notifies(retries) == retries >= MaxRetries

\* Each gift of a failed batch is posted alone.
PostItem(n) ==
    /\ Runs(n) /\ flush[n].step = "items" /\ flush[n].rest # <<>>
    /\ LET entry == Head(flush[n].rest)
           g == entry.gift
           retries == RetriesAfter(entry)
           rest == Tail(flush[n].rest)
       IN \/ /\ Answer({g})
             /\ flush' = [flush EXCEPT ![n].rest = rest]
          \/ /\ Throw({g})
             /\ told' = IF Notifies(retries) THEN told \cup {g} ELSE told
             /\ flush' = IF retries >= MaxRetries
                         THEN [flush EXCEPT ![n].rest = rest, ![n].over = Append(@, g)]
                         ELSE [flush EXCEPT ![n].rest = rest,
                                            ![n].again = Append(@, [gift |-> g, tries |-> retries])]
    /\ UNCHANGED <<senderVars, queue, dead, life, exits, verdict, scenario>>

\* The pipeline writes back what is to be tried again and what is given up.
Exec(n) ==
    /\ Runs(n) /\ flush[n].step = "items" /\ flush[n].rest = <<>>
    /\ \/ queue' = queue \o flush[n].again /\ dead' = dead \o flush[n].over
       \/ "redis" \in scenario /\ UNCHANGED <<queue, dead>>
    /\ flush' = [flush EXCEPT ![n] = Idle]
    /\ UNCHANGED <<senderVars, life, exits, laravelVars, answered, told, scenario>>

-----------------------------------------------------------------------------
(* stop, and the end of an instance *)

\* A deploy leaves one instance running.
Spare(n) == \E m \in Nodes \ {n} : life[m] = "up"

Stop(n) ==
    /\ life[n] = "up" /\ exits < MaxExits /\ Spare(n)
    /\ life' = [life EXCEPT ![n] = "waiting"] /\ exits' = exits + 1
    /\ UNCHANGED <<senderVars, queue, dead, flush, laravelVars, answered, told, scenario>>

\* waitForIdle: no flush is under way, or its cap of 10 s has passed.
Bug_DoneWaiting(n) == TRUE
DoneWaiting(n) == flush[n] = Idle \/ "slow" \in scenario

\* The last flush does nothing while another one is under way.
LastFlush(n) ==
    /\ life[n] = "waiting" /\ DoneWaiting(n)
    /\ \/ Pop(n) /\ life' = [life EXCEPT ![n] = "last"]
       \/ /\ flush[n] # Idle \/ queue = <<>>
          /\ life' = [life EXCEPT ![n] = "stopped"]
          /\ UNCHANGED <<queue, flush>>
    /\ UNCHANGED <<senderVars, dead, exits, laravelVars, answered, told, scenario>>

LastFlushDone(n) ==
    /\ life[n] = "last" /\ flush[n] = Idle
    /\ life' = [life EXCEPT ![n] = "stopped"]
    /\ UNCHANGED <<senderVars, queue, dead, flush, exits, laravelVars, answered, told, scenario>>

\* The process ends; what it held in memory ends with it.
End(n) ==
    /\ life' = [life EXCEPT ![n] = "gone"]
    /\ flush' = [flush EXCEPT ![n] = Idle]
    /\ sending' = [g \in Gifts |-> IF sending[g] = n THEN None ELSE sending[g]]
    /\ UNCHANGED <<shown, queue, dead, laravelVars, answered, told, scenario>>

\* Sends under way are answered before the buffers are stopped.
Exit(n) == life[n] = "stopped" /\ (\A g \in Gifts : sending[g] # n) /\ End(n) /\ UNCHANGED exits

Crash(n) ==
    /\ "crash" \in scenario /\ Runs(n) /\ Spare(n)
    /\ exits < MaxExits /\ exits' = exits + 1
    /\ End(n)

-----------------------------------------------------------------------------

GiftWork(n) == Tick(n) \/ PostBatch(n) \/ PostItem(n) \/ Exec(n) \/ LastFlush(n) \/ LastFlushDone(n)

GiftNext ==
    \/ \E n \in Nodes, g \in Gifts : Send(n, g)
    \/ \E g \in Gifts : Enqueue(g)
    \/ \E n \in Nodes : GiftWork(n) \/ Stop(n) \/ Exit(n) \/ Crash(n)

GiftSpec == GiftInit /\ [][GiftNext]_giftVars

\* Redis and Laravel answer or the calls time out; the timers fire.
GiftFairness ==
    /\ \A g \in Gifts : WF_giftVars(Enqueue(g))
    /\ \A n \in Nodes : WF_giftVars(GiftWork(n))

GiftFairSpec == GiftSpec /\ GiftFairness

-----------------------------------------------------------------------------
(* Properties *)

\* Where a gift is: how many entries of the list, flushes and dead letters have it.
Places(g) ==
    Cardinality({i \in DOMAIN queue : queue[i].gift = g})
    + Cardinality({i \in DOMAIN dead : dead[i] = g})
    + Cardinality({n \in Nodes : g \in InFlight(n)})

\* No two instances ever hold, and post, one gift at the same time, and none is
\* both given up and still to be sent: the pop is one script (giftBuffer.ts:25).
OnePlace == \A g \in Gifts : Places(g) <= 1

Kept(g) == sending[g] # None \/ g \in answered \/ Places(g) > 0
Undisturbed == scenario \cap {"redis", "slow", "crash"} = {}

\* A gift the room has seen is on its way, is answered or is a dead letter, also
\* while instances are stopped (giftBuffer.ts:81 waits for the flush under way).
\* Not when Redis fails, an instance dies or the flush outlasts the cap.
NoGiftLost == OnePlace /\ (Undisturbed => \A g \in shown : Kept(g))

\* The claim without the exceptions.
GiftsRemain == \A g \in shown : Kept(g)

\* Nobody is told that a gift failed which is booked (giftBuffer.ts:284), unless an
\* answer got lost.
FailureIsTrue == "lost" \notin scenario => told \cap booked = {}

\* Every gift that was shown is answered in the end, or given up after its retries
\* with its sender told.
Settled(g) == g \in answered \/ (g \in told /\ \E i \in DOMAIN dead : dead[i] = g)
GiftsSettle == \A g \in Gifts : (Undisturbed /\ g \in shown) ~> Settled(g)
=============================================================================
