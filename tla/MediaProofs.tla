----------------------------- MODULE MediaProofs -----------------------------
(***************************************************************************)
(* What holds of the routers of a room for any number of speakers,         *)
(* listeners, routers and workers, any capacity, and any set of scenarios. *)
(*                                                                         *)
(* MediaInv has three parts.  Types: in particular the pool keeps a place  *)
(* for every death that is handled.  HearInv: a producer is in             *)
(* sourceProducerIds as soon as it was offered to the routers, so a router *)
(* that is made later gets it; one that is made earlier gets it from the   *)
(* producer's own call, which has it on its list (Complete).  SlotInv: a   *)
(* router's count is the number of listeners that took a slot and did not  *)
(* give it back, all of routers that are up.                               *)
(***************************************************************************)
EXTENDS Media, FiniteSetTheorems, SequenceTheorems, TLAPS

-----------------------------------------------------------------------------
(* The inductive invariant *)

\* A place is left in the array for every death that is handled.
PoolInv ==
    /\ PoolTypeOK /\ IsFiniteSet(deaths)
    /\ Len(pool) + Cardinality(deaths) <= Size

\* The types of MediaTypeOK, of whole functions.
VoiceTypes ==
    /\ open \in BOOLEAN /\ up \subseteq Users /\ trouble \in 0 .. MaxTrouble
    /\ call \in [Producers -> {"new", "produce", "observe", "pipe", "done", "failed"}]
    /\ owner \in [Producers -> Users \cup {None}] /\ tracked \in [Users -> Producers \cup {None}]
    /\ live \cup ids \cup known \cup hooked \cup announced \cup ended \subseteq Producers
    /\ left \in [Producers -> SUBSET Routers]

Router == [step : {"none", "init", "pipe", "up"}, worker : Nat, seen : SUBSET Producers,
           piped : SUBSET Producers, count : 0 .. Cap]
Listener == [step : {"out", "wait", "create", "open"}, at : Routers \cup {None}]

RouterTypes ==
    /\ router \in [Routers -> Router] /\ pending \in Routers \cup {None}
    /\ listener \in [Listeners -> Listener]

Types == PoolInv /\ VoiceTypes /\ RouterTypes

\* A producer that was offered to the source router is in sourceProducerIds while it
\* lives; its call, or the making of a router, brings it to every router.
Complete ==
    \A p \in live :
        /\ call[p] \in {"pipe", "done"} => p \in ids
        /\ call[p] = "pipe" => \A r \in UpRouters : r \in left[p] \/ p \in router[r].piped
        /\ call[p] = "done" => \A r \in UpRouters : p \in router[r].piped

HearInv ==
    /\ \A r \in Routers : router[r].seen = router[r].piped
    /\ \A p \in announced : call[p] = "done"
    /\ Complete

Takes(l, r) == listener[l].at = r /\ listener[l].step \in {"create", "open"}
Taking(r) == {l \in Listeners : Takes(l, r)}

SlotInv ==
    /\ \A l \in Listeners :
        /\ listener[l].step = "wait" => listener[l].at \in Routers
        /\ listener[l].step \in {"create", "open"} =>
              listener[l].at \in Routers /\ router[listener[l].at].step = "up"
    /\ \A r \in Routers : router[r].count = Cardinality(Taking(r))

MediaInv == Types /\ HearInv /\ SlotInv

-----------------------------------------------------------------------------
(* Workers *)

LEMMA PoolInitInv == PoolInit => PoolInv
<1> SUFFICES ASSUME PoolInit PROVE PoolInv
  OBVIOUS
<1>1. PICK order \in [Indexes -> Indexes] :
        pool = [i \in 1 .. Size |-> [pid |-> i, index |-> order[i - 1]]]
  BY DEF PoolInit
<1>3. \A i \in 1 .. Size : [pid |-> i, index |-> order[i - 1]] \in Worker
  BY PoolAssumptions DEF Worker, Pid, Indexes
<1>4. pool \in Seq(Worker) /\ Len(pool) = Size
  <2>1. pool \in [1 .. Size -> Worker]
    BY <1>1, <1>3
  <2>2. QED BY <2>1, PoolAssumptions
<1>5. deaths = {} /\ IsFiniteSet(deaths) /\ Cardinality(deaths) = 0
  BY FS_EmptySet DEF PoolInit
<1>6. PoolTypeOK
  BY <1>4, <1>5, PoolAssumptions DEF PoolInit, PoolTypeOK
<1>7. QED BY <1>4, <1>5, <1>6, PoolAssumptions DEF PoolInv

LEMMA Counts == PoolInv => Len(pool) \in Nat /\ Cardinality(deaths) \in Nat
  BY FS_CardinalityType DEF PoolInv, PoolTypeOK

LEMMA OneMore ==
  ASSUME NEW S, IsFiniteSet(S), NEW x
  PROVE  IsFiniteSet(S \cup {x}) /\ Cardinality(S \cup {x}) \in Nat
         /\ Cardinality(S \cup {x}) <= Cardinality(S) + 1
<1>1. Cardinality(S) \in Nat
  BY FS_CardinalityType
<1>2. IsFiniteSet(S \cup {x}) /\ (Cardinality(S \cup {x}) = Cardinality(S)
                               \/ Cardinality(S \cup {x}) = Cardinality(S) + 1)
  BY FS_AddElement
<1>3. QED BY <1>1, <1>2

LEMMA OneForAnother ==
  ASSUME NEW S, IsFiniteSet(S), NEW d \in S, NEW x
  PROVE  IsFiniteSet((S \ {d}) \cup {x}) /\ Cardinality((S \ {d}) \cup {x}) \in Nat
         /\ Cardinality((S \ {d}) \cup {x}) <= Cardinality(S)
<1> DEFINE T == S \ {d}
<1>1. IsFiniteSet(T) /\ Cardinality(T) = Cardinality(S) - 1 /\ Cardinality(S) \in Nat
  BY FS_RemoveElement, FS_CardinalityType
<1> HIDE DEF T
<1>2. IsFiniteSet(T \cup {x}) /\ Cardinality(T \cup {x}) \in Nat
      /\ Cardinality(T \cup {x}) <= Cardinality(T) + 1
  BY <1>1, OneMore
<1>3. IsFiniteSet(T \cup {x}) /\ Cardinality(T \cup {x}) \in Nat
      /\ Cardinality(T \cup {x}) <= Cardinality(S)
  BY <1>1, <1>2
<1>4. QED BY <1>3 DEF T

LEMMA CutOut ==
  ASSUME NEW s \in Seq(Worker), NEW i \in DOMAIN s
  PROVE  /\ SubSeq(s, 1, i - 1) \o SubSeq(s, i + 1, Len(s)) \in Seq(Worker)
         /\ Len(SubSeq(s, 1, i - 1) \o SubSeq(s, i + 1, Len(s))) = Len(s) - 1
<1>1. i \in 1 .. Len(s) /\ Len(s) \in Nat
  OBVIOUS
<1> DEFINE a == SubSeq(s, 1, i - 1)
           b == SubSeq(s, i + 1, Len(s))
<1>2. a \in Seq(Worker) /\ Len(a) = i - 1
  BY <1>1
<1>3. b \in Seq(Worker) /\ Len(b) = Len(s) - i
  BY <1>1
<1> HIDE DEF a, b
<1>4. a \o b \in Seq(Worker) /\ Len(a \o b) = Len(a) + Len(b)
  <2>1. a \in Seq(Worker) /\ b \in Seq(Worker)
    BY <1>2, <1>3
  <2>2. QED BY <2>1, ConcatProperties
<1>5. Len(a \o b) = Len(s) - 1
  BY <1>1, <1>2, <1>3, <1>4
<1>6. QED BY <1>4, <1>5 DEF a, b

LEMMA WorkerDiesInv == PoolInv /\ WorkerDies => PoolInv'
<1> SUFFICES ASSUME PoolInv, WorkerDies PROVE PoolInv'
  OBVIOUS
<1> DEFINE e(i) == [pid |-> pool[i].pid, place |-> i - 1, step |-> "rooms", tries |-> 0]
<1>1. PICK i \in DOMAIN pool :
        /\ pool' = SubSeq(pool, 1, i - 1) \o SubSeq(pool, i + 1, Len(pool))
        /\ deaths' = deaths \cup {e(i)}
  BY DEF WorkerDies
<1>2. pool \in Seq(Worker) /\ Len(pool) \in Nat /\ Cardinality(deaths) \in Nat
  BY Counts DEF PoolInv, PoolTypeOK
<1>3. pool' \in Seq(Worker) /\ Len(pool') = Len(pool) - 1
  BY <1>1, <1>2, CutOut
<1>4. IsFiniteSet(deaths') /\ Cardinality(deaths') <= Cardinality(deaths) + 1 /\ Cardinality(deaths') \in Nat
  <2> HIDE DEF e
  <2>1. QED BY <1>1, OneMore DEF PoolInv
<1>5. pool[i].pid \in Pid /\ i - 1 \in Indexes
  <2>1. i \in 1 .. Len(pool) /\ pool[i] \in Worker
    BY <1>2
  <2>2. Len(pool) <= Size
    BY <1>2, PoolAssumptions DEF PoolInv
  <2>3. QED BY <1>2, <2>1, <2>2, PoolAssumptions DEF Worker, Indexes
<1>6. deaths' \subseteq Death
  <2>1. e(i) \in Death
    BY <1>5, PoolAssumptions DEF Death
  <2> HIDE DEF e
  <2>2. QED BY <1>1, <2>1 DEF PoolInv, PoolTypeOK
<1>7. died' \in 0 .. MaxDeaths
  BY PoolAssumptions DEF WorkerDies, PoolInv, PoolTypeOK
<1>8. PoolTypeOK'
  BY <1>3, <1>6, <1>7 DEF WorkerDies, PoolInv, PoolTypeOK
<1>9. QED BY <1>2, <1>3, <1>4, <1>8, PoolAssumptions DEF PoolInv

LEMMA RoomsClosedInv ==
  ASSUME PoolInv, NEW d, RoomsClosed(d) PROVE PoolInv'
<1> DEFINE e == [d EXCEPT !.step = "pause"]
<1>1. d \in deaths /\ d \in Death /\ deaths' = (deaths \ {d}) \cup {e}
  BY DEF RoomsClosed, PoolInv, PoolTypeOK
<1>2. e \in Death
  BY <1>1 DEF Death
<1> HIDE DEF e
<1>3. IsFiniteSet(deaths') /\ Cardinality(deaths') <= Cardinality(deaths) /\ Cardinality(deaths') \in Nat
  BY <1>1, OneForAnother DEF PoolInv
<1>4. PoolTypeOK'
  BY <1>1, <1>2 DEF RoomsClosed, PoolInv, PoolTypeOK
<1>5. QED BY <1>3, <1>4, Counts, PoolAssumptions DEF RoomsClosed, PoolInv

LEMMA RecreateInv ==
  ASSUME PoolInv, NEW d, Recreate(d) PROVE PoolInv'
<1>1. d \in Death /\ d \in deaths /\ processes' \in Nat /\ processes + 1 \in Pid
  BY DEF Recreate, PoolInv, PoolTypeOK, Pid
<1>2. IsFiniteSet(deaths \ {d}) /\ Cardinality(deaths \ {d}) = Cardinality(deaths) - 1
      /\ Cardinality(deaths \ {d}) \in Nat
  BY <1>1, FS_RemoveElement, FS_CardinalityType DEF PoolInv
<1>3. CASE Bound(NewIndex(d))
  <2> DEFINE e == [d EXCEPT !.tries = @ + 1]
  <2>1. deaths' = (deaths \ {d}) \cup IF d.tries + 1 < Attempts THEN {e} ELSE {}
    BY <1>3 DEF Recreate
  <2>2. d.tries + 1 < Attempts => e \in Death
    BY <1>1, PoolAssumptions DEF Death
  <2> HIDE DEF e
  <2>3. deaths' \subseteq Death
    BY <2>1, <2>2 DEF PoolInv, PoolTypeOK
  <2>4. IsFiniteSet(deaths') /\ Cardinality(deaths') <= Cardinality(deaths) /\ Cardinality(deaths') \in Nat
    <3>1. CASE deaths' = deaths \ {d}
      BY <3>1, <1>2, Counts
    <3>2. CASE deaths' = (deaths \ {d}) \cup {e}
      BY <3>2, <1>1, OneForAnother DEF PoolInv
    <3>3. QED BY <2>1, <3>1, <3>2
  <2>5. PoolTypeOK'
    BY <1>1, <1>3, <2>3 DEF Recreate, PoolInv, PoolTypeOK
  <2>6. pool' = pool
    BY <1>3 DEF Recreate
  <2>7. QED BY <2>4, <2>5, <2>6, Counts, PoolAssumptions DEF PoolInv
<1>4. CASE ~ Bound(NewIndex(d))
  <2>1. pool' = Append(pool, [pid |-> processes + 1, index |-> d.place]) /\ deaths' = deaths \ {d}
    BY <1>4 DEF Recreate, NewIndex
  <2>2. [pid |-> processes + 1, index |-> d.place] \in Worker
    BY <1>1 DEF Worker, Death
  <2>3. pool \in Seq(Worker)
    BY DEF PoolInv, PoolTypeOK
  <2>4. pool' \in Seq(Worker) /\ Len(pool') = Len(pool) + 1
    BY <2>1, <2>2, <2>3
  <2>5. PoolTypeOK'
    BY <1>1, <1>4, <2>1, <2>4 DEF Recreate, PoolInv, PoolTypeOK
  <2>6. QED BY <1>2, <2>1, <2>4, <2>5, Counts, PoolAssumptions DEF PoolInv
<1>5. QED BY <1>3, <1>4

-----------------------------------------------------------------------------
(* Producers *)

\* What is said of the routers' counts needs only their steps, counts and listeners.
LEMMA SlotsSame ==
  ASSUME Types, SlotInv, listener' = listener,
         \A r \in Routers : router'[r].step = router[r].step /\ router'[r].count = router[r].count
  PROVE  SlotInv'
<1>1. \A r \in Routers : Taking(r)' = Taking(r)
  BY DEF Taking, Takes
<1>2. \A r \in Routers : router'[r].count = Cardinality(Taking(r)')
  BY <1>1 DEF SlotInv
<1>3. QED BY <1>2 DEF SlotInv, Types, RouterTypes, Listener

\* A step that offers no producer to the source router and makes no router ready.
LEMMA HearSame ==
  ASSUME HearInv, router' = router, announced' = announced,
         \A p \in announced : call'[p] = call[p],
         \A p \in live' :
            \/ call'[p] \notin {"pipe", "done"}
            \/ /\ p \in live /\ call'[p] = call[p] /\ left'[p] = left[p]
               /\ p \in ids => p \in ids'
  PROVE  HearInv'
<1>1. UpRouters' = UpRouters
  BY DEF UpRouters
<1>2. Complete'
  BY <1>1 DEF Complete, HearInv
<1>3. QED BY <1>2 DEF HearInv

LEMMA StepTo ==
  ASSUME VoiceTypes, NEW p \in Producers, NEW to, Step(p, to)
  PROVE  /\ call'[p] = to
         /\ \A q \in Producers \ {p} : call'[q] = call[q]
  BY DEF Step, VoiceTypes

LEMMA ProduceInv ==
  ASSUME MediaInv, NEW u \in Users, NEW p \in Producers, Produce(u, p)
  PROVE  VoiceTypes' /\ HearInv' /\ SlotInv' /\ RouterTypes'
<1>1. VoiceTypes'
  BY DEF MediaInv, Types, VoiceTypes, Produce, Step
<1>2. HearInv'
  <2>1. p \notin announced
    BY DEF MediaInv, HearInv, Produce
  <2>2. call'[p] = "produce" /\ \A q \in Producers \ {p} : call'[q] = call[q]
    BY StepTo DEF MediaInv, Types, Produce
  <2>3. \A q \in live' : q \in live /\ q \in Producers
    BY DEF Produce, MediaInv, Types, VoiceTypes
  <2>4. announced \subseteq Producers
    BY DEF MediaInv, Types, VoiceTypes
  <2>5. QED BY <2>1, <2>2, <2>3, <2>4, HearSame DEF Produce, MediaInv, listenVars
<1>3. SlotInv'
  BY SlotsSame DEF Produce, MediaInv, listenVars
<1>4. RouterTypes'
  BY DEF Produce, MediaInv, Types, RouterTypes, listenVars
<1>5. QED BY <1>1, <1>2, <1>3, <1>4

LEMMA ProducedInv ==
  ASSUME MediaInv, NEW p \in Producers, Produced(p)
  PROVE  VoiceTypes' /\ HearInv' /\ SlotInv' /\ RouterTypes'
<1>1. /\ call' = [call EXCEPT ![p] = "failed"] \/ call' = [call EXCEPT ![p] = "observe"]
      /\ live' \subseteq live \cup {p} /\ call[p] = "produce"
  BY DEF Produced, Step
<1>2. VoiceTypes'
  <2>1. CASE owner[p] \notin up
    BY <2>1 DEF MediaInv, Types, VoiceTypes, Produced, Step
  <2>2. CASE owner[p] \in up
    <3>1. live' \subseteq Producers /\ ended' \subseteq Producers
      BY <2>2 DEF MediaInv, Types, VoiceTypes, Produced, Displaced
    <3>2. tracked' \in [Users -> Producers \cup {None}]
      BY <2>2 DEF MediaInv, Types, VoiceTypes, Produced
    <3>3. call' \in [Producers -> {"new", "produce", "observe", "pipe", "done", "failed"}]
      BY <1>1 DEF MediaInv, Types, VoiceTypes
    <3>4. QED BY <3>1, <3>2, <3>3 DEF MediaInv, Types, VoiceTypes, Produced
  <2>3. QED BY <2>1, <2>2
<1>3. HearInv'
  <2>1. p \notin announced
    BY <1>1 DEF MediaInv, HearInv
  <2>2. call'[p] \notin {"pipe", "done"} /\ \A q \in Producers \ {p} : call'[q] = call[q]
    BY <1>1 DEF MediaInv, Types, VoiceTypes
  <2>3. live' \subseteq Producers /\ announced \subseteq Producers
    BY <1>2 DEF VoiceTypes, MediaInv, Types
  <2>4. QED BY <1>1, <2>1, <2>2, <2>3, HearSame DEF Produced, MediaInv, listenVars
<1>4. SlotInv'
  BY SlotsSame DEF Produced, MediaInv, listenVars
<1>5. RouterTypes'
  BY DEF Produced, MediaInv, Types, RouterTypes, listenVars
<1>6. QED BY <1>2, <1>3, <1>4, <1>5

\* The producer is in sourceProducerIds, and every router that is ready is among those
\* it is still to be piped to.
LEMMA ObservedInv ==
  ASSUME MediaInv, NEW p \in Producers, Observed(p)
  PROVE  VoiceTypes' /\ HearInv' /\ SlotInv' /\ RouterTypes'
<1>1. SlotInv' /\ RouterTypes'
  BY SlotsSame DEF Observed, MediaInv, Types, RouterTypes, listenVars
<1>2. CASE p \in live /\ open
  <2>1. /\ ids' = ids \cup {p} /\ known' = known \cup {p}
        /\ left' = [left EXCEPT ![p] = UpRouters] /\ call' = [call EXCEPT ![p] = "pipe"]
        /\ call[p] = "observe"
    BY <1>2 DEF Observed, Step
  <2>2. UpRouters \subseteq Routers
    BY DEF UpRouters
  <2>3. VoiceTypes'
    BY <2>1, <2>2 DEF MediaInv, Types, VoiceTypes, Observed
  <2>4. UpRouters' = UpRouters /\ router' = router /\ live' = live /\ announced' = announced
    BY DEF UpRouters, Observed, listenVars
  <2>5. live \subseteq Producers /\ announced \subseteq Producers
    BY DEF MediaInv, Types, VoiceTypes
  <2>6. call'[p] = "pipe" /\ left'[p] = UpRouters
    BY <2>1 DEF MediaInv, Types, VoiceTypes
  <2>7. \A q \in Producers \ {p} : call'[q] = call[q] /\ left'[q] = left[q]
    BY <2>1 DEF MediaInv, Types, VoiceTypes
  <2>8. Complete'
    BY <2>1, <2>4, <2>5, <2>6, <2>7 DEF Complete, MediaInv, HearInv
  <2>9. \A q \in announced' : call'[q] = "done"
    BY <2>1, <2>4, <2>5, <2>7 DEF MediaInv, HearInv
  <2>10. QED BY <1>1, <2>3, <2>4, <2>8, <2>9 DEF HearInv, MediaInv
<1>3. CASE ~ (p \in live /\ open)
  <2>1. call' = [call EXCEPT ![p] = "failed"] /\ call[p] = "observe" /\ UNCHANGED <<ids, known, left>>
    BY <1>3 DEF Observed, Step
  <2>2. VoiceTypes'
    BY <2>1 DEF MediaInv, Types, VoiceTypes, Observed
  <2>3. p \notin announced /\ announced \subseteq Producers /\ live \subseteq Producers
    BY <2>1 DEF MediaInv, HearInv, Types, VoiceTypes
  <2>4. call'[p] = "failed" /\ \A q \in Producers \ {p} : call'[q] = call[q]
    BY <2>1 DEF MediaInv, Types, VoiceTypes
  <2>5. QED BY <1>1, <2>1, <2>2, <2>3, <2>4, HearSame DEF Observed, MediaInv, listenVars
<1>4. QED BY <1>2, <1>3

LEMMA PipeInv ==
  ASSUME MediaInv, NEW p \in Producers, NEW r \in Routers, Pipe(p, r)
  PROVE  VoiceTypes' /\ HearInv' /\ SlotInv' /\ RouterTypes'
<1> DEFINE e == [router[r] EXCEPT !.piped = @ \cup {p}, !.seen = @ \cup {p}]
<1>1. router' = [router EXCEPT ![r] = e] /\ left' = [left EXCEPT ![p] = @ \ {r}]
  BY DEF Pipe, MediaInv, Types, RouterTypes
<1>2. router[r] \in Router
  BY DEF MediaInv, Types, RouterTypes
<1>3. /\ e \in Router /\ e.step = router[r].step /\ e.count = router[r].count
      /\ e.piped = router[r].piped \cup {p} /\ e.seen = router[r].seen \cup {p}
  BY <1>2 DEF Router
<1> HIDE DEF e
<1>4. router' \in [Routers -> Router] /\ router'[r] = e
      /\ \A q \in Routers \ {r} : router'[q] = router[q]
  BY <1>1, <1>3 DEF MediaInv, Types, RouterTypes
<1>5. left'[p] = left[p] \ {r} /\ \A q \in Producers \ {p} : left'[q] = left[q]
  BY <1>1 DEF MediaInv, Types, VoiceTypes
<1>6. VoiceTypes'
  BY <1>1 DEF MediaInv, Types, VoiceTypes, Pipe
<1>7. RouterTypes'
  BY <1>4 DEF MediaInv, Types, RouterTypes, Pipe
<1>8. SlotInv'
  BY <1>3, <1>4, SlotsSame DEF MediaInv, Pipe
<1>9. HearInv'
  <2>1. UpRouters' = UpRouters
    BY <1>3, <1>4 DEF UpRouters
  <2>2. \A q \in Routers : router[q].piped \subseteq router'[q].piped /\ router'[q].seen = router'[q].piped
    BY <1>3, <1>4 DEF MediaInv, HearInv
  <2>3. p \in router'[r].piped /\ live \subseteq Producers
    BY <1>3, <1>4 DEF MediaInv, Types, VoiceTypes
  <2>4. live' = live /\ ids' = ids /\ call' = call /\ announced' = announced
    BY DEF Pipe
  <2>5. \A q \in live : \A t \in UpRouters :
           t \in left[q] \/ t \in left'[q] => t \in left'[q] \/ q \in router'[t].piped
    BY <1>5, <2>3
  <2>6. Complete'
    BY <2>1, <2>2, <2>4, <2>5 DEF Complete, MediaInv, HearInv, UpRouters
  <2>7. QED BY <2>2, <2>4, <2>6 DEF HearInv, MediaInv
<1>10. QED BY <1>6, <1>7, <1>8, <1>9

LEMMA PipeFailsInv ==
  ASSUME MediaInv, NEW p \in Producers, PipeFails(p)
  PROVE  VoiceTypes' /\ HearInv' /\ SlotInv' /\ RouterTypes'
<1>1. /\ call[p] = "pipe" /\ call' = [call EXCEPT ![p] = "failed"]
      /\ live' = live \ {p} /\ left' = [left EXCEPT ![p] = {}]
      /\ tracked' = [tracked EXCEPT ![owner[p]] = None]
  BY DEF PipeFails, Step
<1>2. trouble' \in 0 .. MaxTrouble
  BY MediaAssumptions DEF PipeFails, Trouble, MediaInv, Types, VoiceTypes
<1>3. VoiceTypes'
  <2>1. call' \in [Producers -> {"new", "produce", "observe", "pipe", "done", "failed"}]
    BY <1>1 DEF MediaInv, Types, VoiceTypes
  <2>2. tracked' \in [Users -> Producers \cup {None}]
    BY <1>1 DEF MediaInv, Types, VoiceTypes
  <2>3. left' \in [Producers -> SUBSET Routers]
    BY <1>1 DEF MediaInv, Types, VoiceTypes
  <2>4. QED BY <1>1, <1>2, <2>1, <2>2, <2>3 DEF MediaInv, Types, VoiceTypes, PipeFails
<1>4. SlotInv' /\ RouterTypes'
  BY SlotsSame DEF PipeFails, MediaInv, Types, RouterTypes, listenVars
<1>5. HearInv'
  <2>1. p \notin announced /\ announced \subseteq Producers /\ live \subseteq Producers
    BY <1>1 DEF MediaInv, HearInv, Types, VoiceTypes
  <2>2. \A q \in Producers \ {p} : call'[q] = call[q] /\ left'[q] = left[q]
    BY <1>1 DEF MediaInv, Types, VoiceTypes
  <2>3. QED BY <1>1, <2>1, <2>2, HearSame DEF PipeFails, MediaInv, listenVars
<1>6. QED BY <1>3, <1>4, <1>5

LEMMA AnnounceInv ==
  ASSUME MediaInv, NEW p \in Producers, Announce(p)
  PROVE  VoiceTypes' /\ HearInv' /\ SlotInv' /\ RouterTypes'
<1>1. /\ call[p] = "pipe" /\ left[p] = {} /\ call' = [call EXCEPT ![p] = "done"]
      /\ announced' = announced \cup {p}
  BY DEF Announce, Step
<1>2. VoiceTypes'
  BY <1>1 DEF Announce, MediaInv, Types, VoiceTypes
<1>3. SlotInv' /\ RouterTypes'
  BY SlotsSame DEF Announce, MediaInv, Types, RouterTypes, listenVars
<1>4. HearInv'
  <2>1. call'[p] = "done" /\ \A q \in Producers \ {p} : call'[q] = call[q]
    BY <1>1 DEF MediaInv, Types, VoiceTypes
  <2>2. live \subseteq Producers /\ announced \subseteq Producers
    BY DEF MediaInv, Types, VoiceTypes
  <2>3. UpRouters' = UpRouters /\ router' = router /\ live' = live /\ ids' = ids /\ left' = left
    BY DEF Announce, UpRouters, listenVars
  <2>4. Complete'
    BY <1>1, <2>1, <2>2, <2>3 DEF Complete, MediaInv, HearInv
  <2>5. QED BY <1>1, <2>1, <2>2, <2>3, <2>4 DEF HearInv, MediaInv
<1>5. QED BY <1>2, <1>3, <1>4

LEMMA LeavesInv ==
  ASSUME MediaInv, NEW u \in Users, Leaves(u)
  PROVE  VoiceTypes' /\ HearInv' /\ SlotInv' /\ RouterTypes'
<1> DEFINE mine == {p \in live : owner[p] = u}
<1>1. /\ live' = live \ mine /\ ids' = ids \ mine /\ known' = known \ mine
      /\ ended' = ended \cup (mine \cap hooked) /\ tracked' = [tracked EXCEPT ![u] = None]
  BY DEF Leaves
<1> HIDE DEF mine
<1>2. trouble' \in 0 .. MaxTrouble
  BY MediaAssumptions DEF Leaves, Trouble, MediaInv, Types, VoiceTypes
<1>3. VoiceTypes'
  BY <1>1, <1>2 DEF Leaves, MediaInv, Types, VoiceTypes
<1>4. SlotInv' /\ RouterTypes'
  BY SlotsSame DEF Leaves, MediaInv, Types, RouterTypes, listenVars
<1>5. HearInv'
  BY <1>1, HearSame DEF Leaves, MediaInv, listenVars
<1>6. QED BY <1>3, <1>4, <1>5

LEMMA RemoveInv ==
  ASSUME MediaInv, NEW u \in Users, Remove(u)
  PROVE  VoiceTypes' /\ HearInv' /\ SlotInv' /\ RouterTypes'
<1>1. trouble' \in 0 .. MaxTrouble
  BY MediaAssumptions DEF Remove, Trouble, MediaInv, Types, VoiceTypes
<1>2. VoiceTypes'
  BY <1>1 DEF Remove, MediaInv, Types, VoiceTypes
<1>3. SlotInv' /\ RouterTypes'
  BY SlotsSame DEF Remove, MediaInv, Types, RouterTypes, listenVars
<1>4. HearInv'
  BY HearSame DEF Remove, MediaInv, listenVars
<1>5. QED BY <1>2, <1>3, <1>4

-----------------------------------------------------------------------------
(* Listeners *)

LEMMA TakingFinite == \A r : IsFiniteSet(Taking(r)) /\ Cardinality(Taking(r)) \in Nat
<1>1. \A r : Taking(r) \subseteq Listeners
  BY DEF Taking
<1>2. QED BY <1>1, FS_Subset, FS_CardinalityType, MediaAssumptions

LEMMA TakingPrimed == \A r : IsFiniteSet(Taking(r)') /\ Cardinality(Taking(r)') \in Nat
<1>1. \A r : Taking(r)' \subseteq Listeners
  BY DEF Taking
<1>2. QED BY <1>1, FS_Subset, FS_CardinalityType, MediaAssumptions

\* What is heard needs only which routers are ready and what was piped to them.
LEMMA HearFrame ==
  ASSUME HearInv, UNCHANGED <<call, live, ids, left, announced>>,
         \A r \in Routers : router'[r].seen = router'[r].piped,
         \A r \in Routers : router'[r].step = "up" =>
            router[r].step = "up" /\ router'[r].piped = router[r].piped
  PROVE  HearInv'
<1>1. \A r \in UpRouters' : r \in UpRouters /\ router'[r].piped = router[r].piped
  BY DEF UpRouters
<1>2. Complete'
  BY <1>1 DEF Complete, HearInv
<1>3. QED BY <1>2 DEF HearInv

\* A listener, who was out or waiting, takes a slot of a router with room.
LEMMA ReserveInv ==
  ASSUME RouterTypes, SlotInv, NEW l \in Listeners, NEW r \in Routers,
         listener[l].step \in {"out", "wait"}, HasRoom(r), Reserve(l, r), pending' = pending
  PROVE  /\ RouterTypes' /\ SlotInv'
         /\ \A q \in Routers : /\ router'[q].step = router[q].step
                              /\ router'[q].seen = router[q].seen
                              /\ router'[q].piped = router[q].piped
<1> DEFINE e == [router[r] EXCEPT !.count = @ + 1]
           m == [step |-> "create", at |-> r]
<1>1. router' = [router EXCEPT ![r] = e] /\ listener' = [listener EXCEPT ![l] = m]
  BY DEF Reserve, RouterTypes
<1>2. router[r] \in Router /\ router[r].step = "up" /\ router[r].count < Cap
  BY DEF RouterTypes, HasRoom
<1>3. /\ e \in Router /\ e.step = "up" /\ e.count = router[r].count + 1
      /\ e.seen = router[r].seen /\ e.piped = router[r].piped
  BY <1>2, MediaAssumptions DEF Router
<1>4. m \in Listener /\ m.step = "create" /\ m.at = r
  BY DEF Listener
<1> HIDE DEF e, m
<1>5. router' \in [Routers -> Router] /\ router'[r] = e
      /\ \A q \in Routers \ {r} : router'[q] = router[q]
  BY <1>1, <1>3 DEF RouterTypes
<1>6. listener' \in [Listeners -> Listener] /\ listener'[l] = m
      /\ \A k \in Listeners \ {l} : listener'[k] = listener[k]
  BY <1>1, <1>4 DEF RouterTypes
<1>7. RouterTypes'
  BY <1>5, <1>6 DEF RouterTypes
<1>8. \A q \in Routers : router'[q].step = router[q].step /\ router'[q].seen = router[q].seen
                         /\ router'[q].piped = router[q].piped
  BY <1>2, <1>3, <1>5
<1>9. Taking(r)' = Taking(r) \cup {l} /\ l \notin Taking(r)
  BY <1>4, <1>6 DEF Taking, Takes
<1>10. \A q \in Routers \ {r} : Taking(q)' = Taking(q)
  BY <1>4, <1>6 DEF Taking, Takes
<1>11. Cardinality(Taking(r)') = Cardinality(Taking(r)) + 1
  BY <1>9, TakingFinite, FS_AddElement
<1>12. \A q \in Routers : router'[q].count = Cardinality(Taking(q)')
  BY <1>3, <1>5, <1>10, <1>11 DEF SlotInv
<1>13. \A k \in Listeners :
          /\ listener'[k].step = "wait" => listener'[k].at \in Routers
          /\ listener'[k].step \in {"create", "open"} =>
                listener'[k].at \in Routers /\ router'[listener'[k].at].step = "up"
  BY <1>2, <1>4, <1>6, <1>8 DEF SlotInv
<1>14. QED BY <1>7, <1>8, <1>12, <1>13 DEF SlotInv

\* A listener who waits takes no slot.
LEMMA WaitInv ==
  ASSUME RouterTypes, SlotInv, NEW l \in Listeners, NEW r \in Routers,
         listener[l].step \in {"out", "wait"},
         listener' = [listener EXCEPT ![l] = [step |-> "wait", at |-> r]],
         \A q \in Routers : router[q].step = "up" => router'[q].step = "up",
         \A q \in Routers : router'[q].count = router[q].count
  PROVE  listener' \in [Listeners -> Listener] /\ SlotInv'
<1> DEFINE m == [step |-> "wait", at |-> r]
<1>1. m \in Listener /\ m.step = "wait" /\ m.at = r
  BY DEF Listener
<1>2. listener' = [listener EXCEPT ![l] = m]
  OBVIOUS
<1> HIDE DEF m
<1>3. listener' \in [Listeners -> Listener] /\ listener'[l] = m
      /\ \A k \in Listeners \ {l} : listener'[k] = listener[k]
  BY <1>1, <1>2 DEF RouterTypes
<1>4. \A q \in Routers : Taking(q)' = Taking(q)
  BY <1>1, <1>3 DEF Taking, Takes
<1>5. \A q \in Routers : router'[q].count = Cardinality(Taking(q)')
  BY <1>4 DEF SlotInv
<1>6. \A k \in Listeners :
          /\ listener'[k].step = "wait" => listener'[k].at \in Routers
          /\ listener'[k].step \in {"create", "open"} =>
                listener'[k].at \in Routers /\ router'[listener'[k].at].step = "up"
  BY <1>1, <1>3 DEF SlotInv
<1>7. QED BY <1>3, <1>5, <1>6 DEF SlotInv

LEMMA AwaitRouterInv ==
  ASSUME Types, SlotInv, HearInv, NEW l \in Listeners, listener[l].step \in {"out", "wait"},
         AwaitRouter(l)
  PROVE  /\ RouterTypes' /\ SlotInv'
         /\ \A r \in Routers : router'[r].seen = router'[r].piped
         /\ \A r \in Routers : router'[r].step = "up" =>
               router[r].step = "up" /\ router'[r].piped = router[r].piped
<1>1. CASE pending # None
  <2>1. /\ listener' = [listener EXCEPT ![l] = [step |-> "wait", at |-> pending]]
        /\ router' = router /\ pending' = pending /\ pending \in Routers
    BY <1>1 DEF AwaitRouter, Types, RouterTypes
  <2>2. listener' \in [Listeners -> Listener] /\ SlotInv'
    BY <2>1, WaitInv DEF Types
  <2>3. QED BY <2>1, <2>2 DEF Types, RouterTypes, HearInv
<1>2. CASE pending = None
  <2>1. PICK r \in Routers, w \in LeastLoadedWorkers :
          /\ Free(r) /\ router' = [router EXCEPT ![r].step = "init", ![r].worker = w]
          /\ pending' = r
          /\ listener' = [listener EXCEPT ![l] = [step |-> "wait", at |-> r]]
    BY <1>2 DEF AwaitRouter
  <2>2. w \in Nat
    <3>1. w \in Pids
      BY DEF LeastLoadedWorkers, Eligible
    <3>2. PICK i \in DOMAIN pool : w = pool[i].pid
      BY <3>1 DEF Pids
    <3>3. pool[i] \in Worker
      BY DEF Types, PoolInv, PoolTypeOK
    <3>4. QED BY <3>2, <3>3 DEF Worker, Pid
  <2> DEFINE e == [step |-> "init", worker |-> w, seen |-> {}, piped |-> {}, count |-> 0]
  <2>3. router[r] = NoRouter
    BY <2>1 DEF Free
  <2>4. router' = [router EXCEPT ![r] = e]
    <3>1. router' = [router EXCEPT ![r] = [router[r] EXCEPT !.step = "init", !.worker = w]]
      BY <2>1 DEF Types, RouterTypes
    <3>2. [router[r] EXCEPT !.step = "init", !.worker = w] = e
      <4> DEFINE f == [NoRouter EXCEPT !.step = "init"]
                 g == [f EXCEPT !.worker = w]
      <4>1. f = [step |-> "init", worker |-> 0, seen |-> {}, piped |-> {}, count |-> 0]
        BY DEF NoRouter
      <4> HIDE DEF f
      <4>2. g = e
        BY <4>1
      <4>3. QED BY <2>3, <4>2 DEF f
    <3>3. QED BY <3>1, <3>2
  <2>5. e \in Router /\ e.step = "init" /\ e.seen = {} /\ e.piped = {} /\ e.count = 0
    BY <2>2, MediaAssumptions DEF Router
  <2> HIDE DEF e
  <2>6. router' \in [Routers -> Router] /\ router'[r] = e
        /\ \A q \in Routers \ {r} : router'[q] = router[q]
    BY <2>4, <2>5 DEF Types, RouterTypes
  <2>7. router[r].step = "none" /\ router[r].count = 0
    BY <2>3 DEF NoRouter
  <2>8. listener' \in [Listeners -> Listener] /\ SlotInv'
    BY <2>1, <2>5, <2>6, <2>7, WaitInv DEF Types
  <2>9. RouterTypes'
    BY <2>1, <2>6, <2>8 DEF RouterTypes
  <2>10. QED BY <2>5, <2>6, <2>8, <2>9 DEF HearInv
<1>3. QED BY <1>1, <1>2

LEMMA GetRouterInv ==
  ASSUME Types, SlotInv, HearInv, NEW l \in Listeners, listener[l].step \in {"out", "wait"},
         \/ getOrCreateDistributionRouter(l)
         \/ \E r \in Routers : HasRoom(r) /\ Reserve(l, r) /\ UNCHANGED pending
  PROVE  /\ RouterTypes' /\ SlotInv'
         /\ \A r \in Routers : router'[r].seen = router'[r].piped
         /\ \A r \in Routers : router'[r].step = "up" =>
               router[r].step = "up" /\ router'[r].piped = router[r].piped
<1>1. CASE \E r \in Routers : HasRoom(r) /\ Reserve(l, r) /\ UNCHANGED pending
  BY <1>1, ReserveInv DEF Types, HearInv
<1>2. CASE AwaitRouter(l)
  BY <1>2, AwaitRouterInv
<1>3. QED BY <1>1, <1>2 DEF getOrCreateDistributionRouter

\* A step of the listeners and routers alone.
LEMMA VoiceSame ==
  ASSUME MediaInv, UNCHANGED routerVars, trouble' \in 0 .. MaxTrouble
  PROVE  VoiceTypes' /\ UNCHANGED <<call, live, ids, left, announced>>
  BY DEF MediaInv, Types, VoiceTypes, routerVars, produceVars

LEMMA AskInv ==
  ASSUME MediaInv, NEW l \in Listeners, Ask(l)
  PROVE  VoiceTypes' /\ HearInv' /\ SlotInv' /\ RouterTypes'
<1>1. listener[l].step = "out"
  BY DEF Ask, Out
<1>2. VoiceTypes' /\ UNCHANGED <<call, live, ids, left, announced>>
  BY VoiceSame DEF Ask, MediaInv, Types, VoiceTypes
<1>3. QED BY <1>1, <1>2, GetRouterInv, HearFrame DEF Ask, MediaInv

LEMMA ResumeInv ==
  ASSUME MediaInv, NEW l \in Listeners, Resume(l)
  PROVE  VoiceTypes' /\ HearInv' /\ SlotInv' /\ RouterTypes'
<1>1. listener[l].step = "wait" /\ listener[l].at \in Routers
  BY DEF Resume, MediaInv, SlotInv
<1>2. VoiceTypes' /\ UNCHANGED <<call, live, ids, left, announced>>
  BY VoiceSame DEF Resume, MediaInv, Types, VoiceTypes
<1>3. QED BY <1>1, <1>2, GetRouterInv, HearFrame DEF Resume, MediaInv

\* A slot that is given back was one of the count.
LEMMA ReleaseInv ==
  ASSUME RouterTypes, SlotInv, NEW l \in Listeners, listener[l].step \in {"create", "open"},
         Release(l), pending' = pending
  PROVE  /\ RouterTypes' /\ SlotInv'
         /\ \A q \in Routers : /\ router'[q].step = router[q].step
                              /\ router'[q].seen = router[q].seen
                              /\ router'[q].piped = router[q].piped
<1>1. PICK r \in Routers : r = listener[l].at /\ router[r].step = "up"
  BY DEF SlotInv
<1>2. l \in Taking(r)
  BY <1>1 DEF Taking, Takes
<1>3. Cardinality(Taking(r)) \in Nat /\ Cardinality(Taking(r)) # 0
  BY <1>2, TakingFinite, FS_EmptySet
<1> DEFINE e == [router[r] EXCEPT !.count = @ - 1]
<1>4. router[r] \in Router /\ router[r].count > 0
  BY <1>1, <1>3 DEF RouterTypes, SlotInv
<1>5. router' = [router EXCEPT ![r] = e] /\ listener' = [listener EXCEPT ![l] = Out]
  BY <1>1, <1>4 DEF Release, RouterTypes
<1>6. /\ e \in Router /\ e.step = router[r].step /\ e.count = router[r].count - 1
      /\ e.seen = router[r].seen /\ e.piped = router[r].piped
  BY <1>4, MediaAssumptions DEF Router
<1>7. Out \in Listener /\ Out.step = "out"
  BY DEF Listener, Out
<1> HIDE DEF e
<1>8. router' \in [Routers -> Router] /\ router'[r] = e
      /\ \A q \in Routers \ {r} : router'[q] = router[q]
  BY <1>1, <1>5, <1>6 DEF RouterTypes
<1>9. listener' \in [Listeners -> Listener] /\ listener'[l] = Out
      /\ \A k \in Listeners \ {l} : listener'[k] = listener[k]
  BY <1>5, <1>7 DEF RouterTypes
<1>10. \A q \in Routers : router'[q].step = router[q].step /\ router'[q].seen = router[q].seen
                          /\ router'[q].piped = router[q].piped
  BY <1>6, <1>8
<1>11. Taking(r)' = Taking(r) \ {l}
  BY <1>7, <1>9 DEF Taking, Takes
<1>12. \A q \in Routers \ {r} : Taking(q)' = Taking(q)
  BY <1>2, <1>7, <1>9 DEF Taking, Takes
<1>13. Cardinality(Taking(r)') = Cardinality(Taking(r)) - 1
  BY <1>2, <1>11, TakingFinite, FS_RemoveElement
<1>14. \A q \in Routers : router'[q].count = Cardinality(Taking(q)')
  BY <1>6, <1>8, <1>12, <1>13 DEF SlotInv
<1>15. \A k \in Listeners :
          /\ listener'[k].step = "wait" => listener'[k].at \in Routers
          /\ listener'[k].step \in {"create", "open"} =>
                listener'[k].at \in Routers /\ router'[listener'[k].at].step = "up"
  BY <1>7, <1>9, <1>10 DEF SlotInv
<1>16. QED BY <1>8, <1>9, <1>10, <1>14, <1>15 DEF SlotInv, RouterTypes

LEMMA GivesBack ==
  ASSUME MediaInv, NEW l \in Listeners, CreateFails(l) \/ ListenerLeaves(l)
  PROVE  VoiceTypes' /\ HearInv' /\ SlotInv' /\ RouterTypes'
<1>1. /\ listener[l].step \in {"create", "open"} /\ Release(l) /\ pending' = pending
      /\ UNCHANGED routerVars /\ Trouble
  BY DEF CreateFails, ListenerLeaves
<1>2. trouble' \in 0 .. MaxTrouble
  BY <1>1, MediaAssumptions DEF Trouble, MediaInv, Types, VoiceTypes
<1>3. VoiceTypes' /\ UNCHANGED <<call, live, ids, left, announced>>
  BY <1>1, <1>2, VoiceSame
<1>4. RouterTypes' /\ SlotInv' /\ \A q \in Routers : /\ router'[q].step = router[q].step
                                                    /\ router'[q].seen = router[q].seen
                                                    /\ router'[q].piped = router[q].piped
  BY <1>1, ReleaseInv DEF MediaInv, Types
<1>5. HearInv'
  BY <1>3, <1>4, HearFrame DEF MediaInv, HearInv
<1>6. QED BY <1>3, <1>4, <1>5

LEMMA CreatedInv ==
  ASSUME MediaInv, NEW l \in Listeners, Created(l)
  PROVE  VoiceTypes' /\ HearInv' /\ SlotInv' /\ RouterTypes'
<1> DEFINE m == [listener[l] EXCEPT !.step = "open"]
<1>1. listener' = [listener EXCEPT ![l] = m] /\ router' = router /\ pending' = pending
  BY DEF Created, MediaInv, Types, RouterTypes
<1>2. m \in Listener /\ m.step = "open" /\ m.at = listener[l].at /\ listener[l].step = "create"
  BY DEF Created, MediaInv, Types, RouterTypes, Listener
<1> HIDE DEF m
<1>3. listener' \in [Listeners -> Listener] /\ listener'[l] = m
      /\ \A k \in Listeners \ {l} : listener'[k] = listener[k]
  BY <1>1, <1>2 DEF MediaInv, Types, RouterTypes
<1>4. \A q \in Routers : Taking(q)' = Taking(q)
  BY <1>2, <1>3 DEF Taking, Takes
<1>5. \A q \in Routers : router'[q].count = Cardinality(Taking(q)')
  BY <1>1, <1>4 DEF SlotInv, MediaInv
<1>6. SlotInv'
  BY <1>1, <1>2, <1>3, <1>5 DEF SlotInv, MediaInv
<1>7. VoiceTypes' /\ UNCHANGED <<call, live, ids, left, announced>>
  BY VoiceSame DEF Created, MediaInv, Types, VoiceTypes
<1>8. HearInv'
  BY <1>1, <1>7, HearFrame DEF MediaInv, HearInv
<1>9. QED BY <1>1, <1>3, <1>6, <1>7, <1>8 DEF MediaInv, Types, RouterTypes

-----------------------------------------------------------------------------
(* Routers *)

\* A router that is not ready yet goes on, with the slots it had.
LEMMA StepOfRouter ==
  ASSUME MediaInv, NEW r \in Routers, NEW e \in Router, router' = [router EXCEPT ![r] = e],
         e.count = router[r].count, router[r].step # "up", listener' = listener,
         pending' \in Routers \cup {None}
  PROVE  /\ RouterTypes' /\ SlotInv' /\ router'[r] = e
         /\ \A q \in Routers \ {r} : router'[q] = router[q]
<1>1. router' \in [Routers -> Router] /\ router'[r] = e
      /\ \A q \in Routers \ {r} : router'[q] = router[q]
  BY DEF MediaInv, Types, RouterTypes
<1>2. \A q \in Routers : Taking(q)' = Taking(q)
  BY DEF Taking, Takes
<1>3. \A q \in Routers : router'[q].count = Cardinality(Taking(q)')
  BY <1>1, <1>2 DEF SlotInv, MediaInv
<1>4. SlotInv'
  BY <1>1, <1>3 DEF SlotInv, MediaInv
<1>5. QED BY <1>1, <1>4 DEF MediaInv, Types, RouterTypes

LEMMA InitializedInv ==
  ASSUME MediaInv, NEW r \in Routers, Initialized(r)
  PROVE  VoiceTypes' /\ HearInv' /\ SlotInv' /\ RouterTypes'
<1> DEFINE e == [router[r] EXCEPT !.step = "pipe"]
<1>1. router' = [router EXCEPT ![r] = e] /\ router[r].step = "init"
  BY DEF Initialized, MediaInv, Types, RouterTypes
<1>2. /\ e \in Router /\ e.step = "pipe" /\ e.count = router[r].count
      /\ e.seen = router[r].seen /\ e.piped = router[r].piped
  BY DEF MediaInv, Types, RouterTypes, Router
<1> HIDE DEF e
<1>3. /\ RouterTypes' /\ SlotInv' /\ router'[r] = e
      /\ \A q \in Routers \ {r} : router'[q] = router[q]
  BY <1>1, <1>2, StepOfRouter DEF Initialized, MediaInv, Types, RouterTypes
<1>4. VoiceTypes' /\ UNCHANGED <<call, live, ids, left, announced>>
  BY VoiceSame DEF Initialized, MediaInv, Types, VoiceTypes
<1>5. HearInv'
  BY <1>2, <1>3, <1>4, HearFrame DEF MediaInv, HearInv
<1>6. QED BY <1>3, <1>4, <1>5

LEMMA PipeNextInv ==
  ASSUME MediaInv, NEW r \in Routers, PipeNext(r)
  PROVE  VoiceTypes' /\ HearInv' /\ SlotInv' /\ RouterTypes'
<1>1. PICK p \in live :
        router' = [router EXCEPT ![r].seen = @ \cup {p}, ![r].piped = @ \cup {p}]
  BY DEF PipeNext
<1>2. p \in Producers
  BY DEF MediaInv, Types, VoiceTypes
<1> DEFINE e == [router[r] EXCEPT !.seen = @ \cup {p}, !.piped = @ \cup {p}]
<1>3. router' = [router EXCEPT ![r] = e] /\ router[r].step = "pipe"
  BY <1>1 DEF PipeNext, MediaInv, Types, RouterTypes
<1>4. /\ e \in Router /\ e.step = "pipe" /\ e.count = router[r].count
      /\ e.seen = router[r].seen \cup {p} /\ e.piped = router[r].piped \cup {p}
  BY <1>2, <1>3 DEF MediaInv, Types, RouterTypes, Router
<1> HIDE DEF e
<1>5. /\ RouterTypes' /\ SlotInv' /\ router'[r] = e
      /\ \A q \in Routers \ {r} : router'[q] = router[q]
  BY <1>3, <1>4, StepOfRouter DEF PipeNext, MediaInv, Types, RouterTypes
<1>6. VoiceTypes' /\ UNCHANGED <<call, live, ids, left, announced>>
  BY VoiceSame DEF PipeNext, MediaInv, Types, VoiceTypes
<1>7. HearInv'
  BY <1>4, <1>5, <1>6, HearFrame DEF MediaInv, HearInv
<1>8. QED BY <1>5, <1>6, <1>7

\* The router has been given every id there is, so each producer that was offered.
LEMMA RouterReadyInv ==
  ASSUME MediaInv, NEW r \in Routers, RouterReady(r)
  PROVE  VoiceTypes' /\ HearInv' /\ SlotInv' /\ RouterTypes'
<1> DEFINE e == [router[r] EXCEPT !.step = "up"]
<1>1. router' = [router EXCEPT ![r] = e] /\ router[r].step = "pipe"
  BY DEF RouterReady, MediaInv, Types, RouterTypes
<1>2. /\ e \in Router /\ e.step = "up" /\ e.count = router[r].count
      /\ e.seen = router[r].seen /\ e.piped = router[r].piped
  BY DEF MediaInv, Types, RouterTypes, Router
<1> HIDE DEF e
<1>3. /\ RouterTypes' /\ SlotInv' /\ router'[r] = e
      /\ \A q \in Routers \ {r} : router'[q] = router[q]
  BY <1>1, <1>2, StepOfRouter DEF RouterReady
<1>4. VoiceTypes' /\ UNCHANGED <<call, live, ids, left, announced>>
  BY VoiceSame DEF RouterReady, MediaInv, Types, VoiceTypes
<1>5. \A p \in ids : p \in router[r].piped
  BY DEF RouterReady, NextIds, MediaInv, HearInv
<1>6. \A q \in Routers : router'[q].piped = router[q].piped /\ router'[q].seen = router[q].seen
  BY <1>2, <1>3
<1>7. UpRouters' = UpRouters \cup {r}
  BY <1>2, <1>3 DEF UpRouters
<1>8. Complete'
  BY <1>4, <1>5, <1>6, <1>7 DEF Complete, MediaInv, HearInv, UpRouters
<1>9. HearInv'
  BY <1>4, <1>6, <1>8 DEF HearInv, MediaInv
<1>10. QED BY <1>3, <1>4, <1>9

LEMMA Nobody == ASSUME NEW r, \A l \in Listeners : ~ Takes(l, r)'
                PROVE  Cardinality(Taking(r)') = 0
<1>1. Taking(r)' = {}
  BY DEF Taking
<1>2. QED BY <1>1, FS_EmptySet

LEMMA NoRouterType == NoRouter \in Router /\ NoRouter.step = "none" /\ NoRouter.count = 0
                      /\ NoRouter.seen = {} /\ NoRouter.piped = {}
  BY MediaAssumptions DEF NoRouter, Router

LEMMA OutType == Out \in Listener /\ Out.step = "out"
  BY DEF Out, Listener

LEMMA RouterFailsInv ==
  ASSUME MediaInv, NEW r \in Routers, RouterFails(r)
  PROVE  VoiceTypes' /\ HearInv' /\ SlotInv' /\ RouterTypes'
<1>1. /\ router' = [router EXCEPT ![r] = NoRouter] /\ router[r].step = "pipe" /\ pending' = None
      /\ listener' = [l \in Listeners |-> IF listener[l].at = r THEN Out ELSE listener[l]]
      /\ UNCHANGED routerVars
  BY DEF RouterFails, PendingAfterFailure
<1>2. trouble' \in 0 .. MaxTrouble
  BY MediaAssumptions DEF RouterFails, Trouble, MediaInv, Types, VoiceTypes
<1>3. router' \in [Routers -> Router] /\ router'[r] = NoRouter
      /\ \A q \in Routers \ {r} : router'[q] = router[q]
  BY <1>1, NoRouterType DEF MediaInv, Types, RouterTypes
<1>4. listener' \in [Listeners -> Listener]
  BY <1>1, OutType DEF MediaInv, Types, RouterTypes
<1>5. \A l \in Listeners : listener'[l].step # "out" =>
         listener'[l] = listener[l] /\ listener[l].at # r
  BY <1>1, OutType
<1>6. Cardinality(Taking(r)') = 0
  <2>1. \A l \in Listeners : ~ Takes(l, r)'
    BY <1>5 DEF Takes
  <2>2. QED BY <2>1, Nobody
<1>7. \A q \in Routers \ {r} : Taking(q)' = Taking(q)
  BY <1>1, OutType DEF Taking, Takes
<1>8. \A q \in Routers : router'[q].count = Cardinality(Taking(q)')
  BY <1>3, <1>6, <1>7, NoRouterType DEF SlotInv, MediaInv
<1>9. SlotInv'
  BY <1>3, <1>5, <1>8 DEF SlotInv, MediaInv
<1>10. VoiceTypes' /\ UNCHANGED <<call, live, ids, left, announced>>
  BY <1>1, <1>2, VoiceSame
<1>11. HearInv'
  BY <1>3, <1>10, NoRouterType, HearFrame DEF MediaInv, HearInv
<1>12. QED BY <1>1, <1>3, <1>4, <1>9, <1>10, <1>11 DEF RouterTypes

-----------------------------------------------------------------------------
(* The end of the cluster *)

LEMMA CloseInv ==
  ASSUME MediaInv, Close, trouble' = trouble
  PROVE  VoiceTypes' /\ HearInv' /\ SlotInv' /\ RouterTypes'
<1>1. VoiceTypes'
  BY DEF Close, MediaInv, Types, VoiceTypes
<1>2. /\ router' = [r \in Routers |-> IF router[r].step = "up" THEN NoRouter ELSE router[r]]
      /\ listener' = [l \in Listeners |->
                         IF listener[l].at \in UpRouters THEN Out ELSE listener[l]]
      /\ pending' = pending
  BY DEF Close
<1>3. RouterTypes'
  BY <1>2, NoRouterType, OutType DEF MediaInv, Types, RouterTypes
<1>4. HearInv'
  <2>1. live' = {} /\ call' = call /\ announced' = announced
    BY DEF Close
  <2>2. \A r \in Routers : router'[r].seen = router'[r].piped
    BY <1>2, NoRouterType DEF MediaInv, HearInv
  <2>3. QED BY <2>1, <2>2 DEF HearInv, Complete, MediaInv
<1>5. \A l \in Listeners : listener'[l].step # "out" =>
         listener'[l] = listener[l] /\ listener[l].at \notin UpRouters
  BY <1>2, OutType
<1>6. \A l \in Listeners : listener'[l].step \notin {"create", "open"}
  BY <1>5 DEF MediaInv, SlotInv, UpRouters
<1>7. \A r \in Routers : Cardinality(Taking(r)') = 0
  BY <1>6, Nobody DEF Takes
<1>8. \A r \in Routers : router'[r].count = 0
  <2>1. TAKE r \in Routers
  <2>2. CASE router[r].step = "up"
    BY <1>2, <2>2, NoRouterType
  <2>3. CASE router[r].step # "up"
    <3>1. Taking(r) = {}
      BY <2>3 DEF Taking, Takes, MediaInv, SlotInv
    <3>2. router[r].count = 0
      BY <3>1, FS_EmptySet DEF MediaInv, SlotInv
    <3>3. QED BY <1>2, <2>3, <3>2
  <2>4. QED BY <2>2, <2>3
<1>9. SlotInv'
  BY <1>5, <1>6, <1>7, <1>8 DEF SlotInv, MediaInv
<1>10. QED BY <1>1, <1>3, <1>4, <1>9

LEMMA ClusterSame ==
  ASSUME MediaInv, UNCHANGED clusterVars
  PROVE  VoiceTypes' /\ HearInv' /\ SlotInv' /\ RouterTypes'
<1>1. VoiceTypes' /\ RouterTypes'
  BY DEF MediaInv, Types, VoiceTypes, RouterTypes, clusterVars, produceVars, listenVars
<1>2. HearInv'
  BY DEF MediaInv, HearInv, Complete, UpRouters, clusterVars, produceVars, listenVars
<1>3. SlotInv'
  BY SlotsSame DEF MediaInv, clusterVars, listenVars
<1>4. QED BY <1>1, <1>2, <1>3

LEMMA DeathHandledInv ==
  ASSUME MediaInv, NEW d \in deaths, DeathHandled(d) PROVE MediaInv'
<1>1. PoolInv'
  BY RoomsClosedInv DEF MediaInv, Types, DeathHandled
<1>2. CASE open /\ d.pid \in On
  BY <1>1, <1>2, CloseInv DEF DeathHandled, MediaInv, Types
<1>3. CASE ~ (open /\ d.pid \in On)
  <2>1. UNCHANGED clusterVars
    BY <1>3 DEF DeathHandled, clusterVars
  <2>2. QED BY <1>1, <2>1, ClusterSame DEF MediaInv, Types
<1>4. QED BY <1>2, <1>3

-----------------------------------------------------------------------------
(* The theorems *)

LEMMA InitInv == MediaInit => MediaInv
<1> SUFFICES ASSUME MediaInit PROVE MediaInv
  OBVIOUS
<1>1. PoolInv
  BY PoolInitInv DEF MediaInit
<1>2. VoiceTypes
  BY MediaAssumptions DEF MediaInit, VoiceTypes
<1>3. RouterTypes
  BY NoRouterType, OutType DEF MediaInit, RouterTypes
<1>4. HearInv
  BY NoRouterType DEF MediaInit, HearInv, Complete
<1>5. \A r \in Routers : Taking(r) = {}
  BY OutType DEF MediaInit, Taking, Takes
<1>6. SlotInv
  BY <1>5, NoRouterType, OutType, FS_EmptySet DEF MediaInit, SlotInv
<1>7. QED BY <1>1, <1>2, <1>3, <1>4, <1>6 DEF MediaInv, Types

LEMMA NextInv == MediaInv /\ [MediaNext]_mediaVars => MediaInv'
<1> SUFFICES ASSUME MediaInv, [MediaNext]_mediaVars PROVE MediaInv'
  OBVIOUS
<1> DEFINE Kept == VoiceTypes' /\ HearInv' /\ SlotInv' /\ RouterTypes'
<1>1. ASSUME Kept, UNCHANGED <<poolVars, scenario>> PROVE MediaInv'
  <2>1. PoolInv'
    BY <1>1 DEF MediaInv, Types, PoolInv, PoolTypeOK, poolVars
  <2>2. QED BY <1>1, <2>1 DEF MediaInv, Types
<1>2. ASSUME NEW u \in Users, Leaves(u) \/ Remove(u) \/ \E p \in Producers : Produce(u, p)
      PROVE  MediaInv'
  <2>1. Kept
    BY <1>2, LeavesInv, RemoveInv, ProduceInv
  <2>2. UNCHANGED <<poolVars, scenario>>
    BY <1>2 DEF Leaves, Remove, Produce
  <2>3. QED BY <1>1, <2>1, <2>2
<1>3. CASE ProduceStep
  <2>1. PICK p \in Producers : Produced(p) \/ Observed(p) \/ (\E r \in Routers : Pipe(p, r))
                               \/ PipeFails(p) \/ Announce(p)
    BY <1>3 DEF ProduceStep
  <2>2. Kept
    BY <2>1, ProducedInv, ObservedInv, PipeInv, PipeFailsInv, AnnounceInv
  <2>3. UNCHANGED <<poolVars, scenario>>
    BY <2>1 DEF Produced, Observed, Pipe, PipeFails, Announce
  <2>4. QED BY <1>1, <2>2, <2>3
<1>4. CASE RouterStep
  <2>1. PICK r \in Routers : Initialized(r) \/ PipeNext(r) \/ RouterFails(r) \/ RouterReady(r)
    BY <1>4 DEF RouterStep
  <2>2. Kept
    BY <2>1, InitializedInv, PipeNextInv, RouterFailsInv, RouterReadyInv
  <2>3. UNCHANGED <<poolVars, scenario>>
    BY <2>1 DEF Initialized, PipeNext, RouterFails, RouterReady, routerVars
  <2>4. QED BY <1>1, <2>2, <2>3
<1>5. CASE PoolStep
  <2>1. PICK d \in deaths : DeathHandled(d) \/ (Recreate(d) /\ UNCHANGED clusterVars)
    BY <1>5 DEF PoolStep
  <2>2. CASE DeathHandled(d)
    BY <2>2, DeathHandledInv
  <2>3. CASE Recreate(d) /\ UNCHANGED clusterVars
    BY <2>3, RecreateInv, ClusterSame DEF MediaInv, Types
  <2>4. QED BY <2>1, <2>2, <2>3
<1>6. ASSUME NEW l \in Listeners,
             Ask(l) \/ Resume(l) \/ Created(l) \/ CreateFails(l) \/ ListenerLeaves(l)
      PROVE  MediaInv'
  <2>1. Kept
    BY <1>6, AskInv, ResumeInv, CreatedInv, GivesBack
  <2>2. UNCHANGED <<poolVars, scenario>>
    BY <1>6 DEF Ask, Resume, Created, CreateFails, ListenerLeaves, routerVars
  <2>3. QED BY <1>1, <2>1, <2>2
<1>7. CASE RoomCloses
  <2>1. Kept
    BY <1>7, CloseInv DEF RoomCloses
  <2>2. UNCHANGED <<poolVars, scenario>>
    BY <1>7 DEF RoomCloses
  <2>3. QED BY <1>1, <2>1, <2>2
<1>8. CASE WorkerDies /\ UNCHANGED clusterVars
  BY <1>8, WorkerDiesInv, ClusterSame DEF MediaInv, Types
<1>9. CASE UNCHANGED mediaVars
  <2>1. UNCHANGED clusterVars /\ UNCHANGED <<poolVars, scenario>>
    BY <1>9 DEF mediaVars, clusterVars
  <2>2. QED BY <1>1, <2>1, ClusterSame
<1> HIDE DEF Kept
<1>10. QED BY <1>2, <1>3, <1>4, <1>5, <1>6, <1>7, <1>8, <1>9 DEF MediaNext

LEMMA Always == MediaSpec => []MediaInv
  BY InitInv, NextInv, PTL DEF MediaSpec

\* Every speaker the room was told of is piped to every router that is ready, whatever
\* way the making of routers and of producers interleave, fail, or end (audio:produce in
\* media.handler.ts, createDistributionRouter and registerProducer in roomMediaCluster.ts).
THEOREM EveryoneAlwaysHears == MediaSpec => []EveryoneHears
<1>1. MediaInv => EveryoneHears
  <2> SUFFICES ASSUME MediaInv PROVE EveryoneHears
    OBVIOUS
  <2>1. \A r \in Routers : router[r] \in Router /\ router[r].piped \subseteq router[r].seen
    BY DEF MediaInv, Types, RouterTypes, HearInv
  <2>2. \A l \in Listeners : listener[l] \in Listener
    BY DEF MediaInv, Types, RouterTypes
  <2>3. MediaTypeOK
    BY <2>1, <2>2 DEF MediaTypeOK, MediaInv, Types, PoolInv, VoiceTypes, RouterTypes, Router,
                      Listener
  <2>4. \A p \in announced \cap live : \A r \in UpRouters : p \in router[r].piped
    BY DEF MediaInv, HearInv, Complete
  <2>5. QED BY <2>3, <2>4 DEF EveryoneHears
<1>2. QED BY <1>1, Always, PTL

\* The count of a router, which decides where the next listener goes, is that of its
\* listeners and stays within the capacity (the slots of roomMediaCluster.ts that are
\* taken before, and given back after, the awaits of transport:create).
THEOREM SlotsAlwaysExact == MediaSpec => []SlotsExact
<1>1. MediaInv => SlotsExact
  <2> SUFFICES ASSUME MediaInv, NEW r \in Routers
               PROVE  /\ router[r].count <= Cap
                      /\ router[r].count = Cardinality({l \in Listeners : listener[l].at = r
                                             /\ listener[l].step \in {"create", "open"}})
    BY DEF SlotsExact
  <2>1. router[r] \in Router
    BY DEF MediaInv, Types, RouterTypes
  <2>2. router[r].count <= Cap
    BY <2>1, MediaAssumptions DEF Router
  <2>3. router[r].count = Cardinality({l \in Listeners : listener[l].at = r
                                             /\ listener[l].step \in {"create", "open"}})
    BY DEF MediaInv, SlotInv, Taking, Takes
  <2>4. QED BY <2>2, <2>3
<1>2. QED BY <1>1, Always, PTL
=============================================================================
