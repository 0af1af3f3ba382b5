---------------------------- MODULE CascadeProofs ----------------------------
(***************************************************************************)
(* What holds of the pipes of a room for any number of edges, producers    *)
(* and speakers, any bound on transports and on failures, and any set of   *)
(* scenarios.                                                              *)
(*                                                                         *)
(* Three invariants, each resting on the one before:                       *)
(*   PipeInv     a copy of a producer is either still being registered by  *)
(*               its setup or is the one the edge has cached, and there is *)
(*               one setup of it at a time: so there is one copy           *)
(*   EdgeInv     whoever has a cluster is registered at the relay; an edge *)
(*               that has a copy, or is past the point where the origin    *)
(*               looks whether the producer is there, hears of its end     *)
(*   CascadeInv  the records of the reverse pipes fit together; and, where *)
(*               the handshake is run once at a time, its closing calls    *)
(*               arrive and the edges leave one another alone (Calm), each *)
(*               step of the handshake says what the origin may hold of    *)
(*               the voice, and a producer there is either about to be     *)
(*               closed or known to the edge by the number of its          *)
(*               transport, as long as the voice speaks                    *)
(***************************************************************************)
EXTENDS Cascade, SequenceTheorems, TLAPS

-----------------------------------------------------------------------------
(* The forward pipes: an edge has one copy of a producer *)

Call == [edge : Edges, of : Producers, by : {"relay", "boot"}, tries : 1 .. 3, step : {"ask", "wait"}]
SetupSteps == {"listen", "offer", "answer", "register"}
Setup == [edge : Edges, of : Producers, by : {"relay", "boot"}, n : 0 .. MaxMade, step : SetupSteps]

EdgeTypes ==
    /\ EdgeTypeOK /\ made \in 0 .. MaxMade /\ open \in BOOLEAN
    /\ edge \in [Edges -> {"out", "attach", "create", "boot", "in", "leaving"}]

OneSetup == \A s, t \in setups : s.edge = t.edge /\ s.of = t.of => s = t

SetupsUncached ==
    \A s \in setups : /\ cached[s.edge][s.of] = 0
                      /\ s.step \in {"answer", "register"} => s.n # 0

EarsKnown == \A x \in ears :
    \/ \E s \in setups : s.edge = x.edge /\ s.of = x.of /\ s.step = "register" /\ s.n = x.n
    \/ ~ Pending(x.edge, x.of) /\ cached[x.edge][x.of] = x.n

PipeInv == EdgeTypes /\ OneSetup /\ SetupsUncached /\ EarsKnown

-----------------------------------------------------------------------------

LEMMA Typed ==
  EdgeTypes => /\ calls \subseteq Call /\ setups \subseteq Setup
               /\ ears \subseteq [edge : Edges, of : Producers, n : 1 .. MaxMade]
               /\ cached \in [Edges -> [Producers -> 0 .. MaxMade]]
  BY DEF EdgeTypes, EdgeTypeOK, Call, Setup, SetupSteps

LEMMA EndedType == ASSUME NEW c \in Call, NEW ok \in BOOLEAN PROVE Ended(c, ok) \subseteq Call
<1> DEFINE d == [c EXCEPT !.tries = @ - 1, !.step = "ask"]
<1>1. Ended(c, ok) = IF ok \/ c.tries = 1 THEN {} ELSE {d}
  BY DEF Ended
<1>2. ASSUME c.tries # 1 PROVE d \in Call
  <2> DEFINE f == [c EXCEPT !.tries = @ - 1]
  <2>1. c.tries \in 1 .. 3 /\ c.tries - 1 \in 1 .. 3
    BY <1>2 DEF Call
  <2>2. f \in Call
    BY <2>1 DEF Call
  <2>3. d = [f EXCEPT !.step = "ask"]
    OBVIOUS
  <2> HIDE DEF f, d
  <2>4. QED BY <2>2, <2>3 DEF Call
<1> HIDE DEF d
<1>3. QED BY <1>1, <1>2

LEMMA OverType ==
  ASSUME EdgeTypes, NEW s, NEW ok \in BOOLEAN, Over(s, ok)
  PROVE  calls' \subseteq Call /\ setups' = setups \ {s}
<1> DEFINE mine == {c \in calls : c.edge = s.edge /\ c.of = s.of /\ c.step = "wait"}
<1>1. calls' = (calls \ mine) \cup UNION {Ended(c, ok) : c \in mine} /\ setups' = setups \ {s}
  BY DEF Over
<1>2. \A c \in mine : Ended(c, ok) \subseteq Call
  BY EndedType, Typed
<1> HIDE DEF mine
<1>3. QED BY <1>1, <1>2, Typed

LEMMA MovedTo ==
  ASSUME NEW s \in Setup, NEW to \in SetupSteps, NEW n \in 0 .. MaxMade, Moved(s, to, n)
  PROVE  \E z \in Setup : /\ z.edge = s.edge /\ z.of = s.of /\ z.step = to /\ z.n = n
                         /\ setups' = (setups \ {s}) \cup {z}
<1> DEFINE z == [s EXCEPT !.step = to, !.n = n]
<1>1. z \in Setup /\ z.edge = s.edge /\ z.of = s.of /\ z.step = to /\ z.n = n
  BY DEF Setup
<1>2. setups' = (setups \ {s}) \cup {z}
  BY DEF Moved
<1> HIDE DEF z
<1>3. QED BY <1>1, <1>2

\* The steps of a setup that leave the edge's producers and its cache alone.
LEMMA MovesOn ==
  ASSUME PipeInv, NEW s \in setups, NEW z \in Setup, z.edge = s.edge, z.of = s.of,
         z.step \in {"answer", "register"} => z.n # 0, setups' = (setups \ {s}) \cup {z},
         UNCHANGED cached
  PROVE  /\ OneSetup' /\ SetupsUncached'
         /\ \A e, p : Pending(e, p)' <=> Pending(e, p)
  BY DEF PipeInv, OneSetup, SetupsUncached, Pending

LEMMA PipeFrame ==
  ASSUME PipeInv, EdgeTypes', UNCHANGED <<setups, ears, cached>> PROVE PipeInv'
  BY DEF PipeInv, OneSetup, SetupsUncached, EarsKnown, Pending

LEMMA AskPipe == ASSUME PipeInv, NEW c \in calls, Ask(c) PROVE PipeInv'
<1>1. c \in Call /\ EdgeTypes
  BY Typed DEF PipeInv
<1> DEFINE d == [c EXCEPT !.step = "wait"]
           z == [edge |-> c.edge, of |-> c.of, by |-> c.by, n |-> 0, step |-> "listen"]
<1>2. d \in Call
  BY <1>1 DEF Call
<1>3. z \in Setup /\ z.edge = c.edge /\ z.of = c.of /\ z.step = "listen"
  <2>1. 0 \in 0 .. MaxMade
    BY PipeAssumptions
  <2>2. QED BY <1>1, <2>1 DEF Call, Setup, SetupSteps
<1>4. CASE HasCluster(c.edge) /\ cached[c.edge][c.of] = 0
  <2>1. calls' = (calls \ {c}) \cup {d}
        /\ setups' = setups \cup IF Pending(c.edge, c.of) THEN {} ELSE {z}
    BY <1>4 DEF Ask
  <2> HIDE DEF d, z
  <2>2. calls' \subseteq Call /\ setups' \subseteq Setup
    BY <1>1, <1>2, <1>3, <2>1, Typed
  <2>3. EdgeTypes'
    BY <1>1, <2>2 DEF EdgeTypes, EdgeTypeOK, Ask, pipeVars, Call, Setup, SetupSteps
  <2>4. CASE Pending(c.edge, c.of)
    <3>1. UNCHANGED <<setups, ears, cached>>
      BY <2>1, <2>4 DEF Ask
    <3>2. QED BY <2>3, <3>1, PipeFrame
  <2>5. CASE ~ Pending(c.edge, c.of)
    <3>1. setups' = setups \cup {z} /\ UNCHANGED <<ears, cached>>
      BY <2>1, <2>5 DEF Ask
    <3>2. OneSetup'
      BY <1>3, <2>5, <3>1 DEF OneSetup, PipeInv, Pending
    <3>3. SetupsUncached'
      BY <1>3, <1>4, <3>1 DEF SetupsUncached, PipeInv
    <3>4. EarsKnown'
      <4> SUFFICES ASSUME NEW x \in ears
                   PROVE  \/ \E s \in setups' : s.edge = x.edge /\ s.of = x.of
                                               /\ s.step = "register" /\ s.n = x.n
                          \/ ~ Pending(x.edge, x.of)' /\ cached[x.edge][x.of] = x.n
        BY <3>1 DEF EarsKnown
      <4>1. CASE \E s \in setups : s.edge = x.edge /\ s.of = x.of /\ s.step = "register" /\ s.n = x.n
        BY <3>1, <4>1
      <4>2. CASE ~ Pending(x.edge, x.of) /\ cached[x.edge][x.of] = x.n
        <5>1. x.n # 0
          BY <1>1, Typed
        <5>2. ~ (z.edge = x.edge /\ z.of = x.of)
          BY <1>3, <1>4, <4>2, <5>1
        <5>3. ~ Pending(x.edge, x.of)'
          BY <3>1, <4>2, <5>2 DEF Pending
        <5>4. QED BY <4>2, <5>3
      <4>3. QED BY <4>1, <4>2 DEF EarsKnown, PipeInv
    <3>5. QED BY <2>3, <3>2, <3>3, <3>4 DEF PipeInv
  <2>6. QED BY <2>4, <2>5
<1>5. CASE ~ (HasCluster(c.edge) /\ cached[c.edge][c.of] = 0)
  <2>1. calls' = (calls \ {c}) \cup Ended(c, HasCluster(c.edge)) /\ UNCHANGED <<setups, ears, cached>>
    BY <1>5 DEF Ask
  <2>2. HasCluster(c.edge) \in BOOLEAN
    BY DEF HasCluster
  <2>3. calls' \subseteq Call
    BY <1>1, <2>1, <2>2, EndedType, Typed
  <2>4. EdgeTypes'
    BY <1>1, <2>1, <2>3 DEF EdgeTypes, EdgeTypeOK, Ask, pipeVars, Call
  <2>5. QED BY <2>1, <2>4, PipeFrame
<1>6. QED BY <1>4, <1>5

\* A setup that has not made its copy yet goes on, or ends.
LEMMA EarsStay ==
  ASSUME PipeInv, NEW s \in setups, s.step # "register", UNCHANGED <<ears, cached>>,
         setups \ {s} \subseteq setups', \A e, p : Pending(e, p)' => Pending(e, p)
  PROVE  EarsKnown'
  BY DEF PipeInv, EarsKnown

LEMMA ListenerCreatedPipe ==
  ASSUME PipeInv, NEW s \in setups, ListenerCreated(s) PROVE PipeInv'
<1>1. s \in Setup /\ EdgeTypes /\ s.step = "listen" /\ Moved(s, "offer", 0) /\ 0 \in 0 .. MaxMade
  BY Typed, PipeAssumptions DEF PipeInv, ListenerCreated
<1>2. PICK z \in Setup : /\ z.edge = s.edge /\ z.of = s.of /\ z.step = "offer"
                        /\ setups' = (setups \ {s}) \cup {z}
  BY <1>1, MovedTo DEF SetupSteps
<1>3. setups' \subseteq Setup
  BY <1>1, <1>2, Typed
<1>4. EdgeTypes'
  BY <1>1, <1>3 DEF EdgeTypes, EdgeTypeOK, ListenerCreated, pipeVars, Setup, SetupSteps
<1>5. /\ OneSetup' /\ SetupsUncached'
      /\ \A e, p : Pending(e, p)' <=> Pending(e, p)
  BY <1>2, MovesOn DEF ListenerCreated
<1>6. EarsKnown'
  BY <1>1, <1>2, <1>5, EarsStay DEF ListenerCreated
<1>7. QED BY <1>4, <1>5, <1>6 DEF PipeInv

LEMMA SetupOver ==
  ASSUME PipeInv, NEW s \in setups, s.step # "register", Over(s, FALSE),
         UNCHANGED <<live, announced, remotes, ears, cached, pipeVars, edge, open>>
  PROVE  PipeInv'
<1>1. EdgeTypes /\ calls' \subseteq Call /\ setups' = setups \ {s}
  BY OverType DEF PipeInv
<1>2. EdgeTypes'
  BY <1>1, Typed DEF EdgeTypes, EdgeTypeOK, pipeVars, Call, Setup, SetupSteps
<1>3. OneSetup' /\ SetupsUncached'
  BY <1>1 DEF PipeInv, OneSetup, SetupsUncached
<1>4. EarsKnown'
  BY <1>1, EarsStay DEF Pending
<1>5. QED BY <1>2, <1>3, <1>4 DEF PipeInv

LEMMA OfferedPipe ==
  ASSUME PipeInv, NEW s \in setups, Offered(s) PROVE PipeInv'
<1>1. s \in Setup /\ EdgeTypes /\ s.step = "offer"
  BY Typed DEF PipeInv, Offered
<1>2. CASE open /\ s.of \in live
  <2>1. Moved(s, "answer", made + 1) /\ made' = made + 1 /\ made + 1 \in 0 .. MaxMade /\ made + 1 # 0
        /\ UNCHANGED calls
    BY <1>1, <1>2, PipeAssumptions DEF Offered, Opens, EdgeTypes
  <2>2. PICK z \in Setup : /\ z.edge = s.edge /\ z.of = s.of /\ z.step = "answer" /\ z.n = made + 1
                          /\ setups' = (setups \ {s}) \cup {z}
    BY <1>1, <2>1, MovedTo DEF SetupSteps
  <2>3. setups' \subseteq Setup
    BY <1>1, <2>2, Typed
  <2>4. EdgeTypes'
    BY <1>1, <2>1, <2>3 DEF EdgeTypes, EdgeTypeOK, Offered, Setup, SetupSteps
  <2>5. /\ OneSetup' /\ SetupsUncached'
        /\ \A e, p : Pending(e, p)' <=> Pending(e, p)
    BY <2>1, <2>2, MovesOn DEF Offered
  <2>6. EarsKnown'
    BY <1>1, <2>2, <2>5, EarsStay DEF Offered
  <2>7. QED BY <2>4, <2>5, <2>6 DEF PipeInv
<1>3. CASE ~ (open /\ s.of \in live)
  BY <1>1, <1>3, SetupOver DEF Offered
<1>4. QED BY <1>2, <1>3

LEMMA OfferLostPipe ==
  ASSUME PipeInv, NEW s \in setups, OfferLost(s) PROVE PipeInv'
  BY SetupOver DEF OfferLost

\* There is no copy yet of what is still being set up.
LEMMA NoEarYet ==
  ASSUME PipeInv, NEW s \in setups, s.step # "register", NEW x \in ears
  PROVE  ~ (x.edge = s.edge /\ x.of = s.of)
  BY DEF PipeInv, OneSetup, EarsKnown, Pending

LEMMA EdgeProducedPipe ==
  ASSUME PipeInv, NEW s \in setups, EdgeProduced(s) PROVE PipeInv'
<1>1. s \in Setup /\ EdgeTypes /\ s.step = "answer" /\ s.n # 0 /\ Moved(s, "register", s.n)
  BY Typed DEF PipeInv, EdgeProduced, SetupsUncached
<1> DEFINE x == [edge |-> s.edge, of |-> s.of, n |-> s.n]
<1>2. s.n \in 0 .. MaxMade /\ x \in [edge : Edges, of : Producers, n : 1 .. MaxMade]
  BY <1>1 DEF Setup
<1>3. x.edge = s.edge /\ x.of = s.of /\ x.n = s.n
  OBVIOUS
<1>4. ears' = ears \cup {x}
  BY DEF EdgeProduced
<1> HIDE DEF x
<1>5. PICK z \in Setup : /\ z.edge = s.edge /\ z.of = s.of /\ z.step = "register" /\ z.n = s.n
                        /\ setups' = (setups \ {s}) \cup {z}
  BY <1>1, <1>2, MovedTo DEF SetupSteps
<1>6. setups' \subseteq Setup /\ ears' \subseteq [edge : Edges, of : Producers, n : 1 .. MaxMade]
  BY <1>1, <1>2, <1>4, <1>5, Typed
<1>7. EdgeTypes'
  BY <1>1, <1>6 DEF EdgeTypes, EdgeTypeOK, EdgeProduced, pipeVars, Setup, SetupSteps
<1>8. /\ OneSetup' /\ SetupsUncached'
      /\ \A e, p : Pending(e, p)' <=> Pending(e, p)
  BY <1>1, <1>5, MovesOn DEF EdgeProduced
<1>9. EarsKnown'
  <2> SUFFICES ASSUME NEW y \in ears'
               PROVE  \/ \E t \in setups' : t.edge = y.edge /\ t.of = y.of
                                           /\ t.step = "register" /\ t.n = y.n
                      \/ ~ Pending(y.edge, y.of)' /\ cached'[y.edge][y.of] = y.n
    BY DEF EarsKnown
  <2>1. CASE y = x
    BY <1>3, <1>5, <2>1
  <2>2. CASE y \in ears
    <3>1. \/ \E t \in setups : t.edge = y.edge /\ t.of = y.of /\ t.step = "register" /\ t.n = y.n
          \/ ~ Pending(y.edge, y.of) /\ cached[y.edge][y.of] = y.n
      BY <2>2 DEF PipeInv, EarsKnown
    <3>2. cached' = cached
      BY DEF EdgeProduced
    <3>3. QED BY <1>1, <1>5, <1>8, <3>1, <3>2
  <2>3. QED BY <1>4, <2>1, <2>2
<1>10. QED BY <1>7, <1>8, <1>9 DEF PipeInv

LEMMA EdgeRegisteredPipe ==
  ASSUME PipeInv, NEW s \in setups, EdgeRegistered(s) PROVE PipeInv'
<1>1. s \in Setup /\ EdgeTypes /\ s.step = "register" /\ Over(s, TRUE) /\ UNCHANGED ears
  BY Typed DEF PipeInv, EdgeRegistered
<1>2. calls' \subseteq Call /\ setups' = setups \ {s}
  BY <1>1, OverType
<1>3. s.edge \in Edges /\ s.of \in Producers /\ s.n \in 0 .. MaxMade
  BY <1>1 DEF Setup
<1>4. cached' = [cached EXCEPT ![s.edge][s.of] = s.n]
  BY DEF EdgeRegistered, CachedPipe
<1>5. /\ cached' \in [Edges -> [Producers -> 0 .. MaxMade]]
      /\ cached'[s.edge][s.of] = s.n
      /\ \A e \in Edges, p \in Producers : e # s.edge \/ p # s.of => cached'[e][p] = cached[e][p]
  BY <1>1, <1>3, <1>4, Typed
<1>6. EdgeTypes'
  BY <1>1, <1>2, <1>5, Typed DEF EdgeTypes, EdgeTypeOK, EdgeRegistered, pipeVars, Call, Setup, SetupSteps
<1>7. OneSetup'
  BY <1>2 DEF PipeInv, OneSetup
<1>8. SetupsUncached'
  <2> SUFFICES ASSUME NEW t \in setups, t # s
               PROVE  cached'[t.edge][t.of] = 0 /\ (t.step \in {"answer", "register"} => t.n # 0)
    BY <1>2 DEF SetupsUncached
  <2>1. t.edge # s.edge \/ t.of # s.of
    BY DEF PipeInv, OneSetup
  <2>2. t.edge \in Edges /\ t.of \in Producers
    BY <1>1, Typed DEF Setup
  <2>3. QED BY <1>5, <2>1, <2>2 DEF PipeInv, SetupsUncached
<1>9. EarsKnown'
  <2> SUFFICES ASSUME NEW x \in ears
               PROVE  \/ \E t \in setups' : t.edge = x.edge /\ t.of = x.of
                                           /\ t.step = "register" /\ t.n = x.n
                      \/ ~ Pending(x.edge, x.of)' /\ cached'[x.edge][x.of] = x.n
    BY <1>1 DEF EarsKnown
  <2>1. x.edge \in Edges /\ x.of \in Producers
    BY <1>1, Typed
  <2>2. CASE x.edge = s.edge /\ x.of = s.of
    <3>1. x.n = s.n
      BY <2>2 DEF PipeInv, EarsKnown, OneSetup, Pending
    <3>2. ~ Pending(x.edge, x.of)'
      BY <1>2, <2>2 DEF PipeInv, OneSetup, Pending
    <3>3. QED BY <1>5, <2>2, <3>1, <3>2
  <2>3. CASE ~ (x.edge = s.edge /\ x.of = s.of)
    <3>1. cached'[x.edge][x.of] = cached[x.edge][x.of]
      BY <1>5, <2>1, <2>3
    <3>2. CASE \E t \in setups : t.edge = x.edge /\ t.of = x.of /\ t.step = "register" /\ t.n = x.n
      BY <1>2, <2>3, <3>2
    <3>3. CASE ~ Pending(x.edge, x.of) /\ cached[x.edge][x.of] = x.n
      BY <1>2, <3>1, <3>3 DEF Pending
    <3>4. QED BY <3>2, <3>3 DEF PipeInv, EarsKnown
  <2>4. QED BY <2>2, <2>3
<1>10. QED BY <1>6, <1>7, <1>8, <1>9 DEF PipeInv

LEMMA RemoteClosedPipe ==
  ASSUME PipeInv, NEW e \in Edges, NEW p \in Producers, RemoteClosed(e, p) PROVE PipeInv'
<1> DEFINE x == [edge |-> e, of |-> p, n |-> cached[e][p]]
<1>1. x.edge = e /\ x.of = p /\ x.n = cached[e][p]
  OBVIOUS
<1>2. ears' = ears \ {x} /\ cached' = [cached EXCEPT ![e][p] = 0] /\ UNCHANGED setups
  BY DEF RemoteClosed
<1>3. \A y \in ears : y.edge = e /\ y.of = p /\ y.n = cached[e][p] => y = x
  BY Typed DEF PipeInv
<1> HIDE DEF x
<1>4. EdgeTypes
  BY DEF PipeInv
<1>5. /\ cached' \in [Edges -> [Producers -> 0 .. MaxMade]] /\ cached'[e][p] = 0
      /\ \A f \in Edges, q \in Producers : f # e \/ q # p => cached'[f][q] = cached[f][q]
  BY <1>2, <1>4, Typed, PipeAssumptions
<1>6. EdgeTypes'
  BY <1>2, <1>4, <1>5, Typed DEF EdgeTypes, EdgeTypeOK, RemoteClosed, pipeVars
<1>7. OneSetup'
  BY <1>2 DEF PipeInv, OneSetup
<1>8. \A s \in setups : s.edge \in Edges /\ s.of \in Producers
  BY <1>4, Typed DEF Setup
<1>9. SetupsUncached'
  BY <1>2, <1>5, <1>8 DEF PipeInv, SetupsUncached
<1>10. EarsKnown'
  <2> SUFFICES ASSUME NEW y \in ears, y # x
               PROVE  \/ \E t \in setups : t.edge = y.edge /\ t.of = y.of
                                          /\ t.step = "register" /\ t.n = y.n
                      \/ ~ Pending(y.edge, y.of)' /\ cached'[y.edge][y.of] = y.n
    BY <1>2 DEF EarsKnown
  <2>1. CASE \E t \in setups : t.edge = y.edge /\ t.of = y.of /\ t.step = "register" /\ t.n = y.n
    BY <2>1
  <2>2. CASE ~ Pending(y.edge, y.of) /\ cached[y.edge][y.of] = y.n
    <3>1. y.edge # e \/ y.of # p
      BY <1>3, <2>2
    <3>2. y.edge \in Edges /\ y.of \in Producers
      BY <1>4, Typed
    <3>3. QED BY <1>2, <1>5, <2>2, <3>1, <3>2 DEF Pending
  <2>3. QED BY <2>1, <2>2 DEF PipeInv, EarsKnown
<1>11. QED BY <1>6, <1>7, <1>9, <1>10 DEF PipeInv

-----------------------------------------------------------------------------
(* What the reverse pipes do to the forward ones: nothing *)

LEMMA ReverseSame ==
  ASSUME made \in 0 .. MaxMade, ReverseUser \/ ReverseSystem \/ ReverseTrouble
  PROVE  /\ made' \in 0 .. MaxMade /\ UNCHANGED <<edge, open, scenario>>
         /\ \A m : m.kind # "reverse-close" => (m \in mail' <=> m \in mail)
<1> DEFINE Kept == /\ made' \in 0 .. MaxMade /\ UNCHANGED <<edge, open, scenario>>
                   /\ \A m : m.kind # "reverse-close" => (m \in mail' <=> m \in mail)
<1>1. ASSUME NEW v \in Voices, Silence(v) \/ Unmute(v) \/ \E e \in Edges : Produce(v, e) PROVE Kept
  BY <1>1, PipeAssumptions
  DEF Silence, Unmute, Produce, closeReversePipe, CloseOf, Message, pipeVars
<1>2. ASSUME NEW h \in hands,
             \/ Begin(h) \/ OutboundCreated(h) \/ Consumed(h) \/ Finalized(h) \/ ReverseRegistered(h)
             \/ Retry(h) \/ ReverseOfferLost(h) \/ FinalizeLost(h)
      PROVE  Kept
  BY <1>2 DEF Begin, OutboundCreated, Consumed, Finalized, ReverseRegistered, Retry,
              ReverseOfferLost, FinalizeLost, pipeVars
<1>3. ASSUME NEW h \in hands, ReverseOffered(h) PROVE Kept
  BY <1>3, PipeAssumptions DEF ReverseOffered, Opens, pipeVars
<1>4. ASSUME NEW h \in hands, Accepted(h) \/ Replied(h) \/ Refused(h) PROVE Kept
  BY <1>4 DEF Accepted, Replied, Refused, Cancel, closeReversePipe, CloseOf, Message, pipeVars
<1>5. ASSUME NEW m \in mail, ReverseClosed(m) PROVE Kept
  BY <1>5 DEF ReverseClosed, Closes, pipeVars
<1>6. ASSUME NEW m \in mail, CloseLost(m) PROVE Kept
  BY <1>6 DEF CloseLost, pipeVars
<1> HIDE DEF Kept
<1>7. Kept
  BY <1>1, <1>2, <1>3, <1>4, <1>5, <1>6 DEF ReverseUser, ReverseSystem, ReverseTrouble
<1>8. QED BY <1>7 DEF Kept

-----------------------------------------------------------------------------
(* PipeInv is inductive *)

LEMMA InitPipe == Init => PipeInv
<1> SUFFICES ASSUME Init PROVE PipeInv
  OBVIOUS
<1>1. EdgeTypes
  BY PipeAssumptions DEF Init, PipeInit, EdgeInit, EdgeTypes, EdgeTypeOK
<1>2. QED BY <1>1 DEF Init, EdgeInit, PipeInv, OneSetup, SetupsUncached, EarsKnown

LEMMA BootstrapPipe == ASSUME PipeInv, NEW e \in Edges, Bootstrap(e) PROVE PipeInv'
<1>1. EdgeTypes /\ calls \subseteq Call
  BY Typed DEF PipeInv
<1>2. \A p \in live : [edge |-> e, of |-> p, by |-> "boot", tries |-> 1, step |-> "ask"] \in Call
  BY <1>1 DEF Call, EdgeTypes, EdgeTypeOK
<1>3. calls' \subseteq Call
  BY <1>1, <1>2 DEF Bootstrap
<1>4. EdgeTypes'
  BY <1>1, <1>3 DEF EdgeTypes, EdgeTypeOK, Bootstrap, To, pipeVars, Call
<1>5. QED BY <1>4, PipeFrame DEF Bootstrap

LEMMA RemoteNewPipe ==
  ASSUME PipeInv, NEW e \in Edges, NEW p \in Producers, RemoteNew(e, p) PROVE PipeInv'
<1>1. EdgeTypes /\ calls \subseteq Call
  BY Typed DEF PipeInv
<1>2. [edge |-> e, of |-> p, by |-> "relay", tries |-> RelayAttempts, step |-> "ask"] \in Call
  BY DEF Call, RelayAttempts
<1>3. calls' \subseteq Call
  BY <1>1, <1>2 DEF RemoteNew
<1>4. EdgeTypes'
  BY <1>1, <1>3 DEF EdgeTypes, EdgeTypeOK, RemoteNew, pipeVars, Call
<1>5. QED BY <1>4, PipeFrame DEF RemoteNew

LEMMA DetachedPipe == ASSUME PipeInv, NEW e \in Edges, Detached(e) PROVE PipeInv'
<1>1. EdgeTypes /\ setups' = setups /\ ears' = {x \in ears : x.edge # e}
      /\ cached' = [cached EXCEPT ![e] = [p \in Producers |-> 0]]
  BY DEF PipeInv, Detached
<1>2. [p \in Producers |-> 0] \in [Producers -> 0 .. MaxMade]
  BY PipeAssumptions
<1>3. /\ cached' \in [Edges -> [Producers -> 0 .. MaxMade]]
      /\ \A f \in Edges \ {e} : cached'[f] = cached[f]
      /\ \A p \in Producers : cached'[e][p] = 0
  BY <1>1, <1>2, Typed
<1>4. EdgeTypes'
  BY <1>1, <1>3 DEF EdgeTypes, EdgeTypeOK, Detached, To, pipeVars
<1>5. \A s \in setups : s.edge \in Edges /\ s.of \in Producers
  BY <1>1, Typed DEF Setup
<1>6. OneSetup' /\ SetupsUncached'
  BY <1>1, <1>3, <1>5 DEF PipeInv, OneSetup, SetupsUncached
<1>7. \A x \in ears : x.edge \in Edges /\ x.of \in Producers
  BY <1>1, Typed
<1>8. EarsKnown'
  BY <1>1, <1>3, <1>7 DEF PipeInv, EarsKnown, Pending
<1>9. QED BY <1>4, <1>6, <1>8 DEF PipeInv

LEMMA EdgeStepsPipe ==
  ASSUME PipeInv, EdgeUser \/ EdgeSystem \/ EdgeTrouble PROVE PipeInv'
<1>1. ASSUME NEW p \in Producers, Speak(p) \/ Stop(p) \/ Announce(p) PROVE PipeInv'
  <2>1. EdgeTypes'
    BY <1>1 DEF PipeInv, EdgeTypes, EdgeTypeOK, Speak, Stop, Announce, pipeVars
  <2>2. QED BY <1>1, <2>1, PipeFrame DEF Speak, Stop, Announce
<1>2. ASSUME NEW e \in Edges, Join(e) \/ Registered(e) \/ ClusterCreated(e) PROVE PipeInv'
  <2>1. EdgeTypes'
    BY <1>2 DEF PipeInv, EdgeTypes, EdgeTypeOK, Join, Registered, ClusterCreated, To, pipeVars, edgeVars
  <2>2. QED BY <1>2, <2>1, PipeFrame DEF Join, Registered, ClusterCreated, edgeVars
<1>3. QED
  BY <1>1, <1>2, BootstrapPipe, RemoteNewPipe, RemoteClosedPipe, AskPipe, ListenerCreatedPipe,
     OfferedPipe, EdgeProducedPipe, EdgeRegisteredPipe, OfferLostPipe
  DEF EdgeUser, EdgeSystem, EdgeTrouble

LEMMA NextPipe == PipeInv /\ [Next]_vars => PipeInv'
<1> SUFFICES ASSUME PipeInv, [Next]_vars PROVE PipeInv'
  OBVIOUS
<1>1. CASE EdgeUser \/ EdgeSystem \/ EdgeTrouble
  BY <1>1, EdgeStepsPipe
<1>2. CASE (ReverseUser \/ ReverseSystem \/ ReverseTrouble) /\ UNCHANGED edgeVars
  <2>1. made' \in 0 .. MaxMade /\ UNCHANGED <<edge, open>>
    BY <1>2, ReverseSame DEF PipeInv, EdgeTypes
  <2>2. EdgeTypes'
    BY <1>2, <2>1 DEF PipeInv, EdgeTypes, EdgeTypeOK, edgeVars
  <2>3. QED BY <1>2, <2>2, PipeFrame DEF edgeVars
<1>3. ASSUME NEW e \in Edges, Leave(e) \/ RelaysClosed(e) \/ OriginClosed(e) \/ PipesClosed(e)
      PROVE  PipeInv'
  <2>1. EdgeTypes'
    BY <1>3 DEF PipeInv, EdgeTypes, EdgeTypeOK, Leave, RelaysClosed, OriginClosed, PipesClosed,
                closePipes, To, pipeVars, edgeVars
  <2>2. QED BY <1>3, <2>1, PipeFrame DEF Leave, RelaysClosed, OriginClosed, PipesClosed, edgeVars
<1>4. CASE OriginCloses
  <2>1. EdgeTypes'
    BY <1>4 DEF PipeInv, EdgeTypes, EdgeTypeOK, OriginCloses, Destroyed
  <2>2. QED BY <1>4, <2>1, PipeFrame DEF OriginCloses
<1>5. CASE UNCHANGED vars
  <2>1. EdgeTypes'
    BY <1>5 DEF PipeInv, EdgeTypes, EdgeTypeOK, vars, pipeVars, edgeVars
  <2>2. QED BY <1>5, <2>1, PipeFrame DEF vars, edgeVars
<1>6. QED BY <1>1, <1>2, <1>3, <1>4, <1>5, DetachedPipe DEF Next, User, System

LEMMA AlwaysPipe == Spec => []PipeInv
  BY InitPipe, NextPipe, PTL DEF Spec

\* An edge never has two copies of a producer, whatever the relay, the joins, lost calls
\* and retries ask for at once (requestPipeForProducer and its map of pending setups).
THEOREM AlwaysOnePipe == Spec => []OnePipe
<1>1. PipeInv => OnePipe
  BY Typed DEF PipeInv, OnePipe, EdgeTypes, EarsKnown, OneSetup, Pending
<1>2. QED BY <1>1, AlwaysPipe, PTL

-----------------------------------------------------------------------------
(* The forward pipes: nobody listens to who has gone *)

Registering(e) == Message("origin", "register", e, 0) \in mail
Ending(e) == Message(e, "room-closed", None, 0) \in mail

\* An edge with a cluster is one the relay knows, as long as the origin has the room.
EdgesKnown ==
    /\ \A e \in Edges : Registering(e) => edge[e] = "attach"
    /\ open => \A e \in Edges : edge[e] \in {"create", "boot", "in", "leaving"} => e \in remotes
    /\ ~open => live = {}
    /\ \A x \in ears : HasCluster(x.edge)
    /\ \A s \in setups : HasCluster(s.edge)

\* An edge has a copy of the producer, or is past asking whether it is still there.
Fed(e, p) ==
    \/ \E x \in ears : x.edge = e /\ x.of = p
    \/ \E s \in setups : s.edge = e /\ s.of = p /\ s.step \in {"answer", "register"}

Excused(e, p) ==
    p \in live \/ edge[e] = "leaving" \/ Message(e, "closed", p, 0) \in mail \/ Ending(e)

GhostInv ==
    "overtake" \notin scenario =>
        \A e \in Edges, p \in Producers : Fed(e, p) => Excused(e, p)

EdgeInv == PipeInv /\ EdgesKnown /\ GhostInv

-----------------------------------------------------------------------------

LEMMA MessageFields ==
  ASSUME NEW a, NEW b, NEW c, NEW n, NEW d, NEW e, NEW f, NEW m
  PROVE  Message(a, b, c, n) = Message(d, e, f, m) => a = d /\ b = e /\ c = f /\ n = m
  BY DEF Message

LEMMA ToStep ==
  ASSUME EdgeTypes, NEW e \in Edges, NEW step, To(e, step)
  PROVE  edge'[e] = step /\ \A f \in Edges \ {e} : edge'[f] = edge[f]
  BY DEF EdgeTypes, To

LEMMA FedByCluster ==
  ASSUME EdgesKnown, NEW e, NEW p, Fed(e, p) PROVE HasCluster(e)
  BY DEF EdgesKnown, Fed

LEMMA GhostFrame ==
  ASSUME GhostInv, scenario' = scenario,
         \A e \in Edges, p \in Producers : Fed(e, p)' =>
            Excused(e, p)' \/ (Fed(e, p) /\ (Excused(e, p) => Excused(e, p)'))
  PROVE  GhostInv'
  BY DEF GhostInv

\* A step of a setup, or of a call of the origin, that gives no edge a copy it has not
\* already asked for, and takes no notice of its end away.
LEMMA QuietStep ==
  ASSUME EdgeInv, UNCHANGED <<edge, open, remotes, scenario>>,
         live' = live \/ (open /\ live \subseteq live'),
         \A e \in Edges : Registering(e)' => Registering(e),
         \A e \in Edges, p \in Producers : Message(e, "closed", p, 0) \in mail =>
            Message(e, "closed", p, 0) \in mail',
         \A e \in Edges : Ending(e) => Ending(e)',
         \A x \in ears' : x \in ears \/ \E s \in setups : s.edge = x.edge /\ s.of = x.of
                                                        /\ s.step \in {"answer", "register"},
         \A s \in setups' : s \in setups \/
            (/\ HasCluster(s.edge)
             /\ s.step \in {"answer", "register"} => s.of \in live \/ Fed(s.edge, s.of))
  PROVE  EdgesKnown' /\ GhostInv'
<1>1. EdgesKnown'
  BY DEF EdgeInv, EdgesKnown, HasCluster
<1>2. \A e \in Edges, p \in Producers : Fed(e, p)' => Fed(e, p) \/ p \in live
  BY DEF Fed
<1>3. \A e \in Edges, p \in Producers : Excused(e, p) => Excused(e, p)'
  BY DEF Excused
<1>4. \A e \in Edges, p \in Producers : p \in live => Excused(e, p)'
  BY DEF Excused
<1>5. GhostInv'
  BY <1>2, <1>3, <1>4, GhostFrame DEF EdgeInv
<1>6. QED BY <1>1, <1>5

\* Which messages a step adds or takes away is a matter of their kind.
LEMMA SpeakKnown == ASSUME EdgeInv, NEW p \in Producers, Speak(p) PROVE EdgesKnown' /\ GhostInv'
  BY QuietStep DEF Speak, Registering, Ending

LEMMA AnnounceKnown == ASSUME EdgeInv, NEW p \in Producers, Announce(p) PROVE EdgesKnown' /\ GhostInv'
<1>1. mail \subseteq mail'
  BY DEF Announce
<1>2. \A e : Registering(e)' => Registering(e)
  BY MessageFields DEF Announce, Registering, ToRemotes
<1>3. QED BY <1>1, <1>2, QuietStep DEF Announce, Ending

\* The origin tells every edge that has a cluster of the room.
LEMMA StopKnown == ASSUME EdgeInv, NEW p \in Producers, Stop(p) PROVE EdgesKnown' /\ GhostInv'
<1>1. /\ live' = live \ {p} /\ mail' = mail \cup ToRemotes("closed", p) /\ p \in live
      /\ UNCHANGED <<edge, open, remotes, scenario, ears, setups>>
  BY DEF Stop
<1>2. \A e : Registering(e)' => Registering(e)
  BY <1>1, MessageFields DEF Registering, ToRemotes
<1>3. EdgesKnown'
  BY <1>1, <1>2 DEF EdgeInv, EdgesKnown, HasCluster
<1>4. ASSUME NEW e \in Edges, NEW q \in Producers, Fed(e, q)'
      PROVE  Excused(e, q)' \/ (Fed(e, q) /\ (Excused(e, q) => Excused(e, q)'))
  <2>1. Fed(e, q)
    BY <1>1, <1>4 DEF Fed
  <2>2. CASE q = p
    <3>1. e \in remotes
      BY <1>1, <2>1, FedByCluster DEF EdgeInv, EdgesKnown, HasCluster
    <3>2. Message(e, "closed", q, 0) \in mail'
      BY <1>1, <2>2, <3>1 DEF ToRemotes
    <3>3. QED BY <3>2 DEF Excused
  <2>3. CASE q # p
    BY <1>1, <2>1, <2>3 DEF Excused, Ending
  <2>4. QED BY <2>2, <2>3
<1>5. QED BY <1>1, <1>3, <1>4, GhostFrame DEF EdgeInv

\* An edge comes, and has no copy of anything yet.
LEMMA JoinKnown == ASSUME EdgeInv, NEW e \in Edges, Join(e) PROVE EdgesKnown' /\ GhostInv'
<1>1. /\ edge[e] = "out" /\ To(e, "attach") /\ mail' = mail \cup {Message("origin", "register", e, 0)}
      /\ UNCHANGED <<open, remotes, scenario, ears, setups, live>>
  BY DEF Join, edgeVars
<1>2. edge'[e] = "attach" /\ \A f \in Edges \ {e} : edge'[f] = edge[f]
  BY <1>1, ToStep DEF EdgeInv, PipeInv
<1>3. \A f \in Edges : Registering(f)' => f = e \/ Registering(f)
  BY <1>1, MessageFields DEF Registering
<1>4. \A s \in setups : s.edge # e /\ s.edge \in Edges
  BY <1>1, Typed DEF EdgeInv, PipeInv, EdgesKnown, HasCluster, Setup
<1>5. \A x \in ears : x.edge # e /\ x.edge \in Edges
  BY <1>1, Typed DEF EdgeInv, PipeInv, EdgesKnown, HasCluster
<1>6. EdgesKnown'
  BY <1>1, <1>2, <1>3, <1>4, <1>5 DEF EdgeInv, EdgesKnown, HasCluster
<1>7. \A f \in Edges, p \in Producers : Fed(f, p)' => Fed(f, p) /\ f # e
  BY <1>1, <1>4, <1>5 DEF Fed
<1>8. \A f \in Edges \ {e}, p \in Producers : Excused(f, p) => Excused(f, p)'
  BY <1>1, <1>2 DEF Excused, Ending
<1>9. QED BY <1>1, <1>6, <1>7, <1>8, GhostFrame DEF EdgeInv

LEMMA RegisteredKnown == ASSUME EdgeInv, NEW e \in Edges, Registered(e) PROVE EdgesKnown' /\ GhostInv'
<1>1. /\ Registering(e) /\ To(e, "create") /\ mail' = mail \ {Message("origin", "register", e, 0)}
      /\ remotes' = remotes \cup {e} /\ UNCHANGED <<open, scenario, ears, setups, live>>
  BY DEF Registered, Registering
<1>2. edge[e] = "attach" /\ edge'[e] = "create" /\ \A f \in Edges \ {e} : edge'[f] = edge[f]
  BY <1>1, ToStep DEF EdgeInv, PipeInv, EdgesKnown
<1>3. \A f \in Edges : Registering(f)' => f # e /\ Registering(f)
  BY <1>1 DEF Registering
<1>4. \A s \in setups : s.edge # e /\ s.edge \in Edges
  BY <1>2, Typed DEF EdgeInv, PipeInv, EdgesKnown, HasCluster, Setup
<1>5. \A x \in ears : x.edge # e /\ x.edge \in Edges
  BY <1>2, Typed DEF EdgeInv, PipeInv, EdgesKnown, HasCluster
<1>6. EdgesKnown'
  BY <1>1, <1>2, <1>3, <1>4, <1>5 DEF EdgeInv, EdgesKnown, HasCluster
<1>7. \A f \in Edges, p \in Producers : Fed(f, p)' => Fed(f, p) /\ f # e
  BY <1>1, <1>4, <1>5 DEF Fed
<1>8. \A f \in Edges \ {e}, p \in Producers : Excused(f, p) => Excused(f, p)'
  BY <1>1, <1>2, MessageFields DEF Excused, Ending
<1>9. QED BY <1>1, <1>6, <1>7, <1>8, GhostFrame DEF EdgeInv

\* An edge whose cluster is there goes on, or leaves.
LEMMA EdgeGoesOn ==
  ASSUME EdgeInv, NEW e \in Edges, NEW step \in {"boot", "in", "leaving"}, To(e, step),
         edge[e] \in {"create", "boot", "in"}, UNCHANGED <<open, remotes, scenario, ears, setups, live>>,
         \A f \in Edges : Registering(f)' => Registering(f),
         \A f \in Edges, p \in Producers : Message(f, "closed", p, 0) \in mail =>
            Message(f, "closed", p, 0) \in mail',
         \A f \in Edges : Ending(f) => Ending(f)' \/ (f = e /\ step = "leaving")
  PROVE  EdgesKnown' /\ GhostInv'
<1>1. edge'[e] = step /\ \A f \in Edges \ {e} : edge'[f] = edge[f]
  BY ToStep DEF EdgeInv, PipeInv
<1>2. \A s \in setups : s.edge \in Edges
  BY Typed DEF EdgeInv, PipeInv, Setup
<1>3. \A x \in ears : x.edge \in Edges
  BY Typed DEF EdgeInv, PipeInv
<1>4. EdgesKnown'
  BY <1>1, <1>2, <1>3 DEF EdgeInv, EdgesKnown, HasCluster
<1>5. \A f \in Edges, p \in Producers : Fed(f, p)' => Fed(f, p)
  BY DEF Fed
<1>6. \A f \in Edges, p \in Producers : Excused(f, p) => Excused(f, p)'
  BY <1>1 DEF Excused
<1>7. QED BY <1>4, <1>5, <1>6, GhostFrame DEF EdgeInv

LEMMA ClusterCreatedKnown ==
  ASSUME EdgeInv, NEW e \in Edges, ClusterCreated(e) PROVE EdgesKnown' /\ GhostInv'
  BY EdgeGoesOn DEF ClusterCreated, edgeVars, Registering, Ending

LEMMA BootstrapKnown ==
  ASSUME EdgeInv, NEW e \in Edges, Bootstrap(e) PROVE EdgesKnown' /\ GhostInv'
<1>1. PICK step \in {"in", "leaving"} :
        To(e, step) /\ (mail' = mail \/ mail' = mail \cup {Message("origin", "pipe-close", e, 0)})
  BY DEF Bootstrap
<1>2. \A f \in Edges : Registering(f)' => Registering(f)
  BY <1>1, MessageFields DEF Registering
<1>3. mail \subseteq mail'
  BY <1>1
<1>4. QED BY <1>1, <1>2, <1>3, EdgeGoesOn DEF Bootstrap, Ending

LEMMA LeaveKnown == ASSUME EdgeInv, NEW e \in Edges, Leave(e) PROVE EdgesKnown' /\ GhostInv'
<1>1. \A f \in Edges : Registering(f)' => Registering(f)
  BY MessageFields DEF Registering, Leave
<1>2. mail \subseteq mail'
  BY DEF Leave
<1>3. QED BY <1>1, <1>2, EdgeGoesOn DEF Leave, edgeVars, Ending

\* An edge that hears of the end of the room leaves it, if it is in it.
LEMMA OriginClosedKnown ==
  ASSUME EdgeInv, NEW e \in Edges, OriginClosed(e) PROVE EdgesKnown' /\ GhostInv'
<1>1. \A f \in Edges : Registering(f)' => Registering(f)
  BY MessageFields DEF Registering, OriginClosed
<1>2. \A f \in Edges, p \in Producers : Message(f, "closed", p, 0) \in mail =>
         Message(f, "closed", p, 0) \in mail'
  BY MessageFields DEF OriginClosed
<1>3. \A f \in Edges : Ending(f) => Ending(f)' \/ f = e
  BY MessageFields DEF OriginClosed, Ending
<1>4. CASE edge[e] = "in"
  BY <1>1, <1>2, <1>3, <1>4, EdgeGoesOn DEF OriginClosed, edgeVars
<1>5. CASE edge[e] # "in"
  <2>1. edge' = edge /\ edge[e] \in {"out", "leaving"} /\ UNCHANGED <<open, remotes, scenario, ears, setups, live>>
    BY <1>5 DEF OriginClosed, edgeVars
  <2>2. EdgesKnown'
    BY <1>1, <2>1 DEF EdgeInv, EdgesKnown, HasCluster
  <2>3. \A f \in Edges, p \in Producers : Fed(f, p)' => Fed(f, p) /\ HasCluster(f)
    BY <2>1, FedByCluster DEF Fed, EdgeInv
  <2>4. \A f \in Edges, p \in Producers : HasCluster(f) /\ Excused(f, p) => Excused(f, p)'
    BY <1>2, <1>3, <2>1 DEF Excused, HasCluster
  <2>5. QED BY <2>1, <2>2, <2>3, <2>4, GhostFrame DEF EdgeInv
<1>6. QED BY <1>4, <1>5

LEMMA RelaysClosedKnown ==
  ASSUME EdgeInv, NEW e \in Edges, RelaysClosed(e) PROVE EdgesKnown' /\ GhostInv'
<1>1. \A f \in Edges : Registering(f)' => Registering(f)
  BY MessageFields DEF Registering, RelaysClosed
<1>2. \A f \in Edges, p \in Producers : Message(f, "closed", p, 0) \in mail =>
         Message(f, "closed", p, 0) \in mail'
  BY MessageFields DEF RelaysClosed
<1>3. \A f \in Edges : Ending(f) => Ending(f)'
  BY MessageFields, PipeAssumptions DEF RelaysClosed, Ending
<1>4. QED BY <1>1, <1>2, <1>3, QuietStep DEF RelaysClosed, edgeVars

LEMMA RemoteNewKnown ==
  ASSUME EdgeInv, NEW e \in Edges, NEW p \in Producers, RemoteNew(e, p)
  PROVE  EdgesKnown' /\ GhostInv'
<1>1. \A f \in Edges : Registering(f)' => Registering(f)
  BY MessageFields DEF Registering, RemoteNew
<1>2. \A f \in Edges, q \in Producers : Message(f, "closed", q, 0) \in mail =>
         Message(f, "closed", q, 0) \in mail'
  BY MessageFields DEF RemoteNew
<1>3. \A f \in Edges : Ending(f) => Ending(f)'
  BY MessageFields DEF RemoteNew, Ending
<1>4. QED BY <1>1, <1>2, <1>3, QuietStep DEF RemoteNew

\* The close takes away the only copy there is, unless it overtakes a setup.
LEMMA RemoteClosedKnown ==
  ASSUME EdgeInv, NEW e \in Edges, NEW p \in Producers, RemoteClosed(e, p)
  PROVE  EdgesKnown' /\ GhostInv'
<1> DEFINE x == [edge |-> e, of |-> p, n |-> cached[e][p]]
<1>1. /\ mail' = mail \ {Message(e, "closed", p, 0)} /\ ears' = ears \ {x}
      /\ UNCHANGED <<edge, open, remotes, scenario, setups, live>>
      /\ "overtake" \in scenario \/ ~ Pending(e, p)
  BY DEF RemoteClosed, Pending
<1>2. \A y \in ears : y.edge = e /\ y.of = p /\ y.n = cached[e][p] => y = x
  BY Typed DEF EdgeInv, PipeInv
<1> HIDE DEF x
<1>3. \A f \in Edges : Registering(f)' => Registering(f)
  BY <1>1 DEF Registering
<1>4. EdgesKnown'
  BY <1>1, <1>3 DEF EdgeInv, EdgesKnown, HasCluster
<1>5. \A f \in Edges, q \in Producers : Message(f, "closed", q, 0) \in mail /\ ~ (f = e /\ q = p) =>
         Message(f, "closed", q, 0) \in mail'
  BY <1>1, MessageFields
<1>6. \A f \in Edges : Ending(f) => Ending(f)'
  BY <1>1, MessageFields DEF Ending
<1>7. ASSUME "overtake" \notin scenario, Fed(e, p)' PROVE FALSE
  <2>1. ~ Pending(e, p)
    BY <1>1, <1>7
  <2>2. PICK y \in ears : y.edge = e /\ y.of = p /\ y # x
    BY <1>1, <1>7, <2>1 DEF Fed, Pending
  <2>3. y.n = cached[e][p]
    BY <2>1, <2>2 DEF EdgeInv, PipeInv, EarsKnown, Pending
  <2>4. QED BY <1>2, <2>2, <2>3
<1>8. \A f \in Edges, q \in Producers : Fed(f, q)' => Fed(f, q)
  BY <1>1 DEF Fed
<1>9. \A f \in Edges, q \in Producers : ~ (f = e /\ q = p) /\ Excused(f, q) => Excused(f, q)'
  BY <1>1, <1>5, <1>6 DEF Excused
<1>10. GhostInv'
  BY <1>1, <1>7, <1>8, <1>9 DEF GhostInv, EdgeInv
<1>11. QED BY <1>4, <1>10

\* The steps of a setup itself.
LEMMA SetupsKnown ==
  ASSUME EdgeInv, UNCHANGED <<live, edge, open, remotes, scenario, mail>>,
         \A x \in ears' : x \in ears \/ \E s \in setups : s.edge = x.edge /\ s.of = x.of
                                                        /\ s.step \in {"answer", "register"},
         \A s \in setups' : s \in setups \/
            (/\ HasCluster(s.edge)
             /\ s.step \in {"answer", "register"} => s.of \in live \/ Fed(s.edge, s.of))
  PROVE  EdgesKnown' /\ GhostInv'
  BY QuietStep DEF Registering, Ending

LEMMA AskKnown == ASSUME EdgeInv, NEW c \in calls, Ask(c) PROVE EdgesKnown' /\ GhostInv'
<1> DEFINE z == [edge |-> c.edge, of |-> c.of, by |-> c.by, n |-> 0, step |-> "listen"]
<1>1. z.edge = c.edge /\ z.step = "listen"
  OBVIOUS
<1>2. /\ \A s \in setups' : s \in setups \/ (s = z /\ HasCluster(c.edge))
      /\ UNCHANGED <<live, edge, open, remotes, scenario, mail, ears>>
  BY DEF Ask
<1> HIDE DEF z
<1>3. QED BY <1>1, <1>2, SetupsKnown

LEMMA SetupStepsKnown ==
  ASSUME EdgeInv, NEW s \in setups,
         ListenerCreated(s) \/ Offered(s) \/ EdgeProduced(s) \/ EdgeRegistered(s) \/ OfferLost(s)
  PROVE  EdgesKnown' /\ GhostInv'
<1>1. /\ s \in Setup /\ EdgeTypes /\ HasCluster(s.edge) /\ 0 \in 0 .. MaxMade
      /\ UNCHANGED <<live, edge, open, remotes, scenario, mail>>
  <2>1. EdgeTypes /\ s \in Setup /\ HasCluster(s.edge) /\ 0 \in 0 .. MaxMade
    BY Typed, PipeAssumptions DEF EdgeInv, PipeInv, EdgesKnown
  <2>2. UNCHANGED <<live, edge, open, remotes, scenario, mail>>
    BY DEF ListenerCreated, Offered, EdgeProduced, EdgeRegistered, OfferLost
  <2>3. QED BY <2>1, <2>2
<1>2. CASE ListenerCreated(s)
  <2>1. PICK z \in Setup : z.edge = s.edge /\ z.step = "offer" /\ setups' = (setups \ {s}) \cup {z}
    BY <1>1, <1>2, MovedTo DEF ListenerCreated, SetupSteps
  <2>2. QED BY <1>1, <1>2, <2>1, SetupsKnown DEF ListenerCreated
<1>3. CASE Offered(s) /\ open /\ s.of \in live
  <2>1. Moved(s, "answer", made + 1) /\ made + 1 \in 0 .. MaxMade
    BY <1>1, <1>3, PipeAssumptions DEF Offered, Opens, EdgeTypes
  <2>2. PICK z \in Setup : /\ z.edge = s.edge /\ z.of = s.of /\ z.step = "answer"
                          /\ setups' = (setups \ {s}) \cup {z}
    BY <1>1, <2>1, MovedTo DEF SetupSteps
  <2>3. QED BY <1>1, <1>3, <2>2, SetupsKnown DEF Offered
<1>4. CASE (Offered(s) /\ ~ (open /\ s.of \in live)) \/ OfferLost(s) \/ EdgeRegistered(s)
  <2>1. setups' = setups \ {s} /\ ears' = ears
    BY <1>4 DEF Offered, OfferLost, EdgeRegistered, Over
  <2>2. QED BY <1>1, <2>1, SetupsKnown
<1>5. CASE EdgeProduced(s)
  <2> DEFINE x == [edge |-> s.edge, of |-> s.of, n |-> s.n]
  <2>1. s.step = "answer" /\ Moved(s, "register", s.n) /\ ears' = ears \cup {x}
    BY <1>5 DEF EdgeProduced
  <2>2. x.edge = s.edge /\ x.of = s.of
    OBVIOUS
  <2> HIDE DEF x
  <2>3. s.n \in 0 .. MaxMade
    BY <1>1 DEF Setup
  <2>4. PICK z \in Setup : /\ z.edge = s.edge /\ z.of = s.of /\ z.step = "register"
                          /\ setups' = (setups \ {s}) \cup {z}
    BY <1>1, <2>1, <2>3, MovedTo DEF SetupSteps
  <2>5. Fed(s.edge, s.of)
    BY <2>1 DEF Fed
  <2>6. QED BY <1>1, <2>1, <2>2, <2>4, <2>5, SetupsKnown
<1>6. QED BY <1>2, <1>3, <1>4, <1>5

LEMMA ReverseKnown ==
  ASSUME EdgeInv, ReverseUser \/ ReverseSystem \/ ReverseTrouble, UNCHANGED edgeVars
  PROVE  EdgesKnown' /\ GhostInv'
<1>1. /\ UNCHANGED <<edge, open, scenario>>
      /\ \A m : m.kind # "reverse-close" => (m \in mail' <=> m \in mail)
  BY ReverseSame DEF EdgeInv, PipeInv, EdgeTypes
<1>2. \A e : Registering(e)' <=> Registering(e)
  BY <1>1 DEF Registering, Message
<1>3. \A e : Ending(e)' <=> Ending(e)
  BY <1>1 DEF Ending, Message
<1>4. \A e, p : Message(e, "closed", p, 0) \in mail' <=> Message(e, "closed", p, 0) \in mail
  BY <1>1 DEF Message
<1>5. QED BY <1>1, <1>2, <1>3, <1>4, QuietStep DEF edgeVars

LEMMA DetachedKnown == ASSUME EdgeInv, NEW e \in Edges, Detached(e) PROVE EdgesKnown' /\ GhostInv'
<1>1. /\ edge[e] = "leaving" /\ Drained(e) /\ To(e, "out") /\ ears' = {x \in ears : x.edge # e}
      /\ UNCHANGED <<open, remotes, scenario, setups, live, mail>>
  BY DEF Detached
<1>2. edge'[e] = "out" /\ \A f \in Edges \ {e} : edge'[f] = edge[f]
  BY <1>1, ToStep DEF EdgeInv, PipeInv
<1>3. \A s \in setups : s.edge # e /\ s.edge \in Edges
  BY <1>1, Typed DEF EdgeInv, PipeInv, Drained, Setup
<1>4. \A x \in ears' : x.edge # e /\ x.edge \in Edges /\ x \in ears
  BY <1>1, Typed DEF EdgeInv, PipeInv
<1>5. EdgesKnown'
  BY <1>1, <1>2, <1>3, <1>4 DEF EdgeInv, EdgesKnown, HasCluster, Registering
<1>6. \A f \in Edges, p \in Producers : Fed(f, p)' => Fed(f, p) /\ f # e
  BY <1>1, <1>3, <1>4 DEF Fed
<1>7. \A f \in Edges \ {e}, p \in Producers : Excused(f, p) => Excused(f, p)'
  BY <1>1, <1>2 DEF Excused, Ending
<1>8. QED BY <1>1, <1>5, <1>6, <1>7, GhostFrame DEF EdgeInv

LEMMA PipesClosedKnown ==
  ASSUME EdgeInv, NEW e \in Edges, PipesClosed(e) PROVE EdgesKnown' /\ GhostInv'
<1>1. \A f \in Edges : Registering(f)' => Registering(f)
  BY MessageFields DEF Registering, PipesClosed
<1>2. \A f \in Edges, q \in Producers : Message(f, "closed", q, 0) \in mail =>
         Message(f, "closed", q, 0) \in mail'
  BY MessageFields DEF PipesClosed
<1>3. \A f \in Edges : Ending(f) => Ending(f)'
  BY MessageFields DEF PipesClosed, Ending
<1>4. QED BY <1>1, <1>2, <1>3, QuietStep DEF PipesClosed, edgeVars

LEMMA OriginClosesKnown == ASSUME EdgeInv, OriginCloses PROVE EdgesKnown' /\ GhostInv'
<1>1. /\ open /\ open' = FALSE /\ live' = {} /\ UNCHANGED <<edge, scenario, ears, setups>>
      /\ mail' = mail \cup {Message(e, "room-closed", None, 0) : e \in remotes}
  BY DEF OriginCloses
<1>2. \A f \in Edges : Registering(f)' => Registering(f)
  BY <1>1, MessageFields DEF Registering
<1>3. EdgesKnown'
  BY <1>1, <1>2 DEF EdgeInv, EdgesKnown, HasCluster
<1>4. \A f \in Edges, p \in Producers : Fed(f, p)' => Fed(f, p) /\ HasCluster(f)
  BY <1>1, FedByCluster DEF Fed, EdgeInv
<1>5. \A f \in Edges : HasCluster(f) => Ending(f)'
  BY <1>1 DEF EdgeInv, EdgesKnown, HasCluster, Ending
<1>6. QED BY <1>1, <1>3, <1>4, <1>5, GhostFrame DEF EdgeInv, Excused

LEMMA InitEdge == Init => EdgeInv
  BY InitPipe
  DEF EdgeInv, Init, PipeInit, EdgeInit, EdgesKnown, GhostInv, Fed, Registering

LEMMA NextEdge == EdgeInv /\ [Next]_vars => EdgeInv'
<1> SUFFICES ASSUME EdgeInv, [Next]_vars PROVE EdgeInv'
  OBVIOUS
<1>1. PipeInv'
  BY NextPipe DEF EdgeInv
<1>2. CASE EdgeUser
  BY <1>1, <1>2, SpeakKnown, StopKnown, JoinKnown DEF EdgeUser, EdgeInv
<1>3. CASE EdgeSystem
  BY <1>1, <1>3, AnnounceKnown, RegisteredKnown, ClusterCreatedKnown, BootstrapKnown, RemoteNewKnown,
     RemoteClosedKnown, AskKnown, SetupStepsKnown DEF EdgeSystem, EdgeInv
<1>4. CASE EdgeTrouble
  BY <1>1, <1>4, SetupStepsKnown DEF EdgeTrouble, EdgeInv
<1>5. CASE (ReverseUser \/ ReverseSystem \/ ReverseTrouble) /\ UNCHANGED edgeVars
  BY <1>1, <1>5, ReverseKnown DEF EdgeInv
<1>6. ASSUME NEW e \in Edges,
             Leave(e) \/ RelaysClosed(e) \/ OriginClosed(e) \/ PipesClosed(e) \/ Detached(e)
      PROVE  EdgeInv'
  BY <1>1, <1>6, LeaveKnown, RelaysClosedKnown, OriginClosedKnown, PipesClosedKnown, DetachedKnown
  DEF EdgeInv
<1>7. CASE OriginCloses
  BY <1>1, <1>7, OriginClosesKnown DEF EdgeInv
<1>8. CASE UNCHANGED vars
  <2>1. UNCHANGED <<live, edge, open, remotes, scenario, mail, ears, setups>>
    BY <1>8 DEF vars, edgeVars
  <2>2. QED BY <1>1, <2>1, SetupsKnown DEF EdgeInv
<1>9. QED BY <1>2, <1>3, <1>4, <1>5, <1>6, <1>7, <1>8 DEF Next, User, System

LEMMA AlwaysEdge == Spec => []EdgeInv
  BY InitEdge, NextEdge, PTL DEF Spec

\* A copy of a producer that has gone is on its way out: the edge is about to be told, or
\* leaves (handleRemoteProducerClosed and cleanupRoom in edge-pipe-lifecycle.ts).
THEOREM NeverGhostPipeUnnoticed == Spec => []NoGhostPipe
<1>1. EdgeInv => NoGhostPipe
  <2> SUFFICES ASSUME EdgeInv, "overtake" \notin scenario, NEW x \in ears
               PROVE  \/ x.of \in live \/ edge[x.edge] = "leaving"
                      \/ Message(x.edge, "closed", x.of, 0) \in mail
                      \/ Message(x.edge, "room-closed", None, 0) \in mail
    BY DEF NoGhostPipe
  <2>1. x.edge \in Edges /\ x.of \in Producers
    BY Typed DEF EdgeInv, PipeInv
  <2>2. Fed(x.edge, x.of)
    BY DEF Fed
  <2>3. QED BY <2>1, <2>2 DEF EdgeInv, GhostInv, Excused, Ending
<1>2. QED BY <1>1, AlwaysEdge, PTL

-----------------------------------------------------------------------------
(* The origin's transports *)

TransportType == [kind : {"in", "out"}, edge : Edges, of : Producers \cup Voices, n : 1 .. MaxMade]

\* Each has a number of its own and a place of its own, in the list or out of it.
Transports ==
    /\ pipes \in Seq(TransportType) /\ loose \subseteq TransportType /\ loose \cap Tracked = {}
    /\ \A i, j \in DOMAIN pipes : pipes[i] = pipes[j] => i = j
    /\ \A t \in Open : t.n <= made
    /\ \A s, t \in Open : s.n = t.n => s = t

LEMMA OpenTyped == ASSUME Transports PROVE Open \subseteq TransportType
  BY DEF Transports, Open, Tracked

LEMMA OpensOne ==
  ASSUME Transports, made \in 0 .. MaxMade, NEW t \in TransportType, t.n = made + 1, Opens(t)
  PROVE  Transports' /\ Open' = Open \cup {t}
<1>1. /\ pipes' = Append(pipes, t) /\ loose' = loose /\ made' = made + 1
      /\ pipes \in Seq(TransportType) /\ Len(pipes) \in Nat /\ made \in Int
  BY PipeAssumptions DEF Opens, Transports
<1>2. /\ pipes' \in Seq(TransportType) /\ Len(pipes') = Len(pipes) + 1
      /\ \A i \in 1 .. Len(pipes) : pipes'[i] = pipes[i]
      /\ pipes'[Len(pipes) + 1] = t
  BY <1>1, AppendProperties
<1>3. DOMAIN pipes' = DOMAIN pipes \cup {Len(pipes) + 1} /\ DOMAIN pipes = 1 .. Len(pipes)
  BY <1>1, <1>2
<1>4. Tracked' = Tracked \cup {t}
  BY <1>2, <1>3 DEF Tracked
<1>5. Open' = Open \cup {t}
  BY <1>1, <1>4 DEF Open
<1>6. \A s \in Open : s.n # t.n /\ s # t /\ s.n \in Int /\ s.n <= made
  BY <1>1, OpenTyped DEF Transports, TransportType
<1>7. \A i, j \in DOMAIN pipes' : pipes'[i] = pipes'[j] => i = j
  <2>1. \A i \in DOMAIN pipes : pipes'[i] = pipes[i] /\ pipes[i] \in Open
    BY <1>2, <1>3 DEF Open, Tracked
  <2>2. QED BY <1>2, <1>3, <1>6, <2>1 DEF Transports
<1>8. loose' \cap Tracked' = {}
  BY <1>1, <1>4, <1>6 DEF Transports, Open
<1>9. \A s \in Open' : s.n <= made'
  BY <1>1, <1>5, <1>6
<1>10. \A s, u \in Open' : s.n = u.n => s = u
  BY <1>5, <1>6 DEF Transports
<1>11. QED BY <1>1, <1>2, <1>5, <1>7, <1>8, <1>9, <1>10 DEF Transports

LEMMA Splice ==
  ASSUME NEW S, NEW s \in Seq(S), NEW k \in 1 .. Len(s)
  PROVE  LET t == SubSeq(s, 1, k - 1) \o SubSeq(s, k + 1, Len(s))
         IN  /\ t \in Seq(S) /\ Len(t) = Len(s) - 1
             /\ \A i \in 1 .. Len(s) - 1 : t[i] = IF i < k THEN s[i] ELSE s[i + 1]
<1> DEFINE a == SubSeq(s, 1, k - 1)
           b == SubSeq(s, k + 1, Len(s))
<1>1. Len(s) \in Nat /\ k \in Nat
  OBVIOUS
<1>2. a \in Seq(S) /\ Len(a) = k - 1 /\ \A i \in 1 .. k - 1 : a[i] = s[i]
  BY <1>1
<1>3. b \in Seq(S) /\ Len(b) = Len(s) - k /\ \A i \in 1 .. Len(s) - k : b[i] = s[k + i]
  BY <1>1
<1> HIDE DEF a, b
<1>4. /\ a \o b \in Seq(S) /\ Len(a \o b) = Len(a) + Len(b)
      /\ \A i \in 1 .. Len(a) + Len(b) : (a \o b)[i] = IF i <= Len(a) THEN a[i] ELSE b[i - Len(a)]
  <2>1. a \in Seq(S) /\ b \in Seq(S)
    BY <1>2, <1>3
  <2>2. QED BY <2>1, ConcatProperties
<1>5. Len(a \o b) = Len(s) - 1
  BY <1>1, <1>2, <1>3, <1>4
<1>6. ASSUME NEW i \in 1 .. Len(s) - 1
      PROVE  (a \o b)[i] = IF i < k THEN s[i] ELSE s[i + 1]
  <2>1. (a \o b)[i] = IF i <= k - 1 THEN a[i] ELSE b[i - (k - 1)]
    BY <1>1, <1>2, <1>3, <1>4
  <2>2. CASE i < k
    <3>1. i \in 1 .. k - 1 /\ i <= k - 1
      BY <1>1, <2>2
    <3>2. a[i] = s[i]
      BY <1>2, <3>1
    <3>3. QED BY <2>1, <2>2, <3>1, <3>2
  <2>3. CASE i >= k
    <3>1. i - (k - 1) \in 1 .. Len(s) - k /\ k + (i - (k - 1)) = i + 1
      BY <1>1, <2>3
    <3>2. b[i - (k - 1)] = s[i + 1]
      BY <1>3, <3>1
    <3>3. ~ (i <= k - 1) /\ ~ (i < k)
      BY <1>1, <2>3
    <3>4. QED BY <2>1, <3>2, <3>3
  <2>4. i < k \/ i >= k
    BY <1>1
  <2>5. QED BY <2>2, <2>3, <2>4
<1>7. QED BY <1>4, <1>5, <1>6 DEF a, b

LEMMA ClosesOne ==
  ASSUME Transports, NEW t \in Open, Closes(t)
  PROVE  Transports' /\ Open' = Open \ {t}
<1>1. loose' = loose \ {t} /\ made' = made /\ pipes \in Seq(TransportType) /\ Len(pipes) \in Nat
  BY DEF Closes, Transports
<1>2. /\ pipes' \in Seq(TransportType) /\ Tracked' = Tracked \ {t}
      /\ \A i, j \in DOMAIN pipes' : pipes'[i] = pipes'[j] => i = j
  <2>1. CASE t \notin Tracked /\ UNCHANGED pipes
    BY <1>1, <2>1 DEF Transports, Tracked
  <2>2. CASE \E i \in DOMAIN pipes :
                /\ pipes[i] = t
                /\ pipes' = SubSeq(pipes, 1, i - 1) \o SubSeq(pipes, i + 1, Len(pipes))
    <3>0. DOMAIN pipes = 1 .. Len(pipes)
      BY <1>1
    <3>1. PICK k \in 1 .. Len(pipes) :
                /\ pipes[k] = t
                /\ pipes' = SubSeq(pipes, 1, k - 1) \o SubSeq(pipes, k + 1, Len(pipes))
      BY <2>2, <3>0
    <3>2. /\ pipes' \in Seq(TransportType) /\ Len(pipes') = Len(pipes) - 1
          /\ \A i \in 1 .. Len(pipes) - 1 : pipes'[i] = IF i < k THEN pipes[i] ELSE pipes[i + 1]
      BY <1>1, <3>1, Splice
    <3>3. DOMAIN pipes' = 1 .. Len(pipes) - 1 /\ DOMAIN pipes = 1 .. Len(pipes) /\ k \in Nat
      BY <1>1, <3>2
    <3> DEFINE from(i) == IF i < k THEN i ELSE i + 1
    <3>4. \A i \in DOMAIN pipes' : from(i) \in DOMAIN pipes /\ from(i) # k /\ pipes'[i] = pipes[from(i)]
      BY <1>1, <3>2, <3>3
    <3>5. \A i, j \in DOMAIN pipes' : from(i) = from(j) => i = j
      BY <1>1, <3>3
    <3>6. ASSUME NEW j \in DOMAIN pipes, j # k PROVE \E i \in DOMAIN pipes' : from(i) = j
      <4>1. CASE j < k
        <5>1. j \in DOMAIN pipes' /\ from(j) = j
          BY <1>1, <3>3, <4>1
        <5>2. QED BY <5>1
      <4>2. CASE j > k
        <5>1. j - 1 \in DOMAIN pipes' /\ from(j - 1) = j
          BY <1>1, <3>3, <4>2
        <5>2. QED BY <5>1
      <4>3. QED BY <3>3, <3>6, <4>1, <4>2
    <3> HIDE DEF from
    <3>7. \A i, j \in DOMAIN pipes' : pipes'[i] = pipes'[j] => i = j
      BY <3>4, <3>5 DEF Transports
    <3>8. \A j \in DOMAIN pipes : pipes[j] = t <=> j = k
      BY <3>1, <3>3 DEF Transports
    <3>9. Tracked' \subseteq Tracked \ {t}
      BY <3>4, <3>8 DEF Tracked
    <3>10. Tracked \ {t} \subseteq Tracked'
      <4>1. SUFFICES ASSUME NEW j \in DOMAIN pipes, pipes[j] # t PROVE pipes[j] \in Tracked'
        BY DEF Tracked
      <4>2. PICK i \in DOMAIN pipes' : from(i) = j
        BY <3>1, <3>6, <4>1
      <4>3. pipes'[i] = pipes[j]
        BY <3>4, <4>2
      <4>4. QED BY <4>3 DEF Tracked
    <3>11. QED BY <3>2, <3>7, <3>9, <3>10
  <2>3. QED BY <2>1, <2>2 DEF Closes
<1>3. Open' = Open \ {t}
  BY <1>1, <1>2 DEF Open
<1>4. QED BY <1>1, <1>2, <1>3 DEF Transports

LEMMA ClosesPipes == ASSUME Transports, closePipes PROVE Transports' /\ Open' = Open \ Shut
<1>1. pipes' = <<>> /\ loose' = loose \cup (Tracked \ Shut) /\ made' = made
  BY DEF closePipes
<1>2. Tracked' = {} /\ DOMAIN pipes' = {} /\ pipes' \in Seq(TransportType)
  BY <1>1 DEF Tracked
<1>3. Shut \subseteq Tracked
  BY DEF Shut, Tracked
<1>4. Open' = Open \ Shut
  BY <1>1, <1>2, <1>3 DEF Open, Transports
<1>5. loose' \subseteq TransportType
  BY <1>1, OpenTyped DEF Open
<1>6. QED BY <1>1, <1>2, <1>4, <1>5 DEF Transports

LEMMA DestroysAll == ASSUME Transports, Destroyed PROVE Transports' /\ Open' = {}
<1>1. pipes' = <<>> /\ loose' = {} /\ made' = made
  BY DEF Destroyed
<1>2. Tracked' = {} /\ DOMAIN pipes' = {} /\ pipes' \in Seq(TransportType)
  BY <1>1 DEF Tracked
<1>3. QED BY <1>1, <1>2 DEF Transports, Open

LEMMA TransportsSame == ASSUME Transports, UNCHANGED pipeVars PROVE Transports' /\ Open' = Open
  BY DEF Transports, pipeVars, Open, Tracked

-----------------------------------------------------------------------------
(* The reverse pipes: what the records of both sides hold *)

HandSteps == {"begin", "create", "offer", "accept", "consume", "finalize", "register", "reply",
              "refused", "closing"}
HandType == [of : Voices, by : Callers, tries : 1 .. 3, n : 0 .. MaxMade, step : HandSteps]
Entry == [by : Callers \cup {None}, tries : 0 .. 3, n : 0 .. MaxMade, done : BOOLEAN]
Attempt == [of : Voices, by : Callers, tries : 1 .. 3]

\* Once the origin has answered, an attempt knows the number of its inbound transport.
Numbered(h) == h.n <= made /\ (h.step \notin {"begin", "create", "offer"} => h.n # 0)

VoiceTypes ==
    /\ ReverseTypeOK /\ entry \in [Voices -> Entry]
    /\ \A h \in hands : home[h.of] # None /\ Numbered(h)
    /\ \A v \in speaking : home[v] # None
    /\ \A n \in produced : n <= made

TransportsHome ==
    /\ \A t \in Open : t.kind = "in" => t.of \in Voices /\ home[t.of] # None
    /\ ~open => Open = {}

VoiceBase == Transports /\ TransportsHome /\ VoiceTypes

-----------------------------------------------------------------------------

LEMMA Handy ==
  VoiceTypes => /\ hands \subseteq HandType /\ outbound \subseteq Attempt
                /\ home \in [Voices -> Edges \cup {None}] /\ inbound \in [Voices -> 0 .. MaxMade]
                /\ hooked \cup told \cup ended \cup produced \subseteq 1 .. MaxMade
                /\ speaking \subseteq Voices /\ entry \in [Voices -> Entry]
  BY DEF VoiceTypes, ReverseTypeOK, HandType, HandSteps, Attempt

LEMMA GoesTo ==
  ASSUME NEW h \in HandType, NEW step \in HandSteps, Goes(h, step)
  PROVE  \E k \in HandType : k.of = h.of /\ k.n = h.n /\ k.step = step /\ hands' = (hands \ {h}) \cup {k}
<1> DEFINE k == [h EXCEPT !.step = step]
<1>1. k \in HandType /\ k.of = h.of /\ k.n = h.n /\ k.step = step
  BY DEF HandType
<1>2. hands' = (hands \ {h}) \cup {k}
  BY DEF Goes
<1> HIDE DEF k
<1>3. QED BY <1>1, <1>2

LEMMA FailsTo ==
  ASSUME NEW h \in HandType, Fails(h)
  PROVE  \E G \in SUBSET HandType :
            /\ hands' = (hands \ {h}) \cup G
            /\ \A k \in G : k.of = h.of /\ k.n = 0 /\ k.step = "begin"
            /\ \A k, l \in G : k = l
<1> DEFINE k == Hand(h.of, h.by, h.tries - 1, "begin", 0)
           G == IF h.tries = 1 THEN {} ELSE {k}
<1>1. k.of = h.of /\ k.n = 0 /\ k.step = "begin"
  BY DEF Hand
<1>2. h.tries # 1 => k \in HandType
  <2>1. h.tries \in 1 .. 3 /\ 0 \in 0 .. MaxMade
    BY PipeAssumptions DEF HandType
  <2>2. h.tries # 1 => h.tries - 1 \in 1 .. 3
    BY <2>1
  <2>3. QED BY <2>1, <2>2 DEF HandType, HandSteps, Hand
<1>3. hands' = (hands \ {h}) \cup G
  BY DEF Fails
<1> HIDE DEF k
<1>4. G \in SUBSET HandType /\ \A l \in G : l = k
  BY <1>2
<1> HIDE DEF G
<1>5. QED BY <1>1, <1>3, <1>4

LEMMA EntryTypes ==
  ASSUME NEW f \in [Voices -> Entry], NEW v \in Voices
  PROVE  /\ [f EXCEPT ![v] = NoEntry] \in [Voices -> Entry]
         /\ \A by \in Callers, tries \in 1 .. 3 :
               [f EXCEPT ![v] = [by |-> by, tries |-> tries, n |-> 0, done |-> FALSE]] \in [Voices -> Entry]
<1>1. 0 \in 0 .. MaxMade
  BY PipeAssumptions
<1>2. NoEntry \in Entry
  BY <1>1 DEF Entry, NoEntry
<1>3. \A by \in Callers, tries \in 1 .. 3 : [by |-> by, tries |-> tries, n |-> 0, done |-> FALSE] \in Entry
  BY <1>1 DEF Entry
<1>4. QED BY <1>2, <1>3

LEMMA EntryNumbered ==
  ASSUME NEW f \in [Voices -> Entry], NEW v \in Voices, NEW n \in 0 .. MaxMade
  PROVE  LET g == [f EXCEPT ![v].n = n]
         IN  g \in [Voices -> Entry] /\ g[v].n = n /\ \A w \in Voices \ {v} : g[w] = f[w]
<1> DEFINE x == [f[v] EXCEPT !.n = n]
<1>1. x \in Entry /\ x.n = n
  BY DEF Entry
<1>2. [f EXCEPT ![v].n = n] = [f EXCEPT ![v] = x]
  OBVIOUS
<1> HIDE DEF x
<1>3. QED BY <1>1, <1>2

LEMMA EntryDone ==
  ASSUME NEW f \in [Voices -> Entry], NEW v \in Voices
  PROVE  LET g == [f EXCEPT ![v].done = TRUE]
         IN  g \in [Voices -> Entry] /\ \A w \in Voices : g[w].n = f[w].n
<1> DEFINE x == [f[v] EXCEPT !.done = TRUE]
<1>1. x \in Entry /\ x.n = f[v].n
  BY DEF Entry
<1>2. [f EXCEPT ![v].done = TRUE] = [f EXCEPT ![v] = x]
  OBVIOUS
<1> HIDE DEF x
<1>3. QED BY <1>1, <1>2

\* Whatever closeReversePipe finds, it forgets the entry and leaves word of it.
LEMMA CloseTypes ==
  ASSUME VoiceTypes, NEW v \in Voices, closeReversePipe(v)
  PROVE  /\ entry' \in [Voices -> Entry] /\ outbound' \subseteq Attempt /\ mail \subseteq mail'
         /\ \A w \in Voices \ {v} : entry'[w] = entry[w]
         /\ entry[v] # NoEntry => CloseOf(v, entry[v].n) \in mail'
<1>1. entry \in [Voices -> Entry] /\ outbound \subseteq Attempt
  BY Handy
<1>2. CASE entry[v] = NoEntry
  BY <1>1, <1>2 DEF closeReversePipe
<1>3. CASE entry[v] # NoEntry
  <2>1. /\ entry' = [entry EXCEPT ![v] = NoEntry] /\ outbound' \subseteq outbound
        /\ mail' = mail \cup {CloseOf(v, entry[v].n)}
    BY <1>3 DEF closeReversePipe
  <2>2. QED BY <1>1, <2>1, EntryTypes
<1>4. QED BY <1>2, <1>3

LEMMA AttemptType == ASSUME NEW h \in HandType PROVE Id(h) \in Attempt
  BY DEF HandType, Attempt, Id

LEMMA DropTypes ==
  ASSUME VoiceTypes, NEW h \in HandType, DropAttempt(h)
  PROVE  /\ entry' \in [Voices -> Entry] /\ outbound' \subseteq Attempt
         /\ \A w \in Voices \ {h.of} : entry'[w] = entry[w]
<1>1. /\ entry \in [Voices -> Entry] /\ outbound \subseteq Attempt /\ h.of \in Voices
      /\ entry' = [entry EXCEPT ![h.of] = NoEntry] /\ outbound' \subseteq outbound
  BY Handy DEF DropAttempt, HandType
<1>2. QED BY <1>1, EntryTypes

\* One attempt of a voice becomes another, or none.
LEMMA HandTypes ==
  ASSUME VoiceTypes, made \in 0 .. MaxMade, made' \in 0 .. MaxMade, made <= made',
         NEW h \in hands, NEW G \in SUBSET HandType, hands' = (hands \ {h}) \cup G,
         \A k \in G : k.of = h.of /\ Numbered(k)',
         UNCHANGED <<home, speaking>>, entry' \in [Voices -> Entry], outbound' \subseteq Attempt,
         inbound' \in [Voices -> 0 .. MaxMade],
         hooked' \cup told' \cup ended' \cup produced' \subseteq 1 .. MaxMade,
         \A n \in produced' : n <= made'
  PROVE  VoiceTypes'
<1>1. hands \subseteq HandType
  BY Handy
<1>2. hands' \subseteq HandType
  BY <1>1
<1>3. ReverseTypeOK'
  BY <1>2, Handy DEF ReverseTypeOK, VoiceTypes, HandType, HandSteps, Attempt
<1>4. ASSUME NEW k \in hands' PROVE home[k.of] # None /\ Numbered(k)'
  <2>1. CASE k \in G
    BY <2>1 DEF VoiceTypes
  <2>2. CASE k \in hands
    <3>1. home[k.of] # None /\ Numbered(k) /\ k.n \in Int /\ made \in Int /\ made' \in Int
      BY <1>1, <2>2, PipeAssumptions DEF VoiceTypes, HandType
    <3>2. QED BY <3>1 DEF Numbered
  <2>3. QED BY <2>1, <2>2
<1>5. QED BY <1>3, <1>4 DEF VoiceTypes

LEMMA HomeSame ==
  ASSUME VoiceBase, UNCHANGED <<home, open, pipeVars>> PROVE Transports' /\ TransportsHome'
<1>1. Transports' /\ Open' = Open
  BY TransportsSame DEF VoiceBase
<1>2. QED BY <1>1 DEF VoiceBase, TransportsHome

-----------------------------------------------------------------------------
(* The reverse pipes: a producer at the origin has somebody who answers for it *)

Live(v) == {t \in Open : t.kind = "in" /\ t.of = v /\ t.n \in produced}
Told(v, n) == CloseOf(v, n) \in mail

\* A transport is about to be closed, or the edge can still have it closed.
Sure(v, n) == Told(v, n) \/ (v \in speaking /\ entry[v].n = n)

\* What the step of an attempt says of the voice's producer: none is made before the edge
\* asks for it, and the one there is is the one of this attempt.
Handed(h) ==
    /\ h.step \in {"begin", "create", "offer", "accept", "consume", "finalize"} => Live(h.of) = {}
    /\ h.step \in {"register", "reply", "refused", "closing"} => \A t \in Live(h.of) : t.n = h.n
    /\ h.step = "closing" => \A t \in Live(h.of) : Told(h.of, t.n)
    /\ h.step = "consume" /\ h.of \in speaking => entry[h.of].n = h.n
    /\ h.step = "finalize" /\ In(h.of, h.n) \in Open => Sure(h.of, h.n)

VoiceOk(v) ==
    /\ \A h, k \in hands : h.of = v /\ k.of = v => h = k
    /\ \A h \in hands : h.of = v => Handed(h)
    /\ \A t \in Live(v) : Sure(v, t.n) /\ inbound[v] = t.n

VoiceInv == \A v \in Voices : VoiceOk(v)

-----------------------------------------------------------------------------

LEMMA InFields ==
  ASSUME NEW v, NEW n PROVE In(v, n).kind = "in" /\ In(v, n).of = v /\ In(v, n).n = n
  BY DEF In

\* What leaves a voice alone: its attempt may end and its transports may close, but word
\* of what stays open is not lost.
LEMMA VoiceFrame ==
  ASSUME NEW v \in Voices, VoiceOk(v), home'[v] = home[v],
         \A h \in hands' : h.of = v => h \in hands,
         v \in speaking' => v \in speaking /\ entry'[v] = entry[v],
         v \in speaking => v \in speaking' \/ Open = {},
         \A t \in Open' : t.kind = "in" /\ t.of = v =>
            t \in Open /\ (Told(v, t.n) => Told(v, t.n)'),
         \A t \in Live(v)' : t \in Live(v) /\ inbound'[v] = inbound[v]
  PROVE  VoiceOk(v)'
<1>1. \A t \in Open' : t.kind = "in" /\ t.of = v => (Sure(v, t.n) => Sure(v, t.n)')
  BY DEF Sure
<1>2. \A t \in Live(v)' : t \in Open' /\ t.kind = "in" /\ t.of = v
  BY DEF Live
<1>3. \A t \in Live(v)' : Sure(v, t.n)' /\ inbound'[v] = t.n
  BY <1>1, <1>2 DEF VoiceOk
<1>4. ASSUME NEW h \in hands', h.of = v PROVE Handed(h)'
  <2>1. Handed(h)
    BY <1>4 DEF VoiceOk
  <2>2. h.step = "closing" => \A t \in Live(v)' : Told(v, t.n)'
    BY <1>2, <1>4, <2>1 DEF Handed
  <2>3. h.step = "finalize" /\ In(v, h.n)' \in Open' => Sure(v, h.n)'
    <3>1. In(v, h.n)' = In(v, h.n)
      BY DEF In
    <3>2. QED BY <1>1, <1>4, <2>1, <3>1, InFields DEF Handed
  <2>4. h.step = "consume" /\ v \in speaking' => entry'[v].n = h.n
    BY <1>4, <2>1 DEF Handed
  <2>5. QED BY <1>4, <2>1, <2>2, <2>3, <2>4 DEF Handed
<1>5. QED BY <1>3, <1>4 DEF VoiceOk

\* A step of an attempt: what it does to its own voice is what there is to show.
LEMMA HandVoices ==
  ASSUME VoiceBase, VoiceInv, NEW h \in hands, h.of \in Voices, NEW G, hands' = (hands \ {h}) \cup G,
         \A k, l \in G : k = l, \A k \in G : k.of = h.of /\ Handed(k)',
         UNCHANGED <<home, speaking>>, mail \subseteq mail',
         \A w \in Voices \ {h.of} : entry'[w] = entry[w] /\ inbound'[w] = inbound[w],
         \A t \in Open' : t \in Open \/ t.of = h.of,
         \A t \in Open : t.n \in produced' => t.n \in produced \/ t.of = h.of,
         \A t \in Live(h.of)' : Sure(h.of, t.n)' /\ inbound'[h.of] = t.n
  PROVE  VoiceInv'
<1>1. ASSUME NEW w \in Voices \ {h.of} PROVE VoiceOk(w)'
  <2>1. \A k \in hands' : k.of = w => k \in hands
    BY <1>1
  <2>2. \A t \in Open' : t.kind = "in" /\ t.of = w => t \in Open /\ (Told(w, t.n) => Told(w, t.n)')
    BY <1>1 DEF Told, CloseOf
  <2>3. \A t \in Live(w)' : t \in Live(w) /\ inbound'[w] = inbound[w]
    BY <1>1 DEF Live
  <2>4. VoiceOk(w)
    BY DEF VoiceInv
  <2>5. QED BY <1>1, <2>1, <2>2, <2>3, <2>4, VoiceFrame
<1>2. VoiceOk(h.of)'
  <2>1. \A k \in hands : k.of = h.of => k = h
    BY DEF VoiceInv, VoiceOk
  <2>2. \A k \in hands' : k.of = h.of => k \in G
    BY <2>1
  <2>3. QED BY <2>2 DEF VoiceOk
<1>3. QED BY <1>1, <1>2 DEF VoiceInv

\* closeReversePipe tells the origin of whatever is still to be answered for.
LEMMA CloseTells ==
  ASSUME VoiceTypes, NEW v \in Voices, NEW n \in 1 .. MaxMade, Sure(v, n), closeReversePipe(v)
  PROVE  Told(v, n)'
<1>1. mail \subseteq mail' /\ (entry[v] # NoEntry => CloseOf(v, entry[v].n) \in mail')
  BY CloseTypes
<1>2. CASE Told(v, n)
  BY <1>1, <1>2 DEF Told, CloseOf
<1>3. CASE entry[v].n = n
  <2>1. entry[v] # NoEntry
    BY <1>3 DEF NoEntry
  <2>2. QED BY <1>1, <1>3, <2>1 DEF Told, CloseOf
<1>4. QED BY <1>2, <1>3 DEF Sure

\* A voice has at most one producer there, the one the edge would have closed.
LEMMA LiveTyped ==
  ASSUME Transports, NEW v, NEW t \in Live(v)
  PROVE  t \in Open /\ t.kind = "in" /\ t.of = v /\ t.n \in produced /\ t.n \in 1 .. MaxMade
  BY OpenTyped DEF Live, TransportType

-----------------------------------------------------------------------------
(* The steps of an attempt *)

LEMMA LiveSame ==
  ASSUME UNCHANGED <<pipeVars, produced>> PROVE Open' = Open /\ \A v : Live(v)' = Live(v)
<1>1. Open' = Open
  BY DEF pipeVars, Open, Tracked
<1>2. QED BY <1>1 DEF Live

LEMMA FreshHand ==
  ASSUME NEW k, Live(k.of)' = {}, k.step \notin {"consume", "finalize"} PROVE Handed(k)'
  BY DEF Handed

LEMMA HandFacts ==
  ASSUME VoiceBase, NEW h \in hands
  PROVE  /\ h \in HandType /\ h.of \in Voices /\ home[h.of] # None /\ Numbered(h)
         /\ VoiceInv => Handed(h) /\ \A t \in Live(h.of) : Sure(h.of, t.n) /\ inbound[h.of] = t.n
<1>1. h \in HandType /\ h.of \in Voices /\ home[h.of] # None /\ Numbered(h)
  BY Handy DEF VoiceBase, VoiceTypes, HandType
<1>2. QED BY <1>1 DEF VoiceInv, VoiceOk

\* A step that opens, closes and produces nothing at the origin.
LEMMA QuietHand ==
  ASSUME VoiceBase, made \in 0 .. MaxMade, NEW h \in hands, NEW G \in SUBSET HandType,
         hands' = (hands \ {h}) \cup G, \A k, l \in G : k = l,
         \A k \in G : k.of = h.of /\ Numbered(k),
         UNCHANGED <<home, speaking, open, pipeVars, inbound, produced>>,
         hooked' \cup told' \cup ended' \subseteq 1 .. MaxMade,
         entry' \in [Voices -> Entry], outbound' \subseteq Attempt, mail \subseteq mail',
         \A w \in Voices \ {h.of} : entry'[w] = entry[w]
  PROVE  /\ VoiceBase'
         /\ VoiceInv /\ (\A k \in G : Handed(k)') /\ (\A t \in Live(h.of) : Sure(h.of, t.n)') => VoiceInv'
<1>1. VoiceTypes /\ UNCHANGED made
  BY DEF VoiceBase, pipeVars
<1>2. \A k \in G : k.of = h.of /\ Numbered(k)'
  BY <1>1 DEF Numbered
<1>3. made' \in 0 .. MaxMade /\ made <= made'
  BY <1>1, PipeAssumptions
<1>4. /\ hooked' \cup told' \cup ended' \cup produced' \subseteq 1 .. MaxMade
      /\ inbound' \in [Voices -> 0 .. MaxMade] /\ \A n \in produced' : n <= made'
  BY <1>1, Handy DEF VoiceTypes
<1>5. VoiceTypes'
  BY <1>1, <1>2, <1>3, <1>4, HandTypes
<1>6. VoiceBase'
  BY <1>5, HomeSame DEF VoiceBase
<1>7. ASSUME VoiceInv, \A k \in G : Handed(k)', \A t \in Live(h.of) : Sure(h.of, t.n)'
      PROVE  VoiceInv'
  <2>1. Open' = Open /\ Live(h.of)' = Live(h.of)
    BY LiveSame
  <2>2. h.of \in Voices /\ \A t \in Live(h.of) : inbound[h.of] = t.n
    BY <1>7, HandFacts
  <2>3. \A t \in Live(h.of)' : Sure(h.of, t.n)' /\ inbound'[h.of] = t.n
    BY <1>7, <2>1, <2>2
  <2>4. QED BY <1>2, <1>7, <2>1, <2>2, <2>3, HandVoices
<1>8. QED BY <1>6, <1>7

LEMMA GoesQuietly ==
  ASSUME VoiceBase, made \in 0 .. MaxMade, NEW h \in hands, NEW step \in HandSteps, Goes(h, step),
         step \notin {"begin", "create", "offer"} => h.n # 0,
         UNCHANGED <<home, speaking, open, pipeVars, inbound, produced>>,
         hooked' \cup told' \cup ended' \subseteq 1 .. MaxMade,
         entry' \in [Voices -> Entry], outbound' \subseteq Attempt, mail \subseteq mail',
         \A w \in Voices \ {h.of} : entry'[w] = entry[w],
         VoiceInv => /\ \A k \in HandType : k.of = h.of /\ k.n = h.n /\ k.step = step => Handed(k)'
                     /\ \A t \in Live(h.of) : Sure(h.of, t.n)'
  PROVE  VoiceBase' /\ (VoiceInv => VoiceInv')
<1>1. h \in HandType /\ Numbered(h)
  BY HandFacts
<1>2. PICK k \in HandType : k.of = h.of /\ k.n = h.n /\ k.step = step /\ hands' = (hands \ {h}) \cup {k}
  BY <1>1, GoesTo
<1>3. Numbered(k)
  BY <1>1, <1>2 DEF Numbered
<1>4. VoiceInv => \A l \in {k} : Handed(l)'
  BY <1>2
<1> DEFINE G == {k}
<1>5. G \in SUBSET HandType /\ (\A l, m \in G : l = m) /\ (\A l \in G : l.of = h.of /\ Numbered(l))
  BY <1>2, <1>3
<1>6. QED BY <1>2, <1>4, <1>5, QuietHand

LEMMA FailsQuietly ==
  ASSUME VoiceBase, made \in 0 .. MaxMade, NEW h \in hands, Fails(h),
         UNCHANGED <<home, speaking, open, pipeVars, inbound, produced, hooked, told, ended>>,
         entry' \in [Voices -> Entry], outbound' \subseteq Attempt, mail \subseteq mail',
         \A w \in Voices \ {h.of} : entry'[w] = entry[w],
         VoiceInv => Live(h.of) = {}
  PROVE  VoiceBase' /\ (VoiceInv => VoiceInv')
<1>1. h \in HandType
  BY HandFacts
<1>2. PICK G \in SUBSET HandType :
            /\ hands' = (hands \ {h}) \cup G
            /\ \A k \in G : k.of = h.of /\ k.n = 0 /\ k.step = "begin"
            /\ \A k, l \in G : k = l
  BY <1>1, FailsTo
<1>3. \A k \in G : Numbered(k)
  BY <1>2, PipeAssumptions DEF Numbered
<1>4. VoiceInv => \A k \in G : Handed(k)'
  BY <1>2, FreshHand, LiveSame
<1>5. hooked' \cup told' \cup ended' \subseteq 1 .. MaxMade
  BY Handy DEF VoiceBase
<1>6. VoiceInv => \A t \in Live(h.of) : Sure(h.of, t.n)'
  OBVIOUS
<1>7. QED BY <1>2, <1>3, <1>4, <1>5, <1>6, QuietHand

LEMMA DropsQuietly ==
  ASSUME VoiceBase, made \in 0 .. MaxMade, NEW h \in hands, DropAttempt(h),
         h.step \in {"offer", "accept", "consume"},
         UNCHANGED <<home, speaking, open, pipeVars, inbound, produced, hooked, told, ended, mail>>
  PROVE  VoiceBase' /\ (VoiceInv => VoiceInv')
<1>1. h \in HandType /\ VoiceTypes /\ (VoiceInv => Live(h.of) = {})
  BY HandFacts DEF VoiceBase, Handed
<1>2. /\ entry' \in [Voices -> Entry] /\ outbound' \subseteq Attempt
      /\ \A w \in Voices \ {h.of} : entry'[w] = entry[w]
  BY <1>1, DropTypes
<1>3. Fails(h)
  BY DEF DropAttempt
<1>4. QED BY <1>1, <1>2, <1>3, FailsQuietly

LEMMA EndsQuietly ==
  ASSUME VoiceBase, made \in 0 .. MaxMade, NEW h \in hands, hands' = hands \ {h},
         UNCHANGED <<home, speaking, open, pipeVars, inbound, produced, hooked, told, ended>>,
         entry' \in [Voices -> Entry], outbound' \subseteq Attempt, mail \subseteq mail',
         \A w \in Voices \ {h.of} : entry'[w] = entry[w],
         VoiceInv => \A t \in Live(h.of) : Sure(h.of, t.n)'
  PROVE  VoiceBase' /\ (VoiceInv => VoiceInv')
<1> DEFINE G == {}
<1>1. hands' = (hands \ {h}) \cup G /\ G \in SUBSET HandType /\ \A k : k \notin G
  OBVIOUS
<1> HIDE DEF G
<1>2. hooked' \cup told' \cup ended' \subseteq 1 .. MaxMade
  BY Handy DEF VoiceBase
<1>3. QED BY <1>1, <1>2, QuietHand

LEMMA BeginVoice ==
  ASSUME VoiceBase, made \in 0 .. MaxMade, NEW h \in hands, Begin(h)
  PROVE  VoiceBase' /\ (VoiceInv => VoiceInv')
<1>1. /\ UNCHANGED <<home, speaking, entry, outbound, open, pipeVars, inbound, produced, hooked, told, ended, mail>>
      /\ h.step = "begin"
  BY DEF Begin, HandAt
<1>2. /\ VoiceTypes /\ entry \in [Voices -> Entry] /\ outbound \subseteq Attempt
      /\ hooked' \cup told' \cup ended' \subseteq 1 .. MaxMade
  BY <1>1, Handy DEF VoiceBase
<1>3. VoiceInv => Live(h.of) = {} /\ Live(h.of)' = {}
  BY <1>1, HandFacts, LiveSame DEF Handed
<1>4. CASE Goes(h, "create")
  BY <1>1, <1>2, <1>3, <1>4, FreshHand, GoesQuietly DEF HandSteps
<1>5. CASE Fails(h)
  BY <1>1, <1>2, <1>3, <1>5, FailsQuietly
<1>6. CASE hands' = hands \ {h}
  <2>1. VoiceInv => \A t \in Live(h.of) : Sure(h.of, t.n)'
    BY <1>3
  <2>2. QED BY <1>1, <1>2, <1>6, <2>1, EndsQuietly
<1>7. QED BY <1>4, <1>5, <1>6 DEF Begin

LEMMA OutboundCreatedVoice ==
  ASSUME VoiceBase, made \in 0 .. MaxMade, NEW h \in hands, OutboundCreated(h)
  PROVE  VoiceBase' /\ (VoiceInv => VoiceInv')
<1>1. /\ UNCHANGED <<home, speaking, open, pipeVars, inbound, produced, hooked, told, ended, mail>>
      /\ h.step = "create" /\ Goes(h, "offer") /\ outbound' = outbound \cup {Id(h)}
      /\ entry' = [entry EXCEPT ![h.of] = [by |-> h.by, tries |-> h.tries, n |-> 0, done |-> FALSE]]
  BY DEF OutboundCreated, HandAt
<1>2. h \in HandType /\ h.of \in Voices /\ h.by \in Callers /\ h.tries \in 1 .. 3
  BY HandFacts DEF HandType
<1>3. /\ entry' \in [Voices -> Entry] /\ outbound' \subseteq Attempt
      /\ hooked' \cup told' \cup ended' \subseteq 1 .. MaxMade
  BY <1>1, <1>2, Handy, EntryTypes, AttemptType DEF VoiceBase
<1>4. \A w \in Voices \ {h.of} : entry'[w] = entry[w]
  BY <1>1, Handy DEF VoiceBase
<1>5. VoiceInv => Live(h.of) = {} /\ Live(h.of)' = {}
  BY <1>1, HandFacts, LiveSame DEF Handed
<1>6. QED BY <1>1, <1>3, <1>4, <1>5, FreshHand, GoesQuietly DEF HandSteps

LEMMA CancelVoice ==
  ASSUME VoiceBase, made \in 0 .. MaxMade, NEW h \in hands, Cancel(h), h.step \in {"accept", "reply"},
         UNCHANGED <<home, speaking, open, pipeVars, inbound, produced, hooked, told, ended>>
  PROVE  VoiceBase' /\ (VoiceInv => VoiceInv')
<1>1. /\ Goes(h, "closing") /\ outbound' \subseteq outbound /\ mail' = mail \cup {CloseOf(h.of, h.n)}
      /\ entry' = entry /\ mail \subseteq mail'
  BY DEF Cancel
<1>2. /\ h.n # 0 /\ entry' \in [Voices -> Entry] /\ outbound' \subseteq Attempt
      /\ hooked' \cup told' \cup ended' \subseteq 1 .. MaxMade
  BY <1>1, Handy, HandFacts DEF VoiceBase, Numbered
<1>3. VoiceInv => \A t \in Live(h.of) : t.n = h.n
  BY HandFacts DEF Handed
<1>4. VoiceInv => \A t \in Live(h.of) : Told(h.of, t.n)'
  BY <1>1, <1>3 DEF Told, CloseOf
<1>5. Live(h.of)' = Live(h.of)
  BY LiveSame
<1>6. VoiceInv => \A k \in HandType : k.of = h.of /\ k.n = h.n /\ k.step = "closing" => Handed(k)'
  BY <1>3, <1>4, <1>5 DEF Handed
<1>7. VoiceInv => \A t \in Live(h.of) : Sure(h.of, t.n)'
  BY <1>4 DEF Sure
<1>8. QED BY <1>1, <1>2, <1>6, <1>7, GoesQuietly DEF HandSteps

LEMMA AcceptedVoice ==
  ASSUME VoiceBase, made \in 0 .. MaxMade, NEW h \in hands, Accepted(h)
  PROVE  VoiceBase' /\ (VoiceInv => VoiceInv')
<1>1. /\ UNCHANGED <<home, speaking, open, pipeVars, inbound, produced, hooked, told, ended>>
      /\ h.step = "accept"
  BY DEF Accepted, HandAt
<1>2. CASE entry[h.of] = NoEntry
  BY <1>1, <1>2, CancelVoice DEF Accepted
<1>3. CASE entry[h.of] # NoEntry
  <2>1. Goes(h, "consume") /\ entry' = [entry EXCEPT ![h.of].n = h.n] /\ UNCHANGED <<outbound, mail>>
    BY <1>3 DEF Accepted
  <2>2. h.of \in Voices /\ h.n \in 0 .. MaxMade /\ h.n # 0 /\ entry \in [Voices -> Entry]
    BY <1>1, Handy, HandFacts DEF VoiceBase, HandType, Numbered
  <2>3. /\ entry' \in [Voices -> Entry] /\ entry'[h.of].n = h.n
        /\ \A w \in Voices \ {h.of} : entry'[w] = entry[w]
    BY <2>1, <2>2, EntryNumbered
  <2>4. outbound' \subseteq Attempt /\ hooked' \cup told' \cup ended' \subseteq 1 .. MaxMade
    BY <1>1, <2>1, Handy DEF VoiceBase
  <2>5. VoiceInv => Live(h.of) = {} /\ Live(h.of)' = {}
    BY <1>1, HandFacts, LiveSame DEF Handed
  <2>6. VoiceInv => \A k \in HandType : k.of = h.of /\ k.n = h.n /\ k.step = "consume" => Handed(k)'
    BY <2>3, <2>5 DEF Handed
  <2>7. QED BY <1>1, <2>1, <2>2, <2>3, <2>4, <2>5, <2>6, GoesQuietly DEF HandSteps
<1>4. QED BY <1>2, <1>3

LEMMA ConsumedVoice ==
  ASSUME VoiceBase, made \in 0 .. MaxMade, NEW h \in hands, Consumed(h)
  PROVE  VoiceBase' /\ (VoiceInv => VoiceInv')
<1>1. /\ UNCHANGED <<home, speaking, open, pipeVars, inbound, produced, hooked, told, ended, mail>>
      /\ h.step = "consume"
  BY DEF Consumed, HandAt
<1>2. CASE h.of \in speaking /\ Id(h) \in outbound
  <2>1. Goes(h, "finalize") /\ UNCHANGED <<entry, outbound>>
    BY <1>2 DEF Consumed
  <2>2. /\ h.n # 0 /\ entry' \in [Voices -> Entry] /\ outbound' \subseteq Attempt
        /\ hooked' \cup told' \cup ended' \subseteq 1 .. MaxMade
    BY <1>1, <2>1, Handy, HandFacts DEF VoiceBase, Numbered
  <2>3. VoiceInv => Live(h.of) = {} /\ Live(h.of)' = {} /\ entry[h.of].n = h.n
    BY <1>1, <1>2, HandFacts, LiveSame DEF Handed
  <2>4. VoiceInv => Sure(h.of, h.n)'
    BY <1>1, <1>2, <2>1, <2>3 DEF Sure
  <2>5. VoiceInv => \A k \in HandType : k.of = h.of /\ k.n = h.n /\ k.step = "finalize" => Handed(k)'
    BY <2>3, <2>4 DEF Handed
  <2>6. QED BY <1>1, <2>1, <2>2, <2>3, <2>5, GoesQuietly DEF HandSteps
<1>3. CASE ~ (h.of \in speaking /\ Id(h) \in outbound)
  BY <1>1, <1>3, DropsQuietly DEF Consumed
<1>4. QED BY <1>2, <1>3

LEMMA ReverseOfferLostVoice ==
  ASSUME VoiceBase, made \in 0 .. MaxMade, NEW h \in hands, ReverseOfferLost(h)
  PROVE  VoiceBase' /\ (VoiceInv => VoiceInv')
  BY DropsQuietly DEF ReverseOfferLost, HandAt

LEMMA ReverseRegisteredVoice ==
  ASSUME VoiceBase, made \in 0 .. MaxMade, NEW h \in hands, ReverseRegistered(h)
  PROVE  VoiceBase' /\ (VoiceInv => VoiceInv')
<1>1. /\ UNCHANGED <<home, speaking, entry, outbound, open, pipeVars, inbound, produced, ended, mail>>
      /\ h.step = "register"
  BY DEF ReverseRegistered, HandAt
<1>2. /\ h.n \in 1 .. MaxMade /\ entry' \in [Voices -> Entry] /\ outbound' \subseteq Attempt
      /\ hooked \cup told \cup ended \subseteq 1 .. MaxMade
  BY <1>1, Handy, HandFacts DEF VoiceBase, Numbered, HandType
<1>3. hooked' \cup told' \cup ended' \subseteq 1 .. MaxMade
  BY <1>1, <1>2 DEF ReverseRegistered
<1>4. Live(h.of)' = Live(h.of) /\ (VoiceInv => \A t \in Live(h.of) : t.n = h.n /\ Sure(h.of, t.n))
  BY <1>1, HandFacts, LiveSame DEF Handed
<1>5. VoiceInv => \A t \in Live(h.of) : Sure(h.of, t.n)'
  BY <1>1, <1>4 DEF Sure, Told, CloseOf
<1>6. PICK step \in {"reply", "refused"} : Goes(h, step)
  BY DEF ReverseRegistered
<1>7. VoiceInv => \A k \in HandType : k.of = h.of /\ k.n = h.n /\ k.step = step => Handed(k)'
  BY <1>4, <1>6 DEF Handed
<1>8. QED BY <1>1, <1>2, <1>3, <1>5, <1>6, <1>7, GoesQuietly DEF HandSteps

LEMMA FinalizeLostVoice ==
  ASSUME VoiceBase, made \in 0 .. MaxMade, NEW h \in hands, FinalizeLost(h)
  PROVE  VoiceBase' /\ (VoiceInv => VoiceInv')
<1>1. /\ UNCHANGED <<home, speaking, entry, outbound, open, pipeVars, inbound, produced, hooked, told, ended, mail>>
      /\ h.step \in {"finalize", "reply"} /\ Goes(h, "refused")
  BY DEF FinalizeLost, HandAt
<1>2. /\ h.n # 0 /\ entry' \in [Voices -> Entry] /\ outbound' \subseteq Attempt
      /\ hooked' \cup told' \cup ended' \subseteq 1 .. MaxMade
  BY <1>1, Handy, HandFacts DEF VoiceBase, Numbered
<1>3. Live(h.of)' = Live(h.of) /\ (VoiceInv => \A t \in Live(h.of) : t.n = h.n /\ Sure(h.of, t.n))
  BY <1>1, HandFacts, LiveSame DEF Handed
<1>4. VoiceInv => \A t \in Live(h.of) : Sure(h.of, t.n)'
  BY <1>1, <1>3 DEF Sure, Told, CloseOf
<1>5. VoiceInv => \A k \in HandType : k.of = h.of /\ k.n = h.n /\ k.step = "refused" => Handed(k)'
  BY <1>3 DEF Handed
<1>6. QED BY <1>1, <1>2, <1>4, <1>5, GoesQuietly DEF HandSteps

LEMMA RefusedVoice ==
  ASSUME VoiceBase, made \in 0 .. MaxMade, NEW h \in hands, Refused(h)
  PROVE  VoiceBase' /\ (VoiceInv => VoiceInv')
<1>1. /\ UNCHANGED <<home, speaking, open, pipeVars, inbound, produced, hooked, told, ended>>
      /\ h.step = "refused" /\ Goes(h, "closing") /\ closeReversePipe(h.of)
  BY DEF Refused, HandAt
<1>2. /\ h.n # 0 /\ h.of \in Voices /\ VoiceTypes /\ Transports
      /\ hooked' \cup told' \cup ended' \subseteq 1 .. MaxMade
  BY <1>1, Handy, HandFacts DEF VoiceBase, Numbered
<1>3. /\ entry' \in [Voices -> Entry] /\ outbound' \subseteq Attempt /\ mail \subseteq mail'
      /\ \A w \in Voices \ {h.of} : entry'[w] = entry[w]
  BY <1>1, <1>2, CloseTypes
<1>4. Live(h.of)' = Live(h.of) /\ (VoiceInv => \A t \in Live(h.of) : t.n = h.n /\ Sure(h.of, t.n))
  BY <1>1, HandFacts, LiveSame DEF Handed
<1>5. VoiceInv => \A t \in Live(h.of) : Told(h.of, t.n)'
  <2>1. SUFFICES ASSUME VoiceInv, NEW t \in Live(h.of) PROVE Told(h.of, t.n)'
    OBVIOUS
  <2>2. t.n \in 1 .. MaxMade
    BY <1>2, LiveTyped
  <2>3. QED BY <1>1, <1>2, <1>4, <2>1, <2>2, CloseTells
<1>6. VoiceInv => \A k \in HandType : k.of = h.of /\ k.n = h.n /\ k.step = "closing" => Handed(k)'
  BY <1>4, <1>5 DEF Handed
<1>7. VoiceInv => \A t \in Live(h.of) : Sure(h.of, t.n)'
  BY <1>5 DEF Sure
<1>8. QED BY <1>1, <1>2, <1>3, <1>6, <1>7, GoesQuietly DEF HandSteps

LEMMA RepliedVoice ==
  ASSUME VoiceBase, made \in 0 .. MaxMade, NEW h \in hands, Replied(h)
  PROVE  VoiceBase' /\ (VoiceInv => VoiceInv')
<1>1. /\ UNCHANGED <<home, speaking, open, pipeVars, inbound, produced, hooked, told, ended>>
      /\ h.step = "reply"
  BY DEF Replied, HandAt
<1>2. CASE entry[h.of] = NoEntry
  BY <1>1, <1>2, CancelVoice DEF Replied
<1>3. CASE entry[h.of] # NoEntry
  <2>1. /\ hands' = hands \ {h} /\ entry' = [entry EXCEPT ![h.of].done = TRUE]
        /\ UNCHANGED <<outbound, mail>>
    BY <1>3 DEF Replied
  <2>2. h.of \in Voices /\ VoiceTypes /\ entry \in [Voices -> Entry]
    BY Handy, HandFacts DEF VoiceBase
  <2>3. entry' \in [Voices -> Entry] /\ \A w \in Voices : entry'[w].n = entry[w].n
    BY <2>1, <2>2, EntryDone
  <2>4. \A w \in Voices \ {h.of} : entry'[w] = entry[w]
    BY <2>1, <2>2, Handy
  <2>5. outbound' \subseteq Attempt /\ hooked' \cup told' \cup ended' \subseteq 1 .. MaxMade
    BY <1>1, <2>1, <2>2, Handy
  <2>6. VoiceInv => \A t \in Live(h.of) : Sure(h.of, t.n)'
    BY <1>1, <2>1, <2>2, <2>3, HandFacts DEF Sure, Told, CloseOf
  <2>7. QED BY <1>1, <2>1, <2>3, <2>4, <2>5, <2>6, EndsQuietly
<1>4. QED BY <1>2, <1>3

LEMMA RetryVoice ==
  ASSUME VoiceBase, made \in 0 .. MaxMade, NEW h \in hands, Retry(h)
  PROVE  VoiceBase' /\ (VoiceInv => VoiceInv')
<1>1. /\ UNCHANGED <<home, speaking, entry, outbound, open, pipeVars, inbound, produced, hooked, told, ended, mail>>
      /\ h.step = "closing" /\ CloseOf(h.of, h.n) \notin mail /\ Fails(h)
  BY DEF Retry, HandAt
<1>2. entry' \in [Voices -> Entry] /\ outbound' \subseteq Attempt
  BY <1>1, Handy DEF VoiceBase
<1>3. VoiceInv => Live(h.of) = {}
  BY <1>1, HandFacts DEF Handed, Told
<1>4. QED BY <1>1, <1>2, <1>3, FailsQuietly

LEMMA ReverseOfferedVoice ==
  ASSUME VoiceBase, made \in 0 .. MaxMade, NEW h \in hands, ReverseOffered(h)
  PROVE  VoiceBase' /\ (VoiceInv => VoiceInv')
<1>1. /\ UNCHANGED <<home, speaking, open, inbound, produced, hooked, told, ended, mail>>
      /\ h.step = "offer"
  BY DEF ReverseOffered, HandAt
<1>2. CASE open
  <2> DEFINE t == Transport("in", home[h.of], h.of)
             f == [h EXCEPT !.step = "accept"]
             k == [f EXCEPT !.n = made + 1]
             G == {k}
  <2>1. h \in HandType /\ h.of \in Voices /\ home[h.of] \in Edges /\ Transports /\ VoiceTypes
    BY HandFacts, Handy DEF VoiceBase
  <2>2. /\ Opens(t) /\ UNCHANGED <<entry, outbound>>
        /\ hands' = (hands \ {h}) \cup {[h EXCEPT !.step = "accept", !.n = made + 1]}
    BY <1>2 DEF ReverseOffered
  <2>3. made' = made + 1 /\ made + 1 \in 1 .. MaxMade
    BY <2>2, PipeAssumptions DEF Opens
  <2>4. t \in TransportType /\ t.kind = "in" /\ t.of = h.of /\ t.n = made + 1
    BY <2>1, <2>3 DEF Transport, TransportType
  <2>5. k \in HandType /\ k.of = h.of /\ k.n = made + 1 /\ k.step = "accept"
    <3>1. f \in HandType /\ f.of = h.of /\ f.step = "accept"
      BY <2>1 DEF HandType, HandSteps
    <3>2. made + 1 \in 0 .. MaxMade
      BY <2>3
    <3> HIDE DEF f
    <3>3. QED BY <3>1, <3>2 DEF HandType
  <2>6. hands' = (hands \ {h}) \cup G
    BY <2>2
  <2> HIDE DEF t, f, k
  <2>7. Transports' /\ Open' = Open \cup {t}
    BY <2>1, <2>2, <2>4, OpensOne
  <2>8. TransportsHome'
    BY <1>1, <1>2, <2>1, <2>4, <2>7, HandFacts DEF VoiceBase, TransportsHome
  <2>9. \A n \in produced : n \in Int /\ n <= made
    BY <2>1, Handy DEF VoiceTypes
  <2>10. VoiceTypes'
    <3>1. made' \in 0 .. MaxMade /\ made <= made' /\ \A n \in produced' : n <= made'
      BY <1>1, <2>3, <2>9, PipeAssumptions
    <3>2. G \in SUBSET HandType /\ \A l \in G : l.of = h.of /\ Numbered(l)'
      BY <2>3, <2>5, PipeAssumptions DEF Numbered
    <3>3. /\ entry' \in [Voices -> Entry] /\ outbound' \subseteq Attempt
          /\ inbound' \in [Voices -> 0 .. MaxMade]
          /\ hooked' \cup told' \cup ended' \cup produced' \subseteq 1 .. MaxMade
      BY <1>1, <2>1, <2>2, Handy
    <3> HIDE DEF G
    <3>4. QED BY <1>1, <2>1, <2>6, <3>1, <3>2, <3>3, HandTypes
  <2>11. ASSUME VoiceInv PROVE VoiceInv'
    <3>1. Live(h.of) = {}
      BY <1>1, <2>11, HandFacts DEF Handed
    <3>2. t.n \notin produced
      BY <2>3, <2>4, <2>9, PipeAssumptions
    <3>3. Live(h.of)' = {}
      BY <1>1, <2>7, <3>1, <3>2 DEF Live
    <3>4. \A l \in G : l.of = h.of /\ Handed(l)'
      BY <2>5, <3>3, FreshHand
    <3>5. \A l, m \in G : l = m
      OBVIOUS
    <3> HIDE DEF G
    <3>6. QED BY <1>1, <2>1, <2>2, <2>4, <2>6, <2>7, <2>11, <3>3, <3>4, <3>5, HandVoices
  <2>12. QED BY <2>7, <2>8, <2>10, <2>11 DEF VoiceBase
<1>3. CASE ~open
  BY <1>1, <1>3, DropsQuietly DEF ReverseOffered
<1>4. QED BY <1>2, <1>3

LEMMA FinalizedVoice ==
  ASSUME VoiceBase, made \in 0 .. MaxMade, NEW h \in hands, Finalized(h)
  PROVE  VoiceBase' /\ (VoiceInv => VoiceInv')
<1>1. /\ UNCHANGED <<home, speaking, entry, outbound, open, pipeVars, hooked, told, ended, mail>>
      /\ h.step = "finalize" /\ VoiceTypes /\ Transports
  BY DEF Finalized, HandAt, VoiceBase
<1>2. /\ h \in HandType /\ h.of \in Voices /\ h.n \in 1 .. MaxMade /\ h.n <= made
      /\ entry' \in [Voices -> Entry] /\ outbound' \subseteq Attempt
  BY <1>1, HandFacts, Handy DEF Numbered, HandType
<1>3. Open' = Open /\ (VoiceInv => Live(h.of) = {})
  BY <1>1, HandFacts, TransportsSame DEF Handed
<1>4. CASE In(h.of, h.n) \in Open
  <2>1. /\ Goes(h, "register") /\ inbound' = [inbound EXCEPT ![h.of] = h.n]
        /\ produced' = produced \cup {h.n}
    BY <1>4 DEF Finalized
  <2>2. PICK k \in HandType : k.of = h.of /\ k.n = h.n /\ k.step = "register" /\ hands' = (hands \ {h}) \cup {k}
    BY <1>2, <2>1, GoesTo DEF HandSteps
  <2> DEFINE G == {k}
  <2>3. /\ hands' = (hands \ {h}) \cup G /\ G \in SUBSET HandType /\ (\A l, m \in G : l = m)
        /\ \A l \in G : l.of = h.of /\ l.n = h.n /\ l.step = "register"
    BY <2>2
  <2> HIDE DEF G
  <2>4. /\ inbound' \in [Voices -> 0 .. MaxMade] /\ inbound'[h.of] = h.n
        /\ \A w \in Voices \ {h.of} : inbound'[w] = inbound[w]
    <3>1. inbound \in [Voices -> 0 .. MaxMade] /\ h.n \in 0 .. MaxMade
      BY <1>1, <1>2, Handy
    <3>2. QED BY <1>2, <2>1, <3>1
  <2>5. VoiceTypes'
    <3>1. made' = made /\ made <= made'
      BY <1>1, PipeAssumptions DEF pipeVars
    <3>2. \A l \in G : l.of = h.of /\ Numbered(l)'
      BY <1>2, <2>3, <3>1 DEF Numbered
    <3>3. /\ hooked' \cup told' \cup ended' \cup produced' \subseteq 1 .. MaxMade
          /\ \A n \in produced' : n <= made'
      BY <1>1, <1>2, <2>1, <3>1, Handy DEF VoiceTypes
    <3>4. QED BY <1>1, <1>2, <2>3, <2>4, <3>1, <3>2, <3>3, HandTypes
  <2>6. VoiceBase'
    BY <1>1, <2>5, HomeSame DEF VoiceBase
  <2>7. ASSUME VoiceInv PROVE VoiceInv'
    <3>1. \A t \in Open : t.n = h.n => t.of = h.of
      BY <1>1, <1>4, InFields DEF Transports
    <3>2. \A t \in Live(h.of)' : t.n = h.n
      BY <1>3, <2>1, <2>7 DEF Live
    <3>3. Sure(h.of, h.n)'
      <4>1. Sure(h.of, h.n)
        BY <1>1, <1>4, <2>7, HandFacts DEF Handed
      <4>2. QED BY <1>1, <4>1 DEF Sure, Told, CloseOf
    <3>4. \A l \in G : l.of = h.of /\ Handed(l)'
      BY <2>3, <3>2 DEF Handed
    <3>5. \A t \in Live(h.of)' : Sure(h.of, t.n)' /\ inbound'[h.of] = t.n
      BY <2>4, <3>2, <3>3
    <3>6. QED BY <1>1, <1>2, <1>3, <2>1, <2>3, <2>4, <2>7, <3>1, <3>4, <3>5, HandVoices
  <2>8. QED BY <2>6, <2>7
<1>5. CASE In(h.of, h.n) \notin Open
  <2>1. Goes(h, "refused") /\ UNCHANGED <<inbound, produced>>
    BY <1>5 DEF Finalized
  <2>2. VoiceInv => Live(h.of)' = {}
    BY <1>1, <1>3, <2>1, LiveSame
  <2>3. hooked' \cup told' \cup ended' \subseteq 1 .. MaxMade /\ h.n # 0
    BY <1>1, <1>2, Handy
  <2>4. QED BY <1>1, <1>2, <1>3, <2>1, <2>2, <2>3, FreshHand, GoesQuietly DEF HandSteps
<1>6. QED BY <1>4, <1>5

-----------------------------------------------------------------------------
(* What ends at the origin *)

LEMMA TypesFrame ==
  ASSUME VoiceTypes, made \in 0 .. MaxMade, made' \in 0 .. MaxMade, made <= made',
         UNCHANGED <<home, hands, hooked, told, produced>>, speaking' \subseteq speaking,
         entry' \in [Voices -> Entry], outbound' \subseteq Attempt,
         inbound' \in [Voices -> 0 .. MaxMade], ended' \subseteq 1 .. MaxMade
  PROVE  VoiceTypes'
<1>1. ReverseTypeOK'
  BY Handy DEF ReverseTypeOK, VoiceTypes, Attempt
<1>2. \A h \in hands : Numbered(h)'
  <2>1. \A h \in hands : Numbered(h) /\ h.n \in Int
    BY Handy DEF VoiceTypes, HandType
  <2>2. QED BY <2>1, PipeAssumptions DEF Numbered
<1>3. \A n \in produced' : n <= made'
  <2>1. \A n \in produced : n \in Int /\ n <= made
    BY Handy DEF VoiceTypes
  <2>2. QED BY <2>1, PipeAssumptions
<1>4. QED BY <1>1, <1>2, <1>3 DEF VoiceTypes

LEMMA InClosedTypes ==
  ASSUME VoiceTypes, Transports, NEW ts, ts \subseteq Open, InClosed(ts)
  PROVE  inbound' \in [Voices -> 0 .. MaxMade] /\ ended' \subseteq 1 .. MaxMade
<1>1. \A t \in ts : t.n \in 1 .. MaxMade
  BY OpenTyped DEF TransportType
<1>2. inbound \in [Voices -> 0 .. MaxMade] /\ ended \subseteq 1 .. MaxMade /\ 0 \in 0 .. MaxMade
  BY Handy, PipeAssumptions
<1>3. QED BY <1>1, <1>2 DEF InClosed

\* A producer that stays open is still the one that would be closed.
LEMMA InClosedKeeps ==
  ASSUME VoiceTypes, Transports, VoiceInv, NEW ts, ts \subseteq Open, InClosed(ts),
         Open' \subseteq Open \ ts, UNCHANGED produced, NEW v \in Voices, NEW t \in Live(v)'
  PROVE  t \in Live(v) /\ inbound'[v] = inbound[v]
<1>1. t \in Live(v) /\ t \in Open /\ t \notin ts
  BY DEF Live
<1>2. ASSUME NEW s \in ts, s.kind = "in", s.of = v, s.n \in produced PROVE FALSE
  <2>1. s \in Live(v)
    BY <1>2 DEF Live
  <2>2. s.n = t.n
    BY <1>1, <2>1 DEF VoiceInv, VoiceOk
  <2>3. QED BY <1>1, <2>1, <2>2, <1>2 DEF Transports
<1>3. inbound'[v] = inbound[v]
  BY <1>2, Handy DEF InClosed
<1>4. QED BY <1>1, <1>3

LEMMA PipesClosedVoice ==
  ASSUME VoiceBase, made \in 0 .. MaxMade, NEW e \in Edges, PipesClosed(e)
  PROVE  VoiceBase' /\ (VoiceInv => VoiceInv')
<1>1. /\ UNCHANGED <<home, speaking, hands, entry, outbound, produced, hooked, told, open>>
      /\ closePipes /\ InClosed(Shut) /\ made' = made
      /\ mail' = mail \ {Message("origin", "pipe-close", e, 0)}
  BY DEF PipesClosed, closePipes
<1>2. VoiceTypes /\ Transports /\ Shut \subseteq Open
  BY DEF VoiceBase, Shut, Open, Tracked
<1>3. Transports' /\ Open' = Open \ Shut
  BY <1>1, <1>2, ClosesPipes
<1>4. TransportsHome'
  BY <1>1, <1>3 DEF VoiceBase, TransportsHome
<1>5. VoiceTypes'
  BY <1>1, <1>2, InClosedTypes, TypesFrame, Handy, PipeAssumptions
<1>6. ASSUME VoiceInv, NEW v \in Voices PROVE VoiceOk(v)'
  <2>1. \A t \in Live(v)' : t \in Live(v) /\ inbound'[v] = inbound[v]
    BY <1>1, <1>2, <1>3, <1>6, InClosedKeeps
  <2>2. \A n : Told(v, n) => Told(v, n)'
    BY <1>1 DEF Told, CloseOf, Message
  <2>3. VoiceOk(v)
    BY <1>6 DEF VoiceInv
  <2>4. QED BY <1>1, <1>3, <2>1, <2>2, <2>3, VoiceFrame
<1>7. QED BY <1>3, <1>4, <1>5, <1>6 DEF VoiceBase, VoiceInv

LEMMA OriginClosesVoice ==
  ASSUME VoiceBase, made \in 0 .. MaxMade, OriginCloses
  PROVE  VoiceBase' /\ (VoiceInv => VoiceInv')
<1>1. /\ UNCHANGED <<home, speaking, hands, entry, outbound, produced, hooked, told>>
      /\ Destroyed /\ InClosed(Open) /\ made' = made /\ mail \subseteq mail'
  BY DEF OriginCloses, Destroyed
<1>2. VoiceTypes /\ Transports
  BY DEF VoiceBase
<1>3. Transports' /\ Open' = {}
  BY <1>1, <1>2, DestroysAll
<1>4. TransportsHome'
  BY <1>3 DEF TransportsHome
<1>5. VoiceTypes'
  BY <1>1, <1>2, InClosedTypes, TypesFrame, Handy, PipeAssumptions
<1>6. ASSUME VoiceInv, NEW v \in Voices PROVE VoiceOk(v)'
  <2>1. Live(v)' = {}
    BY <1>3 DEF Live
  <2>2. VoiceOk(v)
    BY <1>6 DEF VoiceInv
  <2>3. QED BY <1>1, <1>3, <2>1, <2>2, VoiceFrame
<1>7. QED BY <1>3, <1>4, <1>5, <1>6 DEF VoiceBase, VoiceInv

LEMMA CloseFields ==
  ASSUME NEW v, NEW n
  PROVE  CloseOf(v, n).of = v /\ CloseOf(v, n).n = n /\ CloseOf(v, n).kind = "reverse-close"
  BY DEF CloseOf, Message

LEMMA ReverseClosedVoice ==
  ASSUME VoiceBase, made \in 0 .. MaxMade, NEW m \in mail, ReverseClosed(m)
  PROVE  VoiceBase' /\ (VoiceInv => VoiceInv')
<1> DEFINE pending == {t \in Open : t.kind = "in" /\ t.n = m.n /\ t.n \notin produced}
           named == {t \in Open : t.kind = "in" /\ t.of = m.of /\ t.n = inbound[m.of]}
           found == IF pending # {} THEN pending ELSE named
<1>1. /\ UNCHANGED <<home, speaking, hands, entry, outbound, produced, hooked, told, open>>
      /\ mail' = mail \ {m}
      /\ IF found = {} THEN UNCHANGED <<pipeVars, ended, inbound>>
                       ELSE (\E t \in found : Closes(t)) /\ InClosed(found)
  BY DEF ReverseClosed
<1>2. VoiceTypes /\ Transports
  BY DEF VoiceBase
<1>3. found \subseteq Open /\ \A s, t \in found : s = t
  BY <1>2 DEF Transports
\* Whoever is answered for by this message alone is who it finds.
<1>4. ASSUME VoiceInv, NEW v \in Voices, NEW t \in Open, t.kind = "in", t.of = v, m = CloseOf(v, t.n)
      PROVE  t \in found
  <2>1. m.of = v /\ m.n = t.n
    BY <1>4, CloseFields
  <2>2. CASE t.n \notin produced
    <3>1. t \in pending
      BY <1>4, <2>1, <2>2
    <3>2. QED BY <3>1
  <2>3. CASE t.n \in produced
    <3>1. t \in Live(v)
      BY <1>4, <2>3 DEF Live
    <3>2. inbound[v] = t.n
      BY <1>4, <3>1 DEF VoiceInv, VoiceOk
    <3>3. t \in named /\ pending = {}
      BY <1>4, <2>1, <2>3, <3>2
    <3>4. QED BY <3>3
  <2>4. QED BY <2>2, <2>3
<1> HIDE DEF pending, named, found
<1>5. CASE found = {}
  <2>1. UNCHANGED <<pipeVars, ended, inbound>> /\ made' = made
    BY <1>1, <1>5 DEF pipeVars
  <2>2. VoiceTypes'
    <3>1. made <= made' /\ entry' \in [Voices -> Entry] /\ outbound' \subseteq Attempt
          /\ inbound' \in [Voices -> 0 .. MaxMade] /\ ended' \subseteq 1 .. MaxMade
      BY <1>1, <1>2, <2>1, Handy, PipeAssumptions
    <3>2. QED BY <1>1, <1>2, <2>1, <3>1, TypesFrame
  <2>3. VoiceBase'
    BY <1>1, <2>1, <2>2, HomeSame DEF VoiceBase
  <2>4. ASSUME VoiceInv, NEW v \in Voices PROVE VoiceOk(v)'
    <3>1. Open' = Open /\ Live(v)' = Live(v)
      BY <1>1, <2>1, LiveSame
    <3>2. \A t \in Open : t.kind = "in" /\ t.of = v => (Told(v, t.n) => Told(v, t.n)')
      BY <1>1, <1>4, <1>5, <2>4 DEF Told, CloseOf
    <3>3. VoiceOk(v)
      BY <2>4 DEF VoiceInv
    <3>4. QED BY <1>1, <2>1, <3>1, <3>2, <3>3, VoiceFrame
  <2>5. QED BY <2>3, <2>4 DEF VoiceInv
<1>6. CASE found # {}
  <2>1. PICK s \in found : Closes(s)
    BY <1>1, <1>6
  <2>2. InClosed(found) /\ found = {s} /\ s \in Open /\ made' = made
    BY <1>1, <1>3, <1>6, <2>1 DEF Closes
  <2>3. Transports' /\ Open' = Open \ {s}
    BY <1>2, <2>1, <2>2, ClosesOne
  <2>4. TransportsHome'
    BY <1>1, <2>3 DEF VoiceBase, TransportsHome
  <2>5. VoiceTypes'
    <3>1. made <= made' /\ entry' \in [Voices -> Entry] /\ outbound' \subseteq Attempt
      BY <1>1, <1>2, <2>2, Handy, PipeAssumptions
    <3>2. inbound' \in [Voices -> 0 .. MaxMade] /\ ended' \subseteq 1 .. MaxMade
      BY <1>2, <1>3, <2>2, InClosedTypes
    <3>3. QED BY <1>1, <1>2, <2>2, <3>1, <3>2, TypesFrame
  <2>6. ASSUME VoiceInv, NEW v \in Voices PROVE VoiceOk(v)'
    <3>1. \A t \in Live(v)' : t \in Live(v) /\ inbound'[v] = inbound[v]
      BY <1>1, <1>2, <1>3, <2>2, <2>3, <2>6, InClosedKeeps
    <3>2. \A t \in Open' : t.kind = "in" /\ t.of = v => t \in Open /\ (Told(v, t.n) => Told(v, t.n)')
      BY <1>1, <1>4, <2>2, <2>3, <2>6 DEF Told, CloseOf
    <3>3. VoiceOk(v)
      BY <2>6 DEF VoiceInv
    <3>4. QED BY <1>1, <3>1, <3>2, <3>3, VoiceFrame
  <2>7. QED BY <2>3, <2>4, <2>5, <2>6 DEF VoiceBase, VoiceInv
<1>7. QED BY <1>5, <1>6

-----------------------------------------------------------------------------
(* What the user does *)

LEMMA ProduceVoice ==
  ASSUME VoiceBase, made \in 0 .. MaxMade, NEW v \in Voices, NEW e \in Edges, Produce(v, e)
  PROVE  VoiceBase' /\ (VoiceInv => VoiceInv')
<1> DEFINE k == Hand(v, "produce", ProduceAttempts, "begin", 0)
<1>1. /\ UNCHANGED <<entry, outbound, inbound, produced, hooked, told, ended, mail, pipeVars, open>>
      /\ home[v] = None /\ home' = [home EXCEPT ![v] = e] /\ speaking' = speaking \cup {v}
      /\ hands' = hands \cup {k}
  BY DEF Produce
<1>2. k \in HandType /\ k.of = v /\ k.n = 0 /\ k.step = "begin"
  BY PipeAssumptions DEF Hand, HandType, HandSteps, ProduceAttempts, Callers
<1> HIDE DEF k
<1>3. VoiceTypes /\ Transports /\ home \in [Voices -> Edges \cup {None}] /\ e # None
  BY Handy, PipeAssumptions DEF VoiceBase
<1>4. /\ home' \in [Voices -> Edges \cup {None}] /\ home'[v] = e
      /\ \A w \in Voices \ {v} : home'[w] = home[w]
  BY <1>1, <1>3
<1>5. Transports' /\ Open' = Open /\ made' = made /\ \A w : Live(w)' = Live(w)
  BY <1>1, <1>3, TransportsSame, LiveSame DEF pipeVars
<1>6. TransportsHome'
  BY <1>1, <1>3, <1>4, <1>5 DEF VoiceBase, TransportsHome
<1>7. VoiceTypes'
  <2>1. hands' \subseteq HandType /\ speaking' \subseteq Voices
    BY <1>1, <1>2, <1>3, Handy
  <2>2. ReverseTypeOK'
    BY <1>1, <1>3, <1>4, <2>1 DEF VoiceTypes, ReverseTypeOK, HandType, HandSteps
  <2>3. \A h \in hands' : home'[h.of] # None /\ Numbered(h)'
    <3>1. \A h \in hands : h.of \in Voices /\ home[h.of] # None /\ Numbered(h)
      BY <1>3, Handy DEF VoiceTypes, HandType
    <3>2. \A h \in hands : home'[h.of] # None /\ Numbered(h)'
      BY <1>3, <1>4, <1>5, <3>1 DEF Numbered
    <3>3. home'[k.of] # None /\ Numbered(k)'
      BY <1>2, <1>3, <1>4, <1>5, PipeAssumptions DEF Numbered
    <3>4. QED BY <1>1, <3>2, <3>3
  <2>4. QED BY <1>1, <1>3, <1>4, <1>5, <2>1, <2>2, <2>3 DEF VoiceTypes
<1>8. ASSUME VoiceInv, NEW w \in Voices PROVE VoiceOk(w)'
  <2>1. CASE w = v
    <3>1. \A h \in hands' : h.of = v => h = k
      BY <1>1, <1>3 DEF VoiceTypes
    <3>2. Live(v)' = {}
      BY <1>1, <1>5 DEF VoiceBase, TransportsHome, Live
    <3>3. Handed(k)'
      BY <1>2, <3>2, FreshHand
    <3>4. QED BY <2>1, <3>1, <3>2, <3>3 DEF VoiceOk
  <2>2. CASE w # v
    <3>1. VoiceOk(w)
      BY <1>8 DEF VoiceInv
    <3>2. \A n : Told(w, n)' <=> Told(w, n)
      BY <1>1 DEF Told, CloseOf
    <3>3. QED BY <1>1, <1>2, <1>4, <1>5, <2>2, <3>1, <3>2, VoiceFrame
  <2>3. QED BY <2>1, <2>2
<1>9. QED BY <1>5, <1>6, <1>7, <1>8 DEF VoiceBase, VoiceInv

LEMMA SilenceVoice ==
  ASSUME VoiceBase, made \in 0 .. MaxMade, NEW v \in Voices, Silence(v)
  PROVE  VoiceBase' /\ (VoiceInv => VoiceInv')
<1>1. /\ UNCHANGED <<home, hands, inbound, produced, hooked, told, ended, pipeVars, open>>
      /\ speaking' = speaking \ {v} /\ closeReversePipe(v) /\ VoiceTypes /\ Transports
  BY DEF Silence, VoiceBase
<1>2. /\ entry' \in [Voices -> Entry] /\ outbound' \subseteq Attempt /\ mail \subseteq mail'
      /\ \A w \in Voices \ {v} : entry'[w] = entry[w]
  BY <1>1, CloseTypes
<1>3. VoiceTypes'
  <2>1. made' = made /\ made <= made' /\ ended' \subseteq 1 .. MaxMade /\ speaking' \subseteq speaking
        /\ inbound' \in [Voices -> 0 .. MaxMade]
    BY <1>1, Handy, PipeAssumptions DEF pipeVars
  <2>2. QED BY <1>1, <1>2, <2>1, TypesFrame
<1>4. VoiceBase'
  BY <1>1, <1>3, HomeSame DEF VoiceBase
<1>5. Open' = Open /\ \A w : Live(w)' = Live(w)
  BY <1>1, LiveSame
<1>6. ASSUME VoiceInv, NEW w \in Voices PROVE VoiceOk(w)'
  <2>1. VoiceOk(w) /\ \A n : Told(w, n) => Told(w, n)'
    BY <1>2, <1>6 DEF VoiceInv, Told, CloseOf
  <2>2. CASE w # v
    BY <1>1, <1>2, <1>5, <2>1, <2>2, VoiceFrame
  <2>3. CASE w = v
    <3>1. \A n \in 1 .. MaxMade : Sure(v, n) => Told(v, n)'
      BY <1>1, CloseTells
    <3>2. \A t \in Live(v) : Told(v, t.n)'
      BY <1>1, <2>1, <2>3, <3>1, LiveTyped DEF VoiceOk
    <3>3. ASSUME NEW h \in hands, h.of = v PROVE Handed(h)'
      <4>1. Handed(h) /\ h \in HandType /\ Numbered(h)
        BY <2>1, <2>3, <3>3, HandFacts DEF VoiceOk
      <4>2. h.step = "finalize" /\ In(v, h.n)' \in Open' => Sure(v, h.n)'
        <5>1. SUFFICES ASSUME h.step = "finalize", In(v, h.n)' \in Open' PROVE Told(v, h.n)'
          BY DEF Sure
        <5>2. In(v, h.n) \in Open /\ h.n \in 1 .. MaxMade
          BY <1>1, <1>5, <4>1, <5>1 DEF In, Numbered, HandType
        <5>3. Sure(v, h.n)
          BY <3>3, <4>1, <5>1, <5>2 DEF Handed
        <5>4. QED BY <3>1, <5>2, <5>3
      <4>3. h.step = "closing" => \A t \in Live(v) : Told(v, t.n)'
        BY <3>2
      <4>4. v \notin speaking'
        BY <1>1
      <4>5. QED BY <1>5, <3>3, <4>1, <4>2, <4>3, <4>4 DEF Handed
    <3>4. \A t \in Live(v)' : Sure(v, t.n)' /\ inbound'[v] = t.n
      BY <1>1, <1>5, <2>1, <2>3, <3>2 DEF VoiceOk, Sure
    <3>5. QED BY <1>1, <2>1, <2>3, <3>3, <3>4 DEF VoiceOk
  <2>4. QED BY <2>2, <2>3
<1>7. QED BY <1>4, <1>6 DEF VoiceInv

LEMMA UnmuteVoice ==
  ASSUME VoiceBase, made \in 0 .. MaxMade, NEW v \in Voices, Unmute(v) PROVE VoiceBase'
<1> DEFINE k == Hand(v, "unmute", ProduceAttempts, "begin", 0)
<1>1. /\ UNCHANGED <<home, speaking, entry, outbound, inbound, produced, hooked, told, ended, pipeVars, open>>
      /\ v \in speaking /\ hands' = hands \cup {k} /\ made' = made /\ VoiceTypes
  BY DEF Unmute, pipeVars, VoiceBase
<1>2. k \in HandType /\ k.of = v /\ k.n = 0 /\ k.step = "begin"
  BY PipeAssumptions DEF Hand, HandType, HandSteps, ProduceAttempts, Callers
<1> HIDE DEF k
<1>3. hands' \subseteq HandType
  BY <1>1, <1>2, Handy
<1>4. ReverseTypeOK'
  BY <1>1, <1>3 DEF VoiceTypes, ReverseTypeOK, HandType, HandSteps
<1>5. \A h \in hands' : home[h.of] # None /\ Numbered(h)'
  BY <1>1, <1>2, PipeAssumptions DEF VoiceTypes, Numbered
<1>6. VoiceTypes'
  BY <1>1, <1>4, <1>5 DEF VoiceTypes
<1>7. QED BY <1>1, <1>6, HomeSame DEF VoiceBase

\* The steps of the edges' own pipes: at most they open an outbound one here.
LEMMA EdgeQuiet ==
  ASSUME VoiceBase, made \in 0 .. MaxMade, UNCHANGED <<reverseVars, open>>,
         \/ UNCHANGED pipeVars
         \/ open /\ \E t \in TransportType : t.kind = "out" /\ t.n = made + 1 /\ Opens(t),
         \A m \in mail : m.kind = "reverse-close" => m \in mail'
  PROVE  VoiceBase' /\ (VoiceInv => VoiceInv')
<1>1. /\ UNCHANGED <<home, speaking, hands, entry, outbound, inbound, produced, hooked, told, ended>>
      /\ VoiceTypes /\ Transports
  BY DEF reverseVars, VoiceBase
<1>2. /\ Transports' /\ made' \in 0 .. MaxMade /\ made <= made' /\ Open \subseteq Open'
      /\ (\A t \in Open' : t \in Open \/ t.kind = "out") /\ (~open => Open' = Open)
  <2>1. CASE UNCHANGED pipeVars
    BY <1>1, <2>1, TransportsSame, PipeAssumptions DEF pipeVars
  <2>2. ASSUME open, NEW t \in TransportType, t.kind = "out", t.n = made + 1, Opens(t)
        PROVE  /\ Transports' /\ made' \in 0 .. MaxMade /\ made <= made' /\ Open \subseteq Open'
               /\ (\A s \in Open' : s \in Open \/ s.kind = "out") /\ (~open => Open' = Open)
    <3>1. Transports' /\ Open' = Open \cup {t}
      BY <1>1, <2>2, OpensOne
    <3>2. made' = made + 1 /\ made < MaxMade
      BY <2>2 DEF Opens
    <3>3. made' \in 0 .. MaxMade /\ made <= made'
      BY <3>2, PipeAssumptions
    <3>4. QED BY <2>2, <3>1, <3>3
  <2>3. QED BY <2>1, <2>2
<1>3. TransportsHome'
  BY <1>1, <1>2 DEF VoiceBase, TransportsHome
<1>4. VoiceTypes'
  BY <1>1, <1>2, TypesFrame, Handy
<1>5. ASSUME VoiceInv, NEW v \in Voices PROVE VoiceOk(v)'
  <2>1. Live(v)' = Live(v)
    BY <1>1, <1>2 DEF Live
  <2>2. \A n : Told(v, n) => Told(v, n)'
    BY CloseFields DEF Told, CloseOf, Message
  <2>3. VoiceOk(v)
    BY <1>5 DEF VoiceInv
  <2>4. QED BY <1>1, <1>2, <2>1, <2>2, <2>3, VoiceFrame
<1>6. QED BY <1>2, <1>3, <1>4, <1>5 DEF VoiceBase, VoiceInv

-----------------------------------------------------------------------------
(* Who leaves while people speak *)

\* The handshake is run once at a time, the call that closes its pipe arrives, and no
\* other edge ends the room.
Calm == scenario \cap {"unmute", "deaf"} = {} /\ ~({"leave", "pair"} \subseteq scenario)

First == CHOOSE f \in Edges : TRUE
Parting(e) == Message("origin", "room-closed", e, 0) \in mail

\* An edge is told that the room is over when it is.
Partings ==
    /\ "pair" \notin scenario => \A e \in Edges \ {First} :
          edge[e] = "out" /\ e \notin remotes /\ ~Registering(e)
    /\ \A e \in Edges : Parting(e) => "leave" \in scenario /\ ("pair" \notin scenario => e = First)
    /\ \A e \in Edges : Ending(e) => ~open

SpeakersHome == \A v \in speaking :
    edge[home[v]] = "in" \/ (edge[home[v]] = "leaving" /\ ~open)

CascadeInv == EdgeInv /\ VoiceBase /\ (Calm => Partings /\ SpeakersHome /\ VoiceInv)

LEMMA PartingsFrame ==
  ASSUME Partings, scenario' = scenario, open' => open,
         \A e \in Edges : edge'[e] = edge[e] \/ edge[e] # "out" \/ "pair" \in scenario \/ e = First,
         \A e \in Edges : e \in remotes' => e \in remotes \/ Registering(e),
         \A e \in Edges : Registering(e)' => Registering(e) \/ "pair" \in scenario \/ e = First,
         \A e \in Edges : Parting(e)' => Parting(e) \/ ("leave" \in scenario /\ edge[e] # "out"),
         \A e \in Edges : Ending(e)' => Ending(e) \/ ~open'
  PROVE  Partings'
  BY DEF Partings

\* What an edge does about its forward pipes leaves those alone who are in the room.
LEMMA EdgeSteps ==
  ASSUME EdgeInv, EdgeUser \/ EdgeSystem \/ EdgeTrouble
  PROVE  /\ UNCHANGED <<open, scenario>>
         /\ \/ UNCHANGED pipeVars
            \/ open /\ \E t \in TransportType : t.kind = "out" /\ t.n = made + 1 /\ Opens(t)
         /\ \A m \in mail : m.kind = "reverse-close" => m \in mail'
         /\ \A e \in Edges : edge'[e] = edge[e] \/ (edge[e] \notin {"in", "leaving"}
                                /\ (edge[e] # "out" \/ "pair" \in scenario \/ e = First))
         /\ \A e \in Edges : e \in remotes' => e \in remotes \/ Registering(e)
         /\ \A e \in Edges : Registering(e)' => Registering(e) \/ "pair" \in scenario \/ e = First
         /\ \A e \in Edges : (Parting(e)' => Parting(e)) /\ (Ending(e)' => Ending(e))
<1> DEFINE Kept ==
         /\ UNCHANGED <<open, scenario>>
         /\ \/ UNCHANGED pipeVars
            \/ open /\ \E t \in TransportType : t.kind = "out" /\ t.n = made + 1 /\ Opens(t)
         /\ \A m \in mail : m.kind = "reverse-close" => m \in mail'
         /\ \A e \in Edges : edge'[e] = edge[e] \/ (edge[e] \notin {"in", "leaving"}
                                /\ (edge[e] # "out" \/ "pair" \in scenario \/ e = First))
         /\ \A e \in Edges : e \in remotes' => e \in remotes \/ Registering(e)
         /\ \A e \in Edges : Registering(e)' => Registering(e) \/ "pair" \in scenario \/ e = First
         /\ \A e \in Edges : (Parting(e)' => Parting(e)) /\ (Ending(e)' => Ending(e))
<1>1. ASSUME NEW p \in Producers, Speak(p) \/ Announce(p) \/ Stop(p) PROVE Kept
  <2>1. UNCHANGED <<open, scenario, pipeVars, edge, remotes>>
        /\ (mail' = mail \/ \E kind \in {"new", "closed"} : mail' = mail \cup ToRemotes(kind, p))
    BY <1>1 DEF Speak, Announce, Stop
  <2>2. QED BY <2>1, MessageFields DEF ToRemotes, Registering, Parting, Ending
<1>2. ASSUME NEW e \in Edges, Join(e) PROVE Kept
  <2>1. /\ UNCHANGED <<open, scenario, pipeVars, remotes>> /\ edge[e] = "out" /\ To(e, "attach")
        /\ mail' = mail \cup {Message("origin", "register", e, 0)}
        /\ "pair" \in scenario \/ e = First
    BY <1>2 DEF Join, edgeVars, First
  <2>2. \A f \in Edges \ {e} : edge'[f] = edge[f]
    BY <2>1, ToStep DEF EdgeInv, PipeInv
  <2>3. QED BY <2>1, <2>2, MessageFields DEF Registering, Parting, Ending
<1>3. ASSUME NEW e \in Edges, Registered(e) PROVE Kept
  <2>1. /\ UNCHANGED <<open, scenario, pipeVars>> /\ Registering(e) /\ To(e, "create")
        /\ mail' = mail \ {Message("origin", "register", e, 0)} /\ remotes' = remotes \cup {e}
    BY <1>3 DEF Registered, Registering
  <2>2. edge[e] = "attach" /\ \A f \in Edges \ {e} : edge'[f] = edge[f]
    BY <2>1, ToStep DEF EdgeInv, PipeInv, EdgesKnown
  <2>3. \A m \in mail : m.kind = "reverse-close" => m \in mail'
    BY <2>1 DEF Message
  <2>4. QED BY <2>1, <2>2, <2>3 DEF Registering, Parting, Ending
<1>4. ASSUME NEW e \in Edges, ClusterCreated(e) \/ Bootstrap(e) PROVE Kept
  <2>1. /\ UNCHANGED <<open, scenario, pipeVars, remotes>> /\ edge[e] \in {"create", "boot"}
        /\ mail' = mail \/ mail' = mail \cup {Message("origin", "pipe-close", e, 0)}
        /\ \E step : To(e, step)
    BY <1>4 DEF ClusterCreated, Bootstrap, edgeVars
  <2>2. \A f \in Edges \ {e} : edge'[f] = edge[f]
    BY <2>1, ToStep DEF EdgeInv, PipeInv
  <2>3. QED BY <2>1, <2>2, MessageFields DEF Registering, Parting, Ending
<1>5. ASSUME NEW e \in Edges, NEW p \in Producers, RemoteNew(e, p) \/ RemoteClosed(e, p) PROVE Kept
  <2>1. /\ UNCHANGED <<open, scenario, pipeVars, remotes, edge>>
        /\ \E kind \in {"new", "closed"} : mail' = mail \ {Message(e, kind, p, 0)}
    BY <1>5 DEF RemoteNew, RemoteClosed
  <2>2. \A m \in mail : m.kind = "reverse-close" => m \in mail'
    BY <2>1 DEF Message
  <2>3. QED BY <2>1, <2>2 DEF Registering, Parting, Ending
<1>6. ASSUME NEW c \in calls, Ask(c) PROVE Kept
  BY <1>6 DEF Ask, Registering, Parting, Ending
<1>7. ASSUME NEW s \in setups, ListenerCreated(s) \/ EdgeProduced(s) \/ EdgeRegistered(s) \/ OfferLost(s)
      PROVE  Kept
  BY <1>7 DEF ListenerCreated, EdgeProduced, EdgeRegistered, OfferLost, Registering, Parting, Ending
<1>8. ASSUME NEW s \in setups, Offered(s) PROVE Kept
  <2>1. UNCHANGED <<open, scenario, remotes, edge, mail>>
    BY <1>8 DEF Offered
  <2>2. CASE open /\ s.of \in live
    <3> DEFINE t == Transport("out", s.edge, s.of)
    <3>1. Opens(t)
      BY <1>8, <2>2 DEF Offered
    <3>2. made + 1 \in 1 .. MaxMade
      BY <3>1, PipeAssumptions DEF Opens, EdgeInv, PipeInv, EdgeTypes
    <3>3. s.edge \in Edges /\ s.of \in Producers
      BY Typed DEF EdgeInv, PipeInv, Setup
    <3>4. t \in TransportType /\ t.kind = "out" /\ t.n = made + 1
      BY <3>2, <3>3 DEF Transport, TransportType
    <3> HIDE DEF t
    <3>5. QED BY <2>1, <2>2, <3>1, <3>4 DEF Registering, Parting, Ending
  <2>3. CASE ~ (open /\ s.of \in live)
    <3>1. UNCHANGED pipeVars
      BY <1>8, <2>3 DEF Offered
    <3>2. QED BY <2>1, <3>1 DEF Registering, Parting, Ending
  <2>4. QED BY <2>2, <2>3
<1> HIDE DEF Kept
<1>9. Kept
  BY <1>1, <1>2, <1>3, <1>4, <1>5, <1>6, <1>7, <1>8 DEF EdgeUser, EdgeSystem, EdgeTrouble
<1>10. QED BY <1>9 DEF Kept

LEMMA EdgeStepsCalm ==
  ASSUME CascadeInv, EdgeInv', EdgeUser \/ EdgeSystem \/ EdgeTrouble, UNCHANGED reverseVars
  PROVE  CascadeInv'
<1>1. made \in 0 .. MaxMade
  BY DEF CascadeInv, EdgeInv, PipeInv, EdgeTypes
<1>2. VoiceBase' /\ (VoiceInv => VoiceInv') /\ (Calm' <=> Calm)
  BY <1>1, EdgeSteps, EdgeQuiet DEF CascadeInv, Calm
<1>3. ASSUME Calm PROVE Partings' /\ SpeakersHome'
  <2>1. Partings'
    BY <1>3, EdgeSteps, PartingsFrame DEF CascadeInv
  <2>2. \A v \in speaking : home[v] \in Edges
    BY Handy DEF CascadeInv, VoiceBase, VoiceTypes
  <2>3. SpeakersHome'
    BY <1>3, <2>2, EdgeSteps DEF CascadeInv, SpeakersHome, reverseVars
  <2>4. QED BY <2>1, <2>3
<1>4. QED BY <1>2, <1>3 DEF CascadeInv

LEMMA ReverseStepsVoice ==
  ASSUME VoiceBase, made \in 0 .. MaxMade, ReverseUser \/ ReverseSystem \/ ReverseTrouble
  PROVE  VoiceBase' /\ (Calm /\ VoiceInv => VoiceInv')
<1>1. ASSUME NEW m \in mail, CloseLost(m) PROVE VoiceBase' /\ ~Calm
  <2>1. UNCHANGED <<reverseVars, pipeVars, open>> /\ ~Calm
    BY <1>1 DEF CloseLost, Calm
  <2>2. VoiceTypes'
    BY <2>1 DEF VoiceBase, VoiceTypes, ReverseTypeOK, Numbered, reverseVars, pipeVars
  <2>3. QED BY <2>1, <2>2, HomeSame DEF VoiceBase, reverseVars
<1>2. ASSUME NEW v \in Voices, Unmute(v) PROVE VoiceBase' /\ ~Calm
  BY <1>2, UnmuteVoice DEF Unmute, Calm
<1>3. QED
  BY <1>1, <1>2, ProduceVoice, SilenceVoice, BeginVoice, OutboundCreatedVoice, ReverseOfferedVoice,
     AcceptedVoice, ConsumedVoice, FinalizedVoice, ReverseRegisteredVoice, RefusedVoice, RepliedVoice,
     RetryVoice, ReverseClosedVoice, ReverseOfferLostVoice, FinalizeLostVoice
  DEF ReverseUser, ReverseSystem, ReverseTrouble

LEMMA SpeakersReverse ==
  ASSUME VoiceTypes, SpeakersHome, ReverseUser \/ ReverseSystem \/ ReverseTrouble,
         UNCHANGED <<edge, open>>
  PROVE  SpeakersHome'
<1>1. ASSUME NEW v \in Voices, NEW e \in Edges, Produce(v, e) PROVE SpeakersHome'
  <2>1. /\ home[v] = None /\ home' = [home EXCEPT ![v] = e] /\ speaking' = speaking \cup {v}
        /\ edge[e] = "in" /\ home \in [Voices -> Edges \cup {None}] /\ speaking \subseteq Voices
    BY <1>1, Handy DEF Produce
  <2>2. home'[v] = e /\ \A w \in speaking : home'[w] = home[w]
    BY <2>1 DEF VoiceTypes
  <2>3. QED BY <2>1, <2>2 DEF SpeakersHome
<1>2. ASSUME NEW v \in Voices, Silence(v) \/ Unmute(v) PROVE SpeakersHome'
  BY <1>2 DEF Silence, Unmute, SpeakersHome
<1>3. ASSUME NEW h \in hands,
             \/ Begin(h) \/ OutboundCreated(h) \/ ReverseOffered(h) \/ Accepted(h) \/ Consumed(h)
             \/ Finalized(h) \/ ReverseRegistered(h) \/ Refused(h) \/ Replied(h) \/ Retry(h)
             \/ ReverseOfferLost(h) \/ FinalizeLost(h)
      PROVE  SpeakersHome'
  <2>1. UNCHANGED <<home, speaking>>
    BY <1>3 DEF Begin, OutboundCreated, ReverseOffered, Accepted, Consumed, Finalized,
                ReverseRegistered, Refused, Replied, Retry, ReverseOfferLost, FinalizeLost
  <2>2. QED BY <2>1 DEF SpeakersHome
<1>4. ASSUME NEW m \in mail, ReverseClosed(m) \/ CloseLost(m) PROVE SpeakersHome'
  BY <1>4 DEF ReverseClosed, CloseLost, reverseVars, SpeakersHome
<1>5. QED BY <1>1, <1>2, <1>3, <1>4 DEF ReverseUser, ReverseSystem, ReverseTrouble

LEMMA ReverseStepsCalm ==
  ASSUME CascadeInv, EdgeInv', ReverseUser \/ ReverseSystem \/ ReverseTrouble, UNCHANGED edgeVars
  PROVE  CascadeInv'
<1>1. made \in 0 .. MaxMade
  BY DEF CascadeInv, EdgeInv, PipeInv, EdgeTypes
<1>2. /\ UNCHANGED <<edge, open, scenario, remotes>>
      /\ \A m : m.kind # "reverse-close" => (m \in mail' <=> m \in mail)
  BY <1>1, ReverseSame DEF edgeVars
<1>3. VoiceBase' /\ (Calm /\ VoiceInv => VoiceInv') /\ (Calm' <=> Calm)
  BY <1>1, <1>2, ReverseStepsVoice DEF CascadeInv, Calm
<1>4. \A e : (Registering(e)' <=> Registering(e)) /\ (Parting(e)' <=> Parting(e)) /\ (Ending(e)' <=> Ending(e))
  BY <1>2 DEF Registering, Parting, Ending, Message
<1>5. ASSUME Calm PROVE Partings' /\ SpeakersHome'
  BY <1>2, <1>4, <1>5, PartingsFrame, SpeakersReverse DEF CascadeInv, VoiceBase
<1>6. QED BY <1>3, <1>5 DEF CascadeInv

\* An edge that nobody speaks on leaves.
LEMMA LeaveCalm == ASSUME CascadeInv, EdgeInv', NEW e \in Edges, Leave(e) PROVE CascadeInv'
<1>1. /\ UNCHANGED <<edgeVars, reverseVars, pipeVars, open, scenario, remotes, home, speaking>>
      /\ "leave" \in scenario /\ edge[e] = "in" /\ (\A v \in speaking : home[v] # e) /\ To(e, "leaving")
      /\ mail' = mail \cup {Message("origin", "pipe-close", e, 0), Message("origin", "room-closed", e, 0)}
  BY DEF Leave, edgeVars, reverseVars
<1>2. \A f \in Edges \ {e} : edge'[f] = edge[f]
  BY <1>1, ToStep DEF CascadeInv, EdgeInv, PipeInv
<1>3. VoiceBase' /\ (VoiceInv => VoiceInv') /\ (Calm' <=> Calm)
  BY <1>1, EdgeQuiet DEF CascadeInv, EdgeInv, PipeInv, EdgeTypes, Calm
<1>4. \A f \in Edges : /\ Registering(f)' => Registering(f)
                       /\ Ending(f)' => Ending(f)
                       /\ Parting(f)' => Parting(f) \/ f = e
  BY <1>1, MessageFields, PipeAssumptions DEF Registering, Ending, Parting
<1>5. ASSUME Calm PROVE Partings' /\ SpeakersHome'
  <2>1. Partings'
    BY <1>1, <1>2, <1>4, <1>5, PartingsFrame DEF CascadeInv
  <2>2. \A v \in speaking : home[v] \in Edges \ {e}
    BY <1>1, Handy DEF CascadeInv, VoiceBase, VoiceTypes
  <2>3. QED BY <1>1, <1>2, <1>5, <2>1, <2>2 DEF SpeakersHome, CascadeInv
<1>6. QED BY <1>3, <1>5 DEF CascadeInv

\* What is left to relay: in a calm room, the parting of its only edge, to nobody.
LEMMA RelaysClosedCalm == ASSUME CascadeInv, EdgeInv', NEW e \in Edges, RelaysClosed(e) PROVE CascadeInv'
<1>1. /\ UNCHANGED <<edgeVars, reverseVars, pipeVars, edge, open, scenario, remotes, home, speaking>>
      /\ Parting(e)
      /\ mail' = (mail \ {Message("origin", "room-closed", e, 0)})
                    \cup {Message(f, "room-closed", None, 0) : f \in remotes \ {e}}
  BY DEF RelaysClosed, edgeVars, reverseVars, Parting
<1>2. \A m \in mail : m.kind = "reverse-close" => m \in mail'
  BY <1>1 DEF Message
<1>3. VoiceBase' /\ (VoiceInv => VoiceInv') /\ (Calm' <=> Calm)
  BY <1>1, <1>2, EdgeQuiet DEF CascadeInv, EdgeInv, PipeInv, EdgeTypes, Calm
<1>4. ASSUME Calm PROVE Partings' /\ SpeakersHome'
  <2>1. remotes \ {e} = {}
    <3>1. Partings /\ remotes \subseteq Edges
      BY <1>4 DEF CascadeInv, EdgeInv, PipeInv, EdgeTypes, EdgeTypeOK
    <3>2. "leave" \in scenario /\ "pair" \notin scenario /\ e = First
      BY <1>1, <1>4, <3>1 DEF Partings, Calm
    <3>3. QED BY <3>1, <3>2 DEF Partings
  <2>2. mail' \subseteq mail
    BY <1>1, <2>1
  <2>3. \A f : (Registering(f)' => Registering(f)) /\ (Ending(f)' => Ending(f)) /\ (Parting(f)' => Parting(f))
    BY <2>2 DEF Registering, Ending, Parting
  <2>4. Partings'
    BY <1>1, <1>4, <2>3, PartingsFrame DEF CascadeInv
  <2>5. QED BY <1>1, <1>4, <2>4 DEF SpeakersHome, CascadeInv
<1>5. QED BY <1>3, <1>4 DEF CascadeInv

LEMMA OriginClosedCalm == ASSUME CascadeInv, EdgeInv', NEW e \in Edges, OriginClosed(e) PROVE CascadeInv'
<1>1. /\ UNCHANGED <<edgeVars, reverseVars, pipeVars, open, scenario, remotes, home, speaking>>
      /\ Ending(e) /\ edge[e] \in {"out", "in", "leaving"}
      /\ \/ edge[e] = "in" /\ To(e, "leaving")
         \/ edge' = edge
      /\ \/ mail' = mail \ {Message(e, "room-closed", None, 0)}
         \/ mail' = (mail \ {Message(e, "room-closed", None, 0)}) \cup {Message("origin", "pipe-close", e, 0)}
  BY DEF OriginClosed, edgeVars, reverseVars, Ending
<1>2. \A f \in Edges : edge'[f] = edge[f] \/ (f = e /\ edge[e] = "in" /\ edge'[e] = "leaving")
  BY <1>1, ToStep DEF CascadeInv, EdgeInv, PipeInv
<1>3. \A m \in mail : m.kind = "reverse-close" => m \in mail'
  BY <1>1 DEF Message
<1>4. VoiceBase' /\ (VoiceInv => VoiceInv') /\ (Calm' <=> Calm)
  BY <1>1, <1>3, EdgeQuiet DEF CascadeInv, EdgeInv, PipeInv, EdgeTypes, Calm
<1>5. \A f : (Registering(f)' => Registering(f)) /\ (Ending(f)' => Ending(f)) /\ (Parting(f)' => Parting(f))
  BY <1>1, MessageFields DEF Registering, Ending, Parting
<1>6. ASSUME Calm PROVE Partings' /\ SpeakersHome'
  <2>1. Partings' /\ ~open
    <3>1. Partings' 
      BY <1>1, <1>2, <1>5, <1>6, PartingsFrame DEF CascadeInv
    <3>2. QED BY <1>1, <1>6, <3>1 DEF CascadeInv, Partings
  <2>2. \A v \in speaking : home[v] \in Edges
    BY Handy DEF CascadeInv, VoiceBase, VoiceTypes
  <2>3. QED BY <1>1, <1>2, <1>6, <2>1, <2>2 DEF SpeakersHome, CascadeInv
<1>7. QED BY <1>4, <1>6 DEF CascadeInv

\* An edge that goes while somebody speaks on it goes after its origin.
LEMMA DetachedCalm == ASSUME CascadeInv, EdgeInv', NEW e \in Edges, Detached(e) PROVE CascadeInv'
<1> DEFINE mine == {v \in Voices : home[v] = e}
<1>1. /\ UNCHANGED <<remotes, home, hands, inbound, produced, hooked, told, ended, mail, pipeVars, open, scenario>>
      /\ edge[e] = "leaving" /\ To(e, "out") /\ speaking' = speaking \ mine /\ outbound' \subseteq outbound
      /\ entry' = [v \in Voices |-> IF v \in mine THEN NoEntry ELSE entry[v]]
  BY DEF Detached
<1>2. edge'[e] = "out" /\ \A f \in Edges \ {e} : edge'[f] = edge[f]
  BY <1>1, ToStep DEF CascadeInv, EdgeInv, PipeInv
<1>3. /\ VoiceTypes /\ Transports /\ TransportsHome /\ made \in 0 .. MaxMade /\ made' = made
      /\ (Calm' <=> Calm)
  BY <1>1 DEF CascadeInv, VoiceBase, EdgeInv, PipeInv, EdgeTypes, pipeVars, Calm
<1>4. VoiceTypes'
  <2>1. NoEntry \in Entry
    BY PipeAssumptions DEF NoEntry, Entry
  <2>2. entry' \in [Voices -> Entry] /\ outbound' \subseteq Attempt /\ made <= made'
        /\ inbound' \in [Voices -> 0 .. MaxMade] /\ ended' \subseteq 1 .. MaxMade
    BY <1>1, <1>3, <2>1, Handy, PipeAssumptions
  <2>3. QED BY <1>1, <1>3, <2>2, TypesFrame
<1>5. VoiceBase'
  BY <1>1, <1>4, HomeSame DEF CascadeInv, VoiceBase
<1>6. ASSUME Calm PROVE Partings' /\ SpeakersHome' /\ VoiceInv'
  <2>1. \A f : (Registering(f)' <=> Registering(f)) /\ (Ending(f)' <=> Ending(f)) /\ (Parting(f)' <=> Parting(f))
    BY <1>1 DEF Registering, Ending, Parting
  <2>2. Partings'
    BY <1>1, <1>2, <1>6, <2>1, PartingsFrame DEF CascadeInv
  <2>3. \A v \in speaking : home[v] \in Edges
    BY <1>3, Handy DEF VoiceTypes
  <2>4. SpeakersHome'
    <3>1. \A v \in speaking' : v \in speaking /\ home[v] # e
      BY <1>1, <1>3, Handy
    <3>2. QED BY <1>1, <1>2, <1>6, <2>3, <3>1 DEF SpeakersHome, CascadeInv
  <2>5. \A v \in speaking : v \in mine => Open = {}
    BY <1>1, <1>3, <1>6 DEF SpeakersHome, CascadeInv, TransportsHome
  <2>6. ASSUME NEW v \in Voices PROVE VoiceOk(v)'
    <3>1. v \in speaking' => v \in speaking /\ entry'[v] = entry[v]
      BY <1>1
    <3>2. v \in speaking => v \in speaking' \/ Open = {}
      BY <1>1, <2>5
    <3>3. Open' = Open /\ Live(v)' = Live(v) /\ \A n : Told(v, n)' <=> Told(v, n)
      BY <1>1, LiveSame DEF Told, CloseOf
    <3>4. VoiceOk(v)
      BY <1>6 DEF CascadeInv, VoiceInv
    <3>5. QED BY <1>1, <3>1, <3>2, <3>3, <3>4, VoiceFrame
  <2>7. QED BY <2>2, <2>4, <2>6 DEF VoiceInv
<1>7. QED BY <1>3, <1>5, <1>6 DEF CascadeInv

LEMMA PipesClosedCalm == ASSUME CascadeInv, EdgeInv', NEW e \in Edges, PipesClosed(e) PROVE CascadeInv'
<1>1. /\ UNCHANGED <<remotes, home, speaking, edge, open, scenario>>
      /\ mail' = mail \ {Message("origin", "pipe-close", e, 0)}
  BY DEF PipesClosed, edgeVars
<1>2. VoiceBase' /\ (VoiceInv => VoiceInv') /\ (Calm' <=> Calm)
  BY <1>1, PipesClosedVoice DEF CascadeInv, EdgeInv, PipeInv, EdgeTypes, Calm
<1>3. \A f : (Registering(f)' => Registering(f)) /\ (Ending(f)' => Ending(f)) /\ (Parting(f)' => Parting(f))
  BY <1>1 DEF Registering, Ending, Parting
<1>4. Calm => Partings' /\ SpeakersHome'
  BY <1>1, <1>3, PartingsFrame DEF CascadeInv, SpeakersHome
<1>5. QED BY <1>2, <1>4 DEF CascadeInv

LEMMA OriginClosesCalm == ASSUME CascadeInv, EdgeInv', OriginCloses PROVE CascadeInv'
<1>1. /\ UNCHANGED <<home, speaking, edge, scenario>> /\ open' = FALSE /\ remotes' = {}
      /\ mail' = mail \cup {Message(e, "room-closed", None, 0) : e \in remotes}
  BY DEF OriginCloses
<1>2. VoiceBase' /\ (VoiceInv => VoiceInv') /\ (Calm' <=> Calm)
  BY <1>1, OriginClosesVoice DEF CascadeInv, EdgeInv, PipeInv, EdgeTypes, Calm
<1>3. \A f \in Edges : (Registering(f)' => Registering(f)) /\ (Parting(f)' => Parting(f))
  BY <1>1, MessageFields, PipeAssumptions DEF Registering, Parting
<1>4. Calm => Partings' /\ SpeakersHome'
  BY <1>1, <1>3, PartingsFrame DEF CascadeInv, SpeakersHome
<1>5. QED BY <1>2, <1>4 DEF CascadeInv

LEMMA InitCascade == Init => CascadeInv
<1> SUFFICES ASSUME Init PROVE CascadeInv
  OBVIOUS
<1>1. EdgeInv
  BY InitEdge
<1>2. pipes = <<>> /\ loose = {} /\ made = 0 /\ Open = {} /\ Tracked = {}
  BY DEF Init, PipeInit, Open, Tracked
<1>3. Transports /\ TransportsHome
  BY <1>2 DEF Transports, TransportsHome
<1>4. VoiceTypes
  BY PipeAssumptions DEF Init, ReverseInit, VoiceTypes, ReverseTypeOK, NoEntry, Entry
<1>5. Partings /\ SpeakersHome
  BY DEF Init, PipeInit, EdgeInit, ReverseInit, Partings, SpeakersHome, Registering, Parting, Ending
<1>6. VoiceInv
  BY <1>2 DEF Init, ReverseInit, VoiceInv, VoiceOk, Live
<1>7. QED BY <1>1, <1>3, <1>4, <1>5, <1>6 DEF CascadeInv, VoiceBase

LEMMA NextCascade == CascadeInv /\ [Next]_vars => CascadeInv'
<1> SUFFICES ASSUME CascadeInv, [Next]_vars PROVE CascadeInv'
  OBVIOUS
<1>1. EdgeInv'
  BY NextEdge DEF CascadeInv
<1>2. CASE (EdgeUser \/ EdgeSystem \/ EdgeTrouble) /\ UNCHANGED reverseVars
  BY <1>1, <1>2, EdgeStepsCalm
<1>3. CASE (ReverseUser \/ ReverseSystem \/ ReverseTrouble) /\ UNCHANGED edgeVars
  BY <1>1, <1>3, ReverseStepsCalm
<1>4. ASSUME NEW e \in Edges,
             Leave(e) \/ RelaysClosed(e) \/ OriginClosed(e) \/ PipesClosed(e) \/ Detached(e)
      PROVE  CascadeInv'
  BY <1>1, <1>4, LeaveCalm, RelaysClosedCalm, OriginClosedCalm, PipesClosedCalm, DetachedCalm
<1>5. CASE OriginCloses
  BY <1>1, <1>5, OriginClosesCalm
<1>6. CASE UNCHANGED vars
  <2>1. UNCHANGED <<reverseVars, pipeVars, open, mail, edge, remotes, scenario, home, speaking>>
    BY <1>6 DEF vars, reverseVars, edgeVars
  <2>2. VoiceBase' /\ (VoiceInv => VoiceInv') /\ (Calm' <=> Calm)
    BY <2>1, EdgeQuiet DEF CascadeInv, EdgeInv, PipeInv, EdgeTypes, Calm
  <2>3. Partings => Partings'
    BY <2>1 DEF Partings, Registering, Parting, Ending
  <2>4. SpeakersHome => SpeakersHome'
    BY <2>1 DEF SpeakersHome
  <2>5. QED BY <1>1, <2>2, <2>3, <2>4 DEF CascadeInv
<1>7. QED BY <1>2, <1>3, <1>4, <1>5, <1>6 DEF Next, User, System

LEMMA AlwaysCascade == Spec => []CascadeInv
  BY InitCascade, NextCascade, PTL DEF Spec

\* A producer at the origin whose speaker has gone from the edge is about to be closed,
\* wherever in the handshake the speaker went and whatever attempts failed before
\* (setupReversePipe and closeReversePipe in reverse-pipe-lifecycle.ts).
THEOREM NeverGhostVoiceUnnoticed == Spec => []NoGhostVoice
<1>1. CascadeInv => NoGhostVoice
  <2>1. SUFFICES ASSUME CascadeInv, Calm, NEW t \in Ghosts
                 PROVE  \E m \in mail : m.kind = "reverse-close" /\ m.of = t.of
    BY DEF NoGhostVoice, Calm, CascadeInv, VoiceBase, VoiceTypes
  <2>2. t \in Open /\ t.kind = "in" /\ t.of \notin speaking /\ t.of \in Voices /\ t \in Live(t.of)
    BY <2>1 DEF Ghosts, Live, CascadeInv, VoiceBase, TransportsHome
  <2>3. CloseOf(t.of, t.n) \in mail
    BY <2>1, <2>2 DEF CascadeInv, VoiceInv, VoiceOk, Sure, Told
  <2>4. QED BY <2>3, CloseFields
<1>2. QED BY <1>1, AlwaysCascade, PTL
==============================================
