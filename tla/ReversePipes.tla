---------------------------- MODULE ReversePipes ----------------------------
(***************************************************************************)
(* The reverse pipes of a room: a speaker on an edge is brought to the     *)
(* origin.  The edge opens an outbound transport, the origin answers the   *)
(* offer with an inbound one, the edge consumes its speaker into it, and   *)
(* the origin, told how, produces on it and tells the room.  Whoever       *)
(* cleans up, on either side, knows only what its maps hold by then.       *)
(***************************************************************************)
EXTENDS PipeManager

CONSTANT Voices \* speakers on the edges, each with one producer

VARIABLES
    home,     \* the edge of a voice
    speaking, \* voices whose edge producer is live
    hands,    \* the calls of setupReversePipe, each with its attempts
    entry,    \* reversedProducers
    outbound, \* the open outbound transports
    inbound,  \* reverseInboundByEdge
    produced, \* inbound transports with a producer
    hooked,   \* those whose close will be told to the room
    told,     \* those the room was told of
    ended     \* those whose end it was told of

reverseVars == <<home, speaking, hands, entry, outbound, inbound, produced, hooked, told, ended>>

NoEntry == [by |-> None, tries |-> 0, n |-> 0, done |-> FALSE]
In(v, n) == [kind |-> "in", edge |-> home[v], of |-> v, n |-> n]
Id(h) == [of |-> h.of, by |-> h.by, tries |-> h.tries]

Callers == {"produce", "unmute"}
ReverseTypeOK ==
    /\ home \in [Voices -> Edges \cup {None}] /\ speaking \subseteq Voices
    /\ hands \subseteq [of: Voices, by: Callers, tries: 1 .. 3, n: 0 .. MaxMade, step:
          {"begin", "create", "offer", "accept", "consume", "finalize", "register", "reply", "refused", "closing"}]
    /\ outbound \subseteq [of: Voices, by: Callers, tries: 1 .. 3]
    /\ inbound \in [Voices -> 0 .. MaxMade]
    /\ hooked \cup told \cup ended \cup produced \subseteq 1 .. MaxMade

ReverseInit ==
    /\ home = [v \in Voices |-> None] /\ speaking = {} /\ hands = {} /\ outbound = {}
    /\ entry = [v \in Voices |-> NoEntry] /\ inbound = [v \in Voices |-> 0]
    /\ produced = {} /\ hooked = {} /\ told = {} /\ ended = {}

\* What the handlers of transports that close do.
InClosed(ts) ==
    /\ ended' = ended \cup {t.n : t \in {x \in ts : x.kind = "in" /\ x.n \in hooked}}
    /\ inbound' = [v \in Voices |-> IF \E t \in ts : t.kind = "in" /\ t.of = v /\ t.n \in produced
                                    THEN 0 ELSE inbound[v]]

-----------------------------------------------------------------------------
(* closeReversePipe *)

\* The message names the producer, and not the transport of the offer.
Bug_CloseOf(v, n) == Message("origin", "reverse-close", v, 0)
CloseOf(v, n) == Message("origin", "reverse-close", v, n)

closeReversePipe(v) ==
    IF entry[v] = NoEntry
    THEN UNCHANGED <<entry, outbound, mail>>
    ELSE /\ entry' = [entry EXCEPT ![v] = NoEntry]
         /\ outbound' = outbound \ {[of |-> v, by |-> entry[v].by, tries |-> entry[v].tries]}
         /\ mail' = mail \cup {CloseOf(v, entry[v].n)}

-----------------------------------------------------------------------------
(* setupReversePipe *)

\* The first failure is the last.
Bug_ProduceAttempts == 1
ProduceAttempts == 3

Hand(v, by, tries, step, n) == [of |-> v, by |-> by, tries |-> tries, step |-> step, n |-> n]

Produce(v, e) ==
    /\ "reverse" \in scenario /\ edge[e] = "in" /\ home[v] = None
    /\ home' = [home EXCEPT ![v] = e] /\ speaking' = speaking \cup {v}
    /\ hands' = hands \cup {Hand(v, "produce", ProduceAttempts, "begin", 0)}
    /\ UNCHANGED <<entry, outbound, inbound, produced, hooked, told, ended, mail, pipeVars, edge, open, trouble, scenario>>

\* The self-heal of an unmute, once.
Unmute(v) ==
    /\ "unmute" \in scenario /\ v \in speaking /\ trouble = 0 /\ trouble' = 1
    /\ hands' = hands \cup {Hand(v, "unmute", ProduceAttempts, "begin", 0)}
    /\ UNCHANGED <<home, speaking, entry, outbound, inbound, produced, hooked, told, ended, mail, pipeVars, edge, open, scenario>>

\* The speaker's transport closes.
Silence(v) ==
    /\ v \in speaking /\ speaking' = speaking \ {v}
    /\ closeReversePipe(v)
    /\ UNCHANGED <<home, hands, inbound, produced, hooked, told, ended, pipeVars, edge, open, trouble, scenario>>

HandAt(h, step) == h \in hands /\ h.step = step
Goes(h, step) == hands' = (hands \ {h}) \cup {[h EXCEPT !.step = step]}
Fails(h) == hands' = (hands \ {h}) \cup
               IF h.tries = 1 THEN {} ELSE {Hand(h.of, h.by, h.tries - 1, "begin", 0)}

\* An entry that is not finished makes the attempt fail, one that is is taken as sound.
Begin(h) ==
    /\ HandAt(h, "begin")
    /\ IF entry[h.of].done
       THEN hands' = hands \ {h}
       ELSE IF entry[h.of] # NoEntry \/ ~Attached(home[h.of]) THEN Fails(h) ELSE Goes(h, "create")
    /\ UNCHANGED <<home, speaking, entry, outbound, inbound, produced, hooked, told, ended, mail, pipeVars, edge, open, trouble, scenario>>

\* Only now is the attempt known to closeReversePipe.
OutboundCreated(h) ==
    /\ HandAt(h, "create") /\ Goes(h, "offer")
    /\ outbound' = outbound \cup {Id(h)}
    /\ entry' = [entry EXCEPT ![h.of] = [by |-> h.by, tries |-> h.tries, n |-> 0, done |-> FALSE]]
    /\ UNCHANGED <<home, speaking, inbound, produced, hooked, told, ended, mail, pipeVars, edge, open, trouble, scenario>>

DropAttempt(h) ==
    /\ Fails(h) /\ outbound' = outbound \ {Id(h)}
    /\ entry' = [entry EXCEPT ![h.of] = NoEntry]

\* createReverseInboundTransport.
ReverseOffered(h) ==
    /\ HandAt(h, "offer")
    /\ IF open
       THEN /\ Opens(Transport("in", home[h.of], h.of))
            /\ hands' = (hands \ {h}) \cup {[h EXCEPT !.step = "accept", !.n = made + 1]}
            /\ UNCHANGED <<entry, outbound>>
       ELSE DropAttempt(h) /\ UNCHANGED pipeVars
    /\ UNCHANGED <<home, speaking, inbound, produced, hooked, told, ended, mail, edge, open, trouble, scenario>>

ReverseOfferLost(h) ==
    /\ HandAt(h, "offer") \/ HandAt(h, "accept")
    /\ "lost" \in scenario /\ Trouble /\ DropAttempt(h)
    /\ UNCHANGED <<home, speaking, inbound, produced, hooked, told, ended, mail, pipeVars, edge, open, scenario>>

\* notifyOriginReverseClose is awaited before the attempt counts as failed.
Cancel(h) ==
    /\ Goes(h, "closing") /\ outbound' = outbound \ {Id(h)}
    /\ mail' = mail \cup {CloseOf(h.of, h.n)} /\ UNCHANGED entry

Accepted(h) ==
    /\ HandAt(h, "accept")
    /\ IF entry[h.of] = NoEntry
       THEN Cancel(h)
       ELSE /\ Goes(h, "consume")
            /\ entry' = [entry EXCEPT ![h.of].n = h.n]
            /\ UNCHANGED <<outbound, mail>>
    /\ UNCHANGED <<home, speaking, inbound, produced, hooked, told, ended, pipeVars, edge, open, trouble, scenario>>

\* connectReverseTransport.  On a failure the origin is told nothing.
Consumed(h) ==
    /\ HandAt(h, "consume")
    /\ IF h.of \in speaking /\ Id(h) \in outbound
       THEN Goes(h, "finalize") /\ UNCHANGED <<entry, outbound>>
       ELSE DropAttempt(h)
    /\ UNCHANGED <<home, speaking, inbound, produced, hooked, told, ended, mail, pipeVars, edge, open, trouble, scenario>>

\* finalizeReverseInbound, which fails when the transport is no longer there.
Finalized(h) ==
    /\ HandAt(h, "finalize")
    /\ IF In(h.of, h.n) \in Open
       THEN /\ Goes(h, "register")
            /\ inbound' = [inbound EXCEPT ![h.of] = h.n] /\ produced' = produced \cup {h.n}
       ELSE Goes(h, "refused") /\ UNCHANGED <<inbound, produced>>
    /\ UNCHANGED <<home, speaking, entry, outbound, hooked, told, ended, mail, pipeVars, edge, open, trouble, scenario>>

\* registerProducer is over; a producer that closed meanwhile is told of all the same,
\* unless there is a router to pipe it to.
ReverseRegistered(h) ==
    /\ HandAt(h, "register")
    /\ \/ /\ Goes(h, "reply")
          /\ hooked' = hooked \cup {h.n} /\ told' = told \cup {h.n}
       \/ /\ In(h.of, h.n) \notin Open /\ Goes(h, "refused")
          /\ UNCHANGED <<hooked, told>>
    /\ UNCHANGED <<home, speaking, entry, outbound, inbound, produced, ended, mail, pipeVars, edge, open, trouble, scenario>>

\* The call, or its answer, does not arrive in time.
FinalizeLost(h) ==
    /\ HandAt(h, "finalize") \/ HandAt(h, "reply")
    /\ "lost" \in scenario /\ Trouble /\ Goes(h, "refused")
    /\ UNCHANGED <<home, speaking, entry, outbound, inbound, produced, hooked, told, ended, mail, pipeVars, edge, open, scenario>>

Refused(h) ==
    /\ HandAt(h, "refused") /\ Goes(h, "closing")
    /\ closeReversePipe(h.of)
    /\ UNCHANGED <<home, speaking, inbound, produced, hooked, told, ended, pipeVars, edge, open, trouble, scenario>>

Replied(h) ==
    /\ HandAt(h, "reply")
    /\ IF entry[h.of] = NoEntry
       THEN Cancel(h)
       ELSE /\ hands' = hands \ {h} /\ entry' = [entry EXCEPT ![h.of].done = TRUE]
            /\ UNCHANGED <<outbound, mail>>
    /\ UNCHANGED <<home, speaking, inbound, produced, hooked, told, ended, pipeVars, edge, open, trouble, scenario>>

Retry(h) ==
    /\ HandAt(h, "closing") /\ CloseOf(h.of, h.n) \notin mail /\ Fails(h)
    /\ UNCHANGED <<home, speaking, entry, outbound, inbound, produced, hooked, told, ended, mail, pipeVars, edge, open, trouble, scenario>>

\* closeReverseInboundByEdgeProducer: by the transport while it is pending, by the
\* producer afterwards.
ReverseClosed(m) ==
    /\ m \in mail /\ m.kind = "reverse-close"
    /\ mail' = mail \ {m}
    /\ LET pending == {t \in Open : t.kind = "in" /\ t.n = m.n /\ t.n \notin produced}
           found == IF pending # {} THEN pending
                    ELSE {t \in Open : t.kind = "in" /\ t.of = m.of /\ t.n = inbound[m.of]}
       IN IF found = {}
          THEN UNCHANGED <<pipeVars, ended, inbound>>
          ELSE (\E t \in found : Closes(t)) /\ InClosed(found)
    /\ UNCHANGED <<home, speaking, hands, entry, outbound, produced, hooked, told, edge, open, trouble, scenario>>

\* The message is lost: a warning is all that is left of it.
CloseLost(m) ==
    /\ m \in mail /\ m.kind = "reverse-close" /\ "deaf" \in scenario /\ Trouble
    /\ mail' = mail \ {m}
    /\ UNCHANGED <<reverseVars, pipeVars, edge, open, scenario>>

-----------------------------------------------------------------------------

ReverseUser == \E v \in Voices : Silence(v) \/ Unmute(v) \/ \E e \in Edges : Produce(v, e)

ReverseSystem ==
    \/ \E h \in hands :
          \/ Begin(h) \/ OutboundCreated(h) \/ ReverseOffered(h) \/ Accepted(h) \/ Consumed(h)
          \/ Finalized(h) \/ ReverseRegistered(h) \/ Refused(h) \/ Replied(h) \/ Retry(h)
    \/ \E m \in mail : ReverseClosed(m)

ReverseTrouble ==
    \/ \E h \in hands : ReverseOfferLost(h) \/ FinalizeLost(h)
    \/ \E m \in mail : CloseLost(m)

-----------------------------------------------------------------------------
(* Properties *)

Ghosts == {t \in Open : t.kind = "in" /\ t.n \in produced /\ t.of \notin speaking}

\* Whenever a speaker of an edge goes, in the middle of the handshake or between two
\* attempts, a producer of theirs at the origin is about to be closed
\* (reverse-pipe-lifecycle.ts:92), as long as the handshake is run once at a time, the
\* call that closes it arrives, and no other edge's leave ends the room here.
NoGhostVoice ==
    ReverseTypeOK /\ (scenario \cap {"unmute", "deaf"} = {} /\ ~({"leave", "pair"} \subseteq scenario) =>
        \A t \in Ghosts : \E m \in mail : m.kind = "reverse-close" /\ m.of = t.of)

\* The claim without the exceptions.
NeverGhostVoice == \A t \in Ghosts : \E m \in mail : m.kind = "reverse-close" /\ m.of = t.of

Crosses(v) == \E t \in Open : t.kind = "in" /\ t.of = v /\ t.n \in told
                 /\ \E h \in outbound : h.of = v

\* Whoever speaks on an edge is heard at the origin, though attempts fail, as long as
\* fewer fail than are made.
VoiceCrosses == \A v \in Voices :
    (v \in speaking /\ "leave" \notin scenario)
        ~> (Crosses(v) \/ v \notin speaking \/ ~open)

\* The claim without the exception: a speaker whose pipe another edge closed at the
\* origin is heard again, at the latest when they unmute (media.handler.ts:493).
VoiceRecovers == \A v \in Voices :
    (v \in speaking) ~> [](Crosses(v) \/ v \notin speaking \/ ~open)

\* One speaker of an edge is one producer of the origin.
OneInbound == \A s, t \in Open : s.kind = "in" /\ s = [t EXCEPT !.n = s.n]
                 /\ {s.n, t.n} \subseteq produced => s = t

\* The room is told of the end of whatever it was told of.
InboundEndIsTold == \A n \in told : n \in ended \/ \E t \in Open : t.n = n

\* Inbound transports are not left behind.
NoInboundLeft == <>[](\A t \in Open : t.kind = "in" => t.of \in speaking)
=============================================================================
