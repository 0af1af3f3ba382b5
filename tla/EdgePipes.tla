----------------------------- MODULE EdgePipes ------------------------------
(***************************************************************************)
(* The forward pipes of a room.  An edge that joins registers at the       *)
(* origin, then fetches its producers and asks for a pipe of each; of      *)
(* those that come later, and of the end of each, the origin's relay       *)
(* tells it.  Whoever asks for a producer that is being piped waits for    *)
(* the same setup.                                                         *)
(***************************************************************************)
EXTENDS PipeManager

CONSTANT Producers

VARIABLES
    live,      \* the origin's producers that are not closed
    announced, \* those the relay was given
    remotes,   \* edges the origin's relay has registered
    calls,     \* requestPipeForProducer, by the relay's handler or the bootstrap
    setups,    \* doRequestPipeForProducer
    ears,      \* the live producers of an edge that are fed by a pipe
    cached     \* pipedProducers: of each edge, by producer, the transport of its pipe

edgeVars == <<live, announced, remotes, calls, setups, ears, cached>>

EdgeTypeOK ==
    /\ live \cup announced \subseteq Producers /\ remotes \subseteq Edges
    /\ calls \subseteq [edge: Edges, of: Producers, by: {"relay", "boot"}, tries: 1 .. 3,
                        step: {"ask", "wait"}]
    /\ setups \subseteq [edge: Edges, of: Producers, by: {"relay", "boot"}, n: 0 .. MaxMade,
                         step: {"listen", "offer", "answer", "register"}]
    /\ ears \subseteq [edge: Edges, of: Producers, n: 1 .. MaxMade]
    /\ cached \in [Edges -> [Producers -> 0 .. MaxMade]]

EdgeInit ==
    /\ live = {} /\ announced = {} /\ remotes = {} /\ calls = {} /\ setups = {} /\ ears = {}
    /\ cached = [e \in Edges |-> [p \in Producers |-> 0]]

-----------------------------------------------------------------------------
(* The origin *)

ToRemotes(kind, p) == {Message(e, kind, p, 0) : e \in remotes}

\* The producer is registered at the cluster before the room is told of it.
Speak(p) ==
    /\ "forward" \in scenario /\ open /\ p \notin live \cup announced
    /\ live' = live \cup {p}
    /\ UNCHANGED <<announced, remotes, calls, setups, ears, cached, mail, pipeVars, edge, open, trouble, scenario>>

Announce(p) ==
    /\ p \in live \ announced
    /\ announced' = announced \cup {p} /\ mail' = mail \cup ToRemotes("new", p)
    /\ UNCHANGED <<live, remotes, calls, setups, ears, cached, pipeVars, edge, open, trouble, scenario>>

Stop(p) ==
    /\ p \in live \cap announced
    /\ live' = live \ {p} /\ mail' = mail \cup ToRemotes("closed", p)
    /\ UNCHANGED <<announced, remotes, calls, setups, ears, cached, pipeVars, edge, open, trouble, scenario>>

-----------------------------------------------------------------------------
(* An edge joins *)

To(e, step) == edge' = [edge EXCEPT ![e] = step]

\* attachToOrigin.
Join(e) ==
    /\ open /\ edge[e] = "out" /\ ("pair" \in scenario \/ e = CHOOSE f \in Edges : TRUE)
    /\ To(e, "attach") /\ mail' = mail \cup {Message("origin", "register", e, 0)}
    /\ UNCHANGED <<edgeVars, pipeVars, open, trouble, scenario>>

Registered(e) ==
    /\ Message("origin", "register", e, 0) \in mail
    /\ mail' = mail \ {Message("origin", "register", e, 0)}
    /\ remotes' = remotes \cup {e} /\ To(e, "create")
    /\ UNCHANGED <<live, announced, calls, setups, ears, cached, pipeVars, open, trouble, scenario>>

ClusterCreated(e) ==
    /\ edge[e] = "create" /\ To(e, "boot")
    /\ UNCHANGED <<mail, edgeVars, pipeVars, open, trouble, scenario>>

\* An origin that does not have the room has no producers.
Bug_Unreachable == FALSE
Unreachable == ~open

\* runBootstrap.  An origin that no longer has the room is left again.
Bootstrap(e) ==
    /\ edge[e] = "boot"
    /\ IF Unreachable
       THEN /\ To(e, "leaving")
            /\ mail' = mail \cup {Message("origin", "pipe-close", e, 0)}
            /\ UNCHANGED calls
       ELSE /\ To(e, "in")
            /\ calls' = calls \cup
                  {[edge |-> e, of |-> p, by |-> "boot", tries |-> 1, step |-> "ask"] : p \in live}
            /\ UNCHANGED mail
    /\ UNCHANGED <<live, announced, remotes, setups, ears, cached, pipeVars, open, trouble, scenario>>

-----------------------------------------------------------------------------
(* Relayed events *)

\* One attempt is all the handler makes.
Bug_RelayAttempts == 1
RelayAttempts == 3

RemoteNew(e, p) ==
    /\ Message(e, "new", p, 0) \in mail
    /\ mail' = mail \ {Message(e, "new", p, 0)}
    /\ calls' = calls \cup {[edge |-> e, of |-> p, by |-> "relay", tries |-> RelayAttempts, step |-> "ask"]}
    /\ UNCHANGED <<live, announced, remotes, setups, ears, cached, pipeVars, edge, open, trouble, scenario>>

\* handleRemoteProducerClosed: it finds what is cached, not what is being set up.
RemoteClosed(e, p) ==
    /\ Message(e, "closed", p, 0) \in mail
    /\ "overtake" \in scenario \/ (\A s \in setups : s.edge # e \/ s.of # p)
    /\ mail' = mail \ {Message(e, "closed", p, 0)}
    /\ ears' = ears \ {[edge |-> e, of |-> p, n |-> cached[e][p]]}
    /\ cached' = [cached EXCEPT ![e][p] = 0]
    /\ UNCHANGED <<live, announced, remotes, calls, setups, pipeVars, edge, open, trouble, scenario>>

-----------------------------------------------------------------------------
(* The setup of a pipe *)

\* Nobody looks whether a setup is under way.
Bug_Pending(e, p) == FALSE
Pending(e, p) == \E s \in setups : s.edge = e /\ s.of = p

Ended(c, ok) == IF ok \/ c.tries = 1 THEN {} ELSE {[c EXCEPT !.tries = @ - 1, !.step = "ask"]}

\* requestPipeForProducer.
Ask(c) ==
    /\ c \in calls /\ c.step = "ask"
    /\ IF HasCluster(c.edge) /\ cached[c.edge][c.of] = 0
       THEN /\ calls' = (calls \ {c}) \cup {[c EXCEPT !.step = "wait"]}
            /\ setups' = setups \cup
                  IF Pending(c.edge, c.of) THEN {}
                  ELSE {[edge |-> c.edge, of |-> c.of, by |-> c.by, n |-> 0, step |-> "listen"]}
       ELSE /\ calls' = (calls \ {c}) \cup Ended(c, HasCluster(c.edge))
            /\ UNCHANGED setups
    /\ UNCHANGED <<live, announced, remotes, ears, cached, mail, pipeVars, edge, open, trouble, scenario>>

Moved(s, to, n) == setups' = (setups \ {s}) \cup {[s EXCEPT !.step = to, !.n = n]}

\* The setup is over, for everyone who waited for it.
Over(s, ok) ==
    LET mine == {c \in calls : c.edge = s.edge /\ c.of = s.of /\ c.step = "wait"}
    IN /\ setups' = setups \ {s}
       /\ calls' = (calls \ mine) \cup UNION {Ended(c, ok) : c \in mine}

ListenerCreated(s) ==
    /\ s \in setups /\ s.step = "listen" /\ Moved(s, "offer", 0)
    /\ UNCHANGED <<live, announced, remotes, calls, ears, cached, mail, pipeVars, edge, open, trouble, scenario>>

\* createOriginPipe.
Offered(s) ==
    /\ s \in setups /\ s.step = "offer"
    /\ IF open /\ s.of \in live
       THEN Opens(Transport("out", s.edge, s.of)) /\ Moved(s, "answer", made + 1) /\ UNCHANGED calls
       ELSE Over(s, FALSE) /\ UNCHANGED pipeVars
    /\ UNCHANGED <<live, announced, remotes, ears, cached, mail, edge, open, trouble, scenario>>

\* The offer, or its answer, does not arrive in time: what the origin opened stays.
OfferLost(s) ==
    /\ s \in setups /\ s.step \in {"offer", "answer"} /\ "lost" \in scenario /\ Trouble
    /\ Over(s, FALSE)
    /\ UNCHANGED <<live, announced, remotes, ears, cached, mail, pipeVars, edge, open, scenario>>

\* createEdgePipeFromTransport.
EdgeProduced(s) ==
    /\ s \in setups /\ s.step = "answer" /\ Moved(s, "register", s.n)
    /\ ears' = ears \cup {[edge |-> s.edge, of |-> s.of, n |-> s.n]}
    /\ UNCHANGED <<live, announced, remotes, calls, cached, mail, pipeVars, edge, open, trouble, scenario>>

\* The pipes that the bootstrap set up are not cached.
Bug_CachedPipe(s) == IF s.by = "boot" THEN 0 ELSE s.n
CachedPipe(s) == s.n

EdgeRegistered(s) ==
    /\ s \in setups /\ s.step = "register" /\ Over(s, TRUE)
    /\ cached' = [cached EXCEPT ![s.edge][s.of] = CachedPipe(s)]
    /\ UNCHANGED <<live, announced, remotes, ears, mail, pipeVars, edge, open, trouble, scenario>>

-----------------------------------------------------------------------------

EdgeUser == \/ \E p \in Producers : Speak(p) \/ Stop(p)
            \/ \E e \in Edges : Join(e)

EdgeSystem ==
    \/ \E p \in Producers : Announce(p)
    \/ \E e \in Edges :
          \/ Registered(e) \/ ClusterCreated(e) \/ Bootstrap(e)
          \/ \E p \in Producers : RemoteNew(e, p) \/ RemoteClosed(e, p)
    \/ \E c \in calls : Ask(c)
    \/ \E s \in setups : ListenerCreated(s) \/ Offered(s) \/ EdgeProduced(s) \/ EdgeRegistered(s)

EdgeTrouble == \E s \in setups : OfferLost(s)

-----------------------------------------------------------------------------
(* Properties *)

\* An edge has one copy of a producer, whether the relay or a join asks for it first
\* (edge-pipe-lifecycle.ts:60).
OnePipe ==
    EdgeTypeOK /\ \A x, y \in ears : x.edge = y.edge /\ x.of = y.of => x = y

\* An edge that still has a copy of a producer that has closed is about to hear of it,
\* or to go itself, unless the close overtook the setup of the pipe.
NoGhostPipe ==
    "overtake" \notin scenario => \A x \in ears :
        \/ x.of \in live \/ edge[x.edge] = "leaving"
        \/ Message(x.edge, "closed", x.of, 0) \in mail
        \/ Message(x.edge, "room-closed", None, 0) \in mail

\* The claim without the exception.
NeverGhostPipe == \A x \in ears :
    \/ x.of \in live \/ edge[x.edge] = "leaving"
    \/ Message(x.edge, "closed", x.of, 0) \in mail
    \/ Message(x.edge, "room-closed", None, 0) \in mail

Hears(e, p) == \E x \in ears : x.edge = e /\ x.of = p
                   /\ [kind |-> "out", edge |-> e, of |-> p, n |-> x.n] \in Open

\* Whoever speaks is heard at an edge, whenever the edge joins and whatever the relay
\* and the join do at once.  Where calls are lost this is so for a speaker the relay
\* tells of, who is asked for three times (internal.ts:745).
HearsAll == \A e \in Edges, p \in Producers :
    (/\ edge[e] = "in" /\ p \in live /\ "leave" \notin scenario
     /\ "lost" \notin scenario \/ Message(e, "new", p, 0) \in mail)
        ~> (Hears(e, p) \/ p \notin live \/ edge[e] # "in")

\* The claim without the exceptions.
AlwaysHearsAll == \A e \in Edges, p \in Producers :
    (edge[e] = "in" /\ p \in live) ~> (Hears(e, p) \/ p \notin live \/ edge[e] # "in")
=============================================================================
