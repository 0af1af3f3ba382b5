------------------------------ MODULE Cascade -------------------------------
(***************************************************************************)
(* A room that spans instances: its pipes in both directions, and how an   *)
(* edge or the origin leaves it.  The room's end is relayed to whoever is  *)
(* registered, and each edge has its pipes closed at the origin.           *)
(*                                                                         *)
(* A scenario names what else than joins happens:                          *)
(*   pair      every edge joins, not only one of them                      *)
(*   forward   the origin has speakers                                     *)
(*   reverse   edges have speakers                                         *)
(*   overtake  the close of a producer overtakes the setup of its pipe     *)
(*   lost      calls of the setups, or their answers, are lost             *)
(*   deaf      calls that close a reverse pipe are lost                    *)
(*   unmute    a speaker's unmute sets the pipe up once more               *)
(*   leave     the last listener of an edge leaves                         *)
(*   over      the origin closes the room                                  *)
(***************************************************************************)
EXTENDS EdgePipes, ReversePipes

vars == <<scenario, open, edge, mail, pipeVars, trouble, edgeVars, reverseVars>>

Init == PipeInit /\ EdgeInit /\ ReverseInit

-----------------------------------------------------------------------------

\* closeRoom, on an edge that nobody is on any more: the end of the room is relayed to
\* the origin, too.
Leave(e) ==
    /\ "leave" \in scenario /\ edge[e] = "in" /\ (\A v \in speaking : home[v] # e) /\ Trouble
    /\ To(e, "leaving")
    /\ mail' = mail \cup {Message("origin", "pipe-close", e, 0), Message("origin", "room-closed", e, 0)}
    /\ UNCHANGED <<edgeVars, reverseVars, pipeVars, open, scenario>>

\* The origin's clients are told that the room is closed, and so are its other edges.
RelaysClosed(e) ==
    /\ Message("origin", "room-closed", e, 0) \in mail
    /\ mail' = (mail \ {Message("origin", "room-closed", e, 0)})
                  \cup {Message(f, "room-closed", None, 0) : f \in remotes \ {e}}
    /\ UNCHANGED <<edgeVars, reverseVars, pipeVars, edge, open, trouble, scenario>>

\* handleOriginClosed.  The call that finds a join under way is taken to come after it.
OriginClosed(e) ==
    /\ Message(e, "room-closed", None, 0) \in mail /\ edge[e] \in {"out", "in", "leaving"}
    /\ IF edge[e] = "in"
       THEN /\ To(e, "leaving")
            /\ mail' = (mail \ {Message(e, "room-closed", None, 0)})
                          \cup {Message("origin", "pipe-close", e, 0)}
       ELSE /\ mail' = mail \ {Message(e, "room-closed", None, 0)}
            /\ UNCHANGED edge
    /\ UNCHANGED <<edgeVars, reverseVars, pipeVars, open, trouble, scenario>>

\* cleanupRoom waits for the setups under way.
Drained(e) == \A s \in setups : s.edge # e

\* The rest of cleanup and the end of the cluster.  The origin is forgotten before the
\* cluster closes, so a speaker who is still there takes leave of nobody.
Detached(e) ==
    /\ edge[e] = "leaving" /\ Drained(e)
    /\ To(e, "out")
    /\ ears' = {x \in ears : x.edge # e}
    /\ cached' = [cached EXCEPT ![e] = [p \in Producers |-> 0]]
    /\ LET mine == {v \in Voices : home[v] = e}
       IN /\ speaking' = speaking \ mine
          /\ outbound' = {o \in outbound : o.of \notin mine}
          /\ entry' = [v \in Voices |-> IF v \in mine THEN NoEntry ELSE entry[v]]
    /\ UNCHANGED <<live, announced, remotes, calls, setups, home, hands, inbound, produced, hooked, told, ended,
                   mail, pipeVars, open, trouble, scenario>>

\* /internal/pipe/close, which closes the pipes of every edge.
PipesClosed(e) ==
    /\ Message("origin", "pipe-close", e, 0) \in mail
    /\ mail' = mail \ {Message("origin", "pipe-close", e, 0)}
    /\ closePipes /\ InClosed(Shut)
    /\ UNCHANGED <<edgeVars, home, speaking, hands, entry, outbound, produced, hooked, told,
                   edge, open, trouble, scenario>>

\* closeRoom, on the origin.
OriginCloses ==
    /\ "over" \in scenario /\ open /\ open' = FALSE
    /\ mail' = mail \cup {Message(e, "room-closed", None, 0) : e \in remotes}
    /\ live' = {} /\ remotes' = {}
    /\ Destroyed /\ InClosed(Open)
    /\ UNCHANGED <<announced, calls, setups, ears, cached, home, speaking, hands, entry, outbound, produced,
                   hooked, told, edge, trouble, scenario>>

-----------------------------------------------------------------------------

User == (EdgeUser /\ UNCHANGED reverseVars) \/ (ReverseUser /\ UNCHANGED edgeVars)
           \/ OriginCloses \/ \E e \in Edges : Leave(e)

System ==
    \/ EdgeSystem /\ UNCHANGED reverseVars
    \/ ReverseSystem /\ UNCHANGED edgeVars
    \/ \E e \in Edges : RelaysClosed(e) \/ OriginClosed(e) \/ Detached(e) \/ PipesClosed(e)

Next ==
    \/ User \/ System
    \/ EdgeTrouble /\ UNCHANGED reverseVars
    \/ ReverseTrouble /\ UNCHANGED edgeVars

Spec == Init /\ [][Next]_vars

\* Calls are answered or time out, and retries are made.
FairSpec == Spec /\ WF_vars(System)

-----------------------------------------------------------------------------
(* Properties *)

\* An edge does not outlive its origin, though it joins as the room closes.
EdgeFollows == ~open ~> (\A e \in Edges : edge[e] = "out")

\* An edge that people are on stays, though another edge empties.
EdgeStays == [][\A e \in Edges : OriginClosed(e) /\ edge[e] = "in" => ~open]_vars

\* /internal/pipe/close, "from a specific edge" (internal.ts:402): the pipes of other
\* edges stay.
OthersKeepPipes ==
    [][\A e \in Edges : PipesClosed(e) => \A t \in Open : t.edge # e => t \in Open']_vars

\* closePipes: "all pipe transports for a room".
AllPipesClosed == [][\A e \in Edges : PipesClosed(e) => Open' = {}]_vars
=============================================================================
