---------------------------- MODULE PipeManager -----------------------------
(***************************************************************************)
(* What the origin of a room shares between the two sorts of pipes to its  *)
(* edges: the plain transports its pipe manager has opened for the room,   *)
(* the calls that instances make to each other, and the step at which each *)
(* edge is.  A forward pipe brings a producer of the origin to an edge, a  *)
(* reverse pipe brings a speaker of an edge to the origin.                 *)
(***************************************************************************)
EXTENDS Integers, Sequences, FiniteSets

CONSTANTS
    Edges,
    None,       \* no edge, no producer
    MaxMade,    \* bound on the transports the origin opens
    MaxTrouble, \* bound on calls that fail
    Scenarios   \* what happens in the system: see Cascade

ASSUME PipeAssumptions == None \notin Edges /\ MaxMade \in Nat /\ MaxTrouble \in Nat

VARIABLES
    scenario,
    open,    \* the origin has the room
    edge,    \* the step of each edge
    mail,    \* calls under way from one instance to another
    pipes,   \* roomPipes: the open transports, in the order they were opened
    loose,   \* open transports that roomPipes has forgotten
    made,    \* how many transports were opened
    trouble

pipeVars == <<pipes, loose, made>>

Transport(kind, e, of) == [kind |-> kind, edge |-> e, of |-> of, n |-> made + 1]
Message(to, kind, of, n) == [to |-> to, kind |-> kind, of |-> of, n |-> n]

Tracked == {pipes[i] : i \in DOMAIN pipes}
Open == Tracked \cup loose

PipeInit ==
    /\ scenario \in Scenarios /\ open = TRUE /\ edge = [e \in Edges |-> "out"] /\ mail = {}
    /\ pipes = <<>> /\ loose = {} /\ made = 0 /\ trouble = 0

\* Whose origin is known, and who has a cluster of the room.
Attached(e) == edge[e] # "out"
HasCluster(e) == edge[e] \in {"boot", "in", "leaving"}

Trouble == trouble < MaxTrouble /\ trouble' = trouble + 1

-----------------------------------------------------------------------------
(* roomPipes *)

Opens(t) ==
    /\ made < MaxMade
    /\ pipes' = Append(pipes, t) /\ made' = made + 1 /\ UNCHANGED loose

\* trackTransport: a transport that closes is spliced out of the list, if it is there.
Closes(t) ==
    /\ \/ t \notin Tracked /\ UNCHANGED pipes
       \/ \E i \in DOMAIN pipes :
             /\ pipes[i] = t
             /\ pipes' = SubSeq(pipes, 1, i - 1) \o SubSeq(pipes, i + 1, Len(pipes))
    /\ loose' = loose \ {t} /\ UNCHANGED made

\* closePipes goes through the list while the closes splice it: every second transport
\* is passed over, and then forgotten.
Shut == {pipes[i] : i \in {j \in DOMAIN pipes : j % 2 = 1}}
closePipes == pipes' = <<>> /\ loose' = loose \cup (Tracked \ Shut) /\ UNCHANGED made

\* The router goes, and every transport with it.
Destroyed == pipes' = <<>> /\ loose' = {} /\ UNCHANGED made
=============================================================================
