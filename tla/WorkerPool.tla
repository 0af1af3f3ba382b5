----------------------------- MODULE WorkerPool -----------------------------
(***************************************************************************)
(* The mediasoup workers of one instance.  Each is a process with a port   *)
(* of its own, the base port plus its index.  The pool is an array: a      *)
(* worker that dies is cut out of it, its rooms are closed, and after a    *)
(* pause a new one is made for the place in the array where it was, which  *)
(* need not be its index.                                                  *)
(***************************************************************************)
EXTENDS Integers, Sequences, FiniteSets

CONSTANTS
    Size,       \* MEDIASOUP_NUM_WORKERS
    MaxDeaths,  \* bound on how many workers die
    Attempts,   \* MAX_RETRIES
    Scenarios   \* what happens in the system: see Media

ASSUME PoolAssumptions ==
    Size \in Nat \ {0} /\ MaxDeaths \in Nat \ {0} /\ Attempts \in Nat \ {0}

VARIABLES
    pool,      \* workers, in the order in which they were ready
    deaths,    \* the deaths that are handled
    died,      \* how many workers have died
    processes, \* how many processes were started
    stray,     \* processes without a port: never in the pool, never closed
    scenario

poolVars == <<pool, deaths, died, processes, stray>>

Indexes == 0 .. Size - 1
Pid == Nat \ {0}
Worker == [pid: Pid, index: Indexes]
Death == [pid: Pid, place: Indexes, step: {"rooms", "pause"}, tries: 0 .. Attempts]

PoolTypeOK ==
    /\ pool \in Seq(Worker) /\ deaths \subseteq Death
    /\ died \in 0 .. MaxDeaths /\ processes \in Nat /\ stray \subseteq Pid
    /\ scenario \in Scenarios

Pids == {pool[i].pid : i \in DOMAIN pool}

\* initialize: all at once, ready in any order.
PoolInit ==
    /\ scenario \in Scenarios
    /\ \E order \in [Indexes -> Indexes] :
          /\ \A i, j \in Indexes : order[i] = order[j] => i = j
          /\ "shuffled" \notin scenario => \A i \in Indexes : order[i] = i
          /\ pool = [i \in 1 .. Size |-> [pid |-> i, index |-> order[i - 1]]]
    /\ deaths = {} /\ died = 0 /\ processes = Size /\ stray = {}

\* handleWorkerDeath, up to the rooms that it closes.
WorkerDies ==
    /\ "death" \in scenario /\ died < IF "second" \in scenario THEN MaxDeaths ELSE 1
    /\ died' = died + 1
    /\ \E i \in DOMAIN pool :
          /\ pool' = SubSeq(pool, 1, i - 1) \o SubSeq(pool, i + 1, Len(pool))
          /\ deaths' = deaths \cup
                {[pid |-> pool[i].pid, place |-> i - 1, step |-> "rooms", tries |-> 0]}
    /\ UNCHANGED <<processes, stray, scenario>>

RoomsClosed(d) ==
    /\ d \in deaths /\ d.step = "rooms"
    /\ deaths' = (deaths \ {d}) \cup {[d EXCEPT !.step = "pause"]}
    /\ UNCHANGED <<pool, died, processes, stray, scenario>>

Bound(index) == \E i \in DOMAIN pool : pool[i].index = index

\* The new worker is numbered by the length of the array.
Bug_NewIndex(d) == Len(pool)
NewIndex(d) == d.place

\* createWorker: the process is there before its port is bound, and stays when the
\* port is another's.
Recreate(d) ==
    /\ d \in deaths /\ d.step = "pause"
    /\ processes' = processes + 1
    /\ IF Bound(NewIndex(d))
       THEN /\ stray' = stray \cup {processes + 1}
            /\ deaths' = (deaths \ {d}) \cup
                  IF d.tries + 1 < Attempts THEN {[d EXCEPT !.tries = @ + 1]} ELSE {}
            /\ UNCHANGED pool
       ELSE /\ pool' = Append(pool, [pid |-> processes + 1, index |-> NewIndex(d)])
            /\ deaths' = deaths \ {d}
            /\ UNCHANGED stray
    /\ UNCHANGED <<died, scenario>>

-----------------------------------------------------------------------------
(* Properties *)

\* A pool that was made in the order of its indexes and lost one worker is whole
\* again in the end.  With a second death, or another order, it need not be.
PoolHeals ==
    "shuffled" \notin scenario /\ "second" \notin scenario => <>[](Len(pool) = Size)

\* The claim without the exceptions (worker.manager.ts:291: the port is released and
\* the worker re-created).
PoolAlwaysHeals == <>[](Len(pool) = Size)

\* Every process that was started is in the pool or has died.
NoStray == stray = {}
=============================================================================
