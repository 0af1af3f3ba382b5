--------------------------- MODULE ShutdownProofs ---------------------------
(***************************************************************************)
(* Paid gifts are neither duplicated nor lost, and failures are reported   *)
(* truthfully, for any number of instances, gifts and retries; also where  *)
(* one of the instances drains, stops, crashes or is forced to exit.       *)
(*                                                                         *)
(* The lists are first turned into sets: an append adds a gift, a pop      *)
(* splits a set in two, and so on, as long as no list has a gift twice.    *)
(* The invariant then says where a gift can be at one time (Apart), which  *)
(* gifts will not be posted any more (Spent), and that a gift that was     *)
(* shown is somewhere (HeldSafely).                                        *)
(*                                                                         *)
(* A cancelled drain stays cancelled, for every number of instances,       *)
(* gifts, drains and rooms.  The timers that run are always those of the   *)
(* last drain, and none runs when no drain is on or when it is over: so    *)
(* whoever completes a drain is its own timer.                             *)
(***************************************************************************)
EXTENDS Shutdown, FiniteSetTheorems, TLAPS

-----------------------------------------------------------------------------
(* Types of the gift buffer *)

LEMMA PoppedType ==
    ASSUME queue \in Seq(Entry) PROVE Popped \in Seq(Entry) /\ Remaining \in Seq(Entry)
<1> USE GiftAssumptions
<1>1. Len(queue) \in Nat
  OBVIOUS
<1>2. Popped \in Seq(Entry)
  BY <1>1 DEF Popped
<1>3. Len(Popped) \in Nat
  BY <1>2
<1>4. Remaining \in Seq(Entry)
  BY <1>1, <1>3 DEF Remaining
<1>5. QED BY <1>2, <1>4

LEMMA IdleType == Idle \in Flush
  BY DEF Idle, Flush

\* A flush of one instance is replaced by a legal one, which is idle only as Idle.
LEMMA FlushType ==
    ASSUME GiftTypeOK, NEW n \in Nodes, NEW f \in Flush, f.step = "idle" => f = Idle,
           flush' = [flush EXCEPT ![n] = f]
    PROVE  /\ flush' \in [Nodes -> Flush]
           /\ \A m \in Nodes : flush'[m].step = "idle" => flush'[m] = Idle
  BY DEF GiftTypeOK

\* A pop takes a legal batch.
LEMMA PopType ==
    ASSUME GiftTypeOK, NEW n \in Nodes, Pop(n)
    PROVE  /\ queue' \in Seq(Entry)
           /\ flush' \in [Nodes -> Flush]
           /\ \A m \in Nodes : flush'[m].step = "idle" => flush'[m] = Idle
<1>1. Popped \in Seq(Entry) /\ Remaining \in Seq(Entry)
  BY PoppedType DEF GiftTypeOK
<1> DEFINE f == [Idle EXCEPT !.step = "batch", !.rest = Popped]
<1>2. f \in Flush /\ f.step = "batch"
  BY <1>1, IdleType DEF Flush
<1>3. flush' = [flush EXCEPT ![n] = f] \/ flush' = flush
  BY DEF Pop
<1> HIDE DEF f
<1>4. /\ flush' \in [Nodes -> Flush]
      /\ \A m \in Nodes : flush'[m].step = "idle" => flush'[m] = Idle
  <2>1. CASE flush' = [flush EXCEPT ![n] = f]
    BY <1>2, <2>1, FlushType
  <2>2. CASE flush' = flush
    BY <2>2 DEF GiftTypeOK
  <2>3. QED BY <1>3, <2>1, <2>2
<1>5. QED
  BY <1>1, <1>4 DEF Pop

LEMMA EndType ==
    ASSUME GiftTypeOK, NEW n \in Nodes, End(n), exits' \in 0 .. MaxExits
    PROVE  GiftTypeOK'
<1>1. flush' \in [Nodes -> Flush] /\ \A m \in Nodes : flush'[m].step = "idle" => flush'[m] = Idle
  BY IdleType DEF End, GiftTypeOK
<1>2. sending' \in [Gifts -> Nodes \cup {None}]
  BY DEF End, GiftTypeOK
<1>3. QED
  BY <1>1, <1>2 DEF End, GiftTypeOK, laravelVars

\* Every step of an instance on its gifts keeps the types.
LEMMA GiftWorkType == ASSUME GiftTypeOK, NEW n \in Nodes, GiftWork(n) PROVE GiftTypeOK'
<1> USE GiftAssumptions
<1>1. CASE Tick(n)
  BY <1>1, PopType DEF Tick, GiftTypeOK, senderVars, laravelVars
<1>2. CASE PostBatch(n)
  <2>1. flush[n] \in Flush /\ GiftsOf(flush[n].rest) \subseteq Gifts
    <3>1. flush[n] \in Flush /\ flush[n].rest \in Seq(Entry)
      BY DEF GiftTypeOK, Flush
    <3>2. \A i \in DOMAIN flush[n].rest : flush[n].rest[i] \in Entry
      BY <3>1
    <3>3. QED BY <3>1, <3>2 DEF GiftsOf, Entry
  <2>2. flush' \in [Nodes -> Flush] /\ \A m \in Nodes : flush'[m].step = "idle" => flush'[m] = Idle
    <3>1. CASE flush' = [flush EXCEPT ![n] = Idle]
      BY <3>1, IdleType, FlushType
    <3>2. CASE flush' = [flush EXCEPT ![n].step = "items"]
      <4>1. [flush[n] EXCEPT !.step = "items"] \in Flush
            /\ [flush[n] EXCEPT !.step = "items"].step = "items"
        BY <2>1 DEF Flush
      <4>2. flush' = [flush EXCEPT ![n] = [flush[n] EXCEPT !.step = "items"]]
        BY <3>2
      <4>3. QED BY <4>1, <4>2, FlushType
    <3>3. QED BY <1>2, <3>1, <3>2 DEF PostBatch
  <2>3. booked' \subseteq Gifts /\ answered' \subseteq Gifts /\ told' \subseteq Gifts
    BY <1>2, <2>1 DEF PostBatch, Answer, Throw, Good, GiftTypeOK
  <2>4. QED
    BY <1>2, <2>2, <2>3 DEF PostBatch, GiftTypeOK, senderVars
<1>3. CASE PostItem(n)
  <2> DEFINE entry == Head(flush[n].rest)
             rest == Tail(flush[n].rest)
             retries == RetriesAfter(entry)
  <2>1. flush[n] \in Flush /\ flush[n].rest \in Seq(Entry) /\ flush[n].again \in Seq(Entry)
        /\ flush[n].over \in Seq(Gifts) /\ flush[n].rest # <<>> /\ flush[n].step = "items"
    BY <1>3 DEF GiftTypeOK, Flush, PostItem
  <2>2. entry \in Entry /\ rest \in Seq(Entry)
    BY <2>1
  <2>3. entry.gift \in Gifts /\ retries \in Nat
    BY <2>2 DEF Entry, RetriesAfter
  <2>4. Append(flush[n].over, entry.gift) \in Seq(Gifts)
    BY <2>1, <2>3
  <2>5. ASSUME ~(retries >= MaxRetries)
        PROVE  Append(flush[n].again, [gift |-> entry.gift, tries |-> retries]) \in Seq(Entry)
    <3>1. [gift |-> entry.gift, tries |-> retries] \in Entry
      BY <2>3, <2>5 DEF Entry
    <3>2. QED BY <2>1, <3>1
  <2> DEFINE done == [flush[n] EXCEPT !.rest = rest]
             givenUp == [flush[n] EXCEPT !.rest = rest, !.over = Append(@, entry.gift)]
             again == [flush[n] EXCEPT !.rest = rest,
                          !.again = Append(@, [gift |-> entry.gift, tries |-> retries])]
  <2>6. \/ flush' = [flush EXCEPT ![n] = done]
        \/ flush' = [flush EXCEPT ![n] = givenUp]
        \/ ~(retries >= MaxRetries) /\ flush' = [flush EXCEPT ![n] = again]
    BY <1>3 DEF PostItem
  <2> HIDE DEF entry, rest, retries
  <2>7. flush' \in [Nodes -> Flush] /\ \A m \in Nodes : flush'[m].step = "idle" => flush'[m] = Idle
    <3>1. done \in Flush /\ done.step = "items"
      BY <2>1, <2>2 DEF Flush
    <3>2. givenUp \in Flush /\ givenUp.step = "items"
      BY <2>1, <2>2, <2>4 DEF Flush
    <3>3. ~(retries >= MaxRetries) => again \in Flush /\ again.step = "items"
      BY <2>1, <2>2, <2>5 DEF Flush
    <3> HIDE DEF done, givenUp, again
    <3>4. QED BY <2>6, <3>1, <3>2, <3>3, FlushType
  <2>8. booked' \subseteq Gifts /\ answered' \subseteq Gifts /\ told' \subseteq Gifts
    BY <1>3, <2>3 DEF PostItem, Answer, Throw, Good, GiftTypeOK, entry
  <2>9. QED
    BY <1>3, <2>7, <2>8 DEF PostItem, GiftTypeOK, senderVars
<1>4. CASE Exec(n)
  <2>1. flush[n] \in Flush /\ flush[n].again \in Seq(Entry) /\ flush[n].over \in Seq(Gifts)
    BY DEF GiftTypeOK, Flush
  <2>2. queue \o flush[n].again \in Seq(Entry) /\ dead \o flush[n].over \in Seq(Gifts)
    BY <2>1 DEF GiftTypeOK
  <2>3. flush' \in [Nodes -> Flush] /\ \A m \in Nodes : flush'[m].step = "idle" => flush'[m] = Idle
    BY <1>4, IdleType DEF Exec, GiftTypeOK
  <2>4. QED
    BY <1>4, <2>2, <2>3 DEF Exec, GiftTypeOK, senderVars, laravelVars
<1>5. CASE LastFlush(n)
  BY <1>5, PopType DEF LastFlush, GiftTypeOK, senderVars, laravelVars
<1>6. CASE LastFlushDone(n)
  BY <1>6 DEF LastFlushDone, GiftTypeOK, senderVars, laravelVars
<1>7. QED BY <1>1, <1>2, <1>3, <1>4, <1>5, <1>6 DEF GiftWork

LEMMA SendType ==
    ASSUME GiftTypeOK,
           (\E n \in Nodes, g \in Gifts : Send(n, g)) \/ (\E g \in Gifts : Enqueue(g))
    PROVE  GiftTypeOK'
<1> USE GiftAssumptions
<1>1. ASSUME NEW n \in Nodes, NEW g \in Gifts, Send(n, g) PROVE GiftTypeOK'
  BY <1>1 DEF Send, GiftTypeOK, laravelVars
<1>2. ASSUME NEW g \in Gifts, Enqueue(g) PROVE GiftTypeOK'
  <2>1. [gift |-> g, tries |-> 0] \in Entry
    BY DEF Entry
  <2>2. Append(queue, [gift |-> g, tries |-> 0]) \in Seq(Entry)
    BY <2>1 DEF GiftTypeOK
  <2>3. QED BY <1>2, <2>2 DEF Enqueue, GiftTypeOK, laravelVars
<1>3. QED BY <1>1, <1>2

LEMMA StopType == ASSUME GiftTypeOK, NEW n \in Nodes, Stop(n) PROVE GiftTypeOK'
  BY GiftAssumptions DEF Stop, GiftTypeOK, senderVars, laravelVars

-----------------------------------------------------------------------------
(* Sequences without repetition: entries by their gift, and gifts *)

Members(s) == {s[i] : i \in DOMAIN s}
OnceEach(entries) == \A i, j \in DOMAIN entries : entries[i].gift = entries[j].gift => i = j
Once(s) == \A i, j \in DOMAIN s : s[i] = s[j] => i = j

LEMMA GiftsOfType == ASSUME NEW s \in Seq(Entry) PROVE GiftsOf(s) \subseteq Gifts
<1>1. \A i \in DOMAIN s : s[i] \in Entry
  OBVIOUS
<1>2. QED BY <1>1 DEF GiftsOf, Entry

LEMMA NothingRepeats ==
    GiftsOf(<<>>) = {} /\ Members(<<>>) = {} /\ OnceEach(<<>>) /\ Once(<<>>)
  BY DEF GiftsOf, Members, OnceEach, Once

LEMMA AppendEntry ==
    ASSUME NEW s \in Seq(Entry), NEW e \in Entry
    PROVE  /\ GiftsOf(Append(s, e)) = GiftsOf(s) \cup {e.gift}
           /\ OnceEach(s) /\ e.gift \notin GiftsOf(s) => OnceEach(Append(s, e))
<1> DEFINE t == Append(s, e)
<1>1. /\ Len(s) \in Nat /\ DOMAIN s = 1 .. Len(s) /\ DOMAIN t = 1 .. Len(s) + 1
      /\ \A i \in DOMAIN s : t[i] = s[i]
      /\ t[Len(s) + 1] = e
  OBVIOUS
<1> HIDE DEF t
<1>2. \A i \in DOMAIN t : i \in DOMAIN s \/ i = Len(s) + 1
  BY <1>1
<1>3. GiftsOf(t) = GiftsOf(s) \cup {e.gift}
  BY <1>1, <1>2 DEF GiftsOf
<1>4. ASSUME OnceEach(s), e.gift \notin GiftsOf(s) PROVE OnceEach(t)
  BY <1>1, <1>2, <1>4 DEF GiftsOf, OnceEach
<1>5. QED BY <1>3, <1>4 DEF t

LEMMA AppendGift ==
    ASSUME NEW s \in Seq(Gifts), NEW g \in Gifts
    PROVE  /\ Members(Append(s, g)) = Members(s) \cup {g}
           /\ Once(s) /\ g \notin Members(s) => Once(Append(s, g))
<1> DEFINE t == Append(s, g)
<1>1. /\ Len(s) \in Nat /\ DOMAIN s = 1 .. Len(s) /\ DOMAIN t = 1 .. Len(s) + 1
      /\ \A i \in DOMAIN s : t[i] = s[i]
      /\ t[Len(s) + 1] = g
  OBVIOUS
<1> HIDE DEF t
<1>2. \A i \in DOMAIN t : i \in DOMAIN s \/ i = Len(s) + 1
  BY <1>1
<1>3. Members(t) = Members(s) \cup {g}
  BY <1>1, <1>2 DEF Members
<1>4. ASSUME Once(s), g \notin Members(s) PROVE Once(t)
  BY <1>1, <1>2, <1>4 DEF Members, Once
<1>5. QED BY <1>3, <1>4 DEF t

LEMMA JoinEntries ==
    ASSUME NEW s \in Seq(Entry), NEW r \in Seq(Entry)
    PROVE  /\ GiftsOf(s \o r) = GiftsOf(s) \cup GiftsOf(r)
           /\ OnceEach(s) /\ OnceEach(r) /\ GiftsOf(s) \cap GiftsOf(r) = {} => OnceEach(s \o r)
<1> DEFINE t == s \o r
<1>1. /\ Len(s) \in Nat /\ DOMAIN s = 1 .. Len(s) /\ Len(r) \in Nat /\ DOMAIN r = 1 .. Len(r)
      /\ DOMAIN t = 1 .. Len(s) + Len(r)
      /\ \A i \in DOMAIN s : t[i] = s[i]
      /\ \A i \in DOMAIN t : i > Len(s) => t[i] = r[i - Len(s)]
  OBVIOUS
<1> HIDE DEF t
<1>2. \A i \in DOMAIN t : i \in DOMAIN s \/ (i > Len(s) /\ i - Len(s) \in DOMAIN r)
  BY <1>1
<1>3. \A j \in DOMAIN r : j + Len(s) \in DOMAIN t /\ j + Len(s) > Len(s) /\ t[j + Len(s)] = r[j]
  BY <1>1
<1>4. \A i \in DOMAIN s : i \in DOMAIN t
  BY <1>1
<1>5. GiftsOf(t) = GiftsOf(s) \cup GiftsOf(r)
  BY <1>1, <1>2, <1>3, <1>4 DEF GiftsOf
<1>6. ASSUME OnceEach(s), OnceEach(r), GiftsOf(s) \cap GiftsOf(r) = {} PROVE OnceEach(t)
  <2>1. \A i \in DOMAIN s, j \in DOMAIN r : s[i].gift # r[j].gift
    BY <1>6 DEF GiftsOf
  <2>2. SUFFICES ASSUME NEW i \in DOMAIN t, NEW j \in DOMAIN t, t[i].gift = t[j].gift PROVE i = j
    BY DEF OnceEach
  <2>3. CASE i \in DOMAIN s /\ j \in DOMAIN s
    BY <1>1, <1>6, <2>2, <2>3 DEF OnceEach
  <2>4. CASE i > Len(s) /\ j > Len(s)
    BY <1>1, <1>2, <1>6, <2>2, <2>4 DEF OnceEach
  <2>5. CASE (i \in DOMAIN s) # (j \in DOMAIN s)
    BY <1>1, <1>2, <2>1, <2>2, <2>5
  <2>6. QED BY <1>1, <1>2, <2>3, <2>4, <2>5
<1>7. QED BY <1>5, <1>6 DEF t

LEMMA JoinGifts ==
    ASSUME NEW s \in Seq(Gifts), NEW r \in Seq(Gifts)
    PROVE  /\ Members(s \o r) = Members(s) \cup Members(r)
           /\ Once(s) /\ Once(r) /\ Members(s) \cap Members(r) = {} => Once(s \o r)
<1> DEFINE t == s \o r
<1>1. /\ Len(s) \in Nat /\ DOMAIN s = 1 .. Len(s) /\ Len(r) \in Nat /\ DOMAIN r = 1 .. Len(r)
      /\ DOMAIN t = 1 .. Len(s) + Len(r)
      /\ \A i \in DOMAIN s : t[i] = s[i]
      /\ \A i \in DOMAIN t : i > Len(s) => t[i] = r[i - Len(s)]
  OBVIOUS
<1> HIDE DEF t
<1>2. \A i \in DOMAIN t : i \in DOMAIN s \/ (i > Len(s) /\ i - Len(s) \in DOMAIN r)
  BY <1>1
<1>3. \A j \in DOMAIN r : j + Len(s) \in DOMAIN t /\ j + Len(s) > Len(s) /\ t[j + Len(s)] = r[j]
  BY <1>1
<1>4. \A i \in DOMAIN s : i \in DOMAIN t
  BY <1>1
<1>5. Members(t) = Members(s) \cup Members(r)
  BY <1>1, <1>2, <1>3, <1>4 DEF Members
<1>6. ASSUME Once(s), Once(r), Members(s) \cap Members(r) = {} PROVE Once(t)
  BY <1>1, <1>2, <1>6 DEF Members, Once
<1>7. QED BY <1>5, <1>6 DEF t

LEMMA SplitEntries ==
    ASSUME NEW s \in Seq(Entry), NEW k \in 0 .. Len(s), OnceEach(s)
    PROVE  LET a == SubSeq(s, 1, k) b == SubSeq(s, k + 1, Len(s)) IN
           /\ GiftsOf(a) \cup GiftsOf(b) = GiftsOf(s) /\ GiftsOf(a) \cap GiftsOf(b) = {}
           /\ OnceEach(a) /\ OnceEach(b)
<1> DEFINE a == SubSeq(s, 1, k)
           b == SubSeq(s, k + 1, Len(s))
<1>1. /\ Len(s) \in Nat /\ DOMAIN s = 1 .. Len(s) /\ k \in Nat /\ k <= Len(s)
      /\ DOMAIN a = 1 .. k /\ \A i \in DOMAIN a : a[i] = s[i]
      /\ DOMAIN b = 1 .. Len(s) - k /\ \A i \in DOMAIN b : b[i] = s[i + k]
  OBVIOUS
<1> HIDE DEF a, b
<1>2. \A i \in DOMAIN s : i \in DOMAIN a \/ (i - k \in DOMAIN b /\ b[i - k] = s[i])
  BY <1>1
<1>3. (\A i \in DOMAIN a : i \in DOMAIN s) /\ (\A i \in DOMAIN b : i + k \in DOMAIN s /\ i + k \notin DOMAIN a)
  BY <1>1
<1>4. GiftsOf(a) \cup GiftsOf(b) = GiftsOf(s)
  BY <1>1, <1>2, <1>3 DEF GiftsOf
<1>5. GiftsOf(a) \cap GiftsOf(b) = {}
  BY <1>1, <1>3 DEF GiftsOf, OnceEach
<1>6. OnceEach(a) /\ OnceEach(b)
  BY <1>1, <1>3 DEF OnceEach
<1>7. QED BY <1>4, <1>5, <1>6 DEF a, b

LEMMA FirstEntry ==
    ASSUME NEW s \in Seq(Entry), s # <<>>, OnceEach(s)
    PROVE  /\ Head(s).gift \in GiftsOf(s)
           /\ GiftsOf(Tail(s)) = GiftsOf(s) \ {Head(s).gift}
           /\ OnceEach(Tail(s))
<1> DEFINE t == Tail(s)
<1>1. /\ Len(s) \in Nat \ {0} /\ DOMAIN s = 1 .. Len(s) /\ Head(s) = s[1]
      /\ DOMAIN t = 1 .. Len(s) - 1 /\ \A i \in DOMAIN t : t[i] = s[i + 1]
  OBVIOUS
<1> HIDE DEF t
<1>2. 1 \in DOMAIN s /\ \A i \in DOMAIN s : i = 1 \/ (i - 1 \in DOMAIN t /\ t[i - 1] = s[i])
  <2>1. \A i \in DOMAIN s : i = 1 \/ (i - 1 \in DOMAIN t /\ (i - 1) + 1 = i)
    BY <1>1
  <2>2. QED BY <1>1, <2>1
<1>3. \A i \in DOMAIN t : i + 1 \in DOMAIN s /\ i + 1 # 1
  BY <1>1
<1>4. Head(s).gift \in GiftsOf(s)
  BY <1>1, <1>2 DEF GiftsOf
<1>5. GiftsOf(t) = GiftsOf(s) \ {Head(s).gift}
  <2>1. ASSUME NEW i \in DOMAIN t PROVE t[i].gift \in GiftsOf(s) /\ t[i].gift # Head(s).gift
    <3>1. i + 1 \in DOMAIN s /\ i + 1 # 1 /\ t[i] = s[i + 1]
      BY <1>1, <1>3
    <3>2. s[i + 1].gift # s[1].gift
      BY <1>2, <3>1 DEF OnceEach
    <3>3. QED BY <1>1, <3>1, <3>2 DEF GiftsOf
  <2>2. ASSUME NEW i \in DOMAIN s, s[i].gift # Head(s).gift PROVE s[i].gift \in GiftsOf(t)
    BY <1>1, <1>2, <2>2 DEF GiftsOf
  <2>3. QED BY <2>1, <2>2 DEF GiftsOf
<1>6. OnceEach(t)
  BY <1>1, <1>3 DEF OnceEach
<1>7. QED BY <1>4, <1>5, <1>6 DEF t

-----------------------------------------------------------------------------
(* The inductive invariant *)

Queued == GiftsOf(queue)
Dead == Members(dead)
Rest(n) == GiftsOf(flush[n].rest)
Again(n) == GiftsOf(flush[n].again)
Over(n) == Members(flush[n].over)

\* No gift is twice in one list, and a batch is posted before anything is sorted out.
NoRepeats ==
    /\ OnceEach(queue) /\ Once(dead)
    /\ \A n \in Nodes :
          /\ OnceEach(flush[n].rest) /\ OnceEach(flush[n].again) /\ Once(flush[n].over)
          /\ flush[n].step = "batch" => flush[n].again = <<>> /\ flush[n].over = <<>>

\* A gift that is somewhere was shown, is no longer with its sender, and is nowhere else.
Apart ==
    /\ \A g \in Gifts : g \in Queued \cup Dead => g \in shown /\ sending[g] = None
    /\ \A g \in Gifts : sending[g] # None => g \in shown
    /\ Queued \cap Dead = {}
    /\ \A n \in Nodes, g \in Gifts : g \in InFlight(n) =>
          /\ g \in shown /\ sending[g] = None /\ g \notin Queued /\ g \notin Dead
          /\ \A m \in Nodes : g \in InFlight(m) => m = n
    /\ \A n \in Nodes : Rest(n) \cap Again(n) = {} /\ Rest(n) \cap Over(n) = {} /\ Again(n) \cap Over(n) = {}

\* A gift that nobody will post any more.
Spent(g) ==
    /\ g \in shown /\ sending[g] = None /\ g \notin Queued
    /\ \A n \in Nodes : g \notin Rest(n) \cup Again(n)

\* Without lost answers, what is booked is never posted again, nor is a good gift of
\* which the sender was told that it failed.
ToldTrue ==
    "lost" \notin scenario =>
        /\ told \cap booked = {}
        /\ \A g \in booked : verdict[g] = "ok"
        /\ \A g \in Gifts : g \in booked \/ (g \in told /\ verdict[g] = "ok") => Spent(g)

\* What was shown is on its way, answered or dead; who has stopped holds nothing.
Somewhere(g) ==
    \/ sending[g] # None \/ g \in answered \/ g \in Queued \/ g \in Dead
    \/ \E n \in Nodes : g \in InFlight(n)
HeldSafely ==
    Undisturbed =>
        /\ \A g \in shown : Somewhere(g)
        /\ \A n \in Nodes : life[n] \in {"stopped", "gone"} => flush[n] = Idle

GiftInv == GiftTypeOK /\ NoRepeats /\ Apart /\ ToldTrue /\ HeldSafely

LEMMA InitInv == GiftInit => GiftInv
<1> SUFFICES ASSUME GiftInit PROVE GiftInv
  OBVIOUS
<1>1. GiftTypeOK
  <2>1. <<>> \in Seq(Entry) /\ <<>> \in Seq(Gifts)
    OBVIOUS
  <2>2. QED BY <2>1, IdleType, GiftAssumptions DEF GiftInit, GiftTypeOK
<1>2. /\ Queued = {} /\ Dead = {}
      /\ \A n \in Nodes : Rest(n) = {} /\ Again(n) = {} /\ Over(n) = {} /\ InFlight(n) = {}
  BY NothingRepeats DEF GiftInit, Queued, Dead, Rest, Again, Over, InFlight, Idle, Members
<1>3. NoRepeats
  BY NothingRepeats DEF GiftInit, NoRepeats, Idle
<1>4. Apart
  BY <1>2 DEF GiftInit, Apart
<1>5. ToldTrue /\ HeldSafely
  BY DEF GiftInit, ToldTrue, HeldSafely
<1>6. QED BY <1>1, <1>3, <1>4, <1>5 DEF GiftInv

\* What is where, as sets.
LEMMA Sets ==
    ASSUME GiftTypeOK
    PROVE  /\ queue \in Seq(Entry) /\ dead \in Seq(Gifts) /\ Queued \subseteq Gifts /\ Dead \subseteq Gifts
           /\ \A n \in Nodes :
                 /\ flush[n] \in Flush
                 /\ flush[n].rest \in Seq(Entry) /\ flush[n].again \in Seq(Entry)
                 /\ flush[n].over \in Seq(Gifts)
                 /\ InFlight(n) = Rest(n) \cup Again(n) \cup Over(n)
                 /\ Rest(n) \subseteq Gifts /\ Again(n) \subseteq Gifts /\ Over(n) \subseteq Gifts
                 /\ flush[n] = Idle =>
                       Rest(n) = {} /\ Again(n) = {} /\ Over(n) = {} /\ InFlight(n) = {}
<1>1. queue \in Seq(Entry) /\ dead \in Seq(Gifts) /\ Queued \subseteq Gifts
  BY GiftsOfType DEF GiftTypeOK, Queued
<1>2. Dead \subseteq Gifts
  BY <1>1 DEF Dead, Members
<1>3. ASSUME NEW n \in Nodes
      PROVE  /\ flush[n] \in Flush
             /\ flush[n].rest \in Seq(Entry) /\ flush[n].again \in Seq(Entry)
             /\ flush[n].over \in Seq(Gifts)
  BY DEF GiftTypeOK, Flush
<1>4. ASSUME NEW n \in Nodes
      PROVE  InFlight(n) = Rest(n) \cup Again(n) \cup Over(n)
  BY DEF InFlight, Rest, Again, Over, Members
<1>5. ASSUME NEW n \in Nodes
      PROVE  Rest(n) \subseteq Gifts /\ Again(n) \subseteq Gifts /\ Over(n) \subseteq Gifts
  BY <1>3, GiftsOfType DEF Rest, Again, Over, Members
<1>6. ASSUME NEW n \in Nodes, flush[n] = Idle
      PROVE  Rest(n) = {} /\ Again(n) = {} /\ Over(n) = {} /\ InFlight(n) = {}
  <2>1. Rest(n) = {} /\ Again(n) = {} /\ Over(n) = {}
    BY <1>6, NothingRepeats DEF Idle, Rest, Again, Over
  <2>2. QED BY <1>4, <2>1
<1>7. QED BY <1>1, <1>2, <1>3, <1>4, <1>5, <1>6

\* An instance whose flush does not change holds what it held.
LEMMA SameFlush ==
    ASSUME NEW n \in Nodes, flush'[n] = flush[n]
    PROVE  /\ Rest(n)' = Rest(n) /\ Again(n)' = Again(n) /\ Over(n)' = Over(n)
           /\ InFlight(n)' = InFlight(n)
  BY DEF Rest, Again, Over, InFlight

LEMMA SendKeeps == ASSUME GiftInv, NEW n \in Nodes, NEW g \in Gifts, Send(n, g) PROVE GiftInv'
<1>1. GiftTypeOK'
  BY SendType DEF GiftInv
<1>2. /\ Queued' = Queued /\ Dead' = Dead
      /\ \A m \in Nodes : flush'[m] = flush[m]
      /\ UNCHANGED <<queue, dead, flush, life, laravelVars, answered, told, scenario>>
  BY DEF Send, Queued, Dead
<1>3. \A m \in Nodes : /\ Rest(m)' = Rest(m) /\ Again(m)' = Again(m) /\ Over(m)' = Over(m)
                       /\ InFlight(m)' = InFlight(m)
  BY <1>2, SameFlush
<1>4. /\ g \notin shown /\ shown' = shown \cup {g}
      /\ sending'[g] = n /\ \A h \in Gifts : h # g => sending'[h] = sending[h]
  BY DEF Send, GiftInv, GiftTypeOK
<1>5. NoRepeats'
  BY <1>2 DEF GiftInv, NoRepeats
<1>6. Apart'
  BY <1>2, <1>3, <1>4 DEF GiftInv, Apart
<1>7. ToldTrue'
  BY <1>2, <1>3, <1>4 DEF GiftInv, ToldTrue, Spent, laravelVars
<1>8. HeldSafely'
  BY <1>2, <1>3, <1>4, GiftAssumptions DEF GiftInv, HeldSafely, Somewhere, Undisturbed, GiftTypeOK
<1>9. QED BY <1>1, <1>5, <1>6, <1>7, <1>8 DEF GiftInv

LEMMA EnqueueKeeps == ASSUME GiftInv, NEW g \in Gifts, Enqueue(g) PROVE GiftInv'
<1> DEFINE entry == [gift |-> g, tries |-> 0]
<1>1. GiftTypeOK'
  BY SendType DEF GiftInv
<1>2. /\ Dead' = Dead
      /\ \A m \in Nodes : flush'[m] = flush[m]
      /\ UNCHANGED <<dead, flush, life, laravelVars, answered, told, scenario, shown>>
  BY DEF Enqueue, Dead
<1>3. \A m \in Nodes : /\ Rest(m)' = Rest(m) /\ Again(m)' = Again(m) /\ Over(m)' = Over(m)
                       /\ InFlight(m)' = InFlight(m)
  BY <1>2, SameFlush
<1>4. /\ sending[g] # None /\ sending'[g] = None
      /\ \A h \in Gifts : h # g => sending'[h] = sending[h]
  BY DEF Enqueue, GiftInv, GiftTypeOK
<1>5. /\ g \in shown /\ g \notin Queued /\ g \notin Dead
      /\ \A m \in Nodes : g \notin InFlight(m)
  BY <1>4 DEF GiftInv, Apart
<1>6. /\ OnceEach(queue)'
      /\ Queued' = Queued \/ Queued' = Queued \cup {g}
      /\ Undisturbed => Queued' = Queued \cup {g}
  <2>1. entry \in Entry /\ entry.gift = g /\ queue \in Seq(Entry) /\ OnceEach(queue)
    BY GiftAssumptions DEF Entry, GiftInv, GiftTypeOK, NoRepeats
  <2>2. queue' = Append(queue, entry) \/ ("redis" \in scenario /\ queue' = queue)
    BY DEF Enqueue
  <2> HIDE DEF entry
  <2>3. CASE queue' = Append(queue, entry)
    BY <1>5, <2>1, <2>3, AppendEntry DEF Queued
  <2>4. CASE "redis" \in scenario /\ queue' = queue
    BY <2>1, <2>4 DEF Queued, Undisturbed
  <2>5. QED BY <2>2, <2>3, <2>4
<1>7. NoRepeats'
  BY <1>2, <1>6 DEF GiftInv, NoRepeats
<1>8. Apart'
  BY <1>2, <1>3, <1>4, <1>5, <1>6 DEF GiftInv, Apart
<1>9. ToldTrue'
  <2>1. \A h \in Gifts : Spent(h) => Spent(h)'
    BY <1>2, <1>3, <1>4, <1>6 DEF Spent
  <2>2. QED BY <1>2, <2>1 DEF GiftInv, ToldTrue, laravelVars
<1>10. HeldSafely'
  <2>1. ASSUME Undisturbed, NEW h \in shown PROVE Somewhere(h)'
    BY <1>2, <1>3, <1>4, <1>6, <2>1 DEF GiftInv, HeldSafely, Somewhere, GiftTypeOK
  <2>2. QED BY <1>2, <2>1 DEF GiftInv, HeldSafely, Undisturbed
<1>11. QED BY <1>1, <1>7, <1>8, <1>9, <1>10 DEF GiftInv

\* A pop moves the head of the list into a flush that held nothing, or loses it.
LEMMA PopKeeps ==
    ASSUME GiftInv, NEW n \in Nodes, Pop(n),
           UNCHANGED <<senderVars, dead, exits, laravelVars, answered, told, scenario>>
    PROVE  /\ NoRepeats' /\ Apart' /\ ToldTrue'
           /\ Undisturbed => \A g \in shown : Somewhere(g)'
           /\ \A m \in Nodes : m # n => flush'[m] = flush[m]
<1> DEFINE f == [Idle EXCEPT !.step = "batch", !.rest = Popped]
<1>1. /\ GiftTypeOK /\ flush[n] = Idle /\ queue \in Seq(Entry) /\ OnceEach(queue)
      /\ queue' = Remaining /\ Dead' = Dead
  BY DEF GiftInv, GiftTypeOK, NoRepeats, Pop, Dead
<1>2. /\ GiftsOf(Popped) \cup GiftsOf(Remaining) = Queued
      /\ GiftsOf(Popped) \cap GiftsOf(Remaining) = {}
      /\ OnceEach(Popped) /\ OnceEach(Remaining)
  <2> DEFINE k == IF Len(queue) < BatchSize THEN Len(queue) ELSE BatchSize
  <2>1. k \in 0 .. Len(queue) /\ Popped = SubSeq(queue, 1, k)
    BY <1>1, GiftAssumptions DEF Popped
  <2>2. Len(Popped) = k
    BY <1>1, <2>1
  <2>3. Remaining = SubSeq(queue, k + 1, Len(queue))
    BY <2>2 DEF Remaining
  <2> HIDE DEF k
  <2>4. QED BY <1>1, <2>1, <2>3, SplitEntries DEF Queued
<1>3. Queued' = GiftsOf(Remaining) /\ OnceEach(queue)'
  BY <1>1, <1>2 DEF Queued
<1>4. \A m \in Nodes : m # n => flush'[m] = flush[m]
  BY <1>1 DEF Pop, GiftTypeOK
<1>5. \A m \in Nodes : m # n =>
         /\ Rest(m)' = Rest(m) /\ Again(m)' = Again(m) /\ Over(m)' = Over(m) /\ InFlight(m)' = InFlight(m)
  BY <1>4, SameFlush
<1>6. Rest(n) = {} /\ Again(n) = {} /\ Over(n) = {} /\ InFlight(n) = {}
  BY <1>1, Sets
<1>7. \/ flush'[n] = f
      \/ flush' = flush /\ "redis" \in scenario
  BY DEF Pop, GiftInv, GiftTypeOK
<1>8. /\ Rest(n)' \subseteq GiftsOf(Popped) /\ (Undisturbed => Rest(n)' = GiftsOf(Popped))
      /\ Again(n)' = {} /\ Over(n)' = {} /\ InFlight(n)' = Rest(n)'
      /\ OnceEach(flush'[n].rest) /\ flush'[n].again = <<>> /\ flush'[n].over = <<>>
  <2>1. CASE flush'[n] = f
    <3>1. flush'[n].rest = Popped /\ flush'[n].again = <<>> /\ flush'[n].over = <<>>
      BY <2>1 DEF Idle
    <3>2. Rest(n)' = GiftsOf(Popped) /\ Again(n)' = {} /\ Over(n)' = {}
      BY <3>1, NothingRepeats DEF Rest, Again, Over
    <3>3. InFlight(n)' = Rest(n)'
      BY <3>1, <3>2, NothingRepeats DEF InFlight, Members, Rest, Again, Over
    <3>4. QED BY <1>2, <3>1, <3>2, <3>3
  <2>2. CASE flush' = flush /\ "redis" \in scenario
    <3>1. /\ Rest(n)' = {} /\ Again(n)' = {} /\ Over(n)' = {} /\ InFlight(n)' = {}
      BY <1>6, <2>2, SameFlush
    <3>2. flush'[n].rest = <<>> /\ flush'[n].again = <<>> /\ flush'[n].over = <<>>
      BY <1>1, <2>2 DEF Idle
    <3>3. QED BY <2>2, <3>1, <3>2, NothingRepeats DEF Undisturbed
  <2>3. QED BY <1>7, <2>1, <2>2
<1>9. /\ \A g \in Rest(n)' : g \in Queued /\ g \notin Queued'
      /\ Queued' \subseteq Queued
  BY <1>2, <1>3, <1>8
<1>10. UNCHANGED <<sending, shown, verdict, booked, answered, told, scenario, dead>>
  BY DEF senderVars, laravelVars
<1> HIDE DEF f
<1>11. NoRepeats'
  <2>1. ASSUME NEW m \in Nodes
        PROVE  /\ OnceEach(flush'[m].rest) /\ OnceEach(flush'[m].again) /\ Once(flush'[m].over)
               /\ flush'[m].step = "batch" => flush'[m].again = <<>> /\ flush'[m].over = <<>>
    BY <1>4, <1>8, NothingRepeats DEF GiftInv, NoRepeats
  <2>2. QED BY <1>3, <1>10, <2>1 DEF GiftInv, NoRepeats
<1>12. Apart'
  <2>1. ASSUME NEW m \in Nodes, NEW g \in Gifts, g \in InFlight(m)'
        PROVE  /\ g \in shown' /\ sending'[g] = None /\ g \notin Queued' /\ g \notin Dead'
               /\ \A l \in Nodes : g \in InFlight(l)' => l = m
    <3>1. CASE m = n
      BY <1>1, <1>5, <1>8, <1>9, <1>10, <2>1, <3>1 DEF GiftInv, Apart
    <3>2. CASE m # n
      BY <1>1, <1>5, <1>8, <1>9, <1>10, <2>1, <3>2 DEF GiftInv, Apart
    <3>3. QED BY <3>1, <3>2
  <2>2. ASSUME NEW m \in Nodes
        PROVE  Rest(m)' \cap Again(m)' = {} /\ Rest(m)' \cap Over(m)' = {} /\ Again(m)' \cap Over(m)' = {}
    BY <1>5, <1>8 DEF GiftInv, Apart
  <2>3. QED BY <1>1, <1>9, <1>10, <2>1, <2>2 DEF GiftInv, Apart
<1>13. ToldTrue'
  <2>1. ASSUME NEW g \in Gifts, Spent(g) PROVE Spent(g)'
    BY <1>5, <1>8, <1>9, <1>10, <2>1 DEF Spent
  <2>2. QED BY <1>10, <2>1 DEF GiftInv, ToldTrue
<1>14. ASSUME Undisturbed, NEW g \in shown PROVE Somewhere(g)'
  <2>1. CASE g \in Queued
    BY <1>2, <1>3, <1>8, <1>14, <2>1 DEF Somewhere
  <2>2. CASE g \notin Queued
    <3>1. sending[g] # None \/ g \in answered \/ g \in Dead \/ \E m \in Nodes \ {n} : g \in InFlight(m)
      BY <1>6, <1>14, <2>2 DEF GiftInv, HeldSafely, Somewhere
    <3>2. QED BY <1>1, <1>5, <1>10, <3>1 DEF Somewhere
  <2>3. QED BY <2>1, <2>2
<1>15. QED BY <1>4, <1>11, <1>12, <1>13, <1>14

\* Steps that only change whether an instance runs.
LEMMA LifeKeeps ==
    ASSUME GiftInv, GiftTypeOK', NEW n \in Nodes,
           UNCHANGED <<senderVars, queue, dead, flush, laravelVars, answered, told, scenario>>,
           \A m \in Nodes : m # n => life'[m] = life[m],
           Undisturbed /\ life'[n] \in {"stopped", "gone"} => flush[n] = Idle
    PROVE  GiftInv'
<1>1. UNCHANGED <<sending, shown, queue, dead, flush, verdict, booked, answered, told, scenario>>
  BY DEF senderVars, laravelVars
<1>2. /\ Queued' = Queued /\ Dead' = Dead
      /\ \A m \in Nodes : /\ Rest(m)' = Rest(m) /\ Again(m)' = Again(m) /\ Over(m)' = Over(m)
                          /\ InFlight(m)' = InFlight(m)
  BY <1>1, SameFlush DEF Queued, Dead
<1>3. NoRepeats' /\ Apart' /\ ToldTrue'
  BY <1>1, <1>2 DEF GiftInv, NoRepeats, Apart, ToldTrue, Spent
<1>4. HeldSafely'
  <2>1. ASSUME Undisturbed, NEW m \in Nodes, life'[m] \in {"stopped", "gone"} PROVE flush'[m] = Idle
    BY <1>1, <2>1 DEF GiftInv, HeldSafely
  <2>2. ASSUME Undisturbed, NEW g \in shown PROVE Somewhere(g)'
    BY <1>1, <1>2, <2>2 DEF GiftInv, HeldSafely, Somewhere
  <2>3. QED BY <1>1, <2>1, <2>2 DEF HeldSafely, Undisturbed
<1>5. QED BY <1>3, <1>4 DEF GiftInv

LEMMA TickKeeps == ASSUME GiftInv, NEW n \in Nodes, Tick(n) PROVE GiftInv'
<1>1. GiftTypeOK'
  BY GiftWorkType DEF GiftWork, GiftInv
<1>2. /\ NoRepeats' /\ Apart' /\ ToldTrue'
      /\ Undisturbed => \A g \in shown : Somewhere(g)'
      /\ \A m \in Nodes : m # n => flush'[m] = flush[m]
  BY PopKeeps DEF Tick
<1>3. HeldSafely'
  BY <1>2 DEF Tick, GiftInv, HeldSafely, Undisturbed, senderVars
<1>4. QED BY <1>1, <1>2, <1>3 DEF GiftInv

LEMMA LastFlushKeeps ==
    ASSUME GiftInv, NEW n \in Nodes, LastFlush(n) \/ LastFlushDone(n) PROVE GiftInv'
<1>1. GiftTypeOK'
  BY GiftWorkType DEF GiftWork, GiftInv
<1>2. life \in [Nodes -> {"up", "waiting", "last", "stopped", "gone"}]
  BY DEF GiftInv, GiftTypeOK
<1>3. CASE LastFlush(n) /\ Pop(n) /\ life' = [life EXCEPT ![n] = "last"]
  <2>1. /\ NoRepeats' /\ Apart' /\ ToldTrue'
        /\ Undisturbed => \A g \in shown : Somewhere(g)'
        /\ \A m \in Nodes : m # n => flush'[m] = flush[m]
    BY <1>3, PopKeeps DEF LastFlush
  <2>2. HeldSafely'
    BY <1>2, <1>3, <2>1 DEF LastFlush, GiftInv, HeldSafely, Undisturbed, senderVars
  <2>3. QED BY <1>1, <2>1, <2>2 DEF GiftInv
<1>4. CASE LastFlush(n) /\ life' = [life EXCEPT ![n] = "stopped"] /\ UNCHANGED <<queue, flush>>
  <2>1. Undisturbed => flush[n] = Idle
    BY <1>4 DEF LastFlush, DoneWaiting, Undisturbed
  <2>2. QED BY <1>1, <1>2, <1>4, <2>1, LifeKeeps DEF LastFlush
<1>5. CASE LastFlushDone(n)
  BY <1>1, <1>2, <1>5, LifeKeeps DEF LastFlushDone
<1>6. QED BY <1>3, <1>4, <1>5 DEF LastFlush

\* What a post that was answered or that threw does to what Laravel has booked and to
\* what the sender was told, without lost answers.
LEMMA PostKeeps ==
    ASSUME GiftInv, NEW gs, gs \subseteq Gifts,
           \A g \in gs : ~Spent(g),
           \A g \in Gifts : Spent(g) => Spent(g)',
           UNCHANGED <<verdict, scenario>>,
           \/ Answer(gs) /\ \A g \in gs : Spent(g)'
           \/ /\ Throw(gs)
              /\ told' \subseteq told \cup gs /\ \A g \in Gifts : g \in told' \ told => Spent(g)'
    PROVE  ToldTrue'
<1> SUFFICES ASSUME "lost" \notin scenario PROVE ToldTrue'
  BY DEF ToldTrue
<1>1. /\ told \cap booked = {} /\ \A g \in booked : verdict[g] = "ok"
      /\ \A g \in Gifts : g \in booked \/ (g \in told /\ verdict[g] = "ok") => Spent(g)
      /\ booked \subseteq Gifts /\ told \subseteq Gifts
  BY DEF GiftInv, ToldTrue, GiftTypeOK
<1>2. CASE Answer(gs) /\ \A g \in gs : Spent(g)'
  <2>1. booked' = booked \cup Good(gs) /\ told' = told \cup (gs \ Good(gs))
    BY <1>2 DEF Answer
  <2>2. \A g \in gs : g \in Good(gs) <=> verdict[g] = "ok"
    BY DEF Good
  <2>3. Good(gs) \subseteq gs
    BY DEF Good
  <2>4. told' \cap booked' = {}
    BY <1>1, <2>1, <2>2, <2>3
  <2>5. \A g \in booked' : verdict'[g] = "ok"
    BY <1>1, <2>1, <2>2, <2>3
  <2>6. \A g \in Gifts : g \in booked' \/ (g \in told' /\ verdict'[g] = "ok") => Spent(g)'
    BY <1>1, <1>2, <2>1, <2>2, <2>3
  <2>7. QED BY <2>4, <2>5, <2>6 DEF ToldTrue
<1>3. CASE /\ Throw(gs)
           /\ told' \subseteq told \cup gs /\ \A g \in Gifts : g \in told' \ told => Spent(g)'
  <2>1. booked' = booked
    BY <1>3 DEF Throw
  <2>2. told' \cap booked' = {}
    BY <1>1, <1>3, <2>1
  <2>3. QED BY <1>1, <1>3, <2>1, <2>2 DEF ToldTrue
<1>4. QED BY <1>2, <1>3

LEMMA PostBatchKeeps == ASSUME GiftInv, NEW n \in Nodes, PostBatch(n) PROVE GiftInv'
<1> DEFINE gs == GiftsOf(flush[n].rest)
           f == [flush[n] EXCEPT !.step = "items"]
<1>1. GiftTypeOK' /\ GiftTypeOK
  BY GiftWorkType DEF GiftWork, GiftInv
<1>2. /\ UNCHANGED <<sending, shown, queue, dead, life, exits, verdict, scenario>>
      /\ Queued' = Queued /\ Dead' = Dead /\ flush[n].step = "batch"
  BY DEF PostBatch, senderVars, Queued, Dead
<1>3. \A m \in Nodes : m # n => flush'[m] = flush[m]
  BY <1>1 DEF PostBatch, GiftTypeOK
<1>4. \A m \in Nodes : m # n =>
         /\ Rest(m)' = Rest(m) /\ Again(m)' = Again(m) /\ Over(m)' = Over(m) /\ InFlight(m)' = InFlight(m)
  BY <1>3, SameFlush
<1>5. /\ gs = Rest(n) /\ gs \subseteq Gifts
      /\ Again(n) = {} /\ Over(n) = {} /\ InFlight(n) = gs
  <2>1. flush[n].again = <<>> /\ flush[n].over = <<>>
    BY <1>2 DEF GiftInv, NoRepeats
  <2>2. Again(n) = {} /\ Over(n) = {}
    BY <2>1, NothingRepeats DEF Again, Over
  <2>3. QED BY <1>1, <2>2, Sets DEF Rest
<1>6. \A g \in gs : ~Spent(g)
  BY <1>5 DEF Spent
<1>7. CASE Answer(gs) /\ flush' = [flush EXCEPT ![n] = Idle]
  <2>1. flush'[n] = Idle
    BY <1>1, <1>7 DEF GiftTypeOK
  <2>2. Rest(n)' = {} /\ Again(n)' = {} /\ Over(n)' = {} /\ InFlight(n)' = {}
    BY <2>1, NothingRepeats DEF Idle, Rest, Again, Over, InFlight, Members
  <2>3. NoRepeats'
    <3>1. OnceEach(flush'[n].rest) /\ OnceEach(flush'[n].again) /\ Once(flush'[n].over)
          /\ flush'[n].step # "batch"
      BY <2>1, NothingRepeats DEF Idle
    <3>2. QED BY <1>2, <1>3, <3>1 DEF GiftInv, NoRepeats
  <2>4. Apart'
    BY <1>2, <1>4, <2>2 DEF GiftInv, Apart
  <2>5. \A g \in Gifts : Spent(g) => Spent(g)'
    BY <1>2, <1>4, <2>2 DEF Spent
  <2>6. \A g \in gs : Spent(g)'
    BY <1>2, <1>4, <1>5, <2>2, Sets, <1>1 DEF GiftInv, Apart, Spent
  <2>7. ToldTrue'
    BY <1>2, <1>5, <1>6, <1>7, <2>5, <2>6, PostKeeps
  <2>8. ASSUME Undisturbed, NEW g \in shown PROVE Somewhere(g)'
    <3>1. CASE g \in gs
      BY <1>7, <3>1 DEF Answer, Somewhere
    <3>2. CASE g \notin gs
      <4>1. \/ sending[g] # None \/ g \in answered \/ g \in Queued \/ g \in Dead
            \/ \E m \in Nodes \ {n} : g \in InFlight(m)
        BY <1>5, <2>8, <3>2 DEF GiftInv, HeldSafely, Somewhere
      <4>2. answered \subseteq answered'
        BY <1>7 DEF Answer
      <4>3. QED BY <1>2, <1>4, <4>1, <4>2 DEF Somewhere
    <3>3. QED BY <3>1, <3>2
  <2>9. HeldSafely'
    BY <1>2, <1>3, <2>1, <2>8 DEF GiftInv, HeldSafely, Undisturbed
  <2>10. QED BY <1>1, <2>3, <2>4, <2>7, <2>9 DEF GiftInv
<1>8. CASE Throw(gs) /\ flush' = [flush EXCEPT ![n].step = "items"] /\ UNCHANGED told
  <2>1. /\ flush'[n].rest = flush[n].rest /\ flush'[n].again = flush[n].again
        /\ flush'[n].over = flush[n].over /\ flush'[n].step = "items"
    BY <1>1, <1>8 DEF GiftTypeOK, Flush
  <2>2. Rest(n)' = Rest(n) /\ Again(n)' = Again(n) /\ Over(n)' = Over(n) /\ InFlight(n)' = InFlight(n)
    BY <2>1 DEF Rest, Again, Over, InFlight
  <2>3. NoRepeats'
    BY <1>2, <1>3, <2>1 DEF GiftInv, NoRepeats
  <2>4. \A m \in Nodes :
           /\ Rest(m)' = Rest(m) /\ Again(m)' = Again(m) /\ Over(m)' = Over(m) /\ InFlight(m)' = InFlight(m)
    BY <1>4, <2>2
  <2>5. Apart'
    BY <1>2, <2>4 DEF GiftInv, Apart
  <2>6. \A g \in Gifts : Spent(g) => Spent(g)'
    BY <1>2, <2>4 DEF Spent
  <2>7. ToldTrue'
    BY <1>2, <1>5, <1>6, <1>8, <2>6, PostKeeps
  <2>8. HeldSafely'
    <3>1. flush[n] # Idle
      BY <1>2 DEF Idle
    <3>2. ASSUME Undisturbed, NEW g \in shown PROVE Somewhere(g)'
      BY <1>2, <1>8, <2>4, <3>2 DEF GiftInv, HeldSafely, Somewhere, Throw
    <3>3. ASSUME Undisturbed, NEW m \in Nodes, life'[m] \in {"stopped", "gone"} PROVE flush'[m] = Idle
      BY <1>2, <1>3, <3>1, <3>3 DEF GiftInv, HeldSafely
    <3>4. QED BY <1>2, <3>2, <3>3 DEF HeldSafely, Undisturbed
  <2>9. QED BY <1>1, <2>3, <2>5, <2>7, <2>8 DEF GiftInv
<1>9. QED BY <1>7, <1>8 DEF PostBatch

\* A gift posted alone leaves the rest of its flush: it is answered, is to be tried
\* again, or is given up.
LEMMA PostItemKeeps == ASSUME GiftInv, NEW n \in Nodes, PostItem(n) PROVE GiftInv'
<1>0. PICK g : g = Head(flush[n].rest).gift
  OBVIOUS
<1> DEFINE entry == Head(flush[n].rest)
           rest == Tail(flush[n].rest)
           retries == RetriesAfter(entry)
           anew == [gift |-> g, tries |-> retries]
<1>1. GiftTypeOK' /\ GiftTypeOK
  BY GiftWorkType DEF GiftWork, GiftInv
<1>2. /\ UNCHANGED <<sending, shown, queue, dead, life, exits, verdict, scenario>>
      /\ Queued' = Queued /\ Dead' = Dead /\ flush[n].step = "items" /\ flush[n].rest # <<>>
  BY DEF PostItem, senderVars, Queued, Dead
<1>3. \A m \in Nodes : m # n => flush'[m] = flush[m]
  BY <1>1 DEF PostItem, GiftTypeOK
<1>4. \A m \in Nodes : m # n =>
         /\ Rest(m)' = Rest(m) /\ Again(m)' = Again(m) /\ Over(m)' = Over(m) /\ InFlight(m)' = InFlight(m)
  BY <1>3, SameFlush
<1>5. /\ flush[n].rest \in Seq(Entry) /\ flush[n].again \in Seq(Entry) /\ flush[n].over \in Seq(Gifts)
      /\ OnceEach(flush[n].rest) /\ OnceEach(flush[n].again) /\ Once(flush[n].over)
      /\ InFlight(n) = Rest(n) \cup Again(n) \cup Over(n)
      /\ Rest(n) \subseteq Gifts /\ Again(n) \subseteq Gifts /\ Over(n) \subseteq Gifts
  BY <1>1, Sets DEF GiftInv, NoRepeats
<1>6. g \in Rest(n) /\ g \in Gifts /\ GiftsOf(rest) = Rest(n) \ {g} /\ OnceEach(rest)
  BY <1>0, <1>2, <1>5, FirstEntry DEF Rest
<1>7. g \notin Again(n) /\ g \notin Over(n)
  BY <1>6 DEF GiftInv, Apart
<1>8. ~Spent(g)
  BY <1>6 DEF Spent
\* Where the gift goes, by the three outcomes of the post.
<1>9. \/ Answer({g}) /\ flush' = [flush EXCEPT ![n].rest = rest]
      \/ /\ Throw({g}) /\ told' \subseteq told \cup {g} /\ retries >= MaxRetries
         /\ flush' = [flush EXCEPT ![n].rest = rest, ![n].over = Append(@, g)]
      \/ /\ Throw({g}) /\ told' = told /\ ~(retries >= MaxRetries)
         /\ flush' = [flush EXCEPT ![n].rest = rest, ![n].again = Append(@, anew)]
  BY <1>0 DEF PostItem, Notifies
<1>10. ~(retries >= MaxRetries) => anew \in Entry /\ anew.gift = g
  <2>1. entry \in Entry
    BY <1>2, <1>5
  <2>2. retries \in Nat
    BY <2>1 DEF Entry, RetriesAfter
  <2> HIDE DEF retries
  <2>3. QED BY <1>6, <2>2, GiftAssumptions DEF Entry
<1>11. /\ Rest(n)' = Rest(n) \ {g} /\ OnceEach(flush'[n].rest)
       /\ OnceEach(flush'[n].again) /\ Once(flush'[n].over) /\ flush'[n].step = "items"
       /\ \/ Answer({g}) /\ Again(n)' = Again(n) /\ Over(n)' = Over(n)
          \/ /\ Throw({g}) /\ told' \subseteq told \cup {g}
             /\ Again(n)' = Again(n) /\ Over(n)' = Over(n) \cup {g}
          \/ /\ Throw({g}) /\ told' = told
             /\ Again(n)' = Again(n) \cup {g} /\ Over(n)' = Over(n)
  <2> HIDE DEF rest, retries, anew
  <2>1. CASE Answer({g}) /\ flush' = [flush EXCEPT ![n].rest = rest]
    <3>1. /\ flush'[n].rest = rest /\ flush'[n].again = flush[n].again
          /\ flush'[n].over = flush[n].over /\ flush'[n].step = "items"
      BY <1>1, <1>2, <2>1 DEF GiftTypeOK, Flush
    <3>2. QED BY <1>5, <1>6, <2>1, <3>1 DEF Rest, Again, Over
  <2>2. CASE /\ Throw({g}) /\ told' \subseteq told \cup {g} /\ retries >= MaxRetries
             /\ flush' = [flush EXCEPT ![n].rest = rest, ![n].over = Append(@, g)]
    <3>1. /\ flush'[n].rest = rest /\ flush'[n].again = flush[n].again
          /\ flush'[n].over = Append(flush[n].over, g) /\ flush'[n].step = "items"
      BY <1>1, <1>2, <2>2 DEF GiftTypeOK, Flush
    <3>2. /\ Members(Append(flush[n].over, g)) = Members(flush[n].over) \cup {g}
          /\ Once(Append(flush[n].over, g))
      BY <1>5, <1>6, <1>7, AppendGift DEF Over
    <3>3. QED BY <1>5, <1>6, <2>2, <3>1, <3>2 DEF Rest, Again, Over
  <2>3. CASE /\ Throw({g}) /\ told' = told /\ ~(retries >= MaxRetries)
             /\ flush' = [flush EXCEPT ![n].rest = rest, ![n].again = Append(@, anew)]
    <3>1. /\ flush'[n].rest = rest /\ flush'[n].again = Append(flush[n].again, anew)
          /\ flush'[n].over = flush[n].over /\ flush'[n].step = "items"
      BY <1>1, <1>2, <2>3 DEF GiftTypeOK, Flush
    <3>2. anew \in Entry /\ anew.gift = g
      BY <1>10, <2>3
    <3>3. /\ GiftsOf(Append(flush[n].again, anew)) = GiftsOf(flush[n].again) \cup {g}
          /\ OnceEach(Append(flush[n].again, anew))
      BY <1>5, <1>7, <3>2, AppendEntry DEF Again
    <3>4. QED BY <1>5, <1>6, <2>3, <3>1, <3>3 DEF Rest, Again, Over
  <2>4. QED BY <1>9, <2>1, <2>2, <2>3
<1>12. /\ InFlight(n)' = Rest(n)' \cup Again(n)' \cup Over(n)' /\ InFlight(n)' \subseteq InFlight(n)
       /\ Rest(n)' \cap Again(n)' = {} /\ Rest(n)' \cap Over(n)' = {} /\ Again(n)' \cap Over(n)' = {}
  <2>1. InFlight(n)' = Rest(n)' \cup Again(n)' \cup Over(n)'
    BY DEF InFlight, Rest, Again, Over, Members
  <2>2. Rest(n) \cap Again(n) = {} /\ Rest(n) \cap Over(n) = {} /\ Again(n) \cap Over(n) = {}
    BY DEF GiftInv, Apart
  <2>3. QED BY <1>5, <1>6, <1>7, <1>11, <2>1, <2>2
<1>13. NoRepeats'
  BY <1>2, <1>3, <1>11 DEF GiftInv, NoRepeats
<1>14. Apart'
  BY <1>2, <1>4, <1>12 DEF GiftInv, Apart
<1>15. \A h \in Gifts : Spent(h) => Spent(h)'
  BY <1>2, <1>4, <1>8, <1>11 DEF Spent
<1>16. g \notin Again(n)' => Spent(g)'
  <2>1. g \in InFlight(n)
    BY <1>5, <1>6
  <2>2. /\ g \in shown /\ sending[g] = None /\ g \notin Queued
        /\ \A m \in Nodes : m # n => g \notin InFlight(m)
    BY <1>6, <2>1 DEF GiftInv, Apart
  <2>3. \A m \in Nodes : m # n => g \notin Rest(m) \cup Again(m)
    BY <1>1, <2>2, Sets
  <2>4. QED BY <1>2, <1>4, <1>11, <2>2, <2>3 DEF Spent
<1>17. ToldTrue'
  <2>1. {g} \subseteq Gifts /\ \A h \in {g} : ~Spent(h)
    BY <1>6, <1>8
  <2>2. \/ Answer({g}) /\ \A h \in {g} : Spent(h)'
        \/ /\ Throw({g})
           /\ told' \subseteq told \cup {g} /\ \A h \in Gifts : h \in told' \ told => Spent(h)'
    BY <1>7, <1>11, <1>16
  <2>3. QED BY <1>2, <1>15, <2>1, <2>2, PostKeeps
<1>18. HeldSafely'
  <2>1. ASSUME Undisturbed, NEW h \in shown PROVE Somewhere(h)'
    <3>1. answered \subseteq answered' /\ (Answer({g}) => g \in answered')
      BY <1>11 DEF Answer, Throw
    <3>2. CASE h \in InFlight(n)
      BY <1>5, <1>11, <1>12, <3>1, <3>2 DEF Somewhere
    <3>3. CASE h \notin InFlight(n)
      <4>1. \/ sending[h] # None \/ h \in answered \/ h \in Queued \/ h \in Dead
            \/ \E m \in Nodes \ {n} : h \in InFlight(m)
        BY <2>1, <3>3 DEF GiftInv, HeldSafely, Somewhere
      <4>2. QED BY <1>2, <1>4, <3>1, <4>1 DEF Somewhere
    <3>4. QED BY <3>2, <3>3
  <2>2. flush[n] # Idle
    BY <1>2 DEF Idle
  <2>3. ASSUME Undisturbed, NEW m \in Nodes, life'[m] \in {"stopped", "gone"} PROVE flush'[m] = Idle
    BY <1>2, <1>3, <2>2, <2>3 DEF GiftInv, HeldSafely
  <2>4. QED BY <1>2, <2>1, <2>3 DEF HeldSafely, Undisturbed
<1>19. QED BY <1>1, <1>13, <1>14, <1>17, <1>18 DEF GiftInv

LEMMA ExecKeeps == ASSUME GiftInv, NEW n \in Nodes, Exec(n) PROVE GiftInv'
<1>1. GiftTypeOK' /\ GiftTypeOK
  BY GiftWorkType DEF GiftWork, GiftInv
<1>2. /\ UNCHANGED <<sending, shown, life, exits, verdict, booked, answered, told, scenario>>
      /\ flush[n].step = "items" /\ flush[n].rest = <<>>
  BY DEF Exec, senderVars, laravelVars
<1>3. /\ flush'[n] = Idle
      /\ \A m \in Nodes : m # n => flush'[m] = flush[m]
  BY <1>1 DEF Exec, GiftTypeOK
<1>4. \A m \in Nodes : m # n =>
         /\ Rest(m)' = Rest(m) /\ Again(m)' = Again(m) /\ Over(m)' = Over(m) /\ InFlight(m)' = InFlight(m)
  BY <1>3, SameFlush
<1>5. /\ Rest(n)' = {} /\ Again(n)' = {} /\ Over(n)' = {} /\ InFlight(n)' = {}
  BY <1>3, NothingRepeats DEF Idle, Rest, Again, Over, InFlight, Members
<1>6. /\ queue \in Seq(Entry) /\ dead \in Seq(Gifts) /\ OnceEach(queue) /\ Once(dead)
      /\ flush[n].again \in Seq(Entry) /\ flush[n].over \in Seq(Gifts)
      /\ OnceEach(flush[n].again) /\ Once(flush[n].over)
      /\ Rest(n) = {} /\ InFlight(n) = Again(n) \cup Over(n)
      /\ Again(n) \subseteq Gifts /\ Over(n) \subseteq Gifts
      /\ Queued \subseteq Gifts /\ Dead \subseteq Gifts
  BY <1>1, <1>2, Sets, NothingRepeats DEF GiftInv, NoRepeats, Rest
<1>7. /\ Queued \cap Again(n) = {} /\ Dead \cap Over(n) = {} /\ Queued \cap Over(n) = {}
      /\ Dead \cap Again(n) = {} /\ Again(n) \cap Over(n) = {} /\ Queued \cap Dead = {}
  BY <1>6 DEF GiftInv, Apart
<1>8. \/ queue' = queue \o flush[n].again /\ dead' = dead \o flush[n].over
      \/ "redis" \in scenario /\ queue' = queue /\ dead' = dead
  BY DEF Exec
<1>9. /\ OnceEach(queue') /\ Once(dead')
      /\ \/ Queued' = Queued \cup Again(n) /\ Dead' = Dead \cup Over(n)
         \/ "redis" \in scenario /\ Queued' = Queued /\ Dead' = Dead
  <2>1. CASE queue' = queue \o flush[n].again /\ dead' = dead \o flush[n].over
    <3>1. /\ GiftsOf(queue \o flush[n].again) = Queued \cup Again(n)
          /\ OnceEach(queue \o flush[n].again)
      BY <1>6, <1>7, JoinEntries DEF Queued, Again
    <3>2. /\ Members(dead \o flush[n].over) = Dead \cup Over(n)
          /\ Once(dead \o flush[n].over)
      BY <1>6, <1>7, JoinGifts DEF Dead, Over
    <3>3. QED BY <2>1, <3>1, <3>2 DEF Queued, Dead
  <2>2. CASE "redis" \in scenario /\ queue' = queue /\ dead' = dead
    BY <1>6, <2>2 DEF Queued, Dead
  <2>3. QED BY <1>8, <2>1, <2>2
<1>10. NoRepeats'
  <2>1. OnceEach(flush'[n].rest) /\ OnceEach(flush'[n].again) /\ Once(flush'[n].over)
        /\ flush'[n].step # "batch"
    BY <1>3, NothingRepeats DEF Idle
  <2>2. QED BY <1>3, <1>9, <2>1 DEF GiftInv, NoRepeats
<1>11. Apart'
  <2>1. Queued' \subseteq Queued \cup Again(n) /\ Dead' \subseteq Dead \cup Over(n)
    BY <1>9
  <2>2. \A h \in InFlight(n) : h \in Gifts => h \in shown /\ sending[h] = None
    BY DEF GiftInv, Apart
  <2>3. \A g \in Gifts : g \in Queued' \cup Dead' => g \in shown' /\ sending'[g] = None
    BY <1>2, <1>6, <2>1, <2>2 DEF GiftInv, Apart
  <2>4. Queued' \cap Dead' = {}
    BY <1>7, <2>1
  <2>5. ASSUME NEW m \in Nodes, NEW g \in Gifts, g \in InFlight(m)'
        PROVE  /\ g \in shown' /\ sending'[g] = None /\ g \notin Queued' /\ g \notin Dead'
               /\ \A l \in Nodes : g \in InFlight(l)' => l = m
    <3>1. m # n /\ g \in InFlight(m)
      BY <1>4, <1>5, <2>5
    <3>2. /\ g \in shown /\ sending[g] = None /\ g \notin Queued /\ g \notin Dead
          /\ \A l \in Nodes : g \in InFlight(l) => l = m
      BY <3>1 DEF GiftInv, Apart
    <3>3. g \notin Again(n) /\ g \notin Over(n)
      BY <1>6, <3>1, <3>2
    <3>4. QED BY <1>2, <1>4, <1>5, <2>1, <3>2, <3>3
  <2>6. \A g \in Gifts : sending'[g] # None => g \in shown'
    BY <1>2 DEF GiftInv, Apart
  <2>7. \A m \in Nodes :
           Rest(m)' \cap Again(m)' = {} /\ Rest(m)' \cap Over(m)' = {} /\ Again(m)' \cap Over(m)' = {}
    BY <1>4, <1>5 DEF GiftInv, Apart
  <2>8. QED BY <2>3, <2>4, <2>5, <2>6, <2>7 DEF Apart
<1>12. ToldTrue'
  <2>1. ASSUME NEW h \in Gifts, Spent(h) PROVE Spent(h)'
    <3>1. h \notin Queued /\ h \notin Again(n)
      BY <2>1 DEF Spent
    <3>2. h \notin Queued'
      BY <1>9, <3>1
    <3>3. QED BY <1>2, <1>4, <1>5, <2>1, <3>2 DEF Spent
  <2>2. QED BY <1>2, <2>1 DEF GiftInv, ToldTrue
<1>13. HeldSafely'
  <2>1. ASSUME Undisturbed, NEW h \in shown PROVE Somewhere(h)'
    <3>1. Queued' = Queued \cup Again(n) /\ Dead' = Dead \cup Over(n)
      BY <1>9, <2>1 DEF Undisturbed
    <3>2. CASE h \in InFlight(n)
      BY <1>6, <3>1, <3>2 DEF Somewhere
    <3>3. CASE h \notin InFlight(n)
      <4>1. \/ sending[h] # None \/ h \in answered \/ h \in Queued \/ h \in Dead
            \/ \E m \in Nodes \ {n} : h \in InFlight(m)
        BY <2>1, <3>3 DEF GiftInv, HeldSafely, Somewhere
      <4>2. QED BY <1>2, <1>4, <3>1, <4>1 DEF Somewhere
    <3>4. QED BY <3>2, <3>3
  <2>2. QED BY <1>2, <1>3, <2>1 DEF GiftInv, HeldSafely, Undisturbed
<1>14. QED BY <1>1, <1>10, <1>11, <1>12, <1>13 DEF GiftInv

LEMMA GiftWorkKeeps == ASSUME GiftInv, NEW n \in Nodes, GiftWork(n) PROVE GiftInv'
  BY TickKeeps, PostBatchKeeps, PostItemKeeps, ExecKeeps, LastFlushKeeps DEF GiftWork

LEMMA StopKeeps == ASSUME GiftInv, NEW n \in Nodes, Stop(n) PROVE GiftInv'
<1>1. GiftTypeOK' /\ GiftTypeOK
  BY StopType DEF GiftInv
<1>2. \A m \in Nodes : m # n => life'[m] = life[m]
  BY <1>1 DEF Stop, GiftTypeOK
<1>3. life'[n] = "waiting"
  BY <1>1 DEF Stop, GiftTypeOK
<1>4. QED
  BY <1>1, <1>2, <1>3, LifeKeeps DEF Stop

\* The end of an instance loses what it held, which is nothing where nothing went wrong.
LEMMA EndKeeps ==
    ASSUME GiftInv, NEW n \in Nodes, End(n), exits' \in 0 .. MaxExits,
           Undisturbed => flush[n] = Idle /\ \A g \in Gifts : sending[g] # n
    PROVE  GiftInv'
<1>1. GiftTypeOK' /\ GiftTypeOK
  BY EndType DEF GiftInv
<1>2. /\ UNCHANGED <<shown, queue, dead, verdict, booked, answered, told, scenario>>
      /\ Queued' = Queued /\ Dead' = Dead
  BY DEF End, laravelVars, Queued, Dead
<1>3. /\ flush'[n] = Idle
      /\ \A m \in Nodes : m # n => flush'[m] = flush[m] /\ life'[m] = life[m]
      /\ \A g \in Gifts : sending'[g] = None \/ sending'[g] = sending[g]
      /\ \A g \in Gifts : sending[g] # n => sending'[g] = sending[g]
  BY <1>1 DEF End, GiftTypeOK
<1>4. \A m \in Nodes : m # n =>
         /\ Rest(m)' = Rest(m) /\ Again(m)' = Again(m) /\ Over(m)' = Over(m) /\ InFlight(m)' = InFlight(m)
  BY <1>3, SameFlush
<1>5. /\ Rest(n)' = {} /\ Again(n)' = {} /\ Over(n)' = {} /\ InFlight(n)' = {}
  BY <1>3, NothingRepeats DEF Idle, Rest, Again, Over, InFlight, Members
<1>6. NoRepeats'
  <2>1. OnceEach(flush'[n].rest) /\ OnceEach(flush'[n].again) /\ Once(flush'[n].over)
        /\ flush'[n].step # "batch"
    BY <1>3, NothingRepeats DEF Idle
  <2>2. QED BY <1>2, <1>3, <2>1 DEF GiftInv, NoRepeats
<1>7. Apart'
  BY <1>2, <1>3, <1>4, <1>5 DEF GiftInv, Apart
<1>8. ToldTrue'
  <2>1. ASSUME NEW h \in Gifts, Spent(h) PROVE Spent(h)'
    BY <1>2, <1>3, <1>4, <1>5, <2>1 DEF Spent
  <2>2. QED BY <1>2, <2>1 DEF GiftInv, ToldTrue
<1>9. HeldSafely'
  <2>1. ASSUME Undisturbed PROVE flush' = flush /\ \A g \in Gifts : sending'[g] = sending[g]
    <3>1. flush' = [flush EXCEPT ![n] = Idle]
      BY DEF End
    <3>2. QED BY <1>1, <1>3, <2>1, <3>1 DEF GiftTypeOK
  <2>2. ASSUME Undisturbed, NEW h \in shown PROVE Somewhere(h)'
    <3>1. \A m \in Nodes : InFlight(m)' = InFlight(m)
      BY <2>1, <2>2, SameFlush
    <3>2. h \in Gifts
      BY <1>1 DEF GiftTypeOK
    <3>3. QED BY <1>2, <2>1, <2>2, <3>1, <3>2 DEF GiftInv, HeldSafely, Somewhere
  <2>3. QED BY <1>2, <1>3, <2>2 DEF GiftInv, HeldSafely, Undisturbed
<1>10. QED BY <1>1, <1>6, <1>7, <1>8, <1>9 DEF GiftInv

LEMMA ExitKeeps == ASSUME GiftInv, NEW n \in Nodes, Exit(n) PROVE GiftInv'
<1>1. Undisturbed => flush[n] = Idle /\ \A g \in Gifts : sending[g] # n
  BY DEF Exit, GiftInv, HeldSafely
<1>2. End(n) /\ exits' \in 0 .. MaxExits
  BY DEF Exit, GiftInv, GiftTypeOK
<1>3. QED BY <1>1, <1>2, EndKeeps

LEMMA CrashKeeps == ASSUME GiftInv, NEW n \in Nodes, Crash(n) PROVE GiftInv'
<1>1. ~Undisturbed
  BY DEF Crash, Undisturbed
<1>2. End(n) /\ exits' \in 0 .. MaxExits
  BY GiftAssumptions DEF Crash, GiftInv, GiftTypeOK
<1>3. QED BY <1>1, <1>2, EndKeeps

LEMMA GiftStepKeeps == GiftInv /\ [GiftNext]_giftVars => GiftInv'
<1> SUFFICES ASSUME GiftInv, [GiftNext]_giftVars PROVE GiftInv'
  OBVIOUS
<1>1. CASE GiftNext
  BY <1>1, SendKeeps, EnqueueKeeps, GiftWorkKeeps, StopKeeps, ExitKeeps, CrashKeeps DEF GiftNext
<1>2. CASE UNCHANGED giftVars
  <2>1. GiftTypeOK'
    BY <1>2 DEF GiftInv, GiftTypeOK, giftVars
  <2>2. /\ Queued' = Queued /\ Dead' = Dead
        /\ \A m \in Nodes : /\ Rest(m)' = Rest(m) /\ Again(m)' = Again(m) /\ Over(m)' = Over(m)
                            /\ InFlight(m)' = InFlight(m)
    BY <1>2, SameFlush DEF giftVars, Queued, Dead
  <2>3. NoRepeats' /\ Apart' /\ ToldTrue'
    BY <1>2, <2>2 DEF GiftInv, NoRepeats, Apart, ToldTrue, Spent, giftVars
  <2>4. HeldSafely'
    BY <1>2, <2>2 DEF GiftInv, HeldSafely, Somewhere, Undisturbed, giftVars
  <2>5. QED BY <2>1, <2>3, <2>4 DEF GiftInv
<1>3. QED BY <1>1, <1>2

-----------------------------------------------------------------------------
(* What follows from the invariant *)

\* A set with at most one element.
LEMMA AtMostOne ==
    ASSUME NEW S, \A x, y \in S : x = y
    PROVE  (S = {} /\ Cardinality(S) = 0) \/ (S # {} /\ Cardinality(S) = 1)
<1>1. CASE S = {}
  BY <1>1, FS_EmptySet
<1>2. CASE S # {}
  <2>1. PICK x : x \in S
    BY <1>2
  <2>2. S = {x}
    BY <2>1
  <2>3. QED BY <1>2, <2>2, FS_Singleton
<1>3. QED BY <1>1, <1>2

LEMMA PlacesCounted ==
    ASSUME GiftInv, NEW g \in Gifts
    PROVE  /\ Places(g) \in {0, 1}
           /\ Places(g) = 1 <=> (g \in Queued \/ g \in Dead \/ \E n \in Nodes : g \in InFlight(n))
<1> DEFINE Q == {i \in DOMAIN queue : queue[i].gift = g}
           D == {i \in DOMAIN dead : dead[i] = g}
           F == {n \in Nodes : g \in InFlight(n)}
<1>1. /\ Q # {} <=> g \in Queued
      /\ D # {} <=> g \in Dead
  BY DEF Queued, GiftsOf, Dead, Members
<1>2. \A x, y \in Q : x = y
  BY DEF GiftInv, NoRepeats, OnceEach
<1>3. \A x, y \in D : x = y
  BY DEF GiftInv, NoRepeats, Once
<1>4. \A x, y \in F : x = y
  BY DEF GiftInv, Apart
<1>5. /\ Q = {} \/ D = {}
      /\ Q = {} \/ F = {}
      /\ D = {} \/ F = {}
  BY <1>1 DEF GiftInv, Apart
<1>6. F # {} <=> \E n \in Nodes : g \in InFlight(n)
  OBVIOUS
<1>7. Places(g) = Cardinality(Q) + Cardinality(D) + Cardinality(F)
  BY DEF Places
<1> HIDE DEF Q, D, F
<1>8. /\ (Q = {} /\ Cardinality(Q) = 0) \/ (Q # {} /\ Cardinality(Q) = 1)
      /\ (D = {} /\ Cardinality(D) = 0) \/ (D # {} /\ Cardinality(D) = 1)
      /\ (F = {} /\ Cardinality(F) = 0) \/ (F # {} /\ Cardinality(F) = 1)
  BY <1>2, <1>3, <1>4, AtMostOne
<1>9. QED BY <1>1, <1>5, <1>6, <1>7, <1>8

LEMMA InvImplies == GiftInv => NoGiftLost /\ FailureIsTrue
<1> SUFFICES ASSUME GiftInv PROVE NoGiftLost /\ FailureIsTrue
  OBVIOUS
<1>1. OnePlace
  <2>1. ASSUME NEW g \in Gifts PROVE Places(g) <= 1
    <3>1. Places(g) \in {0, 1}
      BY PlacesCounted
    <3>2. QED BY <3>1
  <2>2. QED BY <2>1 DEF OnePlace
<1>2. ASSUME Undisturbed, NEW g \in shown PROVE Kept(g)
  <2>1. g \in Gifts /\ Somewhere(g)
    BY <1>2 DEF GiftInv, HeldSafely, GiftTypeOK
  <2>2. CASE sending[g] # None \/ g \in answered
    BY <2>2 DEF Kept
  <2>3. CASE ~(sending[g] # None \/ g \in answered)
    <3>1. Places(g) = 1
      BY <2>1, <2>3, PlacesCounted DEF Somewhere
    <3>2. QED BY <3>1 DEF Kept
  <2>4. QED BY <2>2, <2>3
<1>3. FailureIsTrue
  BY DEF GiftInv, ToldTrue, FailureIsTrue
<1>4. QED BY <1>1, <1>2, <1>3 DEF NoGiftLost

\* However many instances flush, post, split, retry, stop or crash, no gift is in two
\* places, and while nothing fails that the code cannot make good none is lost.
THEOREM NoGiftLostAlways == GiftSpec => []NoGiftLost
<1>1. GiftInv => NoGiftLost
  BY InvImplies
<1>2. QED BY <1>1, InitInv, GiftStepKeeps, PTL DEF GiftSpec

\* As long as no answer is lost, a sender is told that a gift failed only when it is
\* not booked and never will be.
THEOREM FailureIsTrueAlways == GiftSpec => []FailureIsTrue
<1>1. GiftInv => FailureIsTrue
  BY InvImplies
<1>2. QED BY <1>1, InitInv, GiftStepKeeps, PTL DEF GiftSpec

-----------------------------------------------------------------------------
(* The drain *)

\* A timer that runs is one of the drain that is on and not over.
TimersOfLast ==
    /\ timers \subseteq Kinds \X {gen}
    /\ ~drain.on \/ drain.done => timers = {}

\* A drain that is over is on, and its own timer has ended it.
DoneByOwn == drain.done => drain.on /\ drain.by = gen

\* The SIGTERM still has the number of a drain to give.
DrainLeft == phase \in {"serving", "queue"} => gen < MaxDrains

\* A loop that has not failed too often may fail once more; a number that was not
\* given has no loop.
LoopsCounted ==
    \A k \in Drains :
        /\ loop[k] \in {"none", "flag", "ask", "sleep"} => failures[k] < MaxFailures
        /\ k > gen => loop[k] = "none"

DrainInv == ShutdownTypeOK /\ TimersOfLast /\ DoneByOwn /\ DrainLeft /\ LoopsCounted

LEMMA DrainInit == ShutdownInit => DrainInv
<1> SUFFICES ASSUME ShutdownInit PROVE DrainInv
  OBVIOUS
<1> USE GiftAssumptions, ShutdownAssumptions
<1>1. GiftTypeOK
  <2>1. <<>> \in Seq(Entry) /\ <<>> \in Seq(Gifts)
    OBVIOUS
  <2>2. QED BY <2>1, IdleType DEF ShutdownInit, GiftInit, GiftTypeOK
<1>2. rooms \in 0 .. MaxRooms
  BY DEF ShutdownInit
<1>3. /\ gen = 0 /\ timers = {} /\ phase = "serving" /\ life[Home] = "up"
      /\ drain = [on |-> FALSE, done |-> FALSE, by |-> 0, callback |-> FALSE]
      /\ loop = [k \in Drains |-> "none"] /\ failures = [k \in Drains |-> 0]
      /\ pinned = rooms /\ summary = FALSE /\ waited = FALSE
  BY DEF ShutdownInit, GiftInit
<1>4. ShutdownTypeOK
  <2>1. drain \in [on: BOOLEAN, done: BOOLEAN, by: 0 .. MaxDrains, callback: BOOLEAN]
    BY <1>3
  <2>2. loop \in [Drains -> {"none", "flag", "ask", "sleep", "over", "threw"}]
    BY <1>3
  <2>3. failures \in [Drains -> 0 .. MaxFailures]
    BY <1>3
  <2>4. QED BY <1>1, <1>2, <1>3, <2>1, <2>2, <2>3 DEF ShutdownTypeOK
<1>5. TimersOfLast /\ DoneByOwn /\ DrainLeft
  BY <1>3 DEF TimersOfLast, DoneByOwn, DrainLeft
<1>6. LoopsCounted
  BY <1>3 DEF LoopsCounted
<1>7. QED BY <1>4, <1>5, <1>6 DEF DrainInv

\* The start of a drain, of which there was a number left.
LEMMA StartKeeps ==
    ASSUME DrainInv, gen + 1 <= MaxDrains, NEW callback \in BOOLEAN, StartDrain(callback)
    PROVE  /\ gen' = gen + 1 /\ gen' \in 0 .. MaxDrains
           /\ drain' \in [on: BOOLEAN, done: BOOLEAN, by: 0 .. MaxDrains, callback: BOOLEAN]
           /\ timers' \subseteq Kinds \X Drains /\ summary' \in BOOLEAN
           /\ loop' \in [Drains -> {"none", "flag", "ask", "sleep", "over", "threw"}]
           /\ TimersOfLast' /\ DoneByOwn' /\ (failures' = failures => LoopsCounted')
<1> USE ShutdownAssumptions
<1>1. gen + 1 \in Drains /\ gen \in Nat
  BY DEF DrainInv, ShutdownTypeOK, Drains
<1>2. timers = {}
  BY DEF DrainInv, TimersOfLast, StartDrain
<1>3. drain' = [on |-> TRUE, done |-> FALSE, by |-> 0, callback |-> callback]
  BY DEF StartDrain
<1>4. timers' = Kinds \X {gen + 1} /\ gen' = gen + 1
  BY <1>2 DEF StartDrain
<1>5. ASSUME failures' = failures PROVE LoopsCounted'
  BY <1>1, <1>4, <1>5 DEF StartDrain, DrainInv, ShutdownTypeOK, LoopsCounted, Drains
<1>6. QED
  BY <1>1, <1>3, <1>4, <1>5 DEF StartDrain, DrainInv, ShutdownTypeOK, TimersOfLast, DoneByOwn, Drains

\* Steps that leave the drain and its timers alone.
LEMMA DrainUntouched ==
    ASSUME DrainInv, ShutdownTypeOK', LoopsCounted', UNCHANGED <<gen, drain, timers>>,
           phase' \in {"serving", "queue"} => phase \in {"serving", "queue"}
    PROVE  DrainInv'
  BY DEF DrainInv, TimersOfLast, DoneByOwn, DrainLeft

LEMMA LoopKeeps ==
    ASSUME DrainInv, NEW k \in Drains, LoopFlagged(k) \/ LoopAsks(k) PROVE DrainInv'
<1> USE ShutdownAssumptions
<1>1. CASE LoopFlagged(k)
  <2>1. GoesOn \in {"ask", "over"}
    BY DEF GoesOn
  <2>2. ShutdownTypeOK'
    BY <1>1, <2>1 DEF LoopFlagged, DrainInv, ShutdownTypeOK, GiftTypeOK, giftVars, Drains
  <2>3. LoopsCounted'
    BY <1>1, <2>1 DEF LoopFlagged, LoopsCounted, DrainInv, ShutdownTypeOK
  <2>4. QED BY <1>1, <2>2, <2>3, DrainUntouched DEF LoopFlagged
<1>2. CASE LoopAsks(k)
  <2>1. pinned' \in 0 .. MaxRooms
    BY <1>2 DEF LoopAsks, Batch, NoBatch, DrainInv, ShutdownTypeOK
  <2>2. failures' \in [Drains -> 0 .. MaxFailures]
    <3>1. failures \in [Drains -> 0 .. MaxFailures]
      BY DEF DrainInv, ShutdownTypeOK
    <3>2. CASE failures' = [failures EXCEPT ![k] = 0]
      BY <3>1, <3>2
    <3>3. CASE NoBatch(k)
      <4>1. failures[k] \in Nat /\ failures[k] < MaxFailures
        BY <1>2, <3>1 DEF LoopAsks, DrainInv, LoopsCounted
      <4>2. QED BY <3>1, <3>3, <4>1 DEF NoBatch
    <3>4. QED BY <1>2, <3>2, <3>3 DEF LoopAsks, Batch
  <2>3. loop' \in [Drains -> {"none", "flag", "ask", "sleep", "over", "threw"}]
    BY <1>2 DEF LoopAsks, Batch, NoBatch, DrainInv, ShutdownTypeOK
  <2>4. ShutdownTypeOK'
    BY <1>2, <2>1, <2>2, <2>3 DEF LoopAsks, DrainInv, ShutdownTypeOK, GiftTypeOK, giftVars, Drains
  <2>5. LoopsCounted'
    <3>1. /\ failures \in [Drains -> 0 .. MaxFailures] /\ LoopsCounted
          /\ loop \in [Drains -> {"none", "flag", "ask", "sleep", "over", "threw"}]
      BY DEF DrainInv, ShutdownTypeOK
    <3>2. ASSUME NEW r \in Nat, Batch(k, r) PROVE LoopsCounted'
      BY <1>2, <3>1, <3>2 DEF LoopAsks, Batch, LoopsCounted
    <3>3. CASE NoBatch(k)
      <4>1. failures'[k] \in 0 .. MaxFailures
        BY <2>2
      <4>2. QED BY <1>2, <3>1, <3>3, <4>1 DEF LoopAsks, NoBatch, LoopsCounted
    <3>4. QED BY <1>2, <3>2, <3>3 DEF LoopAsks
  <2>6. QED BY <1>2, <2>4, <2>5, DrainUntouched DEF LoopAsks
<1>3. QED BY <1>1, <1>2

\* The drain is completed by a timer of its own.
LEMMA CompleteKeeps == ASSUME DrainInv, TimerFires PROVE DrainInv'
<1> USE ShutdownAssumptions
<1>1. PICK t \in timers : CompleteDrain(t[2])
  BY DEF TimerFires
<1>2. t[2] = gen /\ drain.on
  BY DEF DrainInv, TimersOfLast
<1>3. /\ gen \in 0 .. MaxDrains /\ timers' = {}
      /\ drain \in [on: BOOLEAN, done: BOOLEAN, by: 0 .. MaxDrains, callback: BOOLEAN]
  BY <1>1 DEF CompleteDrain, Cleared, DrainInv, ShutdownTypeOK, TimersOfLast
<1>4. drain' \in [on: BOOLEAN, done: BOOLEAN, by: 0 .. MaxDrains, callback: BOOLEAN]
      /\ drain'.on /\ drain'.done /\ drain'.by = gen
  BY <1>1, <1>2, <1>3 DEF CompleteDrain
<1>5. phase' = phase \/ (phase = "rooms" /\ phase' = "sockets")
  BY <1>1 DEF CompleteDrain
<1>6. ShutdownTypeOK'
  BY <1>3, <1>4, <1>5 DEF TimerFires, DrainInv, ShutdownTypeOK, GiftTypeOK, giftVars, Drains
<1>7. TimersOfLast' /\ DoneByOwn'
  BY <1>3, <1>4 DEF TimerFires, TimersOfLast, DoneByOwn
<1>8. DrainLeft' /\ LoopsCounted'
  BY <1>5 DEF TimerFires, DrainInv, DrainLeft, LoopsCounted, giftVars
<1>9. QED BY <1>6, <1>7, <1>8 DEF DrainInv

\* A cancelled drain leaves no timer behind.
LEMMA UndrainKeeps == ASSUME DrainInv, AdminUndrain PROVE DrainInv'
<1> USE ShutdownAssumptions
<1>1. timers' = {}
  BY DEF AdminUndrain, Cleared, DrainInv, TimersOfLast
<1>2. drain' = [on |-> FALSE, done |-> FALSE, by |-> 0, callback |-> FALSE]
  BY DEF AdminUndrain
<1>3. ShutdownTypeOK'
  <2>1. drain' \in [on: BOOLEAN, done: BOOLEAN, by: 0 .. MaxDrains, callback: BOOLEAN]
    BY <1>2
  <2>2. QED BY <1>1, <2>1 DEF AdminUndrain, DrainInv, ShutdownTypeOK, GiftTypeOK, giftVars, Drains
<1>4. TimersOfLast' /\ DoneByOwn'
  BY <1>1, <1>2 DEF TimersOfLast, DoneByOwn
<1>5. DrainLeft' /\ LoopsCounted'
  BY DEF AdminUndrain, DrainInv, DrainLeft, LoopsCounted, giftVars
<1>6. QED BY <1>3, <1>4, <1>5 DEF DrainInv

\* Both starts of a drain: an operator's, and that of the SIGTERM.
LEMMA DrainKeeps == ASSUME DrainInv, AdminDrain \/ EnterDrain PROVE DrainInv'
<1> USE ShutdownAssumptions
<1>1. gen \in Nat
  BY DEF DrainInv, ShutdownTypeOK
<1>2. CASE AdminDrain
  <2>1. gen + 1 <= MaxDrains
    BY <1>1, <1>2 DEF AdminDrain
  <2>2. /\ gen' \in 0 .. MaxDrains /\ gen' = gen + 1
        /\ drain' \in [on: BOOLEAN, done: BOOLEAN, by: 0 .. MaxDrains, callback: BOOLEAN]
        /\ timers' \subseteq Kinds \X Drains /\ summary' \in BOOLEAN
        /\ loop' \in [Drains -> {"none", "flag", "ask", "sleep", "over", "threw"}]
        /\ TimersOfLast' /\ DoneByOwn' /\ LoopsCounted'
    BY <1>2, <2>1, StartKeeps DEF AdminDrain
  <2>3. ShutdownTypeOK'
    BY <1>2, <2>2 DEF AdminDrain, DrainInv, ShutdownTypeOK, GiftTypeOK, giftVars, Drains
  <2>4. DrainLeft'
    BY <1>1, <1>2, <2>2 DEF AdminDrain, DrainInv, DrainLeft, giftVars
  <2>5. QED BY <2>2, <2>3, <2>4 DEF DrainInv
<1>3. CASE EnterDrain /\ Waits
  <2>1. gen + 1 <= MaxDrains
    BY <1>1, <1>3 DEF EnterDrain, DrainInv, DrainLeft
  <2>2. /\ gen' \in 0 .. MaxDrains
        /\ drain' \in [on: BOOLEAN, done: BOOLEAN, by: 0 .. MaxDrains, callback: BOOLEAN]
        /\ timers' \subseteq Kinds \X Drains /\ summary' \in BOOLEAN
        /\ loop' \in [Drains -> {"none", "flag", "ask", "sleep", "over", "threw"}]
        /\ TimersOfLast' /\ DoneByOwn' /\ LoopsCounted'
    BY <1>3, <2>1, StartKeeps DEF EnterDrain
  <2>3. ShutdownTypeOK'
    BY <1>3, <2>2 DEF EnterDrain, DrainInv, ShutdownTypeOK, GiftTypeOK, giftVars, Drains
  <2>4. DrainLeft'
    BY <1>3 DEF EnterDrain, DrainInv, DrainLeft, giftVars
  <2>5. QED BY <2>2, <2>3, <2>4 DEF DrainInv
<1>4. CASE EnterDrain /\ ~Waits
  <2>1. ShutdownTypeOK'
    BY <1>4 DEF EnterDrain, DrainInv, ShutdownTypeOK, GiftTypeOK, giftVars, Drains
  <2>2. LoopsCounted'
    BY <1>4 DEF EnterDrain, DrainInv, LoopsCounted, giftVars
  <2>3. QED BY <1>4, <2>1, <2>2, DrainUntouched DEF EnterDrain
<1>5. QED BY <1>2, <1>3, <1>4

\* Rooms that open and close, and the first steps of a shutdown.
LEMMA RoomsKeep ==
    ASSUME DrainInv, RoomOpens \/ RoomCloses \/ Signal \/ GiveUpRooms PROVE DrainInv'
<1> USE ShutdownAssumptions
<1>1. UNCHANGED <<gen, drain, timers, loop, failures, giftVars>>
  BY DEF RoomOpens, RoomCloses, Signal, GiveUpRooms
<1>2. rooms' \in 0 .. MaxRooms /\ pinned' \in 0 .. MaxRooms
  BY DEF RoomOpens, RoomCloses, Signal, GiveUpRooms, DrainInv, ShutdownTypeOK
<1>3. \/ phase' = phase
      \/ phase = "serving" /\ phase' = "queue" /\ exits < MaxExits
      \/ phase = "rooms" /\ phase' = "sockets"
  BY DEF RoomOpens, RoomCloses, Signal, GiveUpRooms
<1>4. summary' \in BOOLEAN /\ waited' \in BOOLEAN
  BY DEF RoomOpens, RoomCloses, Signal, GiveUpRooms, DrainInv, ShutdownTypeOK
<1>5. ShutdownTypeOK'
  BY <1>1, <1>2, <1>3, <1>4 DEF DrainInv, ShutdownTypeOK, GiftTypeOK, giftVars, Drains
<1>6. LoopsCounted'
  BY <1>1, <1>3 DEF DrainInv, LoopsCounted, giftVars
<1>7. QED BY <1>1, <1>3, <1>5, <1>6, DrainUntouched

\* The instance stops, and its process ends.
LEMMA LeaveKeeps ==
    ASSUME DrainInv, StopBuffers \/ CrashStop \/ Leave PROVE DrainInv'
<1> USE ShutdownAssumptions
<1>1. UNCHANGED <<gen, drain, timers, loop, failures, summary, rooms, pinned, waited>>
  BY DEF StopBuffers, CrashStop, Leave
<1>2. phase' \in {"buffers", "crash", "gone"}
  BY DEF StopBuffers, CrashStop, Leave
<1>3. GiftTypeOK'
  <2>1. CASE StopBuffers \/ CrashStop
    BY <2>1, StopType DEF StopBuffers, CrashStop, DrainInv, ShutdownTypeOK
  <2>2. CASE Leave
    <3>1. End(Home) /\ exits' = exits
      BY <2>2 DEF Leave, Exit, Forced
    <3>2. QED BY <3>1, EndType DEF DrainInv, ShutdownTypeOK, GiftTypeOK
  <2>3. QED BY <2>1, <2>2
<1>4. ShutdownTypeOK' /\ LoopsCounted'
  BY <1>1, <1>2, <1>3 DEF DrainInv, ShutdownTypeOK, LoopsCounted, Drains
<1>5. QED BY <1>1, <1>2, <1>4, DrainUntouched

LEMMA GiftKeeps == ASSUME DrainInv, GiftStep PROVE DrainInv'
<1> USE ShutdownAssumptions
<1>1. UNCHANGED drainVars
  BY DEF GiftStep
<1>2. GiftTypeOK'
  BY GiftWorkType, SendType DEF GiftStep, DrainInv, ShutdownTypeOK
<1>3. QED
  BY <1>1, <1>2
     DEF drainVars, DrainInv, ShutdownTypeOK, TimersOfLast, DoneByOwn, DrainLeft, LoopsCounted, Drains

LEMMA DrainStep == DrainInv /\ [ShutdownNext]_shutdownVars => DrainInv'
<1> SUFFICES ASSUME DrainInv, [ShutdownNext]_shutdownVars PROVE DrainInv'
  OBVIOUS
<1>1. CASE GiftStep
  BY <1>1, GiftKeeps
<1>2. CASE AdminDrain \/ EnterDrain
  BY <1>2, DrainKeeps
<1>3. CASE AdminUndrain
  BY <1>3, UndrainKeeps
<1>4. CASE TimerFires
  BY <1>4, CompleteKeeps
<1>5. CASE LoopStep
  BY <1>5, LoopKeeps DEF LoopStep
<1>6. CASE RoomOpens \/ RoomCloses \/ Signal \/ GiveUpRooms
  BY <1>6, RoomsKeep
<1>7. CASE CrashStop \/ StopBuffers \/ Leave
  BY <1>7, LeaveKeeps
<1>8. CASE UNCHANGED shutdownVars
  BY <1>8 DEF shutdownVars, drainVars, giftVars, DrainInv, ShutdownTypeOK, GiftTypeOK, TimersOfLast,
              DoneByOwn, DrainLeft, LoopsCounted, Drains
<1>9. QED
  BY <1>1, <1>2, <1>3, <1>4, <1>5, <1>6, <1>7, <1>8 DEF ShutdownNext, Process

\* A drain that an operator has cancelled never completes, and its timers never end a
\* drain that came after it (drain.ts:283).
THEOREM CancelHoldsAlways == ShutdownSpec => []CancelHolds
<1>1. DrainInv => CancelHolds
  BY DEF DrainInv, DoneByOwn, CancelHolds
<1>2. QED BY <1>1, DrainInit, DrainStep, PTL DEF ShutdownSpec

-----------------------------------------------------------------------------
(* The gifts while their instance leaves *)

\* An instance that drains, stops and ends keeps the invariant of the gift buffer: the
\* forced exits cut a flush off only in the scenarios that say so.
LEMMA GiftsKept == GiftInv /\ [ShutdownNext]_shutdownVars => GiftInv'
<1> SUFFICES ASSUME GiftInv, [ShutdownNext]_shutdownVars PROVE GiftInv'
  OBVIOUS
<1> USE ShutdownAssumptions
<1>1. CASE GiftStep
  BY <1>1, SendKeeps, EnqueueKeeps, GiftWorkKeeps DEF GiftStep
<1>2. CASE CrashStop \/ StopBuffers
  BY <1>2, StopKeeps DEF CrashStop, StopBuffers
<1>3. CASE Leave
  <2>1. CASE Exit(Home)
    BY <2>1, ExitKeeps
  <2>2. CASE Forced
    <3>1. ~Undisturbed
      BY <2>2 DEF Forced, Undisturbed
    <3>2. End(Home) /\ exits' \in 0 .. MaxExits
      BY <2>2 DEF Forced, GiftInv, GiftTypeOK
    <3>3. QED BY <3>1, <3>2, EndKeeps
  <2>3. QED BY <1>3, <2>1, <2>2 DEF Leave
<1>4. CASE UNCHANGED giftVars
  BY <1>4, GiftStepKeeps
<1>5. CASE AdminDrain \/ AdminUndrain \/ TimerFires \/ LoopStep
  BY <1>4, <1>5 DEF AdminDrain, AdminUndrain, TimerFires, LoopStep, LoopFlagged, LoopAsks
<1>6. CASE RoomOpens \/ RoomCloses \/ Signal \/ EnterDrain \/ GiveUpRooms
  BY <1>4, <1>6 DEF RoomOpens, RoomCloses, Signal, EnterDrain, GiveUpRooms
<1>7. CASE UNCHANGED shutdownVars
  BY <1>4, <1>7 DEF shutdownVars
<1>8. QED
  BY <1>1, <1>2, <1>3, <1>5, <1>6, <1>7 DEF ShutdownNext, Process

\* The claims of GiftBuffer hold of the instance that leaves: no gift is in two places
\* or lost on the way out, and no sender is told of a failure that is none.
THEOREM LeavingKeepsGifts == ShutdownSpec => [](NoGiftLost /\ FailureIsTrue)
<1>1. ShutdownInit => GiftInv
  BY InitInv DEF ShutdownInit
<1>2. GiftInv => NoGiftLost /\ FailureIsTrue
  BY InvImplies
<1>3. QED BY <1>1, <1>2, GiftsKept, PTL DEF ShutdownSpec
=============================================================================
