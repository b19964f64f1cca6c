--------------------------- MODULE TraceFeedProofs ---------------------------
(***************************************************************************)
(* TraceFeed implements EventFeed: for any queries, browsers and limits,   *)
(* any number of events, evictions, overflows and lost connections.        *)
(*                                                                         *)
(* What counts is the numbers: which events the log still has, and which   *)
(* of them a connection has sent, is about to replay, or has queued.       *)
(***************************************************************************)
EXTENDS TraceFeed, SequenceTheorems, FiniteSetTheorems, TLAPS

Parcels == [id : Nat, reset : BOOLEAN]

(* Types, as far as the numbers of events go.                              *)
FeedTypes ==
    /\ event \in Seq({event[i] : i \in 1..Newest})
    /\ phase \in [Browsers -> Phases]
    /\ queue \in [Browsers -> SUBSET Nat] /\ outbox \in [Browsers -> SUBSET Nat]
    /\ lost \in [Browsers -> BOOLEAN]
    /\ latest \in [Browsers -> Nat] /\ seen \in [Browsers -> Nat]
    /\ wire \in [Browsers -> Seq(Parcels)]
    /\ whole \subseteq Browsers

(* Above the floor nothing is missing from the log.                        *)
LogCovers ==
    /\ log \subseteq 1..Newest /\ floor \in 0..Newest
    /\ \A i \in 1..Newest : i > floor => i \in log
    /\ Newest > 0 => Newest \in log

Numbered(b) ==
    /\ queue[b] \subseteq 1..Newest /\ outbox[b] \subseteq 1..Newest
    /\ latest[b] \in 0..Newest /\ seen[b] \in 0..Newest

(* What is on the wire follows what the browser has seen, one by one; a    *)
(* reset is the last thing a connection carries.                           *)
Carried(b) ==
    /\ \A k \in 1..Len(wire[b]) :
         /\ wire[b][k].id \in Nat /\ wire[b][k].id <= Newest
         /\ wire[b][k].reset = FALSE => wire[b][k].id = seen[b] + k
         /\ wire[b][k].reset # FALSE => k = Len(wire[b]) /\ phase[b] = "ended"
    /\ phase[b] \notin {"down", "ended"} => latest[b] = seen[b] + Len(wire[b])
    /\ phase[b] = "down" => wire[b] = <<>>

(* What a live connection still has to send begins right after what it     *)
(* sent last and has no gap; unless its queue overflowed, it is all there. *)
Waiting(b) ==
    /\ phase[b] = "taking" => outbox[b] = {}
    /\ phase[b] \in {"live", "taking"} =>
         /\ \A i \in outbox[b] : i > latest[b]
         /\ \A i \in outbox[b], j \in Nat : latest[b] < j /\ j < i => j \in outbox[b]
         /\ \A i \in queue[b], j \in Nat :
              latest[b] < j /\ j < i => j \in outbox[b] \cup queue[b]
         /\ ~lost[b] => \A j \in 1..Newest : latest[b] < j => j \in outbox[b] \cup queue[b]

Good(b) == Numbered(b) /\ Carried(b) /\ Waiting(b)

IInv == FeedTypes /\ LogCovers /\ \A b \in Browsers : Good(b)

-----------------------------------------------------------------------------
(* Least and greatest elements, which the code takes of its log and queues. *)

Below == {p \in Nat \X Nat : p[1] < p[2]}

LEMMA HasLeast ==
    ASSUME NEW S \in SUBSET Nat, S # {}
    PROVE  \E n \in S : \A m \in S : n <= m
<1>1. IsWellFoundedOn(Below, Nat)
  BY NatLessThanWellFounded, Zenon DEF OpToRel, Below
<1>2. PICK x \in S : \A y \in S : ~(<<y, x>> \in Below)
  BY <1>1, WFMin, Zenon
<1>3. ASSUME NEW m \in S
      PROVE  x <= m
  <2>1. <<m, x>> \in Nat \X Nat /\ m \in Nat /\ x \in Nat
    OBVIOUS
  <2>2. ~(m < x)
    BY <1>2, <2>1 DEF Below
  <2> QED BY <2>1, <2>2
<1> QED BY <1>3

LEMMA LowestIs ==
    ASSUME NEW S \in SUBSET Nat, S # {}
    PROVE  Lowest(S) \in S /\ \A m \in S : Lowest(S) <= m
<1>1. \E n \in S : \A m \in S : n <= m
  BY HasLeast
<1> QED BY <1>1 DEF Lowest

LEMMA HighestIs ==
    ASSUME NEW n \in Nat, NEW S \in SUBSET (0..n), S # {}
    PROVE  Highest(S) \in S /\ \A m \in S : m <= Highest(S)
<1> DEFINE D == {n - m : m \in S}
<1>1. D \in SUBSET Nat /\ D # {}
  OBVIOUS
<1>2. PICK d \in D : \A m \in D : d <= m
  BY <1>1, HasLeast
<1>3. PICK h \in S : d = n - h
  BY <1>2
<1>4. ASSUME NEW m \in S
      PROVE  m <= h
  <2>1. n - h <= n - m
    BY <1>2, <1>3
  <2>2. n \in Nat /\ h \in 0..n /\ m \in 0..n
    OBVIOUS
  <2> QED BY <2>1, <2>2
<1>5. \E x \in S : \A m \in S : m <= x
  BY <1>4
<1> QED BY <1>5 DEF Highest

-----------------------------------------------------------------------------
(* The hub: whatever it forgets, an appended event leaves no gap above the  *)
(* floor, and every subscriber gets it or is lost.                         *)
LEMMA NewestIs ==
    ASSUME FeedTypes
    PROVE  Newest \in Nat
  BY LenProperties DEF FeedTypes, Newest

LEMMA AppendNumbers ==
    ASSUME FeedTypes, NEW delta, event' = Append(event, delta)
    PROVE  /\ Newest \in Nat /\ Newest' = Newest + 1
           /\ event' \in Seq({event'[i] : i \in 1..Newest'})
<1> DEFINE S == {event[i] : i \in 1..Newest} \cup {delta}
<1> DEFINE R == {event'[i] : i \in 1..Newest'}
<1>1. event \in Seq(S) /\ delta \in S
  BY SeqMonotonic DEF FeedTypes
<1>2. Newest \in Nat /\ event' \in Seq(S) /\ Newest' = Newest + 1
  <2> HIDE DEF S
  <2> QED BY <1>1, AppendProperties, LenProperties DEF Newest
<1>3. event' \in [1..Newest' -> S]
  <2> HIDE DEF S
  <2> QED BY <1>2, LenProperties DEF Newest
<1>4. event' \in [1..Newest' -> R]
  BY <1>3
<1>5. event' \in Seq(R)
  <2> HIDE DEF R
  <2>1. Newest' \in Nat
    BY <1>2
  <2>2. event' \in UNION {[1..n -> R] : n \in Nat}
    BY <1>4, <2>1
  <2> QED BY <2>2, SeqDef, Zenon
<1> QED BY <1>2, <1>5

LEMMA AppendCovers ==
    ASSUME FeedTypes, LogCovers, NEW delta, NEW kept \in SUBSET log, NEW base \in 0..Newest,
           \A i \in 1..Newest : i > base => i \in kept,
           AppendEvent(delta, kept, base)
    PROVE  LogCovers'
<1>1. Newest \in Nat /\ Newest' = Newest + 1
  BY AppendNumbers DEF AppendEvent
<1>2. kept \in SUBSET Nat /\ kept \subseteq 1..Newest /\ log \subseteq 1..Newest
  BY <1>1 DEF LogCovers
<1>3. CASE Cardinality(kept) = LogLimit /\ kept # {}
  <2>1. PICK low : low = Lowest(kept)
    OBVIOUS
  <2>2. low \in kept /\ \A m \in kept : low <= m
    BY <1>2, <1>3, <2>1, LowestIs
  <2>3. /\ log' = (kept \ {low}) \cup {Newest + 1}
        /\ floor' = IF low > base THEN low ELSE base
    BY <1>3, <2>1 DEF AppendEvent
  <2>4. low \in 1..Newest
    BY <1>2, <2>2
  <2>5. ASSUME NEW i \in log'
        PROVE  i \in 1..Newest'
    <3>1. CASE i \in kept
      <4>1. i \in 1..Newest
        BY <1>2, <3>1
      <4> QED BY <1>1, <4>1
    <3>2. CASE i = Newest + 1
      BY <1>1, <3>2
    <3> QED BY <2>3, <3>1, <3>2
  <2>6. floor' \in 0..Newest'
    BY <1>1, <2>3, <2>4
  <2>7. ASSUME NEW i \in 1..Newest', i > floor'
        PROVE  i \in log'
    BY <1>1, <2>2, <2>3, <2>4, <2>7
  <2> QED BY <1>1, <2>3, <2>5, <2>6, <2>7 DEF LogCovers
<1>4. CASE Cardinality(kept) # LogLimit
  <2>1. log' = kept \cup {Newest + 1} /\ floor' = base
    BY <1>4 DEF AppendEvent
  <2> QED BY <1>1, <1>2, <2>1 DEF LogCovers
<1>5. Cardinality(kept) = LogLimit => kept # {}
  BY FS_EmptySet, ConstantsAssumption
<1> QED BY <1>3, <1>4, <1>5

(* An append keeps every connection good: its number is one past all that   *)
(* a queue which has lost nothing can hold.                                *)
LEMMA AppendKeeps ==
    ASSUME IInv, NEW delta, NEW kept \in SUBSET log, NEW base \in 0..Newest,
           \A i \in 1..Newest : i > base => i \in kept,
           AppendEvent(delta, kept, base),
           UNCHANGED <<phase, outbox, latest, wire, seen, whole>>
    PROVE  IInv' /\ Newest' = Newest + 1
<1>1. /\ Newest \in Nat /\ Newest' = Newest + 1
      /\ event' \in Seq({event'[i] : i \in 1..Newest'})
  BY AppendNumbers DEF AppendEvent, IInv
<1>2. LogCovers'
  BY AppendCovers DEF IInv
<1>3. PICK n : n = Newest
  OBVIOUS
<1>4. /\ queue' \in [Browsers -> SUBSET Nat] /\ lost' \in [Browsers -> BOOLEAN]
      /\ \A b \in Browsers :
           \/ queue'[b] = queue[b] /\ (lost'[b] \/ phase[b] \in {"down", "ended"})
           \/ queue'[b] = queue[b] \cup {n + 1} /\ ~lost[b] /\ ~lost'[b]
  <2> DEFINE told(b) == Subscribed(b) /\ ~lost[b]
             fits(b) == Cardinality(queue[b]) < QueueLimit
  <2>1. /\ queue' = [b \in Browsers |->
                        IF told(b) /\ fits(b) THEN queue[b] \cup {n + 1} ELSE queue[b]]
        /\ lost' = [b \in Browsers |-> lost[b] \/ (told(b) /\ ~fits(b))]
    BY <1>3 DEF AppendEvent
  <2>2. \A b \in Browsers : told(b) <=> ~lost[b] /\ phase[b] \notin {"down", "ended"}
    BY DEF Subscribed
  <2> HIDE DEF told, fits
  <2>3. queue \in [Browsers -> SUBSET Nat] /\ lost \in [Browsers -> BOOLEAN] /\ n + 1 \in Nat
    BY <1>1, <1>3 DEF IInv, FeedTypes
  <2>4. queue' \in [Browsers -> SUBSET Nat]
    BY <2>1, <2>3
  <2>5. lost' \in [Browsers -> BOOLEAN]
    BY <2>1
  <2>6. ASSUME NEW b \in Browsers
        PROVE  \/ queue'[b] = queue[b] /\ (lost'[b] \/ phase[b] \in {"down", "ended"})
               \/ queue'[b] = queue[b] \cup {n + 1} /\ ~lost[b] /\ ~lost'[b]
    BY <2>1, <2>2
  <2> QED BY <2>4, <2>5, <2>6
<1>5. FeedTypes'
  BY <1>1, <1>4 DEF IInv, FeedTypes
<1>6. ASSUME NEW b \in Browsers
      PROVE  Good(b)'
  <2>1. /\ queue[b] \subseteq 1..n /\ outbox[b] \subseteq 1..n
        /\ latest[b] \in 0..n /\ seen[b] \in 0..n /\ n \in Nat
    BY <1>1, <1>3 DEF IInv, Good, Numbered
  <2>2. Numbered(b)'
    BY <1>1, <1>3, <1>4, <2>1 DEF Numbered
  <2>3. Carried(b)'
    <3>1. \A m \in Nat : m <= Newest => m <= Newest'
      BY <1>1
    <3> QED BY <3>1 DEF Carried, IInv, Good
  <2>4. ASSUME phase[b] \in {"live", "taking"}
        PROVE  /\ \A i \in queue'[b], j \in Nat :
                    latest[b] < j /\ j < i => j \in outbox[b] \cup queue'[b]
               /\ ~lost'[b] => \A j \in 1..(n + 1) :
                    latest[b] < j => j \in outbox[b] \cup queue'[b]
    <3>1. /\ \A i \in queue[b], j \in Nat :
               latest[b] < j /\ j < i => j \in outbox[b] \cup queue[b]
          /\ ~lost[b] => \A j \in 1..n : latest[b] < j => j \in outbox[b] \cup queue[b]
      BY <1>3, <2>4 DEF IInv, Good, Waiting
    <3>2. CASE queue'[b] = queue[b] /\ lost'[b]
      BY <3>1, <3>2
    <3>3. CASE queue'[b] = queue[b] \cup {n + 1} /\ ~lost[b] /\ ~lost'[b]
      BY <2>1, <3>1, <3>3
    <3> QED BY <1>4, <2>4, <3>2, <3>3
  <2>5. Waiting(b)'
    BY <1>1, <1>3, <2>4 DEF Waiting, IInv, Good
  <2> QED BY <2>2, <2>3, <2>5 DEF Good
<1> QED BY <1>1, <1>2, <1>5, <1>6 DEF IInv

LEMMA EvictKeeps ==
    ASSUME IInv, NEW q, Evict(q), UNCHANGED <<phase, outbox, latest, wire, seen, whole>>
    PROVE  IInv' /\ Newest' = Newest + 1
<1> DEFINE dropped == {i \in log : event[i].query = q}
           base == IF dropped # {} /\ Highest(dropped) > floor THEN Highest(dropped) ELSE floor
<1>1. PICK delta : AppendEvent(delta, log \ dropped, base)
  BY DEF Evict
<1>2. Newest \in Nat /\ log \subseteq 1..Newest /\ floor \in 0..Newest
      /\ \A i \in 1..Newest : i > floor => i \in log
  BY LenProperties DEF IInv, LogCovers, FeedTypes, Newest
<1>3. dropped # {} => Highest(dropped) \in dropped
                      /\ \A m \in dropped : m <= Highest(dropped)
  <2>1. dropped \in SUBSET (0..Newest)
    <3>1. dropped \subseteq log
      OBVIOUS
    <3>2. log \subseteq 0..Newest
      BY <1>2
    <3> QED BY <3>1, <3>2
  <2> HIDE DEF dropped
  <2> QED BY <1>2, <2>1, HighestIs
<1>4. base \in 0..Newest /\ \A i \in 1..Newest : i > base => i \in log \ dropped
  <2>1. PICK high : high = Highest(dropped)
    OBVIOUS
  <2>2. base = IF dropped # {} /\ high > floor THEN high ELSE floor
    BY <2>1
  <2>3. dropped # {} => high \in 1..Newest /\ \A m \in dropped : m <= high
    BY <1>2, <1>3, <2>1
  <2> HIDE DEF base
  <2>4. dropped \subseteq log
    OBVIOUS
  <2> HIDE DEF dropped
  <2> QED BY <1>2, <2>2, <2>3, <2>4
<1> HIDE DEF base, dropped
<1>5. log \ dropped \in SUBSET log
  OBVIOUS
<1> QED BY <1>1, <1>4, <1>5, AppendKeeps

LEMMA StoreKeeps ==
    ASSUME IInv, NEW q, NEW delta, NEW items, NEW complete, Store(q, delta, items, complete)
    PROVE  IInv' /\ Newest' = Newest + 1
<1>1. /\ floor \in 0..Newest /\ log \in SUBSET log
      /\ \A i \in 1..Newest : i > floor => i \in log
  BY DEF IInv, LogCovers
<1>2. AppendEvent(delta, log, floor) /\ UNCHANGED <<phase, outbox, latest, wire, seen, whole>>
  BY DEF Store, page
<1> QED BY <1>1, <1>2, AppendKeeps

-----------------------------------------------------------------------------
(* The connections.  Each step moves one of them, and the hub stands still. *)

Mine == <<phase, queue, lost, outbox, latest, wire, seen>>

LEMMA Others ==
    ASSUME IInv, NEW b \in Browsers, FeedTypes', UNCHANGED <<event, log, floor>>,
           \A c \in Browsers \ {b} :
               /\ phase'[c] = phase[c] /\ queue'[c] = queue[c] /\ lost'[c] = lost[c]
               /\ outbox'[c] = outbox[c] /\ latest'[c] = latest[c]
               /\ wire'[c] = wire[c] /\ seen'[c] = seen[c],
           Good(b)'
    PROVE  IInv'
<1>1. Newest' = Newest
  BY DEF Newest
<1>2. LogCovers'
  BY <1>1 DEF IInv, LogCovers
<1>3. ASSUME NEW c \in Browsers \ {b}
      PROVE  Good(c)'
  <2>1. Good(c)
    BY DEF IInv
  <2>2. Numbered(c)'
    BY <1>1, <2>1 DEF Good, Numbered
  <2>3. Carried(c)'
    BY <1>1, <2>1 DEF Good, Carried
  <2>4. Waiting(c)'
    BY <1>1, <2>1 DEF Good, Waiting
  <2> QED BY <2>2, <2>3, <2>4 DEF Good
<1> QED BY <1>2, <1>3 DEF IInv

LEMMA Still ==
    ASSUME IInv, UNCHANGED <<event, log, floor, Mine, whole>>
    PROVE  IInv'
<1>1. Newest' = Newest
  BY DEF Newest
<1>2. FeedTypes' /\ LogCovers'
  BY <1>1 DEF IInv, FeedTypes, LogCovers, Mine
<1>3. ASSUME NEW b \in Browsers
      PROVE  Good(b)'
  <2>1. Numbered(b)'
    BY <1>1 DEF IInv, Good, Numbered, Mine
  <2>2. Carried(b)'
    BY <1>1 DEF IInv, Good, Carried, Mine
  <2>3. Waiting(b)'
    BY <1>1 DEF IInv, Good, Waiting, Mine
  <2> QED BY <2>1, <2>2, <2>3 DEF Good
<1> QED BY <1>2, <1>3 DEF IInv

(* One more parcel on a wire.                                              *)
LEMMA SendShape ==
    ASSUME FeedTypes, NEW b \in Browsers, NEW id \in Nat, NEW reset \in BOOLEAN,
           Send(b, id, reset)
    PROVE  /\ wire' \in [Browsers -> Seq(Parcels)]
           /\ \A c \in Browsers \ {b} : wire'[c] = wire[c]
           /\ Len(wire[b]) \in Nat /\ Len(wire'[b]) = Len(wire[b]) + 1
           /\ \A k \in 1..Len(wire[b]) : wire'[b][k] = wire[b][k]
           /\ wire'[b][Len(wire[b]) + 1].id = id
           /\ wire'[b][Len(wire[b]) + 1].reset = reset
<1> DEFINE parcel == [id |-> id, reset |-> reset]
<1>1. parcel \in Parcels /\ parcel.id = id /\ parcel.reset = reset
  BY DEF Parcels
<1>2. wire[b] \in Seq(Parcels) /\ wire' = [wire EXCEPT ![b] = Append(wire[b], parcel)]
  BY DEF FeedTypes, Send
<1> HIDE DEF parcel
<1>3. /\ Append(wire[b], parcel) \in Seq(Parcels)
      /\ Len(Append(wire[b], parcel)) = Len(wire[b]) + 1
      /\ \A k \in 1..Len(wire[b]) : Append(wire[b], parcel)[k] = wire[b][k]
      /\ Append(wire[b], parcel)[Len(wire[b]) + 1] = parcel
      /\ Len(wire[b]) \in Nat
  BY <1>1, <1>2, AppendProperties, LenProperties
<1>4. wire'[b] = Append(wire[b], parcel)
  BY <1>2 DEF FeedTypes
<1> QED BY <1>1, <1>2, <1>3, <1>4 DEF FeedTypes

(* The next event goes out: the one after the last.                        *)
LEMMA SendNext ==
    ASSUME IInv, NEW b \in Browsers, phase[b] \in {"live", "taking"},
           latest[b] + 1 \in 1..Newest, Send(b, latest[b] + 1, FALSE),
           latest' = [latest EXCEPT ![b] = latest[b] + 1],
           phase'[b] \in {"live", "taking"},
           UNCHANGED <<event, seen>>
    PROVE  /\ wire' \in [Browsers -> Seq(Parcels)] /\ latest' \in [Browsers -> Nat]
           /\ latest'[b] = latest[b] + 1 /\ latest[b] \in 0..Newest
           /\ \A c \in Browsers \ {b} : wire'[c] = wire[c] /\ latest'[c] = latest[c]
           /\ Carried(b)'
<1>1. /\ latest[b] \in Nat /\ seen[b] \in Nat /\ Newest' = Newest /\ FeedTypes
      /\ latest' \in [Browsers -> Nat] /\ latest'[b] = latest[b] + 1
      /\ \A c \in Browsers \ {b} : latest'[c] = latest[c]
      /\ latest[b] \in 0..Newest /\ Newest \in Nat
  <2>1. FeedTypes /\ Numbered(b) /\ Newest' = Newest /\ Newest \in Nat
    BY NewestIs DEF IInv, Newest, Good
  <2>2. latest \in [Browsers -> Nat] /\ seen \in [Browsers -> Nat]
    BY <2>1 DEF FeedTypes
  <2>3. latest[b] \in Nat /\ seen[b] \in Nat /\ latest[b] + 1 \in Nat
    BY <2>2
  <2>4. latest[b] \in 0..Newest
    BY <2>1 DEF Numbered
  <2>5. /\ latest' \in [Browsers -> Nat] /\ latest'[b] = latest[b] + 1
        /\ \A c \in Browsers \ {b} : latest'[c] = latest[c]
    BY <2>2, <2>3
  <2> QED BY <2>1, <2>3, <2>4, <2>5
<1>2. PICK n \in Nat : n = Len(wire[b])
  BY <1>1, LenProperties DEF FeedTypes
<1>3. /\ wire' \in [Browsers -> Seq(Parcels)]
      /\ \A c \in Browsers \ {b} : wire'[c] = wire[c]
      /\ n \in Nat /\ Len(wire'[b]) = n + 1
      /\ \A k \in 1..n : wire'[b][k] = wire[b][k]
      /\ wire'[b][n + 1].id = latest[b] + 1 /\ wire'[b][n + 1].reset = FALSE
  BY <1>1, <1>2, SendShape
<1>4. /\ latest[b] = seen[b] + n
      /\ \A k \in 1..n :
            /\ wire[b][k].id \in Nat /\ wire[b][k].id <= Newest
            /\ wire[b][k].id = seen[b] + k
            /\ wire[b][k].reset = FALSE
  BY <1>2 DEF IInv, Good, Carried
<1>5. ASSUME NEW k \in 1..(n + 1)
      PROVE  /\ wire'[b][k].id \in Nat /\ wire'[b][k].id <= Newest
             /\ wire'[b][k].id = seen[b] + k
             /\ wire'[b][k].reset = FALSE
  <2>1. CASE k = n + 1
    <3>1. wire'[b][k].id = latest[b] + 1 /\ wire'[b][k].reset = FALSE
      BY <1>3, <2>1
    <3>2. /\ latest[b] + 1 \in Nat /\ latest[b] + 1 <= Newest
          /\ latest[b] + 1 = seen[b] + k
      BY <1>1, <1>4, <2>1
    <3> QED BY <3>1, <3>2
  <2>2. CASE k \in 1..n
    BY <1>3, <1>4, <2>2
  <2>3. k = n + 1 \/ k \in 1..n
    OBVIOUS
  <2> QED BY <2>1, <2>2, <2>3
<1>6. latest'[b] = seen[b] + (n + 1)
  <2>1. latest'[b] = latest[b] + 1 /\ latest[b] = seen[b] + n
    BY <1>1, <1>4
  <2>2. seen[b] \in Nat /\ n \in Nat
    BY <1>1, <1>2
  <2> QED BY ONLY <2>1, <2>2
<1>7. Carried(b)'
  BY <1>1, <1>3, <1>5, <1>6 DEF Carried
<1> QED BY <1>1, <1>3, <1>7

LEMMA ConnectKeeps ==
    ASSUME IInv, NEW b \in Browsers, Connect(b)
    PROVE  IInv'
<1>1. /\ phase' = [phase EXCEPT ![b] = "joined"] /\ latest' = [latest EXCEPT ![b] = seen[b]]
      /\ UNCHANGED <<event, log, floor, queue, lost, outbox, wire, seen, whole>>
      /\ phase[b] = "down" /\ Newest' = Newest
  BY DEF Connect, hub, page, Newest
<1>2. FeedTypes'
  BY <1>1 DEF IInv, FeedTypes, Phases
<1>3. /\ phase'[b] = "joined" /\ latest'[b] = seen[b] /\ wire[b] = <<>> /\ Good(b)
      /\ seen[b] \in Nat /\ wire'[b] = wire[b] /\ seen'[b] = seen[b]
  BY <1>1 DEF IInv, FeedTypes, Good, Carried
<1>4. Good(b)'
  <2>1. Len(wire'[b]) = 0
    BY <1>3, EmptySeq
  <2>2. Carried(b)'
    BY <1>3, <2>1 DEF Carried
  <2> QED BY <1>1, <1>3, <2>2 DEF Good, Numbered, Waiting
<1>5. \A c \in Browsers \ {b} : phase'[c] = phase[c] /\ latest'[c] = latest[c]
  BY <1>1 DEF IInv, FeedTypes
<1> QED BY <1>1, <1>2, <1>4, <1>5, Others

LEMMA AskSinceKeeps ==
    ASSUME IInv, NEW b \in Browsers, AskSince(b)
    PROVE  IInv'
<1>1. /\ phase[b] = "joined" /\ Newest' = Newest /\ Newest \in Nat
      /\ UNCHANGED <<event, log, floor, queue, lost, latest, wire, seen, whole>>
      /\ FeedTypes /\ Good(b) /\ LogCovers
  BY LenProperties DEF AskSince, hub, page, Newest, IInv, FeedTypes
<1>2. CASE Gone(latest[b])
  <2>1. /\ phase' = [phase EXCEPT ![b] = "resetting"] /\ outbox' = [outbox EXCEPT ![b] = {}]
    BY <1>2 DEF AskSince
  <2>2. FeedTypes'
    BY <1>1, <2>1 DEF FeedTypes, Phases
  <2>3. phase'[b] = "resetting" /\ outbox'[b] = {}
    BY <1>1, <2>1 DEF FeedTypes
  <2>4. Good(b)'
    BY <1>1, <2>3 DEF Good, Numbered, Carried, Waiting
  <2>5. \A c \in Browsers \ {b} : phase'[c] = phase[c] /\ outbox'[c] = outbox[c]
    BY <1>1, <2>1 DEF FeedTypes
  <2> QED BY <1>1, <2>2, <2>4, <2>5, Others
<1>3. CASE ~Gone(latest[b])
  <2> DEFINE missed == {i \in log : i > latest[b]}
  <2>1. /\ phase' = [phase EXCEPT ![b] = "live"] /\ outbox' = [outbox EXCEPT ![b] = missed]
    BY <1>3 DEF AskSince
  <2>2. log \subseteq 1..Newest /\ latest[b] \in 0..Newest /\ queue[b] \subseteq 1..Newest
    BY <1>1 DEF LogCovers, Good, Numbered
  <2>3. missed \subseteq 1..Newest /\ missed \in SUBSET Nat
    <3>1. missed \subseteq log
      OBVIOUS
    <3>2. 1..Newest \subseteq Nat
      OBVIOUS
    <3> QED BY <2>2, <3>1, <3>2
  <2>4. \A j \in 1..Newest : j > latest[b] => j \in missed
    <3>1. CASE log = {}
      BY <1>1, <2>2, <3>1 DEF LogCovers
    <3>2. CASE latest[b] >= floor
      BY <1>1, <2>2, <3>2 DEF LogCovers
    <3>3. latest[b] \in Nat /\ floor \in Nat
      BY <1>1, <2>2 DEF LogCovers
    <3> QED BY <1>3, <3>1, <3>2, <3>3 DEF Gone
  <2>5. \A i \in missed : i > latest[b]
    OBVIOUS
  <2> HIDE DEF missed
  <2>6. FeedTypes'
    BY <1>1, <2>1, <2>3 DEF FeedTypes, Phases
  <2>7. phase'[b] = "live" /\ outbox'[b] = missed
    BY <1>1, <2>1 DEF FeedTypes
  <2>8. Numbered(b)' /\ Carried(b)'
    BY <1>1, <2>3, <2>7 DEF Good, Numbered, Carried
  <2>9. ASSUME NEW i \in 1..Newest, NEW j \in Nat, latest[b] < j, j < i
        PROVE  j \in missed
    BY <1>1, <2>2, <2>4, <2>9
  <2>10. Waiting(b)'
    BY <1>1, <2>2, <2>3, <2>4, <2>5, <2>7, <2>9 DEF Waiting
  <2>11. \A c \in Browsers \ {b} : phase'[c] = phase[c] /\ outbox'[c] = outbox[c]
    BY <1>1, <2>1 DEF FeedTypes
  <2>12. Good(b)'
    BY <2>8, <2>10 DEF Good
  <2> QED BY <1>1, <2>6, <2>11, <2>12, Others
<1> QED BY <1>2, <1>3

LEMMA ReplayKeeps ==
    ASSUME IInv, NEW b \in Browsers, Replay(b)
    PROVE  IInv'
<1>1. /\ phase[b] = "live" /\ outbox[b] # {} /\ FeedTypes /\ Good(b)
      /\ UNCHANGED <<event, log, floor, phase, queue, lost, seen, whole>>
      /\ Newest' = Newest /\ Newest \in Nat
  BY NewestIs DEF Replay, hub, page, IInv, Newest
<1>2. PICK l \in Nat : l = latest[b]
  BY <1>1 DEF FeedTypes
<1>3. /\ outbox[b] \subseteq 1..Newest /\ queue[b] \subseteq 1..Newest
      /\ \A i \in outbox[b] : i > l
      /\ \A i \in outbox[b], j \in Nat : l < j /\ j < i => j \in outbox[b]
      /\ \A i \in queue[b], j \in Nat : l < j /\ j < i => j \in outbox[b] \cup queue[b]
      /\ ~lost[b] => \A j \in 1..Newest : l < j => j \in outbox[b] \cup queue[b]
  BY <1>1, <1>2 DEF Good, Numbered, Waiting
<1>4. l + 1 \in outbox[b]
  BY <1>1, <1>3
<1>5. Lowest(outbox[b]) = l + 1
  <2>1. PICK low : low = Lowest(outbox[b])
    OBVIOUS
  <2>2. low \in outbox[b] /\ \A m \in outbox[b] : low <= m
    <3>1. outbox[b] \in SUBSET Nat
      BY <1>1 DEF FeedTypes
    <3> QED BY <1>1, <2>1, <3>1, LowestIs
  <2> QED BY <1>3, <1>4, <2>1, <2>2
<1>6. /\ Send(b, l + 1, FALSE) /\ latest' = [latest EXCEPT ![b] = l + 1]
      /\ outbox' = [outbox EXCEPT ![b] = outbox[b] \ {l + 1}]
  BY <1>5 DEF Replay
<1>7. /\ wire' \in [Browsers -> Seq(Parcels)] /\ latest' \in [Browsers -> Nat]
      /\ latest'[b] = l + 1 /\ l + 1 \in 0..Newest
      /\ \A c \in Browsers \ {b} : wire'[c] = wire[c] /\ latest'[c] = latest[c]
      /\ Carried(b)'
  <2>1. /\ l + 1 \in 1..Newest /\ l + 1 \in 0..Newest
        /\ phase[b] \in {"live", "taking"} /\ phase'[b] \in {"live", "taking"}
    BY <1>1, <1>3, <1>4
  <2> QED BY <1>1, <1>2, <1>6, <2>1, SendNext
<1>8. /\ FeedTypes' /\ outbox'[b] = outbox[b] \ {l + 1}
      /\ \A c \in Browsers \ {b} : outbox'[c] = outbox[c]
  BY <1>1, <1>6, <1>7 DEF FeedTypes
<1>9. Waiting(b)'
  <2> DEFINE left == outbox[b] \ {l + 1}
  <2>1. \A i \in left : i > l + 1
    BY <1>1, <1>3
  <2>2. \A i \in left, j \in Nat : l + 1 < j /\ j < i => j \in left
    BY <1>3
  <2>3. \A i \in queue[b], j \in Nat : l + 1 < j /\ j < i => j \in left \cup queue[b]
    BY <1>3
  <2>4. ~lost[b] => \A j \in 1..Newest : l + 1 < j => j \in left \cup queue[b]
    BY <1>3
  <2> HIDE DEF left
  <2>5. /\ outbox'[b] = left /\ latest'[b] = l + 1 /\ queue'[b] = queue[b]
        /\ lost'[b] = lost[b] /\ phase'[b] = "live"
    BY <1>1, <1>7, <1>8 DEF left
  <2> QED BY <1>1, <2>1, <2>2, <2>3, <2>4, <2>5 DEF Waiting
<1>10. Numbered(b)'
  BY <1>1, <1>7, <1>8 DEF Good, Numbered
<1>11. Good(b)'
  BY <1>7, <1>9, <1>10 DEF Good
<1> QED BY <1>1, <1>7, <1>8, <1>11, Others

LEMMA CheckKeeps ==
    ASSUME IInv, NEW b \in Browsers, Check(b)
    PROVE  IInv'
<1>1. /\ phase[b] = "live" /\ outbox[b] = {} /\ FeedTypes /\ Good(b)
      /\ UNCHANGED <<event, log, floor, outbox, latest, wire, seen, whole>>
      /\ Newest' = Newest
  BY DEF Check, hub, page, IInv, Newest
<1>2. CASE lost[b]
  <2>1. /\ phase' = [phase EXCEPT ![b] = "resetting"] /\ queue' = [queue EXCEPT ![b] = {}]
        /\ lost' = [lost EXCEPT ![b] = FALSE]
    BY <1>2 DEF Check
  <2>2. FeedTypes'
    BY <1>1, <2>1 DEF FeedTypes, Phases
  <2>3. /\ phase'[b] = "resetting" /\ queue'[b] = {}
        /\ \A c \in Browsers \ {b} : phase'[c] = phase[c] /\ queue'[c] = queue[c]
                                      /\ lost'[c] = lost[c]
    BY <1>1, <2>1 DEF FeedTypes
  <2>4. Good(b)'
    BY <1>1, <2>3 DEF Good, Numbered, Carried, Waiting
  <2> QED BY <1>1, <2>2, <2>3, <2>4, Others
<1>3. CASE ~lost[b]
  <2>1. /\ phase' = [phase EXCEPT ![b] = "taking"] /\ queue' = queue /\ lost' = lost
    <3>1. lost' = [lost EXCEPT ![b] = FALSE] /\ queue' = [queue EXCEPT ![b] = queue[b]]
      BY <1>3 DEF Check
    <3>2. lost[b] = FALSE
      BY <1>1, <1>3 DEF FeedTypes
    <3> QED BY <1>1, <1>3, <3>1, <3>2 DEF Check, FeedTypes
  <2>2. FeedTypes'
    BY <1>1, <2>1 DEF FeedTypes, Phases
  <2>3. /\ phase'[b] = "taking"
        /\ \A c \in Browsers \ {b} : phase'[c] = phase[c]
    BY <1>1, <2>1 DEF FeedTypes
  <2>4. Numbered(b)' /\ Carried(b)'
    BY <1>1, <2>1, <2>3 DEF Good, Numbered, Carried
  <2>5. Waiting(b)'
    BY <1>1, <2>1, <2>3 DEF Good, Waiting
  <2>6. Good(b)'
    BY <2>4, <2>5 DEF Good
  <2> QED BY <1>1, <2>1, <2>2, <2>3, <2>6, Others
<1> QED BY <1>2, <1>3

LEMMA TakeKeeps ==
    ASSUME IInv, NEW b \in Browsers, Take(b)
    PROVE  IInv'
<1>1. /\ phase[b] = "taking" /\ queue[b] # {} /\ FeedTypes /\ Good(b)
      /\ phase' = [phase EXCEPT ![b] = "live"]
      /\ UNCHANGED <<event, log, floor, lost, outbox, seen, whole>>
      /\ Newest' = Newest /\ Newest \in Nat
  BY NewestIs DEF Take, hub, page, IInv, Newest
<1>2. PICK l \in Nat : l = latest[b]
  BY <1>1 DEF FeedTypes
<1>3. /\ outbox[b] = {} /\ queue[b] \subseteq 1..Newest
      /\ \A i \in queue[b], j \in Nat : l < j /\ j < i => j \in queue[b]
      /\ ~lost[b] => \A j \in 1..Newest : l < j => j \in queue[b]
  BY <1>1, <1>2 DEF Good, Numbered, Waiting
<1>4. PICK id : id = Lowest(queue[b])
  OBVIOUS
<1>5. id \in queue[b] /\ \A m \in queue[b] : id <= m
  <2>1. queue[b] \in SUBSET Nat
    BY <1>1 DEF FeedTypes
  <2> QED BY <1>1, <1>4, <2>1, LowestIs
<1>6. id \in 1..Newest /\ id \in Nat
  BY <1>3, <1>5
<1>7. /\ queue' = [queue EXCEPT ![b] = queue[b] \ {id}]
      /\ IF id <= l THEN UNCHANGED <<latest, wire>>
         ELSE Send(b, id, FALSE) /\ latest' = [latest EXCEPT ![b] = id]
  BY <1>2, <1>4 DEF Take
<1>8. /\ queue' \in [Browsers -> SUBSET Nat] /\ queue'[b] = queue[b] \ {id}
      /\ phase' \in [Browsers -> Phases] /\ phase'[b] = "live"
      /\ \A c \in Browsers \ {b} : queue'[c] = queue[c] /\ phase'[c] = phase[c]
  BY <1>1, <1>7 DEF FeedTypes, Phases
<1>9. CASE id <= l
  <2>1. UNCHANGED <<latest, wire>>
    BY <1>7, <1>9
  <2>2. FeedTypes'
    BY <1>1, <1>8, <2>1 DEF FeedTypes
  <2>3. Numbered(b)' /\ Carried(b)'
    BY <1>1, <1>8, <2>1 DEF Good, Numbered, Carried
  <2>4. Waiting(b)'
    <3> DEFINE left == queue[b] \ {id}
    <3>1. \A i \in left, j \in Nat : l < j /\ j < i => j \in left
      BY <1>3, <1>6, <1>9
    <3>2. ~lost[b] => \A j \in 1..Newest : l < j => j \in left
      BY <1>3, <1>6, <1>9
    <3> HIDE DEF left
    <3>3. /\ queue'[b] = left /\ latest'[b] = l /\ outbox'[b] = {}
          /\ lost'[b] = lost[b] /\ phase'[b] = "live"
      BY <1>1, <1>2, <1>3, <1>8, <2>1 DEF left
    <3> QED BY <1>1, <3>1, <3>2, <3>3 DEF Waiting
  <2>5. Good(b)'
    BY <2>3, <2>4 DEF Good
  <2> QED BY <1>1, <1>8, <2>1, <2>2, <2>5, Others
<1>10. CASE ~(id <= l)
  <2>1. id = l + 1
    <3>1. CASE l + 1 < id
      <4>1. l + 1 \in queue[b]
        BY <1>3, <1>5, <3>1
      <4> QED BY <1>5, <1>6, <3>1, <4>1
    <3> QED BY <1>6, <1>10, <3>1
  <2>2. Send(b, l + 1, FALSE) /\ latest' = [latest EXCEPT ![b] = l + 1]
    BY <1>7, <1>10, <2>1
  <2>3. /\ wire' \in [Browsers -> Seq(Parcels)] /\ latest' \in [Browsers -> Nat]
        /\ latest'[b] = l + 1
        /\ \A c \in Browsers \ {b} : wire'[c] = wire[c] /\ latest'[c] = latest[c]
        /\ Carried(b)'
    <3>1. /\ l + 1 \in 1..Newest
          /\ phase[b] \in {"live", "taking"} /\ phase'[b] \in {"live", "taking"}
      BY <1>1, <1>6, <1>8, <2>1
    <3> QED BY <1>1, <1>2, <2>2, <3>1, SendNext
  <2>4. FeedTypes'
    BY <1>1, <1>8, <2>3 DEF FeedTypes
  <2>5. Numbered(b)'
    BY <1>1, <1>6, <1>8, <2>1, <2>3 DEF Good, Numbered
  <2>6. Waiting(b)'
    <3> DEFINE left == queue[b] \ {id}
    <3>1. \A i \in left, j \in Nat : l + 1 < j /\ j < i => j \in left
      BY <1>3, <2>1
    <3>2. ~lost[b] => \A j \in 1..Newest : l + 1 < j => j \in left
      BY <1>3, <2>1
    <3> HIDE DEF left
    <3>3. /\ queue'[b] = left /\ latest'[b] = l + 1 /\ outbox'[b] = {}
          /\ lost'[b] = lost[b] /\ phase'[b] = "live"
      BY <1>1, <1>3, <1>8, <2>3 DEF left
    <3> QED BY <1>1, <3>1, <3>2, <3>3 DEF Waiting
  <2>7. Good(b)'
    BY <2>3, <2>5, <2>6 DEF Good
  <2> QED BY <1>1, <1>8, <2>3, <2>4, <2>7, Others
<1> QED BY <1>9, <1>10

LEMMA SendResetKeeps ==
    ASSUME IInv, NEW b \in Browsers, SendReset(b)
    PROVE  IInv'
<1> DEFINE id == IF log = {} THEN 0 ELSE Highest(log)
<1>1. /\ phase[b] = "resetting" /\ Send(b, id, TRUE) /\ FeedTypes /\ Good(b) /\ LogCovers
      /\ phase' = [phase EXCEPT ![b] = "ended"]
      /\ UNCHANGED <<event, log, floor, queue, lost, outbox, latest, seen, whole>>
      /\ Newest' = Newest /\ Newest \in Nat
  BY NewestIs DEF SendReset, hub, page, IInv, Newest
<1>2. id \in Nat /\ id <= Newest
  <2>1. CASE log = {}
    BY <1>1, <2>1
  <2>2. CASE log # {}
    <3>1. log \in SUBSET (0..Newest)
      <4>1. log \subseteq 1..Newest /\ 1..Newest \subseteq 0..Newest
        BY <1>1 DEF LogCovers
      <4> QED BY <4>1
    <3>2. Highest(log) \in log
      BY <1>1, <2>2, <3>1, HighestIs
    <3>3. Highest(log) \in 0..Newest
      BY <3>1, <3>2
    <3> QED BY <1>1, <2>2, <3>3
  <2> QED BY <2>1, <2>2
<1> HIDE DEF id
<1>3. PICK n \in Nat : n = Len(wire[b])
  BY <1>1, LenProperties DEF FeedTypes
<1>4. /\ wire' \in [Browsers -> Seq(Parcels)]
      /\ \A c \in Browsers \ {b} : wire'[c] = wire[c]
      /\ Len(wire'[b]) = n + 1
      /\ \A k \in 1..n : wire'[b][k] = wire[b][k]
      /\ wire'[b][n + 1].id = id /\ wire'[b][n + 1].reset = TRUE
  BY <1>1, <1>2, <1>3, SendShape
<1>5. \A k \in 1..n :
        /\ wire[b][k].id \in Nat /\ wire[b][k].id <= Newest
        /\ wire[b][k].id = seen[b] + k
        /\ wire[b][k].reset = FALSE
  BY <1>1, <1>3 DEF Good, Carried
<1>6. /\ phase' \in [Browsers -> Phases] /\ phase'[b] = "ended"
      /\ \A c \in Browsers \ {b} : phase'[c] = phase[c]
  BY <1>1 DEF FeedTypes, Phases
<1>7. ASSUME NEW k \in 1..(n + 1)
      PROVE  /\ wire'[b][k].id \in Nat /\ wire'[b][k].id <= Newest
             /\ wire'[b][k].reset = FALSE => wire'[b][k].id = seen[b] + k
             /\ wire'[b][k].reset # FALSE => k = n + 1
  <2>1. CASE k = n + 1
    BY <1>2, <1>4, <2>1
  <2>2. CASE k \in 1..n
    BY <1>4, <1>5, <2>2
  <2>3. k = n + 1 \/ k \in 1..n
    OBVIOUS
  <2> QED BY <2>1, <2>2, <2>3
<1>8. Carried(b)'
  BY <1>1, <1>4, <1>6, <1>7 DEF Carried
<1>9. FeedTypes'
  BY <1>1, <1>4, <1>6 DEF FeedTypes
<1>10. Good(b)'
  BY <1>1, <1>6, <1>8 DEF Good, Numbered, Waiting
<1> QED BY <1>1, <1>4, <1>6, <1>9, <1>10, Others

LEMMA HangupKeeps ==
    ASSUME IInv, NEW b \in Browsers, Hangup(b)
    PROVE  IInv'
<1>1. /\ phase' = [phase EXCEPT ![b] = "down"] /\ queue' = [queue EXCEPT ![b] = {}]
      /\ lost' = [lost EXCEPT ![b] = FALSE] /\ outbox' = [outbox EXCEPT ![b] = {}]
      /\ latest' = [latest EXCEPT ![b] = 0] /\ wire' = [wire EXCEPT ![b] = <<>>]
      /\ UNCHANGED <<event, log, floor, seen, whole>> /\ FeedTypes /\ Good(b)
      /\ Newest' = Newest /\ Newest \in Nat
  BY NewestIs DEF Hangup, hub, page, IInv, Newest
<1>2. FeedTypes'
  <2>1. <<>> \in Seq(Parcels)
    BY EmptySeq
  <2> QED BY <1>1, <2>1 DEF FeedTypes, Phases
<1>3. /\ phase'[b] = "down" /\ queue'[b] = {} /\ outbox'[b] = {} /\ latest'[b] = 0
      /\ wire'[b] = <<>> /\ seen'[b] = seen[b]
      /\ \A c \in Browsers \ {b} :
           /\ phase'[c] = phase[c] /\ queue'[c] = queue[c] /\ lost'[c] = lost[c]
           /\ outbox'[c] = outbox[c] /\ latest'[c] = latest[c]
           /\ wire'[c] = wire[c] /\ seen'[c] = seen[c]
  BY <1>1 DEF FeedTypes
<1>4. Good(b)'
  <2>1. Len(wire'[b]) = 0
    BY <1>3, EmptySeq
  <2>2. Carried(b)'
    BY <1>3, <2>1 DEF Carried
  <2> QED BY <1>1, <1>3, <2>2 DEF Good, Numbered, Waiting
<1> QED BY <1>1, <1>2, <1>3, <1>4, Others

(* A page receives the event after the last it has seen, or a reset that     *)
(* ends its connection.                                                    *)
LEMMA ReceiveKeeps ==
    ASSUME IInv, NEW b \in Browsers, Receive(b)
    PROVE  IInv' /\ (Feed!Deliver(b) \/ Feed!StartOver(b))
<1> DEFINE e == Head(wire[b])
<1>1. /\ wire[b] # <<>> /\ FeedTypes /\ Good(b)
      /\ seen' = [seen EXCEPT ![b] = e.id] /\ wire' = [wire EXCEPT ![b] = Tail(wire[b])]
      /\ UNCHANGED <<event, log, floor, phase, queue, lost, outbox, latest>>
      /\ Newest' = Newest /\ Newest \in Nat
  BY NewestIs DEF Receive, hub, server, IInv, Newest
<1>2. IF e.reset THEN whole' = whole \ {b} ELSE whole' = whole
  BY DEF Receive
<1>3. PICK n \in Nat : n = Len(wire[b])
  BY <1>1, LenProperties DEF FeedTypes
<1>4. /\ Tail(wire[b]) \in Seq(Parcels) /\ Len(Tail(wire[b])) = n - 1 /\ n >= 1
      /\ \A k \in 1..(n - 1) : Tail(wire[b])[k] = wire[b][k + 1]
      /\ e = wire[b][1] /\ e \in Parcels
  <2>1. wire[b] \in Seq(Parcels)
    BY <1>1 DEF FeedTypes
  <2>2. n >= 1
    BY <1>1, <1>3, <2>1, EmptySeq
  <2> QED BY <1>1, <1>3, <2>1, <2>2, HeadTailProperties
<1>5. /\ e.id \in Nat /\ e.reset \in BOOLEAN
  BY <1>4 DEF Parcels
<1> HIDE DEF e
<1>6. PICK s \in Nat : s = seen[b]
  BY <1>1 DEF FeedTypes
<1>7. \A k \in 1..n :
        /\ wire[b][k].id \in Nat /\ wire[b][k].id <= Newest
        /\ wire[b][k].reset = FALSE => wire[b][k].id = s + k
        /\ wire[b][k].reset # FALSE => k = n /\ phase[b] = "ended"
  BY <1>1, <1>3, <1>6 DEF Good, Carried
<1>8. /\ e.id <= Newest /\ (e.reset = FALSE => e.id = s + 1)
      /\ (e.reset # FALSE => n = 1 /\ phase[b] = "ended")
  <2>1. 1 \in 1..n
    BY <1>4
  <2> QED BY <1>4, <1>7, <2>1
<1>9. /\ seen' \in [Browsers -> Nat] /\ wire' \in [Browsers -> Seq(Parcels)]
      /\ seen'[b] = e.id /\ wire'[b] = Tail(wire[b]) /\ seen[b] \in Nat
      /\ \A c \in Browsers \ {b} : seen'[c] = seen[c] /\ wire'[c] = wire[c]
  BY <1>1, <1>4, <1>5 DEF FeedTypes
<1>10. FeedTypes'
  BY <1>1, <1>2, <1>9 DEF FeedTypes
<1>11. Numbered(b)'
  BY <1>1, <1>5, <1>8, <1>9 DEF Good, Numbered
<1>12. Waiting(b)'
  BY <1>1 DEF Good, Waiting
<1>13. Carried(b)'
  <2>1. \A k \in 1..(n - 1) : wire'[b][k] = wire[b][k + 1] /\ k + 1 \in 1..n
    BY <1>3, <1>4, <1>9
  <2>2. Len(wire'[b]) = n - 1 /\ phase'[b] = phase[b] /\ latest'[b] = latest[b]
    BY <1>1, <1>4, <1>9
  <2>3. ASSUME NEW k \in 1..(n - 1)
        PROVE  /\ wire'[b][k].id \in Nat /\ wire'[b][k].id <= Newest
               /\ wire'[b][k].reset = FALSE => wire'[b][k].id = seen'[b] + k
               /\ wire'[b][k].reset # FALSE => k = n - 1 /\ phase[b] = "ended"
    <3>1. e.reset = FALSE /\ seen'[b] = s + 1
      <4>1. n # 1
        OBVIOUS
      <4> QED BY <1>5, <1>8, <1>9, <4>1
    <3>2. /\ wire'[b][k].id \in Nat /\ wire'[b][k].id <= Newest
          /\ wire'[b][k].reset = FALSE => wire'[b][k].id = s + (k + 1)
          /\ wire'[b][k].reset # FALSE => k + 1 = n /\ phase[b] = "ended"
      BY <1>7, <2>1
    <3>3. s + (k + 1) = (s + 1) + k /\ (k + 1 = n => k = n - 1)
      OBVIOUS
    <3> QED BY <3>1, <3>2, <3>3
  <2>4. phase[b] \notin {"down", "ended"} => latest[b] = seen'[b] + (n - 1)
    <3>1. phase[b] \notin {"down", "ended"} => latest[b] = s + n
      BY <1>1, <1>3, <1>6 DEF Good, Carried
    <3>2. phase[b] \notin {"down", "ended"} => seen'[b] = s + 1
      BY <1>5, <1>8, <1>9
    <3>3. s + n = (s + 1) + (n - 1)
      OBVIOUS
    <3> QED BY <3>1, <3>2, <3>3
  <2>5. phase[b] # "down"
    BY <1>1 DEF Good, Carried
  <2> QED BY <1>1, <2>2, <2>3, <2>4, <2>5 DEF Carried
<1>14. Good(b)'
  BY <1>11, <1>12, <1>13 DEF Good
<1>15. IInv'
  BY <1>1, <1>9, <1>10, <1>14, Others
<1>16. CASE e.reset = FALSE
  <2>1. whole' = whole /\ seen' = [seen EXCEPT ![b] = seen[b] + 1] /\ seen[b] < Newest
    <3>1. e.id = s + 1 /\ s < Newest
      BY <1>1, <1>8, <1>16
    <3> QED BY <1>1, <1>2, <1>6, <1>16, <3>1
  <2> QED BY <1>1, <1>15, <2>1 DEF Feed!Deliver
<1>17. CASE e.reset = TRUE
  <2>1. whole' = whole \ {b} /\ e.id \in 0..Newest
    BY <1>1, <1>2, <1>5, <1>8, <1>17
  <2> QED BY <1>1, <1>15, <2>1 DEF Feed!StartOver
<1> QED BY <1>5, <1>16, <1>17

-----------------------------------------------------------------------------
LEMMA StepKeeps ==
    ASSUME IInv, Next
    PROVE  IInv' /\ (Feed!Next \/ UNCHANGED <<Newest, seen, whole>>)
<1>1. ASSUME NEW q, NEW delta, NEW items, NEW complete, Store(q, delta, items, complete)
      PROVE  IInv' /\ Feed!Log
  <2>1. UNCHANGED <<seen, whole>>
    BY <1>1 DEF Store, page
  <2> QED BY <1>1, <2>1, StoreKeeps DEF Feed!Log
<1>2. ASSUME NEW q, Evict(q), UNCHANGED <<phase, outbox, latest, wire, page, faults>>
      PROVE  IInv' /\ Feed!Log
  BY <1>2, EvictKeeps DEF Feed!Log, page
<1>3. ASSUME NEW b \in Browsers, ServerStep(b)
      PROVE  IInv' /\ UNCHANGED <<Newest, seen, whole>>
  <2>1. UNCHANGED <<event, seen, whole>>
    BY <1>3 DEF ServerStep, Connect, AskSince, Replay, Check, Take, SendReset, Closed,
                Hangup, hub, page
  <2>2. IInv'
    BY <1>3, ConnectKeeps, AskSinceKeeps, ReplayKeeps, CheckKeeps, TakeKeeps,
       SendResetKeeps, HangupKeeps DEF ServerStep, Closed
  <2> QED BY <2>1, <2>2 DEF Newest
<1>4. ASSUME NEW b \in Browsers, Disconnect(b)
      PROVE  IInv' /\ UNCHANGED <<Newest, seen, whole>>
  BY <1>4, HangupKeeps DEF Disconnect, Hangup, hub, page, Newest
<1>5. ASSUME NEW b \in Browsers,
             Flush(b) \/ Snapshot(b) \/ Show(b) \/ \E q \in Queries : Select(b, q)
      PROVE  IInv' /\ UNCHANGED <<Newest, seen, whole>>
  <2>1. UNCHANGED <<event, log, floor, Mine, whole>>
    BY <1>5 DEF Flush, Snapshot, Show, Select, hub, server, Mine
  <2> QED BY <2>1, Still DEF Newest, Mine
<1>6. ASSUME NEW b \in Browsers, Receive(b)
      PROVE  IInv' /\ Feed!Next
  BY <1>6, ReceiveKeeps DEF Feed!Next
<1>7. CASE \E q \in Queries : PublishComplete(q) \/ \E e \in Elements : PublishUpsert(q, e)
  BY <1>1, <1>7 DEF PublishComplete, PublishUpsert, Feed!Next
<1>8. CASE Expire \/ Enforce
  BY <1>2, <1>8 DEF Expire, Enforce, Feed!Next
<1> QED BY <1>3, <1>4, <1>5, <1>6, <1>7, <1>8 DEF Next, PageStep

LEMMA Begins == Init => IInv
<1> SUFFICES ASSUME Init PROVE IInv
  OBVIOUS
<1>1. Newest = 0
  BY EmptySeq DEF Init, Newest
<1>2. FeedTypes
  BY <1>1, EmptySeq DEF Init, FeedTypes, Phases
<1>3. LogCovers
  BY <1>1 DEF Init, LogCovers
<1>4. ASSUME NEW b \in Browsers
      PROVE  Good(b)
  <2>1. /\ phase[b] = "down" /\ queue[b] = {} /\ outbox[b] = {} /\ latest[b] = 0
        /\ seen[b] = 0 /\ wire[b] = <<>> /\ Len(wire[b]) = 0
    BY EmptySeq DEF Init
  <2> QED BY <1>1, <2>1 DEF Good, Numbered, Carried, Waiting
<1> QED BY <1>2, <1>3, <1>4 DEF IInv

(* The numbers of events stay in step between the hub's log, the queues and *)
(* the wires.                                                              *)
THEOREM Invariance == Spec => []IInv
<1>1. IInv /\ [Next]_vars => IInv'
  <2>1. IInv /\ UNCHANGED vars => IInv'
    BY Still DEF vars, hub, server, page, Mine
  <2> QED BY <2>1, StepKeeps
<1> QED BY <1>1, Begins, PTL DEF Spec

(* Across reconnections, evictions, overflowing queues and lost connections *)
(* a page is handed every event once and in order, or is told to start      *)
(* over: the hub, the endpoint and the page implement EventFeed, whatever   *)
(* their limits.                                                           *)
THEOREM PromiseKept == Spec => KeepsItsPromise
<1>1. Init => Feed!Init
  BY EmptySeq DEF Init, Feed!Init, Newest
<1>2. IInv /\ [Next]_vars => [Feed!Next]_<<Newest, seen, whole>>
  <2>1. UNCHANGED vars => UNCHANGED <<Newest, seen, whole>>
    BY DEF vars, hub, page, Newest
  <2> QED BY <2>1, StepKeeps
<1> QED BY <1>1, <1>2, Invariance, PTL DEF Spec, KeepsItsPromise, Feed!Spec
-----------------------------------------------------------------------------
(* What the page shows.  A frame's batch is a fold over its deltas: each    *)
(* takes the page from what it showed to what it shows next.               *)

LEMMA MaxIs ==
    ASSUME NEW n \in Nat, NEW S \in SUBSET (1..n), S # {}
    PROVE  Max(S) \in S /\ \A m \in S : m <= Max(S)
<1>1. S \in SUBSET (0..n)
  OBVIOUS
<1>2. Highest(S) \in S /\ \A m \in S : m <= Highest(S)
  BY <1>1, HighestIs
<1>3. \E x \in S : \A y \in S : x >= y
  <2>1. \A y \in S : Highest(S) >= y
    BY <1>2
  <2> QED BY <1>2, <2>1
<1>4. Max(S) \in S /\ \A y \in S : Max(S) >= y
  BY <1>3 DEF Max
<1> QED BY <1>4

Turn(base, seq, g, s) == IF s = {} THEN base ELSE Ingest(g[s \ {Max(s)}], seq[Max(s)])
Turns(base, seq) == CHOOSE g : g = [s \in SUBSET DOMAIN seq |-> Turn(base, seq, g, s)]
Solves(base, seq, k, g) == g = [s \in SUBSET (1..k) |-> Turn(base, seq, g, s)]

Batch(base, seq) == FoldLeft(Ingest, base, seq)

LEMMA BatchIsTurns ==
    ASSUME NEW base, NEW seq
    PROVE  Batch(base, seq) = Turns(base, seq)[DOMAIN seq]
BY DEF Batch, FoldLeft, MapThenFoldSet, Turns, Turn

(* The fold is well defined: its recursion has a solution at each length.   *)
LEMMA TurnsExist ==
    ASSUME NEW base, NEW seq, NEW n \in Nat
    PROVE  \E g : Solves(base, seq, n, g)
<1> DEFINE bad == {k \in Nat : ~ \E g : Solves(base, seq, k, g)}
<1> SUFFICES ASSUME bad # {} PROVE FALSE
  OBVIOUS
<1>1. PICK k \in bad : \A m \in bad : k <= m
  <2>1. bad \in SUBSET Nat
    OBVIOUS
  <2> HIDE DEF bad
  <2> QED BY <2>1, HasLeast
<1>2. CASE k = 0
  <2> DEFINE g == [s \in SUBSET (1..0) |-> base]
  <2>1. \A s \in SUBSET (1..0) : s = {}
    OBVIOUS
  <2>2. Solves(base, seq, 0, g)
    BY <2>1 DEF Solves, Turn
  <2> QED BY <1>1, <1>2, <2>2
<1>3. CASE k # 0
  <2>1. k \in Nat /\ k - 1 \in Nat /\ k - 1 \notin bad
    BY <1>1, <1>3
  <2>2. PICK g : Solves(base, seq, k - 1, g)
    BY <2>1
  <2> DEFINE h == [s \in SUBSET (1..k) |-> Turn(base, seq, g, s)]
  <2>3. ASSUME NEW s \in SUBSET (1..(k - 1))
        PROVE  s \in SUBSET (1..k) /\ g[s] = Turn(base, seq, g, s)
    <3>1. s \in SUBSET (1..k)
      BY <2>1
    <3> QED BY <2>2, <3>1 DEF Solves
  <2>4. \A s \in SUBSET (1..(k - 1)) : h[s] = g[s]
    BY <2>3
  <2>5. ASSUME NEW s \in SUBSET (1..k), s # {}
        PROVE  s \ {Max(s)} \in SUBSET (1..(k - 1))
    <3>1. PICK m \in s : m = Max(s) /\ \A i \in s : i <= m
      BY <2>1, <2>5, MaxIs
    <3>2. ASSUME NEW i \in s, i # m PROVE i \in 1..(k - 1)
      BY <2>1, <3>1, <3>2
    <3> QED BY <3>1, <3>2
  <2> HIDE DEF h
  <2>6. \A s \in SUBSET (1..k) : Turn(base, seq, g, s) = Turn(base, seq, h, s)
    BY <2>4, <2>5 DEF Turn
  <2>7. Solves(base, seq, k, h)
    BY <2>6 DEF Solves, h
  <2> QED BY <1>1, <2>7
<1> QED BY <1>2, <1>3

(* One turn after another.                                                  *)
Steps(R, base, seq, n) ==
    /\ R[0] = base /\ R[n] = Batch(base, seq)
    /\ \A k \in 1..n : R[k] = Ingest(R[k - 1], seq[k])

LEMMA FoldSteps ==
    ASSUME NEW base, NEW seq, NEW n \in Nat, DOMAIN seq = 1..n
    PROVE  \E R : Steps(R, base, seq, n)
<1> DEFINE g == Turns(base, seq)
           R == [k \in 0..n |-> g[1..k]]
<1>1. \E f : f = [s \in SUBSET DOMAIN seq |-> Turn(base, seq, f, s)]
  <2>1. PICK f : Solves(base, seq, n, f)
    BY TurnsExist
  <2>2. f = [s \in SUBSET DOMAIN seq |-> Turn(base, seq, f, s)]
    BY <2>1 DEF Solves
  <2> QED BY <2>2
<1>2. g = [s \in SUBSET (1..n) |-> Turn(base, seq, g, s)]
  BY <1>1, Zenon DEF Turns
<1> HIDE DEF g
<1>3. \A k \in 0..n : 1..k \in SUBSET (1..n)
  OBVIOUS
<1>4. \A k \in 0..n : R[k] = Turn(base, seq, g, 1..k)
  BY <1>2, <1>3
<1>5. R[0] = base
  <2>1. 1..0 = {} /\ 0 \in 0..n
    OBVIOUS
  <2>2. R[0] = Turn(base, seq, g, 1..0)
    BY <1>4, <2>1
  <2> QED BY <2>1, <2>2 DEF Turn
<1>6. ASSUME NEW k \in 1..n
      PROVE  R[k] = Ingest(R[k - 1], seq[k])
  <2>1. k \in 0..n /\ k - 1 \in 0..n /\ k \in Nat /\ 1..k # {} /\ 1..k \in SUBSET (1..k)
    <3>1. k \in 0..n /\ k - 1 \in 0..n /\ k \in Nat /\ k \in 1..k
      OBVIOUS
    <3>2. 1..k \in SUBSET (1..k)
      OBVIOUS
    <3> QED BY <3>1, <3>2
  <2>2. Max(1..k) = k
    <3>1. Max(1..k) \in 1..k /\ \A m \in 1..k : m <= Max(1..k)
      BY <2>1, MaxIs
    <3>2. k \in 1..k
      BY <2>1
    <3>3. k <= Max(1..k)
      BY <3>1, <3>2
    <3> QED BY <3>1, <3>3
  <2>3. (1..k) \ {k} = 1..(k - 1)
    OBVIOUS
  <2>4. R[k] = Turn(base, seq, g, 1..k) /\ R[k - 1] = g[1..(k - 1)]
    BY <1>4, <2>1
  <2> HIDE DEF R
  <2> QED BY <2>1, <2>2, <2>3, <2>4 DEF Turn
<1>7. R[n] = Batch(base, seq)
  BY <1>2, BatchIsTurns DEF g
<1> HIDE DEF R
<1>8. Steps(R, base, seq, n)
  BY <1>5, <1>6, <1>7 DEF Steps
<1> QED BY <1>8

-----------------------------------------------------------------------------
(* The rest of the types.                                                   *)
StoreTypes ==
    /\ event \in Seq(Deltas)
    /\ traces \in [Queries -> Traces] /\ next \in [Queries -> Nat] /\ age \in Seq(Queries)

PageTypes ==
    /\ pending \in [Browsers -> Seq(1..Newest)]
    /\ view \in [Browsers -> [Queries -> Traces]]
    /\ active \in [Browsers -> Queries \cup {Nobody}]
    /\ fetch \in [Browsers -> Fetches \cup {Nobody}]
    /\ faults \in 0..MaxFaults

TInv == IInv /\ StoreTypes /\ PageTypes

LEMMA RemoveTypes ==
    ASSUME NEW S, NEW s \in Seq(S), NEW x
    PROVE  RemoveFirst(s, x) \in Seq(S)
<1> DEFINE I == {i \in 1..Len(s) : s[i] = x}
<1>1. CASE I = {}
  BY <1>1 DEF RemoveFirst
<1>2. CASE I # {}
  <2>1. Len(s) \in Nat /\ I \in SUBSET Nat
    BY LenProperties
  <2>2. PICK m \in I : \A i \in I : m <= i
    <3> HIDE DEF I
    <3> QED BY <1>2, <2>1, HasLeast
  <2>3. Min(I) \in I
    BY <2>2 DEF Min
  <2>4. PICK n \in 1..Len(s) : n = Min(I)
    BY <2>3
  <2>5. RemoveFirst(s, x) = SubSeq(s, 1, n - 1) \o SubSeq(s, n + 1, Len(s))
    BY <1>2, <2>4 DEF RemoveFirst, RemoveAt, SelectInSeq
  <2>6. /\ 1 \in 1..(Len(s) + 1) /\ n - 1 \in (1 - 1)..Len(s)
        /\ n + 1 \in 1..(Len(s) + 1) /\ Len(s) \in ((n + 1) - 1)..Len(s)
    BY <2>1
  <2>7. SubSeq(s, 1, n - 1) \in Seq(S) /\ SubSeq(s, n + 1, Len(s)) \in Seq(S)
    BY <2>6, SubSeqProperties
  <2> QED BY <2>5, <2>7, ConcatProperties
<1> QED BY <1>1, <1>2

LEMMA NoTraceTypes == NoTrace \in Traces
BY DEF NoTrace, Traces

LEMMA DeltaIs ==
    ASSUME NEW d \in Deltas
    PROVE  /\ d.query \in Queries /\ d.seq \in Nat
           /\ d.op \in {"upsert", "trace_complete", "trace_evicted"}
           /\ d.op = "upsert" => d.item \in Elements
BY DEF Deltas

LEMMA IngestTypes ==
    ASSUME event \in Seq(Deltas), NEW shown \in [Queries -> Traces], NEW i \in 1..Newest
    PROVE  Ingest(shown, i) \in [Queries -> Traces]
<1>1. PICK d \in Deltas : d = event[i]
  BY ElementOfSeq DEF Newest
<1>2. d.query \in Queries /\ shown[d.query] \in Traces
  BY DeltaIs
<1>3. PICK known \in Traces : known = [shown[d.query] EXCEPT !.known = TRUE]
  <2>1. [shown[d.query] EXCEPT !.known = TRUE] \in Traces
    BY <1>2 DEF Traces
  <2> QED BY <2>1
<1>4. [known EXCEPT !.complete = TRUE] \in Traces /\ i \in Nat
  <2>1. Newest \in Nat
    BY LenProperties DEF Newest
  <2>2. i \in Nat
    BY <2>1
  <2>3. [known EXCEPT !.complete = TRUE] \in Traces
    BY DEF Traces
  <2> QED BY <2>2, <2>3
<1>5. d.op = "upsert" => [known EXCEPT !.items[d.item] = i] \in Traces
  BY <1>4, DeltaIs DEF Traces
<1> DEFINE stale == known.items[d.item] # 0 /\ d.seq <= event[known.items[d.item]].seq
<1>6. Ingest(shown, i) =
        [shown EXCEPT ![d.query] =
           CASE d.op = "trace_evicted"  -> NoTrace
             [] d.op = "trace_complete" -> [known EXCEPT !.complete = TRUE]
             [] d.op = "upsert"         -> IF stale THEN known
                                           ELSE [known EXCEPT !.items[d.item] = i]]
  BY <1>1, <1>3 DEF Ingest
<1> HIDE DEF stale
<1>7. CASE d.op = "trace_evicted"
  BY <1>6, <1>7, NoTraceTypes
<1>8. CASE d.op = "trace_complete"
  BY <1>4, <1>6, <1>8
<1>9. CASE d.op = "upsert"
  BY <1>5, <1>6, <1>9
<1> QED BY <1>7, <1>8, <1>9, DeltaIs

LEMMA BatchTypes ==
    ASSUME event \in Seq(Deltas), NEW shown \in [Queries -> Traces],
           NEW seq \in Seq(1..Newest)
    PROVE  Batch(shown, seq) \in [Queries -> Traces]
<1>1. PICK n \in Nat : n = Len(seq) /\ DOMAIN seq = 1..n
  BY LenProperties
<1>a. PICK R : Steps(R, shown, seq, n)
  BY <1>1, FoldSteps
<1>2. /\ R[0] = shown /\ R[n] = Batch(shown, seq)
      /\ \A k \in 1..n : R[k] = Ingest(R[k - 1], seq[k])
  BY <1>a DEF Steps
<1> DEFINE bad == {k \in 0..n : R[k] \notin [Queries -> Traces]}
<1>3. bad = {}
  <2> SUFFICES ASSUME bad # {} PROVE FALSE
    OBVIOUS
  <2>1. PICK k \in bad : \A m \in bad : k <= m
    <3>1. bad \in SUBSET Nat
      OBVIOUS
    <3> HIDE DEF bad
    <3> QED BY <3>1, HasLeast
  <2>2. k \in 1..n /\ k - 1 \in 0..n /\ ~(k <= k - 1)
    BY <1>2, <2>1
  <2>3. R[k - 1] \in [Queries -> Traces] /\ seq[k] \in 1..Newest
    <3>1. k - 1 \notin bad
      BY <2>1, <2>2
    <3> QED BY <1>1, <2>2, <3>1, ElementOfSeq
  <2>4. R[k] = Ingest(R[k - 1], seq[k])
    BY <1>2, <2>2
  <2>5. R[k] \in [Queries -> Traces]
    BY <2>3, <2>4, IngestTypes
  <2> QED BY <2>1, <2>5
<1> QED BY <1>1, <1>2, <1>3

(* Whatever is appended, the hub and the pages keep their types.            *)
LEMMA AppendTypes ==
    ASSUME TInv, NEW delta \in Deltas, event' = Append(event, delta),
           traces' \in [Queries -> Traces], next' \in [Queries -> Nat], age' \in Seq(Queries),
           UNCHANGED <<pending, view, active, fetch, faults>>
    PROVE  StoreTypes' /\ PageTypes'
<1>1. event' \in Seq(Deltas) /\ Newest' = Newest + 1 /\ Newest \in Nat
  BY AppendProperties, NewestIs DEF TInv, IInv, StoreTypes, Newest
<1>2. \A b \in Browsers : pending[b] \in Seq(1..Newest')
  <2>1. 1..Newest \subseteq 1..Newest'
    BY <1>1
  <2> QED BY <2>1, SeqMonotonic DEF TInv, PageTypes
<1>3. pending' \in [Browsers -> Seq(1..Newest')]
  BY <1>2 DEF TInv, PageTypes
<1> QED BY <1>1, <1>3 DEF TInv, StoreTypes, PageTypes

LEMMA EvictShape ==
    ASSUME TInv, NEW q \in Queries, Evict(q)
    PROVE  \E d \in Deltas :
             /\ event' = Append(event, d) /\ d.query = q /\ d.op = "trace_evicted"
             /\ traces' = [traces EXCEPT ![q] = NoTrace] /\ next' = [next EXCEPT ![q] = 0]
             /\ age' \in Seq(Queries)
<1> DEFINE d == [query |-> q, op |-> "trace_evicted", seq |-> next[q]]
<1>1. d \in Deltas /\ d.query = q /\ d.op = "trace_evicted"
  BY DEF TInv, StoreTypes, Deltas
<1>2. event' = Append(event, d)
  BY DEF Evict, AppendEvent
<1>3. age' \in Seq(Queries)
  BY RemoveTypes DEF Evict, TInv, StoreTypes
<1> HIDE DEF d
<1> QED BY <1>1, <1>2, <1>3 DEF Evict

LEMMA StoreShape ==
    ASSUME TInv, NEW q \in Queries, NEW d, NEW items, NEW complete,
           Store(q, d, items, complete)
    PROVE  /\ event' = Append(event, d) /\ next' = [next EXCEPT ![q] = next[q] + 1]
           /\ traces' = [traces EXCEPT ![q] =
                             [known |-> TRUE, items |-> items, complete |-> complete]]
           /\ age' \in Seq(Queries) /\ UNCHANGED page /\ UNCHANGED faults
<1>1. age' \in Seq(Queries)
  <2>1. RemoveFirst(age, q) \in Seq(Queries)
    BY RemoveTypes DEF TInv, StoreTypes
  <2> QED BY <2>1, AppendProperties DEF Store
<1> QED BY <1>1 DEF Store, AppendEvent

LEMMA OldestTypes ==
    ASSUME TInv, Expire \/ Enforce
    PROVE  Head(age) \in Queries /\ Evict(Head(age))
           /\ UNCHANGED <<page, faults>>
<1>1. age # <<>>
  BY DEF Expire, Enforce, Free
<1> QED BY <1>1, HeadTailProperties DEF TInv, StoreTypes, Expire, Enforce

LEMMA ReceiveShape ==
    ASSUME TInv, NEW b \in Browsers, Receive(b)
    PROVE  /\ UNCHANGED <<event, traces, next, age, view, active, faults>>
           /\ \/ /\ pending' = [pending EXCEPT ![b] = Append(pending[b], seen[b] + 1)]
                 /\ seen' = [seen EXCEPT ![b] = seen[b] + 1]
                 /\ seen[b] + 1 \in 1..Newest /\ UNCHANGED <<whole, fetch>>
              \/ /\ UNCHANGED pending /\ whole' = whole \ {b} /\ fetch[b] = Nobody
                 /\ \A c \in Browsers \ {b} : seen'[c] = seen[c]
                 /\ fetch' = [fetch EXCEPT ![b] =
                       IF active[b] = Nobody THEN Nobody
                       ELSE [query |-> active[b], stage |-> "asked", found |-> NoTrace]]
<1> DEFINE e == Head(wire[b])
<1>1. /\ wire[b] \in Seq(Parcels) /\ wire[b] # <<>> /\ Good(b)
      /\ seen \in [Browsers -> Nat] /\ Newest \in Nat
  BY NewestIs DEF Receive, TInv, IInv, FeedTypes
<1>2. e \in Parcels /\ e = wire[b][1] /\ 1 \in 1..Len(wire[b])
  BY <1>1, HeadTailProperties, EmptySeq
<1>3. /\ e.id \in Nat /\ e.id <= Newest /\ e.reset \in BOOLEAN
      /\ e.reset = FALSE => e.id = seen[b] + 1
  BY <1>1, <1>2 DEF Good, Carried, Parcels
<1>4. CASE e.reset = FALSE
  <2>1. e.id = seen[b] + 1 /\ e.id \in 1..Newest
    BY <1>1, <1>3, <1>4
  <2> QED BY <1>4, <2>1 DEF Receive, hub
<1>5. CASE e.reset = TRUE
  BY <1>1, <1>5 DEF Receive, hub
<1> QED BY <1>3, <1>4, <1>5

LEMMA StoreStands ==
    ASSUME TInv, UNCHANGED <<event, traces, next, age>>
    PROVE  StoreTypes' /\ Newest' = Newest
BY DEF TInv, StoreTypes, Newest

LEMMA ServerTypes ==
    ASSUME TInv, UNCHANGED <<event, traces, next, age, page>>, faults' \in 0..MaxFaults
    PROVE  StoreTypes' /\ PageTypes'
<1>1. StoreTypes' /\ Newest' = Newest
  BY StoreStands
<1> QED BY <1>1 DEF TInv, PageTypes, page

LEMMA FetchTypes ==
    ASSUME TInv, NEW b \in Browsers, fetch[b] # Nobody
    PROVE  fetch[b] \in Fetches /\ fetch[b].query \in Queries /\ fetch[b].found \in Traces
BY DEF TInv, PageTypes, Fetches

LEMMA PageStepTypes ==
    ASSUME TInv, NEW b \in Browsers,
           PageStep(b) \/ \E q \in Queries : Select(b, q)
    PROVE  StoreTypes' /\ PageTypes'
<1>1. StoreTypes' /\ Newest' = Newest
  BY StoreStands DEF PageStep, Receive, Flush, Snapshot, Show, Select, hub
<1>2. /\ pending \in [Browsers -> Seq(1..Newest)] /\ view \in [Browsers -> [Queries -> Traces]]
      /\ active \in [Browsers -> Queries \cup {Nobody}]
      /\ fetch \in [Browsers -> Fetches \cup {Nobody}]
      /\ traces \in [Queries -> Traces] /\ faults \in 0..MaxFaults
  BY DEF TInv, StoreTypes, PageTypes
<1>3. ASSUME NEW q \in Queries
      PROVE  [query |-> q, stage |-> "asked", found |-> NoTrace] \in Fetches
  BY NoTraceTypes DEF Fetches
<1>4. CASE Receive(b)
  <2>1. UNCHANGED <<view, active, faults>>
    BY <1>4, ReceiveShape
  <2>2. pending' \in [Browsers -> Seq(1..Newest)]
    <3>1. CASE UNCHANGED pending
      BY <1>2, <3>1
    <3>2. CASE /\ pending' = [pending EXCEPT ![b] = Append(pending[b], seen[b] + 1)]
               /\ seen[b] + 1 \in 1..Newest
      <4>1. Append(pending[b], seen[b] + 1) \in Seq(1..Newest)
        BY <1>2, <3>2, AppendProperties
      <4> QED BY <1>2, <3>2, <4>1
    <3> QED BY <1>4, <3>1, <3>2, ReceiveShape
  <2>3. fetch' \in [Browsers -> Fetches \cup {Nobody}]
    <3>1. CASE UNCHANGED fetch
      BY <1>2, <3>1
    <3>2. CASE fetch' = [fetch EXCEPT ![b] =
                       IF active[b] = Nobody THEN Nobody
                       ELSE [query |-> active[b], stage |-> "asked", found |-> NoTrace]]
      BY <1>2, <1>3, <3>2
    <3> QED BY <1>4, <3>1, <3>2, ReceiveShape
  <2> QED BY <1>1, <1>2, <2>1, <2>2, <2>3 DEF PageTypes
<1>5. CASE Flush(b)
  <2>1. /\ view' = [view EXCEPT ![b] = Batch(view[b], pending[b])]
        /\ pending' = [pending EXCEPT ![b] = <<>>]
        /\ UNCHANGED <<active, fetch, faults>>
    BY <1>5 DEF Flush, Batch
  <2>2. Batch(view[b], pending[b]) \in [Queries -> Traces]
    BY <1>2, BatchTypes DEF TInv, StoreTypes
  <2>3. <<>> \in Seq(1..Newest)
    BY EmptySeq
  <2> QED BY <1>1, <1>2, <2>1, <2>2, <2>3 DEF PageTypes
<1>6. CASE Snapshot(b)
  <2>1. fetch[b] # Nobody /\ UNCHANGED <<pending, view, active, faults>>
        /\ fetch' = [fetch EXCEPT ![b].stage = "answered", ![b].found = traces[fetch[b].query]]
    BY <1>6 DEF Snapshot
  <2>2. PICK f \in Fetches : f = fetch[b]
    BY <2>1, FetchTypes
  <2>3. [f EXCEPT !.stage = "answered", !.found = traces[f.query]] \in Fetches
    BY <1>2 DEF Fetches
  <2>4. fetch' \in [Browsers -> Fetches \cup {Nobody}]
    BY <1>2, <2>1, <2>2, <2>3
  <2> QED BY <1>1, <1>2, <2>1, <2>4 DEF PageTypes
<1>7. CASE Show(b)
  <2>1. /\ fetch[b] # Nobody /\ fetch' = [fetch EXCEPT ![b] = Nobody]
        /\ UNCHANGED <<pending, active>>
        /\ view' = view \/ view' = [view EXCEPT ![b][fetch[b].query] = fetch[b].found]
    BY <1>7 DEF Show
  <2>2. faults' \in 0..MaxFaults
    BY <1>2, <1>7, ConstantsAssumption DEF Show, ConstantsAssumption
  <2>3. view' \in [Browsers -> [Queries -> Traces]]
    <3>1. PICK q \in Queries, t \in Traces : q = fetch[b].query /\ t = fetch[b].found
      BY <2>1, FetchTypes
    <3>2. view' = view \/ view' = [view EXCEPT ![b] = [view[b] EXCEPT ![q] = t]]
      BY <2>1, <3>1
    <3>3. view[b] \in [Queries -> Traces]
      BY <1>2
    <3>4. [view[b] EXCEPT ![q] = t] \in [Queries -> Traces]
      BY <3>3
    <3> QED BY <1>2, <3>2, <3>4
  <2>4. fetch' \in [Browsers -> Fetches \cup {Nobody}]
    BY <1>2, <2>1
  <2> QED BY <1>1, <1>2, <2>1, <2>2, <2>3, <2>4 DEF PageTypes
<1>8. ASSUME NEW q \in Queries, Select(b, q)
      PROVE  PageTypes'
  BY <1>1, <1>2, <1>3, <1>8 DEF Select, PageTypes
<1> QED BY <1>1, <1>4, <1>5, <1>6, <1>7, <1>8 DEF PageStep

LEMMA TypesStep ==
    ASSUME TInv, [Next]_vars
    PROVE  TInv'
<1>1. IInv'
  <2>1. UNCHANGED vars => IInv'
    BY Still DEF vars, hub, server, page, Mine, TInv
  <2> QED BY <2>1, StepKeeps DEF TInv
<1>2. /\ traces \in [Queries -> Traces] /\ next \in [Queries -> Nat]
      /\ event \in Seq(Deltas) /\ faults \in 0..MaxFaults
      /\ MaxFaults \in Nat
  BY ConstantsAssumption DEF TInv, StoreTypes, PageTypes, ConstantsAssumption
<1>3. ASSUME NEW q \in Queries, NEW d \in Deltas, NEW items \in [Elements -> Nat],
             NEW complete \in BOOLEAN, Store(q, d, items, complete)
      PROVE  StoreTypes' /\ PageTypes'
  <2>1. /\ event' = Append(event, d) /\ next' = [next EXCEPT ![q] = next[q] + 1]
        /\ traces' = [traces EXCEPT ![q] =
                          [known |-> TRUE, items |-> items, complete |-> complete]]
        /\ age' \in Seq(Queries) /\ UNCHANGED page /\ UNCHANGED faults
    BY <1>3, StoreShape
  <2>2. [known |-> TRUE, items |-> items, complete |-> complete] \in Traces
    BY DEF Traces
  <2>3. traces' \in [Queries -> Traces] /\ next' \in [Queries -> Nat]
    BY <1>2, <2>1, <2>2
  <2> QED BY <2>1, <2>3, AppendTypes DEF page
<1>4. CASE Expire \/ Enforce
  <2>1. PICK q \in Queries : Evict(q) /\ UNCHANGED <<page, faults>>
    BY <1>4, OldestTypes
  <2>2. PICK d \in Deltas :
          /\ event' = Append(event, d)
          /\ traces' = [traces EXCEPT ![q] = NoTrace] /\ next' = [next EXCEPT ![q] = 0]
          /\ age' \in Seq(Queries)
    BY <2>1, EvictShape
  <2>3. traces' \in [Queries -> Traces] /\ next' \in [Queries -> Nat]
    BY <1>2, <2>2, NoTraceTypes
  <2>4. UNCHANGED <<pending, view, active, fetch, faults>>
    BY <2>1 DEF page
  <2>5. StoreTypes' /\ PageTypes'
    BY <2>2, <2>3, <2>4, AppendTypes
  <2> QED BY <1>1, <2>5 DEF TInv
<1>5. ASSUME NEW q \in Queries, NEW e \in Elements, PublishUpsert(q, e)
      PROVE  StoreTypes' /\ PageTypes'
  <2> DEFINE d == [query |-> q, op |-> "upsert", item |-> e, seq |-> next[q]]
             items == [traces[q].items EXCEPT ![e] = Newest + 1]
  <2>1. d \in Deltas
    BY <1>2 DEF Deltas
  <2>2. traces[q].items \in [Elements -> Nat] /\ traces[q].complete \in BOOLEAN
    BY <1>2 DEF Traces
  <2>3. items \in [Elements -> Nat]
    BY <2>2, NewestIs DEF TInv, IInv
  <2>4. Store(q, d, items, traces[q].complete)
    BY <1>5 DEF PublishUpsert
  <2> HIDE DEF d, items
  <2> QED BY <1>3, <2>1, <2>2, <2>3, <2>4
<1>6. ASSUME NEW q \in Queries, PublishComplete(q)
      PROVE  StoreTypes' /\ PageTypes'
  <2> DEFINE d == [query |-> q, op |-> "trace_complete", seq |-> next[q]]
  <2>1. d \in Deltas
    BY <1>2 DEF Deltas
  <2>2. traces[q].items \in [Elements -> Nat]
    BY <1>2 DEF Traces
  <2>3. Store(q, d, traces[q].items, TRUE)
    BY <1>6 DEF PublishComplete
  <2> HIDE DEF d
  <2> QED BY <1>3, <2>1, <2>2, <2>3
<1>7. ASSUME NEW b \in Browsers, ServerStep(b)
      PROVE  StoreTypes' /\ PageTypes'
  <2>1. UNCHANGED <<hub, page, faults>>
    BY <1>7 DEF ServerStep, Connect, AskSince, Replay, Check, Take, SendReset, Closed,
                Hangup
  <2> QED BY <1>2, <2>1, ServerTypes DEF hub
<1>8. ASSUME NEW b \in Browsers, Disconnect(b)
      PROVE  StoreTypes' /\ PageTypes'
  <2>1. faults' \in 0..MaxFaults
    BY <1>2, <1>8 DEF Disconnect
  <2> QED BY <1>8, <2>1, ServerTypes DEF Disconnect, Hangup, hub
<1>9. CASE UNCHANGED vars
  <2>1. UNCHANGED <<event, traces, next, age, page, faults>>
    BY <1>9 DEF vars, hub
  <2>2. StoreTypes' /\ PageTypes'
    BY <1>2, <2>1, ServerTypes
  <2> QED BY <1>1, <2>2 DEF TInv
<1> QED BY <1>1, <1>4, <1>5, <1>6, <1>7, <1>8, <1>9, PageStepTypes DEF TInv, Next

LEMMA TypesBegin == Init => TInv
<1> SUFFICES ASSUME Init PROVE TInv
  OBVIOUS
<1>1. StoreTypes
  BY NoTraceTypes, EmptySeq DEF Init, StoreTypes
<1>2. PageTypes
  BY NoTraceTypes, EmptySeq, ConstantsAssumption DEF Init, PageTypes, ConstantsAssumption
<1> QED BY <1>1, <1>2, Begins DEF TInv

(* Every reachable state of TraceFeed has the declared types: among others  *)
(* no queue, wire or page holds the number of an event that never was.      *)
THEOREM TypeCorrect == Spec => []TypeOK
<1>1. TInv => TypeOK
  <2> SUFFICES ASSUME TInv PROVE TypeOK
    OBVIOUS
  <2>1. IInv /\ StoreTypes /\ PageTypes /\ Newest \in Nat
    BY NewestIs DEF TInv, IInv
  <2>2. /\ log \subseteq 1..Newest /\ floor \in 0..Newest
        /\ phase \in [Browsers -> Phases] /\ lost \in [Browsers -> BOOLEAN]
        /\ whole \subseteq Browsers
    BY <2>1 DEF IInv, FeedTypes, LogCovers
  <2>3. /\ queue \in [Browsers -> SUBSET (1..Newest)]
        /\ outbox \in [Browsers -> SUBSET (1..Newest)]
        /\ latest \in [Browsers -> 0..Newest] /\ seen \in [Browsers -> 0..Newest]
    BY <2>1 DEF IInv, FeedTypes, Good, Numbered
  <2>4. ASSUME NEW b \in Browsers
        PROVE  wire[b] \in Seq([id : 0..Newest, reset : BOOLEAN])
    <3> DEFINE S == [id : 0..Newest, reset : BOOLEAN]
    <3>1. wire[b] \in Seq(Parcels) /\ Good(b)
      BY <2>1 DEF IInv, FeedTypes
    <3>2. PICK n \in Nat : n = Len(wire[b]) /\ wire[b] \in [1..n -> Parcels]
      BY <3>1, LenProperties
    <3>3. \A k \in 1..n : wire[b][k] \in S
      <4>1. \A k \in 1..n : wire[b][k] \in Parcels /\ wire[b][k].id <= Newest
        BY <3>1, <3>2 DEF Good, Carried
      <4> QED BY <2>1, <4>1 DEF Parcels
    <3> HIDE DEF S
    <3>4. wire[b] \in [1..n -> S]
      BY <3>2, <3>3
    <3>5. wire[b] \in UNION {[1..m -> S] : m \in Nat}
      BY <3>4
    <3>6. wire[b] \in Seq(S)
      BY <3>5, SeqDef, Zenon
    <3> QED BY <3>6 DEF S
  <2>5. wire \in [Browsers -> Seq([id : 0..Newest, reset : BOOLEAN])]
    BY <2>1, <2>4 DEF IInv, FeedTypes
  <2> QED BY <2>1, <2>2, <2>3, <2>5 DEF TypeOK, StoreTypes, PageTypes
<1> QED BY <1>1, TypesBegin, TypesStep, PTL DEF Spec

-----------------------------------------------------------------------------
(* What a quiet page shows.  The argument follows the whole history of the  *)
(* feed: R[i] is what a page that ingested the first i events shows, and    *)
(* R[Newest] is what the hub stores.                                       *)

Past(R) ==
    /\ R[0] = [q \in Queries |-> NoTrace] /\ R[Newest] = traces
    /\ \A i \in 0..Newest :
         R[i] \in [Queries -> Traces]
         /\ \A q \in Queries, e \in Elements : R[i][q].items[e] <= i
    /\ \A i \in 1..Newest : R[i] = Ingest(R[i - 1], i)

(* An element was last stored under a lower sequence than its query's next. *)
Ordered ==
    \A q \in Queries, e \in Elements :
       LET i == traces[q].items[e]
       IN i # 0 => i \in 1..Newest /\ event[i].seq < next[q]

(* What waits for a frame is the run of events last received.               *)
PendingRun(b) ==
    /\ Len(pending[b]) <= seen[b]
    /\ \A k \in 1..Len(pending[b]) : pending[b][k] = (seen[b] - Len(pending[b])) + k

(* A page that reloaded nothing shows the past up to its last frame.        *)
Shows(R, b) ==
    active[b] = Nobody => fetch[b] = Nobody /\ view[b] = R[seen[b] - Len(pending[b])]

Shown == \E R : Past(R) /\ \A b \in whole : Shows(R, b)

QInv == TInv /\ Ordered /\ (\A b \in whole : PendingRun(b)) /\ Shown

LEMMA AppendEvents ==
    ASSUME TInv, NEW delta \in Deltas, event' = Append(event, delta)
    PROVE  /\ Newest \in Nat /\ Newest' = Newest + 1 /\ event'[Newest + 1] = delta
           /\ \A i \in 1..Newest : event'[i] = event[i]
           /\ \A i \in 1..Newest : event[i] \in Deltas
BY AppendProperties, LenProperties, ElementOfSeq DEF TInv, StoreTypes, Newest

(* A record of the store, with one field set.                               *)
LEMMA FieldSet ==
    ASSUME NEW k \in BOOLEAN, NEW m, NEW c \in BOOLEAN
    PROVE  /\ [[known |-> k, items |-> m, complete |-> c] EXCEPT !.known = TRUE] =
                [known |-> TRUE, items |-> m, complete |-> c]
           /\ [[known |-> k, items |-> m, complete |-> c] EXCEPT !.complete = TRUE] =
                [known |-> k, items |-> m, complete |-> TRUE]
<1>1. PICK y \in BOOLEAN : y = TRUE
  OBVIOUS
<1>2. [[known |-> k, items |-> m, complete |-> c] EXCEPT !.known = y] =
        [known |-> y, items |-> m, complete |-> c]
  OBVIOUS
<1>3. [[known |-> k, items |-> m, complete |-> c] EXCEPT !.complete = y] =
        [known |-> k, items |-> m, complete |-> y]
  OBVIOUS
<1> QED BY <1>1, <1>2, <1>3

Marked(known, t, e, i) ==
    /\ known = [t EXCEPT !.known = TRUE] /\ known.items = t.items
    /\ known = [known |-> TRUE, items |-> t.items, complete |-> t.complete]
    /\ [known EXCEPT !.complete = TRUE] =
         [known |-> TRUE, items |-> t.items, complete |-> TRUE]
    /\ [known EXCEPT !.items[e] = i] =
         [known |-> TRUE, items |-> [t.items EXCEPT ![e] = i], complete |-> t.complete]

LEMMA TraceIs ==
    ASSUME NEW t \in Traces, NEW e, NEW i
    PROVE  \E known \in Traces : Marked(known, t, e, i)
<1>1. PICK k \in BOOLEAN : k = t.known
  BY DEF Traces
<1>2. PICK c \in BOOLEAN : c = t.complete
  BY DEF Traces
<1>3. PICK m \in [Elements -> Nat] : m = t.items
  BY DEF Traces
<1>4. t = [known |-> k, items |-> m, complete |-> c]
  BY <1>1, <1>2, <1>3 DEF Traces
<1>5. PICK known \in Traces : known = [known |-> TRUE, items |-> m, complete |-> c]
  BY DEF Traces
<1>6. [t EXCEPT !.known = TRUE] = known
  BY <1>4, <1>5, FieldSet
<1>7. [known EXCEPT !.complete = TRUE] = [known |-> TRUE, items |-> m, complete |-> TRUE]
  BY <1>5, FieldSet
<1>8. [known EXCEPT !.items[e] = i] =
        [known |-> TRUE, items |-> [m EXCEPT ![e] = i], complete |-> c]
  <2>1. PICK y \in BOOLEAN : y = TRUE
    OBVIOUS
  <2>2. known = [known |-> y, items |-> m, complete |-> c]
    BY <1>5, <2>1
  <2>3. [known EXCEPT !.items[e] = i] =
          [known |-> y, items |-> [m EXCEPT ![e] = i], complete |-> c]
    BY <2>2
  <2> QED BY <2>1, <2>3
<1>9. known.items = m
  BY <1>5
<1>10. Marked(known, t, e, i)
  BY <1>2, <1>3, <1>5, <1>6, <1>7, <1>8, <1>9 DEF Marked
<1> QED BY <1>10

(* Ingesting an old event is not changed by what is appended.               *)
LEMMA IngestStays ==
    ASSUME TInv, NEW delta \in Deltas, event' = Append(event, delta),
           NEW shown \in [Queries -> Traces], NEW i \in 1..Newest,
           \A q \in Queries, e \in Elements : shown[q].items[e] <= Newest
    PROVE  Ingest(shown, i)' = Ingest(shown, i)
<1>1. /\ Newest \in Nat /\ event'[i] = event[i] /\ event[i] \in Deltas
      /\ \A j \in 1..Newest : event'[j] = event[j]
  BY AppendEvents
<1>2. PICK d \in Deltas : d = event[i] /\ d = event'[i]
  BY <1>1
<1>3. d.query \in Queries /\ shown[d.query] \in Traces
  BY DeltaIs
<1>4. PICK known \in Traces :
        known = [shown[d.query] EXCEPT !.known = TRUE] /\ known.items = shown[d.query].items
  BY <1>3, TraceIs DEF Marked
<1> DEFINE Result(stale) ==
        [shown EXCEPT ![d.query] =
           CASE d.op = "trace_evicted"  -> NoTrace
             [] d.op = "trace_complete" -> [known EXCEPT !.complete = TRUE]
             [] d.op = "upsert"         -> IF stale THEN known
                                           ELSE [known EXCEPT !.items[d.item] = i]]
           stale == known.items[d.item] # 0 /\ d.seq <= event[known.items[d.item]].seq
           later == known.items[d.item] # 0 /\ d.seq <= event'[known.items[d.item]].seq
<1>5. Ingest(shown, i) = Result(stale)
  BY <1>2, <1>4 DEF Ingest
<1>6. Ingest(shown, i)' = Result(later)
  BY <1>2, <1>4 DEF Ingest
<1>7. d.op = "upsert" => stale = later
  <2> SUFFICES ASSUME d.op = "upsert", known.items[d.item] # 0
               PROVE  event'[known.items[d.item]] = event[known.items[d.item]]
    OBVIOUS
  <2>1. d.item \in Elements /\ known.items[d.item] \in Nat
    BY DeltaIs DEF Traces
  <2>2. known.items[d.item] <= Newest
    BY <1>3, <1>4, <2>1
  <2>3. PICK j : j = known.items[d.item]
    OBVIOUS
  <2>4. j \in 1..Newest
    BY <1>1, <2>1, <2>2, <2>3
  <2>5. event'[j] = event[j]
    BY <1>1, <2>4
  <2> QED BY <2>3, <2>5
<1>8. Result(stale) = Result(later)
  <2> HIDE DEF stale, later
  <2> QED BY <1>7, DeltaIs
<1> QED BY <1>5, <1>6, <1>8

(* The past goes on with whatever the appended event does.                  *)
LEMMA PastGrows ==
    ASSUME TInv, NEW delta \in Deltas, event' = Append(event, delta),
           NEW R, Past(R), NEW n, n = Newest, NEW new \in [Queries -> Traces], new = traces',
           \A q \in Queries, e \in Elements : new[q].items[e] <= n + 1,
           NEW old, old = R[n], Ingest(old, n + 1)' = new
    PROVE  \E S : Past(S)' /\ \A i \in 0..n : S[i] = R[i]
<1> DEFINE S == [i \in 0..(n + 1) |-> IF i <= n THEN R[i] ELSE new]
<1>1. n \in Nat /\ Newest' = n + 1
  BY AppendEvents
<1>2. (\A i \in 0..n : S[i] = R[i]) /\ S[n + 1] = new
  BY <1>1
<1> HIDE DEF S
<1>3. S[0] = [q \in Queries |-> NoTrace] /\ S[Newest'] = traces'
  BY <1>1, <1>2 DEF Past
<1>4. ASSUME NEW i \in 0..(n + 1)
      PROVE  S[i] \in [Queries -> Traces]
             /\ \A q \in Queries, e \in Elements : S[i][q].items[e] <= i
  <2>1. CASE i \in 0..n
    BY <1>2, <2>1 DEF Past
  <2>2. CASE i = n + 1
    BY <1>2, <2>2
  <2> QED BY <1>1, <2>1, <2>2
<1>5. ASSUME NEW i \in 1..(n + 1)
      PROVE  S[i] = Ingest(S[i - 1], i)'
  <2>1. CASE i \in 1..n
    <3>1. PICK t \in [Queries -> Traces] :
            t = R[i - 1] /\ \A q \in Queries, e \in Elements : t[q].items[e] <= n
      <4>1. PICK j \in 0..n : j = i - 1
        BY <1>1, <2>1
      <4>2. R[j] \in [Queries -> Traces]
            /\ \A q \in Queries, e \in Elements : R[j][q].items[e] <= j
        BY DEF Past
      <4>3. \A q \in Queries, e \in Elements : R[j][q].items[e] \in Nat
        BY <4>2 DEF Traces
      <4>4. \A q \in Queries, e \in Elements : R[j][q].items[e] <= n
        BY <1>1, <4>2, <4>3
      <4> QED BY <4>1, <4>2, <4>4
    <3>2. S[i] = R[i] /\ S[i - 1] = R[i - 1]
      BY <1>1, <1>2, <2>1
    <3>3. R[i] = Ingest(t, i)
      BY <2>1, <3>1 DEF Past
    <3>4. Ingest(t, i)' = Ingest(t, i)
      BY <2>1, <3>1, IngestStays
    <3>5. S[i - 1] = t
      BY <3>1, <3>2
    <3>6. S[i] = Ingest(t, i)'
      BY <3>2, <3>3, <3>4
    <3> QED BY <3>5, <3>6
  <2>2. CASE i = n + 1
    <3>1. S[i - 1] = old /\ S[i] = new
      BY <1>1, <1>2, <2>2
    <3> QED BY <2>2, <3>1
  <2> QED BY <1>1, <2>1, <2>2
<1>6. Past(S)'
  BY <1>1, <1>3, <1>4, <1>5 DEF Past
<1> QED BY <1>2, <1>6

(* A batch that continues where the page stopped takes it further down the  *)
(* same past.                                                              *)
LEMMA BatchFollows ==
    ASSUME event \in Seq(Deltas), NEW R, Past(R), NEW v \in Nat, NEW s \in Seq(Nat),
           v + Len(s) <= Newest, \A k \in 1..Len(s) : s[k] = v + k
    PROVE  Batch(R[v], s) = R[v + Len(s)]
<1>1. PICK n \in Nat : n = Len(s) /\ DOMAIN s = 1..n
  BY LenProperties
<1>2. PICK T : Steps(T, R[v], s, n)
  BY <1>1, FoldSteps
<1>3. /\ T[0] = R[v] /\ T[n] = Batch(R[v], s)
      /\ \A k \in 1..n : T[k] = Ingest(T[k - 1], s[k])
  BY <1>2 DEF Steps
<1> DEFINE bad == {k \in 0..n : T[k] # R[v + k]}
<1>4. bad = {}
  <2> SUFFICES ASSUME bad # {} PROVE FALSE
    OBVIOUS
  <2>1. PICK k \in bad : \A m \in bad : k <= m
    <3>1. bad \in SUBSET Nat
      OBVIOUS
    <3> HIDE DEF bad
    <3> QED BY <3>1, HasLeast
  <2>2. k \in 0..n /\ T[k] # R[v + k]
    BY <2>1
  <2>3. k # 0
    <3>1. v + 0 = v
      OBVIOUS
    <3> QED BY <1>3, <2>2, <3>1
  <2>4. k \in 1..n /\ k - 1 \in 0..n /\ ~(k <= k - 1)
    BY <2>2, <2>3
  <2>5. T[k - 1] = R[v + (k - 1)]
    <3>1. k - 1 \notin bad
      BY <2>1, <2>4
    <3> QED BY <2>4, <3>1
  <2>6. v + k \in 1..Newest /\ v + (k - 1) = (v + k) - 1
    <3>1. Newest \in Nat
      BY LenProperties DEF Newest
    <3> QED BY <1>1, <2>4, <3>1
  <2>7. R[v + k] = Ingest(R[(v + k) - 1], v + k)
    BY <2>6 DEF Past
  <2>8. T[k] = Ingest(T[k - 1], v + k)
    BY <1>1, <1>3, <2>4
  <2>9. T[k] = R[v + k]
    BY <2>5, <2>6, <2>7, <2>8
  <2> QED BY <2>2, <2>9
<1>5. n \in 0..n
  OBVIOUS
<1>6. T[n] = R[v + n]
  BY <1>4, <1>5
<1> QED BY <1>1, <1>3, <1>6

-----------------------------------------------------------------------------
(* The hub's steps.                                                         *)

PageStands == UNCHANGED <<seen, pending, view, active, fetch, whole>>

LEMMA PagesAgree ==
    ASSUME QInv, NEW n, n = Newest, NEW R, Past(R), \A b \in whole : Shows(R, b),
           NEW S, \A i \in 0..n : S[i] = R[i], PageStands
    PROVE  \A b \in whole' : PendingRun(b)' /\ Shows(S, b)'
<1> SUFFICES ASSUME NEW b \in whole
             PROVE  PendingRun(b)' /\ Shows(S, b)'
  BY DEF PageStands
<1>1. PendingRun(b)'
  BY DEF QInv, PendingRun, PageStands
<1>2. seen[b] - Len(pending[b]) \in 0..n
  <2>1. b \in Browsers
    BY DEF QInv, TInv, IInv, FeedTypes
  <2>2. seen[b] \in 0..n /\ n \in Nat
    BY <2>1, NewestIs DEF QInv, TInv, IInv, Good, Numbered
  <2>3. Len(pending[b]) \in Nat /\ Len(pending[b]) <= seen[b]
    BY <2>1, LenProperties DEF QInv, TInv, PageTypes, PendingRun
  <2> QED BY <2>2, <2>3
<1>3. Shows(S, b)'
  <2>1. Shows(R, b)
    OBVIOUS
  <2>2. S[seen[b] - Len(pending[b])] = R[seen[b] - Len(pending[b])]
    BY <1>2
  <2> QED BY <2>1, <2>2 DEF Shows, PageStands
<1> QED BY <1>1, <1>3

LEMMA HubShows ==
    ASSUME QInv, TInv', NEW q \in Queries, NEW delta \in Deltas, delta.query = q,
           event' = Append(event, delta), PageStands,
           NEW n \in Nat, n = Newest, NEW old \in [Queries -> Traces], old = traces,
           NEW t \in Traces, traces' = [traces EXCEPT ![q] = t],
           \A e \in Elements : t.items[e] <= n + 1,
           Ingest(old, n + 1)' = [old EXCEPT ![q] = t]
    PROVE  (\A b \in whole' : PendingRun(b)') /\ Shown'
<1>1. PICK R : Past(R) /\ \A b \in whole : Shows(R, b)
  BY DEF QInv, Shown
<1>4. PICK new \in [Queries -> Traces] : new = traces' /\ new = [old EXCEPT ![q] = t]
  OBVIOUS
<1>5. old = R[n]
  BY <1>1 DEF Past
<1>6. \A p \in Queries, e \in Elements : new[p].items[e] <= n + 1
  <2>1. \A p \in Queries, e \in Elements : old[p].items[e] <= n /\ old[p].items[e] \in Nat
    <3>1. n \in 0..n
      OBVIOUS
    <3>2. \A p \in Queries, e \in Elements : R[n][p].items[e] <= n
      BY <1>1, <3>1 DEF Past
    <3>3. \A p \in Queries, e \in Elements : old[p].items[e] \in Nat
      BY DEF Traces
    <3> QED BY <1>5, <3>2, <3>3
  <2> SUFFICES ASSUME NEW p \in Queries, NEW e \in Elements
               PROVE  new[p].items[e] <= n + 1
    OBVIOUS
  <2>2. CASE p = q
    BY <1>4, <2>2
  <2>3. CASE p # q
    <3>1. new[p] = old[p]
      BY <1>4, <2>3
    <3>2. old[p].items[e] <= n /\ old[p].items[e] \in Nat
      BY <2>1
    <3> QED BY <3>1, <3>2
  <2> QED BY <2>2, <2>3
<1>7. Ingest(old, n + 1)' = new
  BY <1>4
<1>a. TInv /\ new = traces'
  BY <1>4 DEF QInv
<1>8. PICK S : Past(S)' /\ \A i \in 0..n : S[i] = R[i]
  BY <1>1, <1>a, <1>5, <1>6, <1>7, PastGrows
<1>9. \A b \in whole' : PendingRun(b)' /\ Shows(S, b)'
  BY <1>1, <1>8, PagesAgree
<1> QED BY <1>8, <1>9 DEF Shown

(* Each of the hub's steps does to its store what its delta tells a page.   *)
LEMMA UpsertShows ==
    ASSUME QInv, TInv', NEW q \in Queries, NEW e \in Elements, PublishUpsert(q, e)
    PROVE  QInv'
<1>1. PICK n \in Nat : n = Newest
  BY NewestIs DEF QInv, TInv, IInv
<1>2. PICK old \in [Queries -> Traces] : old = traces
  BY DEF QInv, TInv, StoreTypes
<1>3. PICK m \in Nat : m = next[q]
  BY DEF QInv, TInv, StoreTypes
<1>4. PICK d \in Deltas : d = [query |-> q, op |-> "upsert", item |-> e, seq |-> m]
  BY DEF Deltas
<1>5. d.query = q /\ d.op = "upsert" /\ d.item = e /\ d.seq = m
  BY <1>4
<1>6. PICK k \in BOOLEAN, items \in [Elements -> Nat] :
        k = old[q].complete /\ items = old[q].items
  BY DEF Traces
<1>7. PICK set \in [Elements -> Nat] : set = [items EXCEPT ![e] = n + 1]
  <2>1. [items EXCEPT ![e] = n + 1] \in [Elements -> Nat]
    OBVIOUS
  <2> QED BY <2>1
<1>8. PICK t \in Traces : t = [known |-> TRUE, items |-> set, complete |-> k] /\ t.items = set
  <2>1. [known |-> TRUE, items |-> set, complete |-> k] \in Traces
    BY DEF Traces
  <2> QED BY <2>1
<1>9. Store(q, d, set, k)
  BY <1>1, <1>2, <1>3, <1>4, <1>6, <1>7 DEF PublishUpsert
<1>10. /\ event' = Append(event, d) /\ next' = [next EXCEPT ![q] = m + 1]
       /\ traces' = [traces EXCEPT ![q] = t] /\ PageStands
  <2>1. TInv
    BY DEF QInv
  <2>2. /\ event' = Append(event, d) /\ next' = [next EXCEPT ![q] = next[q] + 1]
        /\ traces' = [traces EXCEPT ![q] = [known |-> TRUE, items |-> set, complete |-> k]]
        /\ UNCHANGED page
    BY <1>9, <2>1, StoreShape
  <2>3. PageStands
    BY <2>2 DEF page, PageStands
  <2> QED BY <1>3, <1>8, <2>2, <2>3
<1>11. /\ Newest' = n + 1 /\ event'[n + 1] = d
       /\ \A i \in 1..n : event'[i] = event[i]
  BY <1>1, <1>10, AppendEvents DEF QInv
<1>12. \A p \in Queries, x \in Elements : old[p].items[x] # 0 =>
         old[p].items[x] \in 1..n /\ event[old[p].items[x]].seq < next[p]
  BY <1>1, <1>2 DEF QInv, Ordered
<1>13. \A x \in Elements : t.items[x] <= n + 1
  <2> SUFFICES ASSUME NEW x \in Elements PROVE t.items[x] <= n + 1
    OBVIOUS
  <2>1. CASE x = e
    BY <1>7, <1>8, <2>1
  <2>2. CASE x # e
    <3>1. t.items[x] = old[q].items[x] /\ items[x] \in Nat
      BY <1>6, <1>7, <1>8, <2>2
    <3>2. old[q].items[x] = 0 \/ old[q].items[x] \in 1..n
      BY <1>12
    <3> QED BY <3>1, <3>2
  <2> QED BY <2>1, <2>2
<1>14. Ingest(old, n + 1)' = [old EXCEPT ![q] = t]
  <2>1. PICK known \in Traces :
          known = [old[q] EXCEPT !.known = TRUE] /\ known.items = items
          /\ [known EXCEPT !.items[e] = n + 1] = t
    <3>1. PICK o \in Traces : o = old[q]
      OBVIOUS
    <3>2. PICK i : i = n + 1
      OBVIOUS
    <3>3. PICK known \in Traces : Marked(known, o, e, i)
      BY TraceIs
    <3> QED BY <1>6, <1>7, <1>8, <3>1, <3>2, <3>3 DEF Marked
  <2> DEFINE stale == known.items[d.item] # 0 /\ d.seq <= event'[known.items[d.item]].seq
  <2>2. ~stale
    <3> SUFFICES ASSUME items[e] # 0, m <= event'[items[e]].seq PROVE FALSE
      BY <1>5, <2>1
    <3>1. PICK i \in 1..n : i = items[e] /\ event[i].seq < m
      BY <1>3, <1>6, <1>12
    <3>2. event'[i].seq < m /\ event'[i].seq \in Nat
      <4>1. event[i] \in Deltas
        BY <1>1, <1>10, AppendEvents DEF QInv
      <4> QED BY <1>11, <3>1, <4>1, DeltaIs
    <3> QED BY <3>1, <3>2
  <2>3. Ingest(old, n + 1)' =
          [old EXCEPT ![q] =
             CASE d.op = "trace_evicted"  -> NoTrace
               [] d.op = "trace_complete" -> [known EXCEPT !.complete = TRUE]
               [] d.op = "upsert"         -> IF stale THEN known
                                             ELSE [known EXCEPT !.items[d.item] = n + 1]]
    BY <1>5, <1>11, <2>1 DEF Ingest
  <2> HIDE DEF stale
  <2> QED BY <1>5, <2>1, <2>2, <2>3
<1>15. (\A b \in whole' : PendingRun(b)') /\ Shown'
  BY <1>1, <1>2, <1>5, <1>10, <1>13, <1>14, HubShows
<1>16. Ordered'
  <2> SUFFICES ASSUME NEW p \in Queries, NEW x \in Elements, NEW i, i = traces'[p].items[x],
                      i # 0
               PROVE  i \in 1..(n + 1) /\ event'[i].seq < next'[p]
    BY <1>11 DEF Ordered
  <2>1. CASE p = q /\ x = e
    <3>1. i = n + 1
      BY <1>2, <1>7, <1>8, <1>10, <2>1
    <3>2. next'[p] = m + 1
      BY <1>10, <2>1 DEF QInv, TInv, StoreTypes
    <3> QED BY <1>5, <1>11, <3>1, <3>2
  <2>2. CASE ~(p = q /\ x = e)
    <3>1. i = old[p].items[x]
      <4>1. CASE p = q
        BY <1>2, <1>6, <1>7, <1>8, <1>10, <2>2, <4>1
      <4>2. CASE p # q
        BY <1>2, <1>10, <4>2
      <4> QED BY <4>1, <4>2
    <3>2. i \in 1..n /\ event[i].seq < next[p] /\ next[p] \in Nat /\ event[i].seq \in Nat
      <4>1. i \in 1..n /\ event[i].seq < next[p]
        BY <1>12, <3>1
      <4>2. event[i] \in Deltas
        BY <1>1, <1>10, <4>1, AppendEvents DEF QInv
      <4> QED BY <4>1, <4>2, DeltaIs DEF QInv, TInv, StoreTypes
    <3>3. next'[p] = next[p] \/ (p = q /\ next'[p] = next[p] + 1)
      BY <1>3, <1>10 DEF QInv, TInv, StoreTypes
    <3> QED BY <1>11, <3>2, <3>3
  <2> QED BY <2>1, <2>2
<1> QED BY <1>15, <1>16 DEF QInv

LEMMA CompleteShows ==
    ASSUME QInv, TInv', NEW q \in Queries, PublishComplete(q)
    PROVE  QInv'
<1>1. PICK n \in Nat : n = Newest
  BY NewestIs DEF QInv, TInv, IInv
<1>2. PICK old \in [Queries -> Traces] : old = traces
  BY DEF QInv, TInv, StoreTypes
<1>3. PICK m \in Nat : m = next[q]
  BY DEF QInv, TInv, StoreTypes
<1>4. PICK d \in Deltas : d = [query |-> q, op |-> "trace_complete", seq |-> m]
  BY DEF Deltas
<1>5. d.query = q /\ d.op = "trace_complete"
  BY <1>4
<1>6. PICK items \in [Elements -> Nat] : items = old[q].items
  BY DEF Traces
<1>7. PICK y \in BOOLEAN : y = TRUE
  OBVIOUS
<1>8. PICK t \in Traces : t = [known |-> TRUE, items |-> items, complete |-> y]
                          /\ t.items = items
  <2>1. [known |-> TRUE, items |-> items, complete |-> y] \in Traces
    BY DEF Traces
  <2> QED BY <2>1
<1>9. Store(q, d, items, y)
  BY <1>2, <1>3, <1>4, <1>6, <1>7 DEF PublishComplete
<1>10. /\ event' = Append(event, d) /\ next' = [next EXCEPT ![q] = m + 1]
       /\ traces' = [traces EXCEPT ![q] = t] /\ PageStands
  <2>1. TInv
    BY DEF QInv
  <2>2. /\ event' = Append(event, d) /\ next' = [next EXCEPT ![q] = next[q] + 1]
        /\ traces' = [traces EXCEPT ![q] = [known |-> TRUE, items |-> items, complete |-> y]]
        /\ UNCHANGED page
    BY <1>9, <2>1, StoreShape
  <2>3. PageStands
    BY <2>2 DEF page, PageStands
  <2> QED BY <1>3, <1>8, <2>2, <2>3
<1>11. /\ Newest' = n + 1 /\ event'[n + 1] = d
       /\ \A i \in 1..n : event'[i] = event[i]
  BY <1>1, <1>10, AppendEvents DEF QInv
<1>12. \A p \in Queries, x \in Elements : old[p].items[x] # 0 =>
         old[p].items[x] \in 1..n /\ event[old[p].items[x]].seq < next[p]
  BY <1>1, <1>2 DEF QInv, Ordered
<1>13. \A x \in Elements : t.items[x] <= n + 1
  <2> SUFFICES ASSUME NEW x \in Elements PROVE t.items[x] <= n + 1
    OBVIOUS
  <2>1. old[q].items[x] = 0 \/ old[q].items[x] \in 1..n
    BY <1>12
  <2> QED BY <1>6, <1>8, <2>1
<1>14. Ingest(old, n + 1)' = [old EXCEPT ![q] = t]
  <2>1. PICK known \in Traces :
          known = [old[q] EXCEPT !.known = TRUE] /\ [known EXCEPT !.complete = TRUE] = t
    <3>1. PICK o \in Traces : o = old[q]
      OBVIOUS
    <3>2. PICK known \in Traces : Marked(known, o, 0, 0)
      BY TraceIs
    <3> QED BY <1>6, <1>7, <1>8, <3>1, <3>2 DEF Marked
  <2> DEFINE stale == known.items[d.item] # 0 /\ d.seq <= event'[known.items[d.item]].seq
  <2>2. Ingest(old, n + 1)' =
          [old EXCEPT ![q] =
             CASE d.op = "trace_evicted"  -> NoTrace
               [] d.op = "trace_complete" -> [known EXCEPT !.complete = TRUE]
               [] d.op = "upsert"         -> IF stale THEN known
                                             ELSE [known EXCEPT !.items[d.item] = n + 1]]
    BY <1>5, <1>11, <2>1 DEF Ingest
  <2> HIDE DEF stale
  <2> QED BY <1>5, <2>1, <2>2
<1>15. (\A b \in whole' : PendingRun(b)') /\ Shown'
  BY <1>1, <1>2, <1>5, <1>10, <1>13, <1>14, HubShows
<1>16. Ordered'
  <2> SUFFICES ASSUME NEW p \in Queries, NEW x \in Elements, NEW i, i = traces'[p].items[x],
                      i # 0
               PROVE  i \in 1..(n + 1) /\ event'[i].seq < next'[p]
    BY <1>11 DEF Ordered
  <2>1. i = old[p].items[x]
    <3>1. CASE p = q
      BY <1>2, <1>6, <1>8, <1>10, <3>1
    <3>2. CASE p # q
      BY <1>2, <1>10, <3>2
    <3> QED BY <3>1, <3>2
  <2>2. i \in 1..n /\ event[i].seq < next[p] /\ next[p] \in Nat /\ event[i].seq \in Nat
    <3>1. i \in 1..n /\ event[i].seq < next[p]
      BY <1>12, <2>1
    <3>2. event[i] \in Deltas
      BY <1>1, <1>10, <3>1, AppendEvents DEF QInv
    <3> QED BY <3>1, <3>2, DeltaIs DEF QInv, TInv, StoreTypes
  <2>3. next'[p] = next[p] \/ (p = q /\ next'[p] = next[p] + 1)
    BY <1>3, <1>10 DEF QInv, TInv, StoreTypes
  <2> QED BY <1>11, <2>2, <2>3
<1> QED BY <1>15, <1>16 DEF QInv

LEMMA EvictShows ==
    ASSUME QInv, TInv', Expire \/ Enforce
    PROVE  QInv'
<1>1. PICK n \in Nat : n = Newest
  BY NewestIs DEF QInv, TInv, IInv
<1>2. PICK old \in [Queries -> Traces] : old = traces
  BY DEF QInv, TInv, StoreTypes
<1>3. TInv
  BY DEF QInv
<1>4. PICK q \in Queries : Evict(q) /\ UNCHANGED page
  BY <1>3, OldestTypes
<1>5. PICK d \in Deltas :
        /\ event' = Append(event, d) /\ d.query = q /\ d.op = "trace_evicted"
        /\ traces' = [traces EXCEPT ![q] = NoTrace] /\ next' = [next EXCEPT ![q] = 0]
  BY <1>3, <1>4, EvictShape
<1>6. PageStands
  BY <1>4 DEF page, PageStands
<1>7. PICK t \in Traces : t = NoTrace /\ \A x \in Elements : t.items[x] = 0
  BY NoTraceTypes DEF NoTrace
<1>8. /\ Newest' = n + 1 /\ event'[n + 1] = d
      /\ \A i \in 1..n : event'[i] = event[i]
  BY <1>1, <1>3, <1>5, AppendEvents
<1>9. Ingest(old, n + 1)' = [old EXCEPT ![q] = t]
  <2>1. PICK known : known = [old[q] EXCEPT !.known = TRUE]
    OBVIOUS
  <2> DEFINE stale == known.items[d.item] # 0 /\ d.seq <= event'[known.items[d.item]].seq
  <2>2. Ingest(old, n + 1)' =
          [old EXCEPT ![q] =
             CASE d.op = "trace_evicted"  -> NoTrace
               [] d.op = "trace_complete" -> [known EXCEPT !.complete = TRUE]
               [] d.op = "upsert"         -> IF stale THEN known
                                             ELSE [known EXCEPT !.items[d.item] = n + 1]]
    BY <1>5, <1>8, <2>1 DEF Ingest
  <2> HIDE DEF stale
  <2> QED BY <1>5, <1>7, <2>2
<1>10. traces' = [traces EXCEPT ![q] = t] /\ \A x \in Elements : t.items[x] <= n + 1
  BY <1>5, <1>7
<1>11. (\A b \in whole' : PendingRun(b)') /\ Shown'
  BY <1>1, <1>2, <1>5, <1>6, <1>9, <1>10, HubShows
<1>12. Ordered'
  <2> SUFFICES ASSUME NEW p \in Queries, NEW x \in Elements, NEW i, i = traces'[p].items[x],
                      i # 0
               PROVE  i \in 1..(n + 1) /\ event'[i].seq < next'[p]
    BY <1>8 DEF Ordered
  <2>1. p # q
    BY <1>2, <1>7, <1>10
  <2>2. i = traces[p].items[x] /\ next'[p] = next[p]
    BY <1>2, <1>5, <2>1 DEF QInv, TInv, StoreTypes
  <2>3. i \in 1..n /\ event[i].seq < next[p]
    BY <1>1, <2>2 DEF QInv, Ordered
  <2> QED BY <1>8, <2>2, <2>3
<1> QED BY <1>11, <1>12 DEF QInv

-----------------------------------------------------------------------------
(* The other steps leave the store alone, and so the past.                  *)
LEMMA PastStands ==
    ASSUME UNCHANGED <<event, traces>>, NEW R, Past(R)
    PROVE  Past(R)'
<1>1. Newest' = Newest
  BY DEF Newest
<1>2. ASSUME NEW i \in 1..Newest
      PROVE  Ingest(R[i - 1], i)' = Ingest(R[i - 1], i)
  BY DEF Ingest
<1>3. \A i \in 1..Newest : R[i] = Ingest(R[i - 1], i)'
  BY <1>2 DEF Past
<1> QED BY <1>1, <1>3 DEF Past

LEMMA OrderStands ==
    ASSUME QInv, UNCHANGED <<event, traces, next>>
    PROVE  Ordered'
<1>1. Newest' = Newest
  BY DEF Newest
<1> QED BY <1>1 DEF QInv, Ordered

LEMMA ServerShows ==
    ASSUME QInv, TInv', UNCHANGED <<event, traces, next>>, PageStands
    PROVE  QInv'
<1>1. PICK R : Past(R) /\ \A b \in whole : Shows(R, b)
  BY DEF QInv, Shown
<1>2. Past(R)'
  BY <1>1, PastStands
<1>3. \A b \in whole' : PendingRun(b)' /\ Shows(R, b)'
  BY <1>1 DEF QInv, PendingRun, Shows, PageStands
<1> QED BY <1>2, <1>3, OrderStands DEF QInv, Shown

(* A step of one page: what the page knew of itself it still knows.         *)
LEMMA OnePage ==
    ASSUME QInv, TInv', NEW b \in Browsers, UNCHANGED <<event, traces, next>>,
           whole' \subseteq whole,
           \A c \in Browsers \ {b} :
               /\ seen'[c] = seen[c] /\ pending'[c] = pending[c] /\ view'[c] = view[c]
               /\ active'[c] = active[c] /\ fetch'[c] = fetch[c],
           b \in whole' => PendingRun(b)',
           \A R : b \in whole' /\ Past(R) /\ Shows(R, b) => Shows(R, b)'
    PROVE  QInv'
<1>1. PICK R : Past(R) /\ \A c \in whole : Shows(R, c)
  BY DEF QInv, Shown
<1>2. Past(R)'
  BY <1>1, PastStands
<1>3. ASSUME NEW c \in whole'
      PROVE  PendingRun(c)' /\ Shows(R, c)'
  <2>1. CASE c = b
    BY <1>1, <1>3, <2>1
  <2>2. CASE c # b
    <3>1. c \in Browsers \ {b} /\ c \in whole
      BY <2>2 DEF QInv, TInv, IInv, FeedTypes
    <3>2. PendingRun(c) /\ Shows(R, c)
      BY <1>1, <3>1 DEF QInv
    <3>3. PendingRun(c)'
      BY <3>1, <3>2 DEF PendingRun
    <3>4. Shows(R, c)'
      BY <3>1, <3>2 DEF Shows
    <3> QED BY <3>3, <3>4
  <2> QED BY <2>1, <2>2
<1> QED BY <1>2, <1>3, OrderStands DEF QInv, Shown

LEMMA ReceiveShows ==
    ASSUME QInv, TInv', NEW b \in Browsers, Receive(b)
    PROVE  QInv'
<1>1. /\ TInv /\ UNCHANGED <<event, traces, next, view, active>>
      /\ seen \in [Browsers -> Nat] /\ pending \in [Browsers -> Seq(1..Newest)]
      /\ fetch \in [Browsers -> Fetches \cup {Nobody}] /\ whole \subseteq Browsers
  BY ReceiveShape DEF QInv, TInv, IInv, FeedTypes, PageTypes
<1>2. CASE /\ pending' = [pending EXCEPT ![b] = Append(pending[b], seen[b] + 1)]
           /\ seen' = [seen EXCEPT ![b] = seen[b] + 1]
           /\ seen[b] + 1 \in 1..Newest /\ UNCHANGED <<whole, fetch>>
  <2>1. PICK n \in Nat, v \in Nat : n = Len(pending[b]) /\ v = seen[b]
    BY <1>1, LenProperties
  <2>2. /\ Len(pending'[b]) = n + 1 /\ pending'[b][n + 1] = v + 1 /\ seen'[b] = v + 1
        /\ \A k \in 1..n : pending'[b][k] = pending[b][k]
    <3>1. pending[b] \in Seq(1..Newest) /\ v + 1 \in 1..Newest
      BY <1>1, <1>2, <2>1
    <3>2. pending'[b] = Append(pending[b], v + 1) /\ seen'[b] = v + 1
      BY <1>1, <1>2, <2>1
    <3> QED BY <2>1, <3>1, <3>2, AppendProperties
  <2>3. b \in whole' => PendingRun(b)'
    <3> SUFFICES ASSUME b \in whole
                 PROVE  /\ n + 1 <= v + 1
                        /\ \A k \in 1..(n + 1) : pending'[b][k] = ((v + 1) - (n + 1)) + k
      BY <1>2, <2>2 DEF PendingRun
    <3>1. n <= v /\ \A k \in 1..n : pending[b][k] = (v - n) + k
      BY <2>1 DEF QInv, PendingRun
    <3>2. (v + 1) - (n + 1) = v - n /\ (v - n) + (n + 1) = v + 1
      OBVIOUS
    <3>3. ASSUME NEW k \in 1..(n + 1)
          PROVE  pending'[b][k] = (v - n) + k
      <4>1. CASE k = n + 1
        BY <2>2, <3>2, <4>1
      <4>2. CASE k \in 1..n
        BY <2>2, <3>1, <4>2
      <4> QED BY <4>1, <4>2
    <3> QED BY <3>1, <3>2, <3>3
  <2>4. ASSUME NEW R, Shows(R, b) PROVE Shows(R, b)'
    <3>1. seen'[b] - Len(pending'[b]) = v - n
      BY <2>2
    <3> QED BY <1>1, <1>2, <2>1, <2>4, <3>1 DEF Shows
  <2>5. \A c \in Browsers \ {b} : seen'[c] = seen[c] /\ pending'[c] = pending[c]
    BY <1>1, <1>2
  <2> QED BY <1>1, <1>2, <2>3, <2>4, <2>5, OnePage
<1>3. CASE /\ UNCHANGED pending /\ whole' = whole \ {b}
           /\ \A c \in Browsers \ {b} : seen'[c] = seen[c]
           /\ fetch' = [fetch EXCEPT ![b] =
                 IF active[b] = Nobody THEN Nobody
                 ELSE [query |-> active[b], stage |-> "asked", found |-> NoTrace]]
  <2>1. b \notin whole' /\ whole' \subseteq whole
    BY <1>3
  <2>2. \A c \in Browsers \ {b} : fetch'[c] = fetch[c]
    BY <1>1, <1>3
  <2> QED BY <1>1, <1>3, <2>1, <2>2, OnePage
<1> QED BY <1>1, <1>2, <1>3, ReceiveShape

LEMMA FlushShows ==
    ASSUME QInv, TInv', NEW b \in Browsers, Flush(b)
    PROVE  QInv'
<1>1. /\ view' = [view EXCEPT ![b] = Batch(view[b], pending[b])]
      /\ pending' = [pending EXCEPT ![b] = <<>>]
      /\ UNCHANGED <<event, traces, next, seen, active, fetch, whole>>
  BY DEF Flush, Batch, hub
<1>2. /\ view \in [Browsers -> [Queries -> Traces]] /\ seen \in [Browsers -> Nat]
      /\ pending \in [Browsers -> Seq(1..Newest)] /\ event \in Seq(Deltas)
  BY DEF QInv, TInv, IInv, FeedTypes, StoreTypes, PageTypes
<1>3. pending'[b] = <<>> /\ view'[b] = Batch(view[b], pending[b]) /\ seen'[b] = seen[b]
  BY <1>1, <1>2
<1>4. Len(pending'[b]) = 0
  BY <1>3, EmptySeq
<1>5. PendingRun(b)'
  <2>1. 0 <= seen'[b]
    BY <1>2, <1>3
  <2>2. 1..Len(pending'[b]) = {}
    BY <1>4
  <2> QED BY <1>4, <2>1, <2>2 DEF PendingRun
<1>6. ASSUME NEW R, b \in whole', Past(R), Shows(R, b)
      PROVE  Shows(R, b)'
  <2> SUFFICES ASSUME active[b] = Nobody
               PROVE  fetch'[b] = Nobody /\ view'[b] = R[seen[b]]
    BY <1>1, <1>2, <1>3, <1>4 DEF Shows
  <2>1. fetch[b] = Nobody /\ view[b] = R[seen[b] - Len(pending[b])]
    BY <1>6 DEF Shows
  <2>2. PICK n \in Nat : n = Len(pending[b])
    BY <1>2, LenProperties
  <2>3. n <= seen[b] /\ \A k \in 1..n : pending[b][k] = (seen[b] - n) + k
    BY <1>1, <1>6, <2>2 DEF QInv, PendingRun
  <2>4. PICK v \in Nat : v = seen[b] - n /\ v + n = seen[b]
    BY <1>2, <2>3
  <2>5. v + n <= Newest
    <3>1. seen[b] \in 0..Newest /\ Newest \in Nat
      BY NewestIs DEF QInv, TInv, IInv, Good, Numbered
    <3> QED BY <2>4, <3>1
  <2>6. pending[b] \in Seq(Nat)
    <3>1. 1..Newest \subseteq Nat
      BY NewestIs DEF QInv, TInv, IInv
    <3>2. pending[b] \in Seq(1..Newest)
      BY <1>2
    <3> QED BY <3>1, <3>2, SeqMonotonic
  <2>7. Batch(R[v], pending[b]) = R[v + n]
    <3>1. \A k \in 1..Len(pending[b]) : pending[b][k] = v + k
      BY <2>2, <2>3, <2>4
    <3> QED BY <1>2, <1>6, <2>2, <2>5, <2>6, <3>1, BatchFollows
  <2> QED BY <1>1, <1>3, <2>1, <2>2, <2>4, <2>7
<1>7. \A c \in Browsers \ {b} : pending'[c] = pending[c] /\ view'[c] = view[c]
  BY <1>1, <1>2
<1> QED BY <1>1, <1>5, <1>6, <1>7, OnePage

(* A page that asks for a snapshot has selected a trace.                    *)
LEMMA FetchShows ==
    ASSUME QInv, TInv', NEW b \in Browsers,
           Snapshot(b) \/ Show(b) \/ \E q \in Queries : Select(b, q)
    PROVE  QInv'
<1>1. UNCHANGED <<event, traces, next, seen, pending, whole>>
  BY DEF Snapshot, Show, Select, hub
<1>2. /\ view \in [Browsers -> [Queries -> Traces]]
      /\ active \in [Browsers -> Queries \cup {Nobody}]
      /\ fetch \in [Browsers -> Fetches \cup {Nobody}]
  BY DEF QInv, TInv, PageTypes
<1>3. \A c \in Browsers \ {b} :
        view'[c] = view[c] /\ active'[c] = active[c] /\ fetch'[c] = fetch[c]
  BY <1>2 DEF Snapshot, Show, Select
<1>4. b \in whole' => PendingRun(b)'
  BY <1>1 DEF QInv, PendingRun
<1>5. ASSUME NEW R, b \in whole', Past(R), Shows(R, b)
      PROVE  Shows(R, b)'
  <2>1. active'[b] # Nobody
    <3>1. CASE Snapshot(b) \/ Show(b)
      <4>1. fetch[b] # Nobody /\ active' = active
        BY <3>1 DEF Snapshot, Show
      <4> QED BY <1>5, <4>1 DEF Shows
    <3>2. CASE \E q \in Queries : Select(b, q)
      BY <1>2, <3>2, ConstantsAssumption DEF Select, ConstantsAssumption
    <3> QED BY <3>1, <3>2
  <2> QED BY <2>1 DEF Shows
<1> QED BY <1>1, <1>3, <1>4, <1>5, OnePage

LEMMA ShownStep ==
    ASSUME QInv, [Next]_vars
    PROVE  QInv'
<1>1. TInv'
  BY TypesStep DEF QInv
<1>2. CASE UNCHANGED vars
  BY <1>1, <1>2, ServerShows DEF vars, hub, page, PageStands
<1>3. ASSUME NEW b \in Browsers, ServerStep(b) \/ Disconnect(b)
      PROVE  QInv'
  <2>1. UNCHANGED <<hub, page>>
    BY <1>3 DEF ServerStep, Connect, AskSince, Replay, Check, Take, SendReset, Closed,
                Disconnect, Hangup
  <2> QED BY <1>1, <2>1, ServerShows DEF hub, page, PageStands
<1>4. ASSUME NEW b \in Browsers, PageStep(b) \/ \E q \in Queries : Select(b, q)
      PROVE  QInv'
  BY <1>1, <1>4, ReceiveShows, FlushShows, FetchShows DEF PageStep
<1> QED BY <1>1, <1>2, <1>3, <1>4, UpsertShows, CompleteShows, EvictShows DEF Next

LEMMA ShownBegins == Init => QInv
<1> SUFFICES ASSUME Init PROVE QInv
  OBVIOUS
<1>1. TInv
  BY TypesBegin
<1>2. Newest = 0 /\ \A b \in Browsers : Len(pending[b]) = 0 /\ seen[b] = 0
  BY EmptySeq DEF Init, Newest
<1>3. Ordered
  BY DEF Init, Ordered, NoTrace
<1>4. \A b \in whole : PendingRun(b)
  BY <1>2 DEF Init, PendingRun
<1> DEFINE first == [q \in Queries |-> NoTrace]
           R == [i \in {0} |-> first]
<1>5. Past(R)
  <2>1. R[0] = first
    OBVIOUS
  <2>2. first \in [Queries -> Traces]
        /\ \A q \in Queries, e \in Elements : first[q].items[e] = 0
    BY NoTraceTypes DEF NoTrace
  <2>3. 0..Newest = {0} /\ 1..Newest = {}
    BY <1>2
  <2>4. traces = first
    BY DEF Init
  <2> HIDE DEF R, first
  <2> QED BY <1>2, <2>1, <2>2, <2>3, <2>4 DEF Past, first
<1>6. \A b \in whole : Shows(R, b)
  <2>1. R[0 - 0] = first
    OBVIOUS
  <2> HIDE DEF R
  <2> QED BY <1>2, <2>1 DEF Init, Shows
<1>7. Shown
  <2> HIDE DEF R
  <2> QED BY <1>5, <1>6 DEF Shown
<1> QED BY <1>1, <1>3, <1>4, <1>7 DEF QInv

(* When nothing is under way between the hub and a page that was never told *)
(* to start over and never reloaded a trace, the page shows exactly what    *)
(* the hub stores, whatever was evicted, stored again, replayed or sent     *)
(* twice on the way.                                                       *)
THEOREM QuietPages == Spec => []QuietPageIsExact
<1>1. QInv => QuietPageIsExact
  <2> SUFFICES ASSUME QInv, NEW b \in whole, Quiet(b), active[b] = Nobody
               PROVE  view[b] = traces
    BY DEF QuietPageIsExact
  <2>1. b \in Browsers /\ Good(b) /\ Newest \in Nat
    BY NewestIs DEF QInv, TInv, IInv, FeedTypes
  <2>2. latest[b] \in 0..Newest /\ seen[b] \in 0..Newest /\ latest[b] = seen[b]
    <3>1. Len(wire[b]) = 0
      BY EmptySeq DEF Quiet
    <3>2. latest[b] = seen[b] + 0
      BY <2>1, <3>1 DEF Quiet, Good, Carried
    <3> QED BY <2>1, <3>2 DEF Good, Numbered
  <2>3. seen[b] = Newest
    <3>1. \A j \in 1..Newest : ~(latest[b] < j)
      BY <2>1 DEF Quiet, Good, Waiting
    <3> QED BY <2>1, <2>2, <3>1
  <2>4. Len(pending[b]) = 0
    BY EmptySeq DEF Quiet
  <2>5. PICK R : Past(R) /\ Shows(R, b)
    BY DEF QInv, Shown
  <2>6. view[b] = R[Newest - 0]
    BY <2>3, <2>4, <2>5 DEF Shows
  <2>7. R[Newest] = traces
    BY <2>5 DEF Past
  <2> QED BY <2>1, <2>6, <2>7
<1> QED BY <1>1, ShownBegins, ShownStep, PTL DEF Spec

=============================================================================
