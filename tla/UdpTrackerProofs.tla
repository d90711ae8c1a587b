-------------------------- MODULE UdpTrackerProofs --------------------------
(***************************************************************************)
(* What the search for a tracker keeps, for any number of trackers, faults *)
(* and intervals.  Inv is inductive: it says when an attempt may have      *)
(* started and how old its connection id is (a retry is only ever needed   *)
(* in the third attempt), and from that how much of the buffer is left.    *)
(***************************************************************************)
EXTENDS UdpTracker, TLAPS

Messages(tx) == [tx : 1..tx, kind : {"connect", "announce"}, late : BOOLEAN]

TypeInv == TypeOK /\ net \subseteq Messages(tracker.tx)

\* What the task knows at each await.
StageInv ==
    /\ pc = "connect" =>
          tracker = NewTracker /\ call = NoCall /\ now = 0 /\ net = {}
    /\ pc = "get_conn_id" /\ call.attempt = 0 =>
          /\ call.retry = 0 /\ call.deadline = ConnectTimeout
          /\ tracker.conn_id_ts = 0 /\ tracker.next_announce = 0
    /\ pc = "get_conn_id" /\ call.attempt > 0 => call.attempt = 3 /\ call.retry > 0
    /\ pc \in {"announce", "send_announce"} => call.attempt > 0 /\ call.retry = 0
    /\ pc = "announce" => call.deadline = now + RETRY_TIMEOUT[call.attempt]

\* The latest end of the n-th attempt, where the 0-th is the connecting.
LatestEnd == <<4, 13, 34>>

TimeInv ==
    /\ now <= 34
    /\ pc \notin Ended /\ call.attempt = 0 => now <= ConnectTimeout
    /\ pc \notin Ended /\ call.attempt > 0 =>
          now <= call.deadline /\ call.deadline <= LatestEnd[call.attempt]

\* The connection id of the first two attempts is young.
AgeInv ==
    /\ tracker.conn_id_ts <= now
    /\ pc \notin Ended /\ call.attempt = 1 => call.deadline = tracker.conn_id_ts + 3
    /\ pc \notin Ended /\ call.attempt = 2 => call.deadline <= tracker.conn_id_ts + ConnIdLifetime

\* What is left of the buffer.
RoomLeft(n, l, r) ==
    CASE n = 0 -> Capacity
      [] n \in {1, 2} -> Capacity - 16 - 28 * (n - 1)
      [] n = 3 /\ l = "announce" -> Capacity - 16 - 56
      [] n = 3 /\ l = "get_conn_id" -> Capacity - 16 - 56 - 16 * (r - 1)
      [] n = 3 /\ l = "send_announce" -> Capacity - 16 - 56 - 48

RoomInv == pc \notin Ended => tracker.room >= RoomLeft(call.attempt, pc, call.retry)

\* An announce that is on its way was allowed, and still is if it is not late.
NetInv ==
    /\ pc \in Waiting => now >= tracker.next_announce
    /\ \A m \in net : m.kind = "announce" /\ ~m.late => now - tracker.conn_id_ts < ConnIdLifetime

Inv == TypeInv /\ StageInv /\ TimeInv /\ AgeInv /\ RoomInv /\ NetInv

-----------------------------------------------------------------------------
(* A tracker that is good enough to be found. *)

\* Its request is on its way, or was lost and cost a fault.
Awaited(u) ==
    \/ /\ \E m \in net : /\ net = {m}
                         /\ m.tx = tracker.tx /\ ~m.late
                         /\ m.kind = IF pc = "get_conn_id" THEN "connect" ELSE "announce"
       /\ now < call.deadline
       /\ call.retry > 0 => now < call.retry_deadline
    \/ net = {} /\ call.attempt > 0 /\ call.attempt <= faults[u]

\* Every attempt before this one cost a fault.
Trying(u) ==
    /\ tracker.next_announce = 0
    /\ call.attempt <= faults[u] + 1
    /\ call.attempt = 0 => faults[u] = 0
    /\ pc \in {"connect", "announce"} => net = {}
    /\ pc \in Waiting => Awaited(u)

GoodInv(u) ==
    /\ url <= u /\ pc # "err"
    /\ url < u => faults[u] = 0
    /\ faults[u] <= 2
    /\ url = u /\ pc \notin Ended => Trying(u)

AllGood == \A u \in Trackers : Good(u) => GoodInv(u)

\* What the search ends with.
FoundInv == pc = "ok" => found.peers = found.listed /\ found.seeders >= EnoughSeeders

-----------------------------------------------------------------------------
(* The timeouts and the answers. *)

LEMMA Timeouts ==
    /\ Len(RETRY_TIMEOUT) = 3
    /\ RETRY_TIMEOUT[1] = 3 /\ RETRY_TIMEOUT[2] = 9 /\ RETRY_TIMEOUT[3] = 21
    /\ LatestEnd[1] = 4 /\ LatestEnd[2] = 13 /\ LatestEnd[3] = 34
  BY DEF RETRY_TIMEOUT, LatestEnd

LEMMA Sizes ==
    /\ RequestSize["connect"] = 16 /\ RequestSize["announce"] = 98
    /\ Capacity = 512 /\ ConnectTimeout = 1 /\ ConnIdLifetime = 12
  BY DEF RequestSize, Capacity, ConnectTimeout, ConnIdLifetime

\* What any answer is like: an error's message is short, and an announce's answer has
\* at most a byte more than its peers need.
Datagrams(m) ==
    { a \in [ tx : {m.tx}, action : {"connect", "announce", "other", "error", "garbled"},
              length : Nat, interval : Nat ] :
        /\ a.action = "error" => a.length <= 28
        /\ a.action = "announce" => a.length <= 8 \/ \E n \in PeerCounts : a.length <= 21 + 6 * n }

LEMMA GoodAnswersAre ==
  ASSUME NEW m, NEW a \in GoodAnswers(m)
  PROVE  /\ a \in Datagrams(m)
         /\ m.kind = "connect" => a = Answer(m, "connect", 16, 0)
         /\ m.kind # "connect" =>
                \E n \in PeerCounts, i \in Intervals : a = Answer(m, "announce", 20 + 6 * n, i)
  BY TrackersAssumption DEF GoodAnswers, Answer, Datagrams

LEMMA BadAnswersAre ==
  ASSUME NEW m, NEW kind, NEW a \in BadAnswers(m, kind), m.kind \in {"connect", "announce"}
  PROVE  a \in Datagrams(m)
<1>1. CASE kind = "short"
  BY <1>1 DEF BadAnswers, Answer, Datagrams
<1>2. CASE kind = "odd" /\ m.kind = "announce"
  <2>1. PICK b \in GoodAnswers(m) : a = [b EXCEPT !.length = @ + 1]
    BY <1>2 DEF BadAnswers
  <2>2. PICK n \in PeerCounts, i \in Intervals : b = Answer(m, "announce", 20 + 6 * n, i)
    BY <1>2, GoodAnswersAre
  <2>3. n \in Nat /\ i \in Nat
    BY TrackersAssumption
  <2>4. a = [tx |-> m.tx, action |-> "announce", length |-> 21 + 6 * n, interval |-> i]
    BY <2>1, <2>2, <2>3 DEF Answer
  <2> QED
    BY <2>3, <2>4 DEF Datagrams
<1>3. CASE kind = "other"
  <2>1. PICK b \in GoodAnswers(m) : a = [b EXCEPT !.action = "other"]
    BY <1>3 DEF BadAnswers
  <2> QED
    BY <2>1, GoodAnswersAre DEF Datagrams
<1>4. CASE kind \in {"error", "garbled"}
  BY <1>4 DEF BadAnswers, Answer, Datagrams
<1> QED
  BY <1>1, <1>2, <1>3, <1>4 DEF BadAnswers

\* A step of the network's: an answer is heard, and at most its request is done with.
LEMMA ReceiveHears ==
  ASSUME TypeInv, NEW m \in net, Receive(m)
  PROVE  \E a \in Datagrams(m), rest \in {net, net \ {m}} :
            Hear(a, rest) /\ (UNCHANGED faults \/ \E kinds : Fault(kinds))
<1>1. m.kind \in {"connect", "announce"}
  BY DEF TypeInv, Messages
<1> USE DEF Receive
<1>2. CASE \E a \in GoodAnswers(m) : Hear(a, net \ {m}) /\ UNCHANGED faults
  BY <1>2, GoodAnswersAre
<1>3. CASE \E a \in GoodAnswers(m) : Hear(a, net) /\ Fault({"duplicate"})
  BY <1>3, GoodAnswersAre
<1>4. CASE \E kind \in Faults[url] : \E a \in BadAnswers(m, kind) :
                Hear(a, net \ {m}) /\ Fault({kind})
  BY <1>1, <1>4, BadAnswersAre
<1> QED
  BY <1>2, <1>3, <1>4

-----------------------------------------------------------------------------
(* Where the task goes on: each of End, NextTracker, Attempt and Request   *)
(* keeps Inv, given what is right for its arguments.                       *)

LogOK ==
    /\ faults \in [Trackers -> Nat] /\ \A u \in Trackers : faults[u] <= MaxFaults[u]
    /\ found \in [peers : Nat, listed : Nat, seeders : Nat]

\* A UdpTracker, and what is left in the network, to go on with.
Sound(tr, rest) ==
    /\ tr \in [conn_id_ts : Nat, next_announce : Nat, room : 0..Capacity, tx : Nat]
    /\ tr.conn_id_ts <= now
    /\ rest \subseteq Messages(tr.tx)
    /\ \A m \in rest : m.kind = "announce" /\ ~m.late => now - tr.conn_id_ts < ConnIdLifetime

LEMMA MessagesAre ==
  ASSUME NEW tx, NEW rest \in SUBSET Messages(tx), NEW m \in rest
  PROVE  m.tx \in 1..tx /\ m.kind \in {"connect", "announce"} /\ m.late \in BOOLEAN
  BY DEF Messages

LEMMA EndKeeps ==
  ASSUME Inv, NEW l \in Ended, End(l), LogOK'
  PROVE  Inv'
<1> USE DEF End
<1>1. TypeInv'
  BY DEF Inv, TypeInv, TypeOK, LogOK, Ended
<1>2. StageInv' /\ TimeInv' /\ AgeInv' /\ RoomInv' /\ NetInv'
  BY DEF Inv, TimeInv, AgeInv, Ended, StageInv, RoomInv, NetInv, Waiting
<1> QED
  BY <1>1, <1>2 DEF Inv

LEMMA FreshIsInv ==
  ASSUME url' \in Trackers, pc' = "connect", tracker' = NewTracker, call' = NoCall, now' = 0,
         net' = {}, LogOK'
  PROVE  Inv'
<1>1. TypeInv'
  BY Sizes DEF TypeInv, TypeOK, LogOK, NewTracker, NoCall
<1>2. StageInv' /\ TimeInv' /\ AgeInv' /\ NetInv'
  BY Sizes DEF TimeInv, AgeInv, Ended, StageInv, NetInv, Waiting, NewTracker, NoCall
<1>3. RoomInv'
  BY DEF RoomInv, RoomLeft, NewTracker, NoCall, Capacity
<1> QED
  BY <1>1, <1>2, <1>3 DEF Inv

LEMMA NextTrackerKeeps ==
  ASSUME Inv, NextTracker, LogOK'
  PROVE  Inv'
<1>1. CASE url < NumTrackers
  <2>1. url + 1 \in Trackers
    BY <1>1, TrackersAssumption DEF Inv, TypeInv, TypeOK, Trackers
  <2> QED
    BY <1>1, <2>1, FreshIsInv DEF NextTracker
<1>2. CASE ~(url < NumTrackers)
  BY <1>2, EndKeeps DEF NextTracker, Ended
<1> QED
  BY <1>1, <1>2

LEMMA AttemptKeeps ==
  ASSUME Inv, LogOK', NEW n \in 1..4, NEW tr, NEW rest, Sound(tr, rest), Attempt(n, tr, rest),
         n = 1 => now <= 1 /\ tr.conn_id_ts = now,
         n = 2 => now <= 4 /\ now <= tr.conn_id_ts + 3,
         n = 3 => now <= 13,
         n < 4 => tr.room >= Capacity - 16 - 28 * (n - 1)
  PROVE  Inv'
<1>1. CASE n = 4
  BY <1>1, NextTrackerKeeps, Timeouts DEF Attempt
<1>2. CASE n \in 1..3
  <2>1. /\ pc' = "announce" /\ tracker' = tr /\ net' = rest /\ UNCHANGED <<url, now>>
        /\ call' = [NoCall EXCEPT !.attempt = n, !.deadline = now + RETRY_TIMEOUT[n]]
    BY <1>2, Timeouts DEF Attempt
  <2>2. /\ call'.attempt = n /\ call'.deadline = now + RETRY_TIMEOUT[n] /\ call'.retry = 0
        /\ RETRY_TIMEOUT[n] \in Nat
    BY <1>2, <2>1, Timeouts DEF NoCall
  <2>3. now \in Nat /\ url \in Trackers
    BY DEF Inv, TypeInv, TypeOK
  <2>4. TypeInv'
    <3>1. call' \in [attempt : 0..3, deadline : Nat, retry : 0..3, retry_deadline : Nat]
      <4>1. call' = [attempt |-> n, deadline |-> now + RETRY_TIMEOUT[n], retry |-> 0,
                     retry_deadline |-> 0]
        BY <2>1 DEF NoCall
      <4> QED
        BY <1>2, <2>2, <2>3, <4>1
    <3> QED
      BY <2>1, <2>3, <3>1, MessagesAre DEF TypeInv, TypeOK, Sound, LogOK
  <2>5. StageInv'
    BY <1>2, <2>1, <2>2 DEF StageInv
  <2>6. TimeInv'
    BY <1>2, <2>1, <2>2, <2>3, Timeouts DEF TimeInv
  <2>7. AgeInv'
    BY <1>2, <2>1, <2>2, <2>3, Timeouts, Sizes DEF AgeInv, Sound
  <2>8. RoomInv'
    BY <1>2, <2>1, <2>2, Sizes DEF RoomInv, RoomLeft
  <2>9. NetInv'
    BY <2>1 DEF NetInv, Sound, Waiting
  <2> QED
    BY <2>4, <2>5, <2>6, <2>7, <2>8, <2>9 DEF Inv
<1> QED
  BY <1>1, <1>2

\* Where a request is waited for.
AwaitOf(kind) == IF kind = "connect" THEN "get_conn_id" ELSE "send_announce"

LEMMA RequestKeeps ==
  ASSUME Inv, LogOK', NEW kind \in {"connect", "announce"}, NEW tr, NEW c, NEW rest,
         Sound(tr, rest), Request(kind, tr, c, rest),
         c \in [attempt : 0..3, deadline : Nat, retry : 0..3, retry_deadline : Nat],
         now >= tr.next_announce,
         kind = "announce" =>
            c.attempt > 0 /\ c.retry = 0 /\ now - tr.conn_id_ts < ConnIdLifetime,
         kind = "connect" /\ c.attempt > 0 => c.attempt = 3 /\ c.retry > 0,
         c.attempt = 0 =>
            /\ c.retry = 0 /\ c.deadline = ConnectTimeout /\ now = 0
            /\ tr.conn_id_ts = 0 /\ tr.next_announce = 0,
         c.attempt > 0 => now <= c.deadline /\ c.deadline <= LatestEnd[c.attempt],
         c.attempt = 1 => c.deadline = tr.conn_id_ts + 3,
         c.attempt = 2 => c.deadline <= tr.conn_id_ts + ConnIdLifetime,
         tr.room >= RoomLeft(c.attempt, AwaitOf(kind), c.retry)
  PROVE  Inv'
<1>1. /\ pc' = AwaitOf(kind) /\ call' = c /\ UNCHANGED <<url, now>>
      /\ net' = rest \cup {[tx |-> tr.tx + 1, kind |-> kind, late |-> FALSE]}
  BY DEF Request, AwaitOf
<1>2. tracker' = [tr EXCEPT !.tx = @ + 1, !.room = IF RequestSize[kind] > @ THEN Capacity ELSE @]
  BY DEF Request
<1>3. /\ tracker'.tx = tr.tx + 1 /\ tracker'.conn_id_ts = tr.conn_id_ts
      /\ tracker'.next_announce = tr.next_announce
      /\ tracker'.room \in 0..Capacity /\ tracker'.room >= tr.room
      /\ tracker' \in [conn_id_ts : Nat, next_announce : Nat, room : 0..Capacity, tx : Nat]
  <2> DEFINE room == IF RequestSize[kind] > tr.room THEN Capacity ELSE tr.room
  <2>1. room \in 0..Capacity /\ room >= tr.room
    BY Sizes DEF Sound
  <2>2. tracker' = [tr EXCEPT !.tx = @ + 1, !.room = room]
    BY <1>2
  <2> HIDE DEF room
  <2>3. tr \in [conn_id_ts : Nat, next_announce : Nat, room : 0..Capacity, tx : Nat]
    BY DEF Sound
  <2>4. tracker' = [conn_id_ts |-> tr.conn_id_ts, next_announce |-> tr.next_announce,
                    room |-> room, tx |-> tr.tx + 1]
    BY <2>2, <2>3
  <2> QED
    BY <2>1, <2>3, <2>4
<1>4. now \in Nat /\ url \in Trackers /\ now <= 34
  BY DEF Inv, TypeInv, TypeOK, TimeInv
<1>5. pc' \in Waiting /\ pc' \notin Ended /\ (pc' = "get_conn_id" <=> kind = "connect")
  BY <1>1 DEF AwaitOf, Waiting, Ended
<1>6. TypeInv'
  <2>1. tr.tx \in Nat
    BY DEF Sound
  <2>2. net' \subseteq Messages(tracker'.tx)
    <3>1. ASSUME NEW m \in rest  PROVE m \in Messages(tr.tx + 1)
      BY <2>1 DEF Sound, Messages
    <3>2. [tx |-> tr.tx + 1, kind |-> kind, late |-> FALSE] \in Messages(tr.tx + 1)
      BY <2>1 DEF Messages
    <3> QED
      BY <1>1, <1>3, <3>1, <3>2
  <2> QED
    BY <1>1, <1>3, <1>4, <1>5, <2>2, MessagesAre DEF TypeInv, TypeOK, LogOK
<1>7. StageInv'
  BY <1>1, <1>3, <1>5 DEF StageInv, AwaitOf
<1>8. TimeInv'
  BY <1>1, <1>4, <1>5, Sizes DEF TimeInv
<1>9. AgeInv'
  BY <1>1, <1>3, <1>5 DEF AgeInv, Sound
<1>10. RoomInv'
  <2>1. RoomLeft(c.attempt, AwaitOf(kind), c.retry) \in Int
    BY Sizes DEF RoomLeft, AwaitOf
  <2>2. tracker'.room >= RoomLeft(c.attempt, AwaitOf(kind), c.retry)
    <3> HIDE DEF RoomLeft
    <3> QED
      BY <1>3, <2>1 DEF Sound
  <2> QED
    BY <1>1, <2>2 DEF RoomInv
<1>11. NetInv'
  <2>1. ASSUME NEW m \in net', m.kind = "announce", ~m.late
        PROVE  now - tr.conn_id_ts < ConnIdLifetime
    <3>1. CASE m \in rest
      BY <2>1, <3>1 DEF Sound
    <3>2. CASE m = [tx |-> tr.tx + 1, kind |-> kind, late |-> FALSE]
      BY <2>1, <3>2
    <3> QED
      BY <1>1, <3>1, <3>2
  <2> QED
    BY <1>1, <1>3, <2>1 DEF NetInv
<1> QED
  BY <1>6, <1>7, <1>8, <1>9, <1>10, <1>11 DEF Inv

-----------------------------------------------------------------------------
(* An attempt that fails, and a retry that does. *)

CallType == [attempt : 0..3, deadline : Nat, retry : 0..3, retry_deadline : Nat]

\* The bounds of Inv for the attempt under way.
LEMMA AttemptBounds ==
  ASSUME Inv, pc \notin Ended, call.attempt > 0
  PROVE  /\ call.attempt \in 1..3 /\ call \in CallType /\ now \in Nat
         /\ tracker.conn_id_ts \in Nat /\ tracker.room \in Nat
         /\ call.attempt = 1 => now <= 4 /\ now <= tracker.conn_id_ts + 3
         /\ call.attempt = 2 => now <= 13
         /\ call.attempt \in {1, 2} => tracker.room >= Capacity - 16 - 28 * (call.attempt - 1)
<1>1. call \in CallType /\ now \in Nat /\ tracker.conn_id_ts \in Nat /\ tracker.room \in Nat
  BY Sizes DEF Inv, TypeInv, TypeOK, CallType
<1>2. call.attempt \in 1..3 /\ call.deadline \in Nat
  BY <1>1 DEF CallType
<1>3. /\ call.attempt = 1 => now <= 4 /\ now <= tracker.conn_id_ts + 3
      /\ call.attempt = 2 => now <= 13
  BY <1>1, <1>2, Timeouts DEF Inv, TimeInv, AgeInv
<1>4. call.attempt \in {1, 2} => tracker.room >= Capacity - 16 - 28 * (call.attempt - 1)
  BY <1>1, <1>2, Sizes DEF Inv, RoomInv, RoomLeft
<1> QED
  BY <1>1, <1>2, <1>3, <1>4

\* The attempt under way is over; it took at most 28 bytes of the buffer.
LEMMA AttemptOverKeeps ==
  ASSUME Inv, LogOK', pc \notin Ended, call.attempt > 0, NEW tr, NEW rest, Sound(tr, rest),
         tr.conn_id_ts = tracker.conn_id_ts, tr.room >= tracker.room - 28,
         Attempt(call.attempt + 1, tr, rest)
  PROVE  Inv'
<1>1. tr.room \in Nat
  BY Sizes DEF Sound
<1> QED
  BY <1>1, AttemptBounds, AttemptKeeps, Sizes

\* A retry begins: in the third attempt, the first two have a young connection id.
LEMMA RetryKeeps ==
  ASSUME Inv, LogOK', pc \notin Ended, call.attempt = 3, NEW tr, NEW rest, Sound(tr, rest),
         NEW n \in 1..4,
         tr.conn_id_ts = tracker.conn_id_ts, tr.room >= tracker.room - 28,
         now >= tr.next_announce,
         n < 4 => tr.room >= Capacity - 16 - 56 - 16 * (n - 1),
         Retry(n, tr, rest)
  PROVE  Inv'
<1>1. CASE n = 4
  BY <1>1, AttemptOverKeeps, Timeouts DEF Retry
<1>2. CASE n \in 1..3
  <2> DEFINE c == [call EXCEPT !.retry = n, !.retry_deadline = now + RETRY_TIMEOUT[n]]
  <2>1. Request("connect", tr, c, rest)
    BY <1>2, Timeouts DEF Retry
  <2>2. c \in CallType /\ c.attempt = 3 /\ c.retry = n /\ c.deadline = call.deadline
    <3>1. now + RETRY_TIMEOUT[n] \in Nat
      BY <1>2, AttemptBounds, Timeouts
    <3>2. n \in 0..3 /\ call \in CallType
      BY <1>2, AttemptBounds
    <3> QED
      BY <3>1, <3>2 DEF CallType
  <2>3. now <= c.deadline /\ c.deadline <= LatestEnd[3]
    BY <2>2 DEF Inv, TimeInv
  <2>4. tr.room >= RoomLeft(c.attempt, AwaitOf("connect"), c.retry)
    BY <1>2, <2>2, Sizes DEF RoomLeft, AwaitOf
  <2> HIDE DEF c
  <2> QED
    BY <2>1, <2>2, <2>3, <2>4, RequestKeeps DEF CallType
<1> QED
  BY <1>1, <1>2

\* What Fail does, at each place.
LEMMA FailIs ==
  ASSUME Inv, pc \in Waiting, NEW tr, NEW rest, Fail(tr, rest)
  PROVE  \/ pc = "get_conn_id" /\ call.attempt = 0 /\ NextTracker
         \/ /\ pc = "get_conn_id" /\ call.attempt = 3 /\ call.retry \in 1..3
            /\ Retry(call.retry + 1, tr, rest)
         \/ pc = "send_announce" /\ call.attempt \in 1..3 /\ Attempt(call.attempt + 1, tr, rest)
<1>1. call.retry \in 0..3 /\ call.attempt \in 0..3
  BY DEF Inv, TypeInv, TypeOK
<1>2. CASE pc = "send_announce"
  <2>1. Attempt(call.attempt + 1, tr, rest)
    BY <1>2 DEF Fail
  <2> QED
    BY <1>1, <1>2, <2>1 DEF Inv, StageInv
<1>3. CASE pc = "get_conn_id" /\ call.retry = 0
  <2>1. NextTracker
    BY <1>3 DEF Fail
  <2> QED
    BY <1>1, <1>3, <2>1 DEF Inv, StageInv
<1>4. CASE pc = "get_conn_id" /\ call.retry # 0
  <2>1. call.retry > 0 /\ call.attempt = 3 /\ call.retry \in 1..3
    BY <1>1, <1>4 DEF Inv, StageInv
  <2>2. Retry(call.retry + 1, tr, rest)
    BY <1>4, <2>1 DEF Fail
  <2> QED
    BY <1>4, <2>1, <2>2
<1> QED
  BY <1>2, <1>3, <1>4 DEF Waiting

\* What a failure takes from the buffer.
Cost == IF pc = "get_conn_id" THEN 16 ELSE 28

LEMMA FailKeeps ==
  ASSUME Inv, LogOK', pc \in Waiting, NEW tr, NEW rest, Sound(tr, rest),
         tr.conn_id_ts = tracker.conn_id_ts, tr.room >= tracker.room - Cost,
         pc = "get_conn_id" => tr.next_announce = tracker.next_announce,
         Fail(tr, rest)
  PROVE  Inv'
<1> USE DEF Cost
<1>1. pc \notin Ended
  BY DEF Waiting, Ended
<1>2. CASE pc = "get_conn_id" /\ call.attempt = 0 /\ NextTracker
  BY <1>2, NextTrackerKeeps
<1>3. CASE /\ pc = "get_conn_id" /\ call.attempt = 3 /\ call.retry \in 1..3
           /\ Retry(call.retry + 1, tr, rest)
  <2>1. tr.room \in Nat /\ tracker.room \in Nat
    BY <1>1, <1>3, AttemptBounds, Sizes DEF Sound
  <2>2. tracker.room >= Capacity - 16 - 56 - 16 * (call.retry - 1)
    BY <1>1, <1>3, Sizes DEF Inv, RoomInv, RoomLeft
  <2>3. now >= tr.next_announce
    BY <1>3 DEF Inv, NetInv
  <2>4. tr.room >= Capacity - 16 - 56 - 16 * (call.retry + 1 - 1) /\ tr.room >= tracker.room - 28
    BY <1>3, <2>1, <2>2, Sizes
  <2> QED
    BY <1>1, <1>3, <2>3, <2>4, RetryKeeps
<1>4. CASE pc = "send_announce" /\ call.attempt \in 1..3 /\ Attempt(call.attempt + 1, tr, rest)
  BY <1>1, <1>4, AttemptOverKeeps
<1> QED
  BY <1>2, <1>3, <1>4, FailIs

-----------------------------------------------------------------------------
(* The steps. *)

LEMMA Typed ==
  ASSUME Inv
  PROVE  /\ url \in Trackers /\ now \in Nat /\ call \in CallType
         /\ tracker \in [conn_id_ts : Nat, next_announce : Nat, room : 0..Capacity, tx : Nat]
         /\ net \subseteq Messages(tracker.tx) /\ LogOK
         /\ tracker.conn_id_ts \in Nat /\ tracker.next_announce \in Nat
         /\ tracker.room \in Nat /\ tracker.room <= Capacity /\ tracker.tx \in Nat
<1>1. /\ url \in Trackers /\ now \in Nat /\ call \in CallType
      /\ tracker \in [conn_id_ts : Nat, next_announce : Nat, room : 0..Capacity, tx : Nat]
      /\ net \subseteq Messages(tracker.tx) /\ LogOK
  BY DEF Inv, TypeInv, TypeOK, CallType, LogOK
<1> QED
  BY <1>1, Sizes

LEMMA FaultLogged ==
  ASSUME Inv, NEW kinds, UNCHANGED faults \/ Fault(kinds)
  PROVE  faults' \in [Trackers -> Nat] /\ \A u \in Trackers : faults'[u] <= MaxFaults[u]
<1>1. faults \in [Trackers -> Nat] /\ \A u \in Trackers : faults[u] <= MaxFaults[u]
  BY Typed DEF LogOK
<1>2. MaxFaults[url] \in Nat /\ url \in Trackers /\ faults[url] \in Nat
  BY <1>1, Typed, TrackersAssumption
<1> QED
  BY <1>1, <1>2 DEF Fault

LEMMA FoundKept ==
  ASSUME Inv, NEW kinds, UNCHANGED faults \/ Fault(kinds), UNCHANGED found
  PROVE  LogOK'
  BY FaultLogged, Typed DEF LogOK

LEMMA TrackerSound ==
  ASSUME Inv, NEW rest \in SUBSET net
  PROVE  Sound(tracker, rest)
  BY Typed DEF Sound, Inv, AgeInv, NetInv

\* The UdpTracker when n bytes were read, with `next_announce' set to t.
LEMMA ConsumedSound ==
  ASSUME Inv, NEW rest \in SUBSET net, NEW n \in Nat, n <= tracker.room, NEW t \in Nat
  PROVE  /\ Sound(Consumed(n), rest)
         /\ Consumed(n).room = tracker.room - n
         /\ Consumed(n).conn_id_ts = tracker.conn_id_ts
         /\ Consumed(n).next_announce = tracker.next_announce
         /\ Consumed(n).tx = tracker.tx
         /\ Sound([Consumed(n) EXCEPT !.next_announce = t], rest)
         /\ [Consumed(n) EXCEPT !.next_announce = t].room = tracker.room - n
         /\ [Consumed(n) EXCEPT !.next_announce = t].conn_id_ts = tracker.conn_id_ts
         /\ [Consumed(n) EXCEPT !.next_announce = t].next_announce = t
         /\ Sound([Consumed(n) EXCEPT !.conn_id_ts = now], rest)
         /\ [Consumed(n) EXCEPT !.conn_id_ts = now].room = tracker.room - n
         /\ [Consumed(n) EXCEPT !.conn_id_ts = now].conn_id_ts = now
         /\ [Consumed(n) EXCEPT !.conn_id_ts = now].next_announce = tracker.next_announce
<1> DEFINE T == [conn_id_ts : Nat, next_announce : Nat, room : 0..Capacity, tx : Nat]
<1>1. tracker \in T /\ now \in Nat /\ tracker.room \in Nat /\ tracker.room <= Capacity
  BY Typed
<1>2. tracker.room - n \in 0..Capacity
  <2>1. ASSUME NEW x \in Nat, n <= x, x <= Capacity
        PROVE  x - n \in 0..Capacity
    BY <2>1, Sizes
  <2> QED
    BY <1>1, <2>1
<1>3. Consumed(n) = [tracker EXCEPT !.room = tracker.room - n]
  BY DEF Consumed
<1>4. /\ Consumed(n) \in T /\ Consumed(n).room = tracker.room - n
      /\ Consumed(n).conn_id_ts = tracker.conn_id_ts
      /\ Consumed(n).next_announce = tracker.next_announce
      /\ Consumed(n).tx = tracker.tx
  BY <1>1, <1>2, <1>3
<1>5. rest \subseteq Messages(tracker.tx) /\ tracker.conn_id_ts <= now
  BY Typed DEF Inv, AgeInv
<1>6. \A m \in rest : m.kind = "announce" /\ ~m.late => now - tracker.conn_id_ts < ConnIdLifetime
  BY DEF Inv, NetInv
<1>7. now - now < ConnIdLifetime /\ now <= now
  BY <1>1, Sizes
<1>8. Sound(Consumed(n), rest)
  BY <1>4, <1>5, <1>6 DEF Sound
<1> DEFINE A == [Consumed(n) EXCEPT !.next_announce = t]
           B == [Consumed(n) EXCEPT !.conn_id_ts = now]
<1>9. /\ A \in T /\ A.room = tracker.room - n /\ A.conn_id_ts = tracker.conn_id_ts
      /\ A.next_announce = t /\ A.tx = tracker.tx
  BY <1>4
<1>10. /\ B \in T /\ B.room = tracker.room - n /\ B.conn_id_ts = now
       /\ B.next_announce = tracker.next_announce /\ B.tx = tracker.tx
  BY <1>1, <1>4
<1> HIDE DEF A, B
<1>11. Sound(A, rest) /\ Sound(B, rest)
  BY <1>5, <1>6, <1>7, <1>9, <1>10 DEF Sound
<1> QED
  BY <1>4, <1>8, <1>9, <1>10, <1>11 DEF A, B

\* What is read of an answer.
LEMMA GotIs ==
  ASSUME Inv, NEW m, NEW a \in Datagrams(m)
  PROVE  Got(a) \in Nat /\ Got(a) <= tracker.room /\ Got(a) <= a.length /\ a.length \in Nat
<1>1. a.length \in Nat
  BY DEF Datagrams
<1> QED
  BY <1>1, Typed DEF Got

LEMMA ConnIdArrivesKeeps ==
  ASSUME Inv, LogOK', NEW m, NEW a \in Datagrams(m), NEW rest \in SUBSET net,
         ConnIdArrives(a, rest)
  PROVE  Inv'
<1> DEFINE tr == [Consumed(16) EXCEPT !.conn_id_ts = now]
<1>1. pc = "get_conn_id" /\ Got(a) = 16
  BY DEF ConnIdArrives, Mine, Long
<1>2. /\ Sound(tr, rest) /\ tr.room = tracker.room - 16 /\ tr.conn_id_ts = now
      /\ tr.next_announce = tracker.next_announce
  <2>1. 16 \in Nat /\ 16 <= tracker.room /\ 0 \in Nat
    BY <1>1, GotIs
  <2> QED
    BY <2>1, ConsumedSound
<1>3. IF call.retry = 0
      THEN Attempt(1, tr, rest)
      ELSE Request("announce", tr, [call EXCEPT !.retry = 0], rest)
  BY DEF ConnIdArrives
<1> HIDE DEF tr
<1>4. call \in CallType /\ now \in Nat /\ tracker.room \in Nat
  BY Typed
<1>5. CASE call.retry = 0
  <2>1. call.attempt = 0 /\ now <= 1 /\ tracker.room >= Capacity
    BY <1>1, <1>4, <1>5, Sizes DEF Inv, StageInv, TimeInv, RoomInv, RoomLeft, Ended, CallType
  <2>2. tr.room >= Capacity - 16 - 28 * (1 - 1)
    BY <1>2, <1>4, <2>1, Sizes
  <2>3. Attempt(1, tr, rest)
    BY <1>3, <1>5
  <2> QED
    BY <1>2, <2>1, <2>2, <2>3, AttemptKeeps
<1>6. CASE call.retry # 0
  <2>1. call.attempt = 3 /\ call.retry \in 1..3
    BY <1>1, <1>4, <1>6 DEF Inv, StageInv, CallType
  <2> DEFINE c == [call EXCEPT !.retry = 0]
  <2>2. /\ c \in CallType /\ c.attempt = 3 /\ c.retry = 0 /\ c.deadline = call.deadline
    BY <1>4, <2>1 DEF CallType
  <2>3. Request("announce", tr, c, rest)
    BY <1>3, <1>6
  <2>4. now <= call.deadline /\ call.deadline <= LatestEnd[3]
    BY <1>1, <2>1 DEF Inv, TimeInv, Ended
  <2>5. tracker.room >= Capacity - 16 - 56 - 16 * (call.retry - 1)
    BY <1>1, <2>1 DEF Inv, RoomInv, RoomLeft, Ended
  <2>6. tr.room >= RoomLeft(c.attempt, AwaitOf("announce"), c.retry)
    BY <1>2, <1>4, <2>1, <2>2, <2>5, Sizes DEF RoomLeft, AwaitOf
  <2>7. now >= tr.next_announce /\ now - tr.conn_id_ts < ConnIdLifetime
    BY <1>1, <1>2, <1>4, Sizes DEF Inv, NetInv, Waiting
  <2> HIDE DEF c
  <2> QED
    BY <1>2, <2>2, <2>3, <2>4, <2>6, <2>7, RequestKeeps DEF CallType
<1> QED
  BY <1>5, <1>6

LEMMA AnnounceArrivesKeeps ==
  ASSUME Inv, LogOK', NEW m, NEW a \in Datagrams(m), NEW rest \in SUBSET net,
         AnnounceArrives(a, rest)
  PROVE  Inv'
<1> DEFINE tr(n) == [Consumed(n) EXCEPT !.next_announce = now + a.interval]
<1>1. pc = "send_announce" /\ Got(a) >= 20 /\ 20 \in Nat /\ 20 <= tracker.room
  <2>1. pc = "send_announce" /\ Got(a) >= 20
    BY DEF AnnounceArrives, Mine, Long
  <2> QED
    BY <2>1, GotIs, Typed
<1>2. now + a.interval \in Nat /\ tracker.room \in Nat
  BY Typed DEF Datagrams
<1>3. /\ Sound(tr(20), rest) /\ tr(20).room = tracker.room - 20
      /\ tr(20).conn_id_ts = tracker.conn_id_ts
  <2>1. now + a.interval \in Nat
    BY ONLY <1>2
  <2>2. 20 \in Nat /\ 20 <= tracker.room
    BY ONLY <1>1
  <2> DEFINE t == now + a.interval
  <2> HIDE DEF t
  <2>3. /\ Sound([Consumed(20) EXCEPT !.next_announce = t], rest)
        /\ [Consumed(20) EXCEPT !.next_announce = t].room = tracker.room - 20
        /\ [Consumed(20) EXCEPT !.next_announce = t].conn_id_ts = tracker.conn_id_ts
    BY <2>1, <2>2, ConsumedSound DEF t
  <2> QED
    BY ONLY <2>3, Zenon DEF t, tr
<1>4. IF (Got(a) - 20) % 6 # 0
      THEN Fail(tr(20), rest)
      ELSE IF Seeders[url] >= EnoughSeeders THEN End("ok") ELSE NextTracker
  BY DEF AnnounceArrives
<1> HIDE DEF tr
<1>5. CASE (Got(a) - 20) % 6 # 0
  <2>1. tr(20).room >= tracker.room - Cost
    BY <1>1, <1>2, <1>3 DEF Cost
  <2>2. Fail(tr(20), rest)
    BY <1>4, <1>5
  <2> QED
    BY <1>1, <1>3, <2>1, <2>2, FailKeeps DEF Waiting
<1>6. CASE (Got(a) - 20) % 6 = 0
  BY <1>4, <1>6, EndKeeps, NextTrackerKeeps DEF Ended
<1> QED
  BY <1>5, <1>6

\* How much an answer that is refused takes from the buffer.
LEMMA RefusedCost ==
  ASSUME Inv, pc \in Waiting, NEW m, NEW a \in Datagrams(m), NEW read,
         read = CASE ~Long(a) -> 0
                  [] Mine(a) /\ a.action = "error" -> Got(a)
                  [] OTHER -> 8
  PROVE  read \in Nat /\ read <= tracker.room /\ read <= Cost
<1>1. Got(a) \in Nat /\ Got(a) <= tracker.room /\ Got(a) <= a.length /\ a.length \in Nat
  BY GotIs
<1>2. Long(a) => Got(a) >= 16 /\ (pc = "get_conn_id" => Got(a) = 16)
  BY <1>1 DEF Long
<1>3. a.action = "error" => Got(a) <= 28
  BY <1>1 DEF Datagrams
<1>4. CASE ~Long(a)
  <2>1. read = 0
    BY <1>4 DEF Mine
  <2> QED
    BY <2>1, Typed DEF Cost
<1>5. CASE Long(a) /\ Mine(a) /\ a.action = "error"
  <2>1. read = Got(a)
    BY <1>5
  <2> QED
    BY <1>1, <1>2, <1>3, <1>5, <2>1 DEF Cost
<1>6. CASE Long(a) /\ ~(Mine(a) /\ a.action = "error")
  <2>1. read = 8
    BY <1>6
  <2> QED
    BY <1>1, <1>2, <1>6, <2>1, Typed DEF Cost
<1> QED
  BY <1>4, <1>5, <1>6

LEMMA RefusedKeeps ==
  ASSUME Inv, LogOK', NEW m, NEW a \in Datagrams(m), NEW rest \in SUBSET net, Refused(a, rest)
  PROVE  Inv'
<1> DEFINE read == CASE ~Long(a) -> 0
                     [] Mine(a) /\ a.action = "error" -> Got(a)
                     [] OTHER -> 8
<1>1. pc \in Waiting /\ Fail(Consumed(read), rest)
  BY DEF Refused
<1>2. read \in Nat /\ read <= tracker.room /\ read <= Cost /\ tracker.room \in Nat /\ 0 \in Nat
  BY <1>1, RefusedCost, Typed
<1> HIDE DEF read
<1>3. /\ Sound(Consumed(read), rest) /\ Consumed(read).room = tracker.room - read
      /\ Consumed(read).conn_id_ts = tracker.conn_id_ts
      /\ Consumed(read).next_announce = tracker.next_announce
  BY <1>2, ConsumedSound
<1>4. Consumed(read).room >= tracker.room - Cost
  BY <1>2, <1>3 DEF Cost
<1> QED
  BY <1>1, <1>3, <1>4, FailKeeps

LEMMA ReceiveKeeps ==
  ASSUME Inv, NEW m \in net, Receive(m)
  PROVE  Inv' /\ LogOK'
<1>1. PICK a \in Datagrams(m), rest \in {net, net \ {m}} :
         Hear(a, rest) /\ (UNCHANGED faults \/ \E kinds : Fault(kinds))
  BY ReceiveHears DEF Inv
<1>2. LogOK'
  <2>1. faults' \in [Trackers -> Nat] /\ \A u \in Trackers : faults'[u] <= MaxFaults[u]
    BY <1>1, FaultLogged
  <2>2. found' \in [peers : Nat, listed : Nat, seeders : Nat]
    <3>1. CASE UNCHANGED found
      BY <3>1, Typed DEF LogOK
    <3>2. CASE AnnounceArrives(a, rest) /\ ~UNCHANGED found
      <4>1. /\ Got(a) >= 20
            /\ found' = [peers |-> (Got(a) - 20) \div 6, listed |-> (a.length - 20) \div 6,
                         seeders |-> Seeders[url]]
        BY <3>2 DEF AnnounceArrives, Mine, Long
      <4>2. Got(a) \in Nat /\ a.length \in Nat /\ a.length >= 20
        BY <4>1, GotIs
      <4>3. (Got(a) - 20) \div 6 \in Nat /\ (a.length - 20) \div 6 \in Nat
        BY <4>1, <4>2
      <4>4. Seeders[url] \in Nat
        BY Typed, TrackersAssumption
      <4> QED
        BY <4>1, <4>3, <4>4
    <3> QED
      BY <1>1, <3>1, <3>2 DEF Hear, ConnIdArrives, Refused, Garbled
  <2> QED
    BY <2>1, <2>2 DEF LogOK
<1>3. CASE Garbled(a)
  BY <1>2, <1>3, EndKeeps DEF Garbled, Ended
<1> QED
  BY <1>1, <1>2, <1>3, ConnIdArrivesKeeps, AnnounceArrivesKeeps, RefusedKeeps DEF Hear

LEMMA ConnectKeeps ==
  ASSUME Inv, LogOK', Connect
  PROVE  Inv'
<1> DEFINE c == [NoCall EXCEPT !.deadline = now + ConnectTimeout]
<1>1. tracker = NewTracker /\ now = 0 /\ net = {} /\ Request("connect", tracker, c, net)
  BY DEF Connect, Inv, StageInv
<1>2. c = [attempt |-> 0, deadline |-> ConnectTimeout, retry |-> 0, retry_deadline |-> 0]
  BY <1>1, Sizes DEF NoCall
<1>3. Sound(tracker, net)
  BY TrackerSound
<1>4. tracker.room >= RoomLeft(c.attempt, AwaitOf("connect"), c.retry)
  BY <1>1, <1>2, Sizes DEF NewTracker, RoomLeft
<1>5. tracker.conn_id_ts = 0 /\ tracker.next_announce = 0
  BY <1>1 DEF NewTracker
<1>6. c \in CallType
  BY <1>2, Sizes DEF CallType
<1> HIDE DEF c
<1> QED
  BY <1>1, <1>2, <1>3, <1>4, <1>5, <1>6, RequestKeeps DEF CallType

LEMMA SendAnnounceKeeps ==
  ASSUME Inv, LogOK', SendAnnounce
  PROVE  Inv'
<1>1. pc = "announce" /\ pc \notin Ended /\ call.attempt > 0 /\ call.retry = 0
  BY DEF SendAnnounce, Inv, StageInv, Ended
<1>2. /\ call.attempt \in 1..3 /\ call \in CallType /\ now \in Nat /\ tracker.room \in Nat
      /\ tracker.conn_id_ts \in Nat /\ tracker.next_announce \in Nat
  BY <1>1, AttemptBounds, Typed
<1>3. Sound(tracker, net)
  BY TrackerSound
<1>4. CASE now < tracker.next_announce
  <2>1. Attempt(call.attempt + 1, tracker, net)
    BY <1>2, <1>4 DEF SendAnnounce
  <2> QED
    BY <1>1, <1>2, <1>3, <2>1, AttemptOverKeeps
<1>5. CASE now >= tracker.next_announce /\ now - tracker.conn_id_ts >= ConnIdLifetime
  <2>1. Retry(1, tracker, net)
    BY <1>2, <1>5 DEF SendAnnounce
  <2>2. call.attempt = 3
    BY <1>1, <1>2, <1>5, Timeouts, Sizes DEF Inv, StageInv, TimeInv, AgeInv
  <2>3. tracker.room >= Capacity - 16 - 56 - 16 * (1 - 1)
    BY <1>1, <1>2, <2>2, Sizes DEF Inv, RoomInv, RoomLeft
  <2>4. tracker.room >= tracker.room - 28
    BY <1>2
  <2> QED
    BY <1>1, <1>3, <1>5, <2>1, <2>2, <2>3, <2>4, RetryKeeps
<1>6. CASE now >= tracker.next_announce /\ ~(now - tracker.conn_id_ts >= ConnIdLifetime)
  <2>1. Request("announce", tracker, call, net)
    BY <1>2, <1>6 DEF SendAnnounce
  <2>2. now <= call.deadline /\ call.deadline <= LatestEnd[call.attempt]
    BY <1>1 DEF Inv, TimeInv
  <2>3. /\ call.attempt = 1 => call.deadline = tracker.conn_id_ts + 3
        /\ call.attempt = 2 => call.deadline <= tracker.conn_id_ts + ConnIdLifetime
    BY <1>1 DEF Inv, AgeInv
  <2>4. tracker.room >= RoomLeft(call.attempt, AwaitOf("announce"), call.retry)
    BY <1>1, <1>2, Sizes DEF Inv, RoomInv, RoomLeft, AwaitOf
  <2>5. now - tracker.conn_id_ts < ConnIdLifetime
    BY <1>2, <1>6, Sizes
  <2> QED
    BY <1>1, <1>2, <1>3, <1>6, <2>1, <2>2, <2>3, <2>4, <2>5, RequestKeeps DEF CallType
<1> QED
  BY <1>2, <1>4, <1>5, <1>6

\* A timeout, or an error of the socket.
LEMMA FailureKeeps ==
  ASSUME Inv, LogOK', pc \in Waiting, Fail(tracker, net)
  PROVE  Inv'
<1>1. tracker.room \in Nat
  BY Typed
<1>2. tracker.room >= tracker.room - Cost
  BY <1>1 DEF Cost
<1> QED
  BY <1>2, TrackerSound, FailKeeps

LEMMA AttemptTimeoutKeeps ==
  ASSUME Inv, LogOK', AttemptTimeout
  PROVE  Inv'
<1>1. pc \in Waiting /\ pc \notin Ended /\ call.attempt > 0
      /\ Attempt(call.attempt + 1, tracker, net)
  BY DEF AttemptTimeout, Waiting, Ended
<1>2. tracker.room \in Nat /\ Sound(tracker, net)
  BY Typed, TrackerSound
<1>3. tracker.room >= tracker.room - 28
  BY <1>2
<1> QED
  BY <1>1, <1>2, <1>3, AttemptOverKeeps

\* The network loses a message or holds one back: those that are left not late were
\* there before.
LEMMA NetChanges ==
  ASSUME Inv, LogOK', pc \in Waiting, UNCHANGED <<url, pc, tracker, call, now>>,
         net' \subseteq Messages(tracker.tx), \A m \in net' : m.late \/ m \in net
  PROVE  Inv'
<1>1. TypeInv'
  BY MessagesAre DEF Inv, TypeInv, TypeOK, LogOK
<1>2. StageInv'
  BY DEF Inv, StageInv, Waiting
<1>3. TimeInv' /\ AgeInv' /\ RoomInv'
  BY DEF Inv, TimeInv, AgeInv, RoomInv
<1>4. NetInv'
  BY DEF Inv, NetInv
<1> QED
  BY <1>1, <1>2, <1>3, <1>4 DEF Inv

LEMMA TickKeeps ==
  ASSUME Inv, LogOK', Tick
  PROVE  Inv'
<1>1. /\ pc \in Waiting /\ pc \notin Ended /\ now < call.deadline /\ now' = now + 1
      /\ \A m \in net : m.late
      /\ UNCHANGED <<url, pc, tracker, call, net, faults, found>>
  BY DEF Tick, Waiting, Ended
<1>2. /\ now \in Nat /\ call \in CallType /\ tracker.conn_id_ts \in Nat
      /\ tracker.next_announce \in Nat /\ call.deadline \in Nat /\ call.attempt \in 0..3
  BY Typed DEF CallType
<1>3. TypeInv'
  BY <1>1, <1>2 DEF Inv, TypeInv, TypeOK
<1>4. StageInv'
  BY <1>1 DEF Inv, StageInv, Waiting
<1>5. TimeInv'
  <2>1. call.attempt = 0 => call.deadline = ConnectTimeout
    BY <1>1 DEF Inv, StageInv, Waiting
  <2>2. call.attempt > 0 => call.deadline <= LatestEnd[call.attempt]
    BY <1>1 DEF Inv, TimeInv
  <2>3. call.deadline <= 34
    BY <1>2, <2>1, <2>2, Timeouts, Sizes
  <2> QED
    BY <1>1, <1>2, <2>1, <2>2, <2>3, Sizes DEF TimeInv
<1>6. AgeInv'
  BY <1>1, <1>2 DEF Inv, AgeInv
<1>7. RoomInv'
  BY <1>1 DEF Inv, RoomInv
<1>8. NetInv'
  BY <1>1, <1>2 DEF Inv, NetInv
<1> QED
  BY <1>3, <1>4, <1>5, <1>6, <1>7, <1>8 DEF Inv

LEMMA UnchangedKeeps ==
  ASSUME Inv, UNCHANGED vars
  PROVE  Inv'
<1>1. UNCHANGED <<url, pc, tracker, call, now, net, faults, found>>
  BY DEF vars
<1>2. TypeInv' /\ StageInv' /\ TimeInv' /\ AgeInv' /\ RoomInv' /\ NetInv'
  BY <1>1 DEF Inv, TypeInv, TypeOK, StageInv, TimeInv, AgeInv, RoomInv, NetInv
<1> QED
  BY <1>2 DEF Inv

LEMMA NextKeeps ==
  ASSUME Inv, Next
  PROVE  Inv'
<1>1. CASE \E m \in net : Receive(m)
  BY <1>1, ReceiveKeeps
<1>2. CASE UNCHANGED vars
  BY <1>2, UnchangedKeeps
<1>3. ASSUME ~(\E m \in net : Receive(m)), ~(UNCHANGED vars)
      PROVE  LogOK'
  <2>1. UNCHANGED found /\ (UNCHANGED faults \/ \E kinds : Fault(kinds))
    BY <1>3 DEF Next, Connect, Unreachable, EmptyTier, SendAnnounce, SocketError, ConnIdTimeout,
                AttemptTimeout, Lose, Delay, Tick, Over
  <2> QED
    BY <2>1, FoundKept
<1>4. ASSUME LogOK', Unreachable \/ EmptyTier
      PROVE  Inv'
  BY <1>4, NextTrackerKeeps, EndKeeps DEF Unreachable, EmptyTier, Ended
<1>5. ASSUME LogOK', SocketError \/ ConnIdTimeout
      PROVE  Inv'
  BY <1>5, FailureKeeps DEF SocketError, ConnIdTimeout, Waiting
<1>6. ASSUME LogOK', Lose
      PROVE  Inv'
  <2>1. pc \in Waiting /\ net' \subseteq net /\ UNCHANGED <<url, pc, tracker, call, now>>
    BY <1>6 DEF Lose
  <2> QED
    BY <1>6, <2>1, Typed, NetChanges
<1>7. ASSUME LogOK', Delay
      PROVE  Inv'
  <2>1. PICK m \in net : net' = (net \ {m}) \cup {[m EXCEPT !.late = TRUE]}
    BY <1>7 DEF Delay
  <2>2. pc \in Waiting /\ UNCHANGED <<url, pc, tracker, call, now>>
    BY <1>7 DEF Delay
  <2>3. [m EXCEPT !.late = TRUE] \in Messages(tracker.tx) /\ [m EXCEPT !.late = TRUE].late
    BY Typed DEF Messages
  <2> QED
    BY <1>7, <2>1, <2>2, <2>3, Typed, NetChanges
<1> QED
  BY <1>1, <1>2, <1>3, <1>4, <1>5, <1>6, <1>7, ConnectKeeps, SendAnnounceKeeps,
     AttemptTimeoutKeeps, TickKeeps DEF Next, Over

LEMMA InitInv == Init => Inv
<1> SUFFICES ASSUME Init PROVE Inv
  OBVIOUS
<1>1. 1 \in Trackers
  BY TrackersAssumption DEF Trackers
<1>2. TypeInv
  BY <1>1, Sizes, TrackersAssumption DEF Init, TypeInv, TypeOK, NewTracker, NoCall
<1>3. StageInv /\ TimeInv /\ AgeInv /\ NetInv
  BY Sizes DEF Init, TimeInv, AgeInv, Ended, StageInv, NetInv, Waiting, NewTracker, NoCall
<1>4. RoomInv
  BY Sizes DEF Init, RoomInv, RoomLeft, NewTracker, NoCall
<1> QED
  BY <1>2, <1>3, <1>4 DEF Inv

LEMMA UdpTrackerInductive == Safety => []Inv
<1>1. Inv /\ [Next]_vars => Inv'
  BY NextKeeps, UnchangedKeeps
<1> QED
  BY <1>1, InitInv, PTL DEF Safety

-----------------------------------------------------------------------------
(* What Inv says of the search. *)

\* Every variable of the search has its type, whatever the network and the trackers do.
THEOREM UdpTrackerTyped == Safety => []TypeOK
<1>1. Inv => TypeOK
  BY DEF Inv, TypeInv
<1> QED
  BY <1>1, UdpTrackerInductive, PTL

\* connect and announce keep within 170 seconds for each tracker, retries included, for
\* no retry moves the deadline of the attempt it is part of (udp.rs:58, 70-81, 115-126).
THEOREM UdpTrackerPunctual == Safety => []BoundedTime
<1>1. Inv => BoundedTime
  BY Timeouts, Sizes DEF Inv, TimeInv, BoundedTime
<1> QED
  BY <1>1, UdpTrackerInductive, PTL

-----------------------------------------------------------------------------
(* What each place to go on adds to the network, and whether it ends there. *)

LEMMA NextTrackerAdds ==
  ASSUME NextTracker
  PROVE  net' = {} /\ pc' \in {"connect", "err"}
  BY DEF NextTracker, End

LEMMA AttemptAdds ==
  ASSUME NEW n \in 1..4, NEW tr, NEW rest \in SUBSET net, Attempt(n, tr, rest)
  PROVE  net' \subseteq net /\ pc' \in {"connect", "announce", "err"}
  BY NextTrackerAdds DEF Attempt

LEMMA RequestAdds ==
  ASSUME NEW kind \in {"connect", "announce"}, NEW tr, NEW c, NEW rest \in SUBSET net,
         Request(kind, tr, c, rest)
  PROVE  /\ \A m \in net' \ net : m.kind = kind
         /\ pc' \in Waiting
         /\ Sound(tr, rest) => tracker'.conn_id_ts = tr.conn_id_ts
  BY DEF Request, Waiting, Sound

LEMMA RetryAdds ==
  ASSUME Inv, pc \notin Ended, call.attempt = 3, NEW n \in 1..4, NEW tr,
         NEW rest \in SUBSET net, Retry(n, tr, rest)
  PROVE  (\A m \in net' \ net : m.kind = "connect") /\ pc' \notin {"ok", "panicked"}
<1>1. CASE n = 4
  BY <1>1, AttemptAdds, Timeouts DEF Retry
<1>2. CASE n \in 1..3
  BY <1>2, RequestAdds, Timeouts DEF Retry, Waiting
<1> QED
  BY <1>1, <1>2

LEMMA FailAdds ==
  ASSUME Inv, pc \in Waiting, NEW tr, NEW rest \in SUBSET net, Fail(tr, rest)
  PROVE  (\A m \in net' \ net : m.kind = "connect") /\ pc' \notin {"ok", "panicked"}
<1>1. pc \notin Ended
  BY DEF Waiting, Ended
<1>2. CASE pc = "get_conn_id" /\ call.attempt = 0 /\ NextTracker
  BY <1>2, NextTrackerAdds
<1>3. CASE /\ pc = "get_conn_id" /\ call.attempt = 3 /\ call.retry \in 1..3
           /\ Retry(call.retry + 1, tr, rest)
  BY <1>1, <1>3, RetryAdds
<1>4. CASE pc = "send_announce" /\ call.attempt \in 1..3 /\ Attempt(call.attempt + 1, tr, rest)
  BY <1>4, AttemptAdds
<1> QED
  BY <1>2, <1>3, <1>4, FailIs

\* Where the task is when it makes the third attempt for want of a young connection id.
LEMMA OldIsThird ==
  ASSUME Inv, pc = "announce", now - tracker.conn_id_ts >= ConnIdLifetime
  PROVE  call.attempt = 3
<1>1. pc \notin Ended /\ call.attempt > 0 /\ tracker.conn_id_ts \in Nat
  BY Typed DEF Inv, StageInv, Ended
<1> QED
  BY <1>1, AttemptBounds, Timeouts, Sizes DEF Inv, StageInv, TimeInv, AgeInv

LEMMA SendAnnounceIs ==
  ASSUME Inv, SendAnnounce
  PROVE  /\ pc = "announce" /\ call.attempt \in 1..3
         /\ \/ now < tracker.next_announce /\ Attempt(call.attempt + 1, tracker, net)
            \/ call.attempt = 3 /\ Retry(1, tracker, net)
            \/ Request("announce", tracker, call, net)
<1>1. pc = "announce" /\ call.attempt \in 1..3
  BY Typed DEF SendAnnounce, Inv, StageInv, CallType
<1>2. now \in Nat /\ tracker.next_announce \in Nat
  BY Typed
<1>3. CASE now < tracker.next_announce
  BY <1>1, <1>2, <1>3 DEF SendAnnounce
<1>4. CASE now >= tracker.next_announce /\ now - tracker.conn_id_ts >= ConnIdLifetime
  BY <1>1, <1>2, <1>4, OldIsThird DEF SendAnnounce
<1>5. CASE now >= tracker.next_announce /\ ~(now - tracker.conn_id_ts >= ConnIdLifetime)
  BY <1>1, <1>2, <1>5 DEF SendAnnounce
<1> QED
  BY <1>2, <1>3, <1>4, <1>5

-----------------------------------------------------------------------------
(* Announces are allowed. *)

Allowed ==
    \A m \in net' \ net : m.kind = "announce" =>
        now >= tracker.next_announce /\ now - tracker'.conn_id_ts < ConnIdLifetime

LEMMA SendAnnounceAllowed ==
  ASSUME Inv, SendAnnounce
  PROVE  Allowed
<1>1. pc = "announce" /\ pc \notin Ended /\ call.attempt > 0
  BY DEF SendAnnounce, Inv, StageInv, Ended
<1>2. /\ call.attempt \in 1..3 /\ now \in Nat
      /\ tracker.conn_id_ts \in Nat /\ tracker.next_announce \in Nat
  BY <1>1, AttemptBounds, Typed
<1>3. CASE now < tracker.next_announce
  <2>1. Attempt(call.attempt + 1, tracker, net)
    BY <1>2, <1>3 DEF SendAnnounce
  <2> QED
    BY <1>2, <2>1, AttemptAdds DEF Allowed
<1>4. CASE now >= tracker.next_announce /\ now - tracker.conn_id_ts >= ConnIdLifetime
  <2>1. Retry(1, tracker, net)
    BY <1>2, <1>4 DEF SendAnnounce
  <2> QED
    BY <1>1, <1>4, <2>1, OldIsThird, RetryAdds DEF Allowed
<1>5. CASE now >= tracker.next_announce /\ ~(now - tracker.conn_id_ts >= ConnIdLifetime)
  <2>1. Request("announce", tracker, call, net)
    BY <1>2, <1>5 DEF SendAnnounce
  <2>2. tracker'.conn_id_ts = tracker.conn_id_ts
    BY <2>1, RequestAdds, TrackerSound
  <2> QED
    BY <1>2, <1>5, <2>2, Sizes DEF Allowed
<1> QED
  BY <1>2, <1>3, <1>4, <1>5

LEMMA HearAllowed ==
  ASSUME Inv, NEW m, NEW a \in Datagrams(m), NEW rest \in SUBSET net, Hear(a, rest)
  PROVE  Allowed
<1>1. CASE ConnIdArrives(a, rest)
  <2> DEFINE tr == [Consumed(16) EXCEPT !.conn_id_ts = now]
  <2>1. /\ pc = "get_conn_id" /\ Got(a) = 16
        /\ IF call.retry = 0
           THEN Attempt(1, tr, rest)
           ELSE Request("announce", tr, [call EXCEPT !.retry = 0], rest)
    BY <1>1 DEF ConnIdArrives, Mine, Long
  <2>2. Sound(tr, rest) /\ tr.conn_id_ts = now
    <3>1. 16 \in Nat /\ 16 <= tracker.room /\ 0 \in Nat
      BY <2>1, GotIs
    <3> QED
      BY <3>1, ConsumedSound
  <2> HIDE DEF tr
  <2>3. now >= tracker.next_announce /\ now - now < ConnIdLifetime
    BY <2>1, Typed, Sizes DEF Inv, NetInv, Waiting
  <2>4. CASE call.retry = 0
    BY <2>1, <2>4, AttemptAdds DEF Allowed
  <2>5. CASE call.retry # 0
    <3>1. tracker'.conn_id_ts = now
      BY <2>1, <2>2, <2>5, RequestAdds
    <3> QED
      BY <2>3, <3>1 DEF Allowed
  <2> QED
    BY <2>4, <2>5
<1>2. CASE AnnounceArrives(a, rest)
  <2>1. CASE (Got(a) - 20) % 6 # 0
    BY <1>2, <2>1, FailAdds DEF AnnounceArrives, Allowed, Waiting
  <2>2. CASE (Got(a) - 20) % 6 = 0
    BY <1>2, <2>2, NextTrackerAdds DEF AnnounceArrives, Allowed, End
  <2> QED
    BY <2>1, <2>2
<1>3. CASE Refused(a, rest)
  BY <1>3, FailAdds DEF Refused, Allowed
<1>4. CASE Garbled(a)
  BY <1>4 DEF Garbled, End, Allowed
<1> QED
  BY <1>1, <1>2, <1>3, <1>4 DEF Hear

LEMMA NextAllowed ==
  ASSUME Inv, [Next]_vars
  PROVE  Allowed
<1>1. ASSUME NEW m \in net, Receive(m)
      PROVE  Allowed
  <2>1. PICK a \in Datagrams(m), rest \in {net, net \ {m}} : Hear(a, rest)
    BY <1>1, ReceiveHears DEF Inv
  <2> QED
    BY <2>1, HearAllowed
<1>2. CASE Connect
  BY <1>2, RequestAdds DEF Connect, Allowed
<1>3. CASE Unreachable \/ EmptyTier
  BY <1>3, NextTrackerAdds DEF Unreachable, EmptyTier, End, Allowed
<1>4. CASE SocketError \/ ConnIdTimeout
  BY <1>4, FailAdds DEF SocketError, ConnIdTimeout, Waiting, Allowed
<1>5. CASE AttemptTimeout
  <2>1. call.attempt \in 1..3 /\ Attempt(call.attempt + 1, tracker, net)
    BY <1>5, AttemptBounds DEF AttemptTimeout, Waiting, Ended
  <2> QED
    BY <2>1, AttemptAdds DEF Allowed
<1>6. CASE Delay
  <2>1. PICK m \in net : ~m.late /\ net' = (net \ {m}) \cup {[m EXCEPT !.late = TRUE]}
    BY <1>6 DEF Delay
  <2>2. [m EXCEPT !.late = TRUE].kind = m.kind
    BY Typed DEF Messages
  <2>3. pc \in Waiting /\ tracker' = tracker
    BY <1>6 DEF Delay
  <2> QED
    BY <2>1, <2>2, <2>3 DEF Inv, NetInv, Allowed
<1>7. CASE Lose \/ Tick \/ Over \/ UNCHANGED vars
  <2>1. net' \subseteq net
    BY <1>7 DEF Lose, Tick, Over, vars
  <2> QED
    BY <2>1 DEF Allowed
<1> QED
  BY <1>1, <1>2, <1>3, <1>4, <1>5, <1>6, <1>7, SendAnnounceAllowed DEF Next

\* An announce is only sent, or held back in the network, when the interval of the last
\* answer has passed and the connection id is younger than a minute (udp.rs:136-142).
THEOREM UdpTrackerAllowed == Safety => AnnouncesAllowed
<1>1. Inv /\ [Next]_vars => [\A m \in net' \ net : m.kind = "announce" =>
            now >= tracker.next_announce /\ now - tracker'.conn_id_ts < ConnIdLifetime]_vars
  BY NextAllowed DEF Allowed
<1> QED
  BY <1>1, UdpTrackerInductive, PTL DEF Safety, AnnouncesAllowed

-----------------------------------------------------------------------------
(* No peer is lost, when replies are no longer than what is left of the    *)
(* buffer at worst: 392 bytes, which 62 peers take.                        *)

ModestReplies == PeerCounts \subseteq 0..62

\* What is left when an announce is waited for.
LEMMA AnnounceRoom ==
  ASSUME Inv, pc = "send_announce"
  PROVE  tracker.room \in Nat /\ tracker.room >= 392
<1>1. call.attempt \in 1..3 /\ pc \notin Ended
  BY Typed DEF Inv, StageInv, CallType, Ended
<1> QED
  BY <1>1, Typed, Sizes DEF Inv, RoomInv, RoomLeft

LEMMA WholeReply ==
  ASSUME ModestReplies, Inv, pc = "send_announce", NEW m, NEW a \in Datagrams(m),
         Mine(a), Expected(a)
  PROVE  (Got(a) - 20) \div 6 = (a.length - 20) \div 6
<1>1. Got(a) >= 20 /\ a.action = "announce"
  BY DEF Mine, Long, Expected
<1>2. Got(a) \in Nat /\ Got(a) <= tracker.room /\ Got(a) <= a.length /\ a.length \in Nat
  BY GotIs
<1>3. PICK n \in PeerCounts : a.length <= 21 + 6 * n
  BY <1>1, <1>2 DEF Datagrams
<1>4. n \in Nat /\ n <= 62
  BY DEF ModestReplies
<1>5. a.length <= 393
  BY <1>2, <1>3, <1>4
<1>6. Got(a) = a.length \/ (Got(a) = tracker.room /\ ~(a.length <= tracker.room))
  BY DEF Got
<1>7. Got(a) = a.length \/ (Got(a) = 392 /\ a.length = 393)
  BY <1>2, <1>5, <1>6, AnnounceRoom
<1> QED
  BY <1>2, <1>7

LEMMA FoundKeeps ==
  ASSUME ModestReplies, Inv, FoundInv, [Next]_vars
  PROVE  FoundInv'
<1> USE DEF FoundInv
<1>1. ASSUME NEW m \in net, Receive(m)
      PROVE  FoundInv'
  <2>1. PICK a \in Datagrams(m), rest \in {net, net \ {m}} : Hear(a, rest)
    BY <1>1, ReceiveHears DEF Inv
  <2>2. CASE ConnIdArrives(a, rest)
    BY <2>2, AttemptAdds, RequestAdds DEF ConnIdArrives, Waiting
  <2>3. CASE AnnounceArrives(a, rest)
    <3>1. CASE (Got(a) - 20) % 6 # 0
      BY <2>3, <3>1, FailAdds DEF AnnounceArrives, Waiting
    <3>2. CASE (Got(a) - 20) % 6 = 0
      <4>1. /\ pc = "send_announce" /\ Mine(a) /\ Expected(a)
            /\ found' = [ peers |-> (Got(a) - 20) \div 6, listed |-> (a.length - 20) \div 6,
                          seeders |-> Seeders[url] ]
            /\ Seeders[url] >= EnoughSeeders \/ NextTracker
        BY <2>3, <3>2 DEF AnnounceArrives
      <4>2. (Got(a) - 20) \div 6 = (a.length - 20) \div 6
        BY <4>1, WholeReply
      <4>3. /\ found'.peers = (Got(a) - 20) \div 6
            /\ found'.listed = (a.length - 20) \div 6
            /\ found'.seeders = Seeders[url]
        BY <4>1
      <4> QED
        BY <4>1, <4>2, <4>3, NextTrackerAdds
    <3> QED
      BY <3>1, <3>2
  <2>4. CASE Refused(a, rest)
    BY <2>4, FailAdds DEF Refused
  <2>5. CASE Garbled(a)
    BY <2>5 DEF Garbled, End
  <2> QED
    BY <2>1, <2>2, <2>3, <2>4, <2>5 DEF Hear
<1>2. CASE Connect
  BY <1>2, RequestAdds DEF Connect, Waiting
<1>3. CASE Unreachable \/ EmptyTier
  BY <1>3, NextTrackerAdds DEF Unreachable, EmptyTier, End
<1>4. CASE SocketError \/ ConnIdTimeout
  BY <1>4, FailAdds DEF SocketError, ConnIdTimeout, Waiting
<1>5. CASE AttemptTimeout
  <2>1. call.attempt \in 1..3 /\ Attempt(call.attempt + 1, tracker, net)
    BY <1>5, AttemptBounds DEF AttemptTimeout, Waiting, Ended
  <2> QED
    BY <2>1, AttemptAdds
<1>6. CASE SendAnnounce
  BY <1>6, SendAnnounceIs, AttemptAdds, RequestAdds, RetryAdds DEF Waiting, Ended
<1>7. CASE Lose \/ Delay \/ Tick \/ Over \/ UNCHANGED vars
  BY <1>7 DEF Lose, Delay, Tick, Over, vars
<1> QED
  BY <1>1, <1>2, <1>3, <1>4, <1>5, <1>6, <1>7 DEF Next

LEMMA FoundInductive == ModestReplies => (Safety => []FoundInv)
<1> SUFFICES ASSUME ModestReplies PROVE Safety => []FoundInv
  OBVIOUS
<1>1. Inv /\ FoundInv /\ [Next]_vars => FoundInv'
  BY FoundKeeps
<1>2. Init => FoundInv
  BY DEF Init, FoundInv
<1> QED
  BY <1>1, <1>2, UdpTrackerInductive, PTL DEF Safety

\* If no reply lists more than 62 peers, then the tracker that is picked has enough
\* seeders and none of the peers it listed was lost, however many answers and retries
\* took their bytes from the same buffer before (main.rs:109-119, udp.rs:187-195).
THEOREM UdpTrackerComplete == ModestReplies => (Safety => []PeersComplete)
<1>1. FoundInv => PeersComplete
  BY DEF FoundInv, PeersComplete
<1> QED
  BY <1>1, FoundInductive, PTL

-----------------------------------------------------------------------------
(* A good tracker is found.  Before its turn the search only moves on ...  *)

Fresh == pc = "connect" /\ tracker = NewTracker /\ call = NoCall /\ now = 0 /\ net = {}

Stays == url' = url /\ (pc' = "err" => pc = "err")
Moves == url' = url + 1 /\ Fresh'

LEMMA NextTrackerMoves ==
  ASSUME NextTracker, url < NumTrackers
  PROVE  Moves
  BY DEF NextTracker, Moves, Fresh

LEMMA AttemptMoves ==
  ASSUME NEW n, NEW tr, NEW rest, Attempt(n, tr, rest), url < NumTrackers
  PROVE  Stays \/ Moves
  BY NextTrackerMoves DEF Attempt, Stays

LEMMA RequestStays ==
  ASSUME NEW kind, NEW tr, NEW c, NEW rest, Request(kind, tr, c, rest)
  PROVE  Stays
  BY DEF Request, Stays

LEMMA RetryMoves ==
  ASSUME NEW n, NEW tr, NEW rest, Retry(n, tr, rest), url < NumTrackers
  PROVE  Stays \/ Moves
  BY AttemptMoves, RequestStays DEF Retry

LEMMA FailMoves ==
  ASSUME Inv, pc \in Waiting, NEW tr, NEW rest, Fail(tr, rest), url < NumTrackers
  PROVE  Stays \/ Moves
  BY FailIs, NextTrackerMoves, AttemptMoves, RetryMoves

LEMMA HearMoves ==
  ASSUME Inv, NEW a, NEW rest, Hear(a, rest), url < NumTrackers
  PROVE  Stays \/ Moves
<1>1. CASE ConnIdArrives(a, rest)
  BY <1>1, AttemptMoves, RequestStays DEF ConnIdArrives
<1>2. CASE AnnounceArrives(a, rest)
  <2>1. CASE (Got(a) - 20) % 6 # 0
    BY <1>2, <2>1, FailMoves DEF AnnounceArrives, Waiting
  <2>2. CASE (Got(a) - 20) % 6 = 0
    BY <1>2, <2>2, NextTrackerMoves DEF AnnounceArrives, End, Stays
  <2> QED
    BY <2>1, <2>2
<1>3. CASE Refused(a, rest)
  BY <1>3, FailMoves DEF Refused
<1>4. CASE Garbled(a)
  BY <1>4 DEF Garbled, End, Stays
<1> QED
  BY <1>1, <1>2, <1>3, <1>4 DEF Hear

LEMMA NextMoves ==
  ASSUME Inv, Next, url < NumTrackers
  PROVE  Stays \/ Moves
<1>1. ASSUME NEW m \in net, Receive(m)
      PROVE  Stays \/ Moves
  <2>1. PICK a \in Datagrams(m), rest \in {net, net \ {m}} : Hear(a, rest)
    BY <1>1, ReceiveHears DEF Inv
  <2> QED
    BY <2>1, HearMoves
<1>2. CASE Connect
  BY <1>2, RequestStays DEF Connect
<1>3. CASE Unreachable \/ EmptyTier
  BY <1>3, NextTrackerMoves DEF Unreachable, EmptyTier, End, Stays
<1>4. CASE SocketError \/ ConnIdTimeout
  BY <1>4, FailMoves DEF SocketError, ConnIdTimeout, Waiting
<1>5. CASE AttemptTimeout
  BY <1>5, AttemptMoves DEF AttemptTimeout
<1>6. CASE SendAnnounce
  BY <1>6, SendAnnounceIs, AttemptMoves, RequestStays, RetryMoves
<1>7. CASE Lose \/ Delay \/ Tick \/ Over
  BY <1>7 DEF Lose, Delay, Tick, Over, vars, Stays
<1> QED
  BY <1>1, <1>2, <1>3, <1>4, <1>5, <1>6, <1>7 DEF Next

\* Only the faults of the tracker under trial are counted.
LEMMA FaultsAre ==
  ASSUME Inv, Next
  PROVE  UNCHANGED faults \/ \E kinds : Fault(kinds)
<1>1. CASE \E m \in net : Receive(m)
  BY <1>1, ReceiveHears DEF Inv
<1>2. CASE ~(\E m \in net : Receive(m))
  BY <1>2 DEF Next, Connect, Unreachable, EmptyTier, SendAnnounce, SocketError, ConnIdTimeout,
              AttemptTimeout, Lose, Delay, Tick, Over, vars
<1> QED
  BY <1>1, <1>2

LEMMA BeforeTurn ==
  ASSUME Inv, Next, NEW u \in Trackers, GoodInv(u), url < u
  PROVE  GoodInv(u)'
<1>1. url \in Trackers /\ u <= NumTrackers /\ url \in Nat /\ u \in Nat /\ NumTrackers \in Nat
  BY Typed, TrackersAssumption DEF Trackers
<1>2. Stays \/ Moves
  BY <1>1, NextMoves
<1>3. faults'[u] = faults[u] /\ faults[u] = 0
  <2>1. faults \in [Trackers -> Nat] /\ url # u
    BY <1>1, Typed DEF LogOK
  <2> QED
    BY <2>1, FaultsAre DEF GoodInv, Fault
<1>4. CASE Stays
  BY <1>1, <1>3, <1>4 DEF Stays, GoodInv
<1>5. CASE Moves
  <2>1. url' <= u /\ pc' = "connect" /\ Fresh'
    BY <1>1, <1>5 DEF Moves, Fresh
  <2>2. Trying(u)'
    BY <1>3, <2>1, Typed DEF Fresh, Trying, NewTracker, NoCall, Waiting
  <2> QED
    BY <1>3, <2>1, <2>2 DEF GoodInv
<1> QED
  BY <1>2, <1>4, <1>5

(* ... and in its turn every attempt that fails costs a fault, of which    *)
(* there are two at most.                                                  *)

Its(u) == url = u /\ pc \notin Ended

LEMMA GoodFaults ==
  ASSUME NEW u \in Trackers, Good(u), Inv, GoodInv(u), Its(u)
  PROVE  /\ faults[u] \in 0..2
         /\ Faults[u] \subseteq Tolerated
         /\ \A kinds : Fault(kinds) =>
                /\ kinds \cap Tolerated # {} /\ call.attempt \in {1, 2}
                /\ faults[u] < 2 /\ faults'[u] = faults[u] + 1
<1>1. faults \in [Trackers -> Nat] /\ faults[u] <= 2 /\ faults[u] \in Nat
  BY Typed DEF LogOK, GoodInv
<1>2. Faults[u] \subseteq Tolerated
  BY DEF Good
<1>3. ASSUME NEW kinds, Fault(kinds)
      PROVE  /\ kinds \cap Tolerated # {} /\ call.attempt \in {1, 2}
             /\ faults[u] < 2 /\ faults'[u] = faults[u] + 1
  <2>1. kinds \cap Faults[u] # {} /\ faults[u] < MaxFaults[u] /\ faults'[u] = faults[u] + 1
    BY <1>1, <1>3 DEF Fault, Its
  <2>2. MaxFaults[u] < 3 /\ MaxFaults[u] \in Nat
    BY <2>1, TrackersAssumption DEF Good
  <2>3. call.attempt # 0
    BY <1>2, <1>3 DEF Fault, Its, Tolerated
  <2>4. call.attempt \in 0..3 /\ call.attempt <= faults[u] + 1
    BY Typed DEF CallType, GoodInv, Its, Trying
  <2> QED
    BY <1>1, <1>2, <2>1, <2>2, <2>3, <2>4
<1> QED
  BY <1>1, <1>2, <1>3

\* The next attempt, when this one cost a fault.
LEMMA GoodAttempt ==
  ASSUME NEW u \in Trackers, Inv, Its(u), NEW n \in 1..3, NEW tr, tr.next_announce = 0,
         Attempt(n, tr, {}), n <= faults'[u] + 1, faults'[u] <= 2, url <= u
  PROVE  GoodInv(u)'
<1>1. /\ pc' = "announce" /\ tracker' = tr /\ net' = {} /\ url' = url
      /\ call' = [NoCall EXCEPT !.attempt = n, !.deadline = now + RETRY_TIMEOUT[n]]
  BY Timeouts DEF Attempt
<1>2. call'.attempt = n
  BY <1>1 DEF NoCall
<1>3. url' = u /\ u \in Nat
  BY <1>1, TrackersAssumption DEF Its, Trackers
<1> QED
  BY <1>1, <1>2, <1>3 DEF GoodInv, Trying, Waiting

\* A request, which is the only one on its way.
LEMMA GoodRequest ==
  ASSUME NEW u \in Trackers, Good(u), Inv, GoodInv(u), Its(u), UNCHANGED faults,
         NEW kind \in {"connect", "announce"}, NEW tr, NEW c,
         Request(kind, tr, c, {}), Sound(tr, {}), tr.next_announce = 0,
         c.attempt <= faults[u] + 1, c.attempt = 0 => faults[u] = 0,
         now < c.deadline, c.retry > 0 => now < c.retry_deadline
  PROVE  GoodInv(u)'
<1> DEFINE m == [tx |-> tr.tx + 1, kind |-> kind, late |-> FALSE]
<1>1. /\ pc' = (IF kind = "connect" THEN "get_conn_id" ELSE "send_announce")
      /\ call' = c /\ net' = {m} /\ UNCHANGED <<url, now>>
  BY DEF Request
<1>2. tracker'.tx = tr.tx + 1 /\ tracker'.next_announce = tr.next_announce
  BY DEF Request, Sound
<1>3. m.tx = tracker'.tx /\ ~m.late /\ m.kind = IF pc' = "get_conn_id" THEN "connect" ELSE "announce"
  BY <1>1, <1>2
<1> HIDE DEF m
<1>4. Awaited(u)'
  BY <1>1, <1>3 DEF Awaited
<1>5. pc' \in Waiting /\ pc' \notin {"connect", "announce", "err"}
  BY <1>1 DEF Waiting
<1> QED
  BY <1>1, <1>2, <1>4, <1>5 DEF GoodInv, Trying, Its

LEMMA GoodConnect ==
  ASSUME NEW u \in Trackers, Good(u), Inv, GoodInv(u), Its(u), Connect
  PROVE  GoodInv(u)'
<1> DEFINE c == [NoCall EXCEPT !.deadline = now + ConnectTimeout]
<1>1. /\ tracker = NewTracker /\ now = 0 /\ net = {} /\ Request("connect", tracker, c, {})
      /\ UNCHANGED faults /\ call = NoCall
  BY DEF Connect, Inv, StageInv
<1>2. c.attempt = 0 /\ c.deadline = now + ConnectTimeout /\ c.retry = 0 /\ call.attempt = 0
  BY <1>1 DEF NoCall
<1>3. faults[u] = 0 /\ now < c.deadline /\ tracker.next_announce = 0 /\ Sound(tracker, {})
  BY <1>1, <1>2, Sizes, TrackerSound DEF GoodInv, Its, Trying, NewTracker
<1> HIDE DEF c
<1> QED
  BY <1>1, <1>2, <1>3, GoodRequest

LEMMA GoodSendAnnounce ==
  ASSUME NEW u \in Trackers, Good(u), Inv, GoodInv(u), Its(u), SendAnnounce
  PROVE  GoodInv(u)'
<1>1. /\ pc = "announce" /\ net = {} /\ tracker.next_announce = 0
      /\ call.attempt <= faults[u] + 1 /\ UNCHANGED faults
  BY DEF SendAnnounce, GoodInv, Its, Trying
<1>2. /\ call.attempt \in 1..3 /\ now \in Nat /\ call \in CallType /\ Sound(tracker, {})
      /\ call.retry = 0 /\ call.deadline = now + RETRY_TIMEOUT[call.attempt]
  BY <1>1, Typed, SendAnnounceIs, TrackerSound DEF Inv, StageInv
<1>3. now < call.deadline
  BY <1>2, Timeouts
<1>4. CASE Request("announce", tracker, call, net)
  BY <1>1, <1>2, <1>3, <1>4, GoodRequest
<1>5. CASE call.attempt = 3 /\ Retry(1, tracker, net)
  <2> DEFINE c == [call EXCEPT !.retry = 1, !.retry_deadline = now + RETRY_TIMEOUT[1]]
  <2>1. Request("connect", tracker, c, {})
    BY <1>1, <1>5, Timeouts DEF Retry
  <2>2. /\ c.attempt = call.attempt /\ c.deadline = call.deadline /\ c.retry = 1
        /\ c.retry_deadline = now + RETRY_TIMEOUT[1]
    BY <1>2 DEF CallType
  <2>3. now < c.retry_deadline
    BY <1>2, <2>2, Timeouts
  <2> HIDE DEF c
  <2> QED
    BY <1>1, <1>2, <1>3, <1>5, <2>1, <2>2, <2>3, GoodRequest
<1> QED
  BY <1>1, <1>2, <1>4, <1>5, SendAnnounceIs

\* What the network did with the request of a good tracker.
LEMMA GoodAwaits ==
  ASSUME NEW u \in Trackers, Good(u), Inv, GoodInv(u), Its(u), pc \in Waiting
  PROVE  /\ tracker.next_announce = 0 /\ call.attempt <= faults[u] + 1
         /\ \/ /\ \E m \in net : /\ net = {m} /\ m.tx = tracker.tx /\ ~m.late
                                 /\ m.kind = IF pc = "get_conn_id" THEN "connect" ELSE "announce"
               /\ now < call.deadline
               /\ call.retry > 0 => now < call.retry_deadline
            \/ /\ net = {} /\ call.attempt \in {1, 2} /\ call.attempt <= faults[u]
               /\ pc = "send_announce"
<1>1. Awaited(u) /\ tracker.next_announce = 0 /\ call.attempt <= faults[u] + 1
  BY DEF GoodInv, Its, Trying
<1>2. call.attempt \in 0..3 /\ faults[u] \in 0..2
  BY Typed, GoodFaults DEF CallType
<1>3. ASSUME net = {}, call.attempt > 0, call.attempt <= faults[u]
      PROVE  call.attempt \in {1, 2} /\ pc = "send_announce"
  BY <1>2, <1>3 DEF Inv, StageInv, Waiting
<1> QED
  BY <1>1, <1>3 DEF Awaited

\* A good answer is accepted.
LEMMA GoodAnswerAccepted ==
  ASSUME ModestReplies, Inv, pc \in Waiting, NEW m, NEW a \in GoodAnswers(m),
         m.tx = tracker.tx, m.kind = IF pc = "get_conn_id" THEN "connect" ELSE "announce"
  PROVE  /\ Mine(a) /\ Expected(a) /\ a.action \notin {"error", "garbled"}
         /\ pc = "send_announce" => (Got(a) - 20) % 6 = 0
<1>1. CASE pc = "get_conn_id"
  <2>1. a.tx = m.tx /\ a.action = "connect" /\ a.length = 16
    BY <1>1, GoodAnswersAre DEF Answer
  <2>2. tracker.room >= 392 /\ tracker.room \in Nat
    <3>1. pc \notin Ended /\ call \in CallType /\ tracker.room \in Nat
      BY <1>1, Typed DEF Ended
    <3>2. \/ call.attempt = 0
          \/ call.attempt = 3 /\ call.retry \in 1..3
      BY <1>1, <3>1 DEF Inv, StageInv, CallType
    <3>3. CASE call.attempt = 0
      BY <3>1, <3>3, Sizes DEF Inv, RoomInv, RoomLeft
    <3>4. CASE call.attempt = 3 /\ call.retry \in 1..3
      BY <1>1, <3>1, <3>4, Sizes DEF Inv, RoomInv, RoomLeft
    <3> QED
      BY <3>2, <3>3, <3>4, <3>1
  <2>3. Got(a) = 16
    BY <2>1, <2>2 DEF Got
  <2> QED
    BY <1>1, <2>1, <2>3 DEF Mine, Long, Expected
<1>2. CASE pc = "send_announce"
  <2>1. PICK n \in PeerCounts : a.tx = m.tx /\ a.action = "announce" /\ a.length = 20 + 6 * n
    BY <1>2, GoodAnswersAre DEF Answer
  <2>2. n \in Nat /\ n <= 62
    BY DEF ModestReplies
  <2>3. tracker.room >= 392 /\ tracker.room \in Nat
    BY <1>2, AnnounceRoom
  <2>4. Got(a) = 20 + 6 * n
    BY <2>1, <2>2, <2>3 DEF Got
  <2>5. Got(a) >= 20 /\ (Got(a) - 20) % 6 = 0
    BY <2>2, <2>4
  <2> QED
    BY <1>2, <2>1, <2>5 DEF Mine, Long, Expected
<1> QED
  BY <1>1, <1>2 DEF Waiting

\* Of the wrong answers none is accepted.
LEMMA BadAnswerRefused ==
  ASSUME Inv, pc = "send_announce", NEW m, m.kind = "announce", NEW kind \in Tolerated,
         NEW a \in BadAnswers(m, kind)
  PROVE  ~(Mine(a) /\ Expected(a)) /\ a.action # "garbled" /\ a \in Datagrams(m)
<1>1. a \in Datagrams(m)
  BY BadAnswersAre
<1>2. CASE kind = "short"
  <2>1. a.length = 8 /\ a.action = "announce"
    BY <1>2 DEF BadAnswers, Answer
  <2>2. ~Long(a)
    BY <1>1, <2>1, GotIs DEF Long
  <2> QED
    BY <1>1, <2>1, <2>2 DEF Mine
<1>3. CASE kind = "other"
  <2>1. PICK b \in GoodAnswers(m) : a = [b EXCEPT !.action = "other"]
    BY <1>3 DEF BadAnswers
  <2>2. a.action = "other"
    BY <2>1, GoodAnswersAre DEF Datagrams
  <2> QED
    BY <1>1, <2>2 DEF Expected
<1>4. CASE kind = "error"
  BY <1>1, <1>4 DEF BadAnswers, Answer, Expected
<1>5. CASE kind = "lose"
  BY <1>5 DEF BadAnswers
<1> QED
  BY <1>2, <1>3, <1>4, <1>5 DEF Tolerated

\* The answer to the only request is right ...
LEMMA GoodReceiveRight ==
  ASSUME ModestReplies, NEW u \in Trackers, Good(u), Inv, GoodInv(u), Its(u), pc \in Waiting,
         NEW m \in net, NEW a \in GoodAnswers(m), Hear(a, net \ {m}), UNCHANGED faults
  PROVE  GoodInv(u)'
<1>1. /\ tracker.next_announce = 0 /\ call.attempt <= faults[u] + 1
      /\ net = {m} /\ m.tx = tracker.tx
      /\ m.kind = IF pc = "get_conn_id" THEN "connect" ELSE "announce"
      /\ now < call.deadline
  BY GoodAwaits
<1>2. /\ Mine(a) /\ Expected(a) /\ a.action \notin {"error", "garbled"}
      /\ pc = "send_announce" => (Got(a) - 20) % 6 = 0
  BY <1>1, GoodAnswerAccepted
<1>3. ConnIdArrives(a, {}) \/ AnnounceArrives(a, {})
  BY <1>1, <1>2 DEF Hear, Refused, Garbled
<1>4. /\ faults'[u] = faults[u] /\ faults[u] \in 0..2 /\ url = u /\ call \in CallType
      /\ u \in Nat /\ now \in Nat
  BY GoodFaults, Typed, TrackersAssumption DEF Its, Trackers
<1>5. CASE ConnIdArrives(a, {})
  <2> DEFINE tr == [Consumed(16) EXCEPT !.conn_id_ts = now]
  <2>1. /\ pc = "get_conn_id" /\ Got(a) = 16
        /\ IF call.retry = 0
           THEN Attempt(1, tr, {})
           ELSE Request("announce", tr, [call EXCEPT !.retry = 0], {})
    BY <1>5 DEF ConnIdArrives, Mine, Long
  <2>2. Sound(tr, {}) /\ tr.next_announce = 0
    <3>1. 16 \in Nat /\ 16 <= tracker.room /\ 0 \in Nat
      BY <2>1, <1>1, GotIs, GoodAnswersAre
    <3> QED
      BY <1>1, <3>1, ConsumedSound
  <2> HIDE DEF tr
  <2>3. CASE call.retry = 0
    <3>1. Attempt(1, tr, {}) /\ 1 <= faults'[u] + 1 /\ faults'[u] <= 2 /\ url <= u
      BY <1>4, <2>1, <2>3
    <3> QED
      BY <2>2, <3>1, GoodAttempt
  <2>4. CASE call.retry # 0
    <3> DEFINE c == [call EXCEPT !.retry = 0]
    <3>1. /\ Request("announce", tr, c, {}) /\ c.attempt = call.attempt
          /\ c.deadline = call.deadline /\ c.retry = 0
      BY <1>4, <2>1, <2>4 DEF CallType
    <3>2. call.attempt # 0
      BY <2>1, <2>4 DEF Inv, StageInv
    <3> HIDE DEF c
    <3> QED
      BY <1>1, <2>2, <3>1, <3>2, GoodRequest
  <2> QED
    BY <2>3, <2>4
<1>6. CASE AnnounceArrives(a, {})
  <2>1. Seeders[url] >= EnoughSeeders
    BY <1>4 DEF Good
  <2>2. End("ok")
    BY <1>2, <1>6, <2>1 DEF AnnounceArrives
  <2> QED
    BY <1>4, <2>2 DEF End, GoodInv, Ended
<1> QED
  BY <1>3, <1>5, <1>6

\* ... or costs a fault and this attempt, of which there is another.
LEMMA GoodReceiveWrong ==
  ASSUME NEW u \in Trackers, Good(u), Inv, GoodInv(u), Its(u), pc \in Waiting,
         NEW m \in net, NEW kind, NEW a \in BadAnswers(m, kind), Hear(a, net \ {m}),
         Fault({kind})
  PROVE  GoodInv(u)'
<1>1. /\ tracker.next_announce = 0 /\ call.attempt <= faults[u] + 1
      /\ net = {m} /\ m.kind = IF pc = "get_conn_id" THEN "connect" ELSE "announce"
  BY GoodAwaits
<1>2. /\ kind \in Tolerated /\ call.attempt \in {1, 2} /\ faults[u] \in 0..2
      /\ faults'[u] = faults[u] + 1 /\ faults'[u] <= 2
  BY GoodFaults
<1>3. pc = "send_announce" /\ m.kind = "announce"
  BY <1>1, <1>2 DEF Inv, StageInv, Waiting
<1>4. Refused(a, {}) /\ a \in Datagrams(m)
  <2>1. ~(Mine(a) /\ Expected(a)) /\ a.action # "garbled" /\ a \in Datagrams(m)
    BY <1>2, <1>3, BadAnswerRefused
  <2> QED
    BY <1>1, <2>1 DEF Hear, ConnIdArrives, AnnounceArrives, Garbled
<1> DEFINE read == CASE ~Long(a) -> 0
                     [] Mine(a) /\ a.action = "error" -> Got(a)
                     [] OTHER -> 8
<1>5. Fail(Consumed(read), {})
  BY <1>4 DEF Refused
<1>6. read \in Nat /\ read <= tracker.room /\ 0 \in Nat
  BY <1>4, RefusedCost
<1> HIDE DEF read
<1>7. Consumed(read).next_announce = 0
  BY <1>1, <1>6, ConsumedSound
<1>8. Attempt(call.attempt + 1, Consumed(read), {})
  BY <1>3, <1>5 DEF Fail
<1>9. call.attempt + 1 \in 1..3 /\ call.attempt + 1 <= faults'[u] + 1 /\ url <= u
  BY <1>1, <1>2 DEF GoodInv
<1> QED
  BY <1>2, <1>7, <1>8, <1>9, GoodAttempt

LEMMA GoodReceive ==
  ASSUME ModestReplies, NEW u \in Trackers, Good(u), Inv, GoodInv(u), Its(u),
         NEW m \in net, Receive(m)
  PROVE  GoodInv(u)'
<1>1. pc \in Waiting
  BY DEF Receive, Hear, ConnIdArrives, AnnounceArrives, Refused, Garbled, Waiting
<1>2. CASE \E a \in GoodAnswers(m) : Hear(a, net \ {m}) /\ UNCHANGED faults
  BY <1>1, <1>2, GoodReceiveRight
<1>3. CASE \E a \in GoodAnswers(m) : Hear(a, net) /\ Fault({"duplicate"})
  BY <1>3, GoodFaults DEF Tolerated
<1>4. CASE \E kind \in Faults[url] : \E a \in BadAnswers(m, kind) :
                Hear(a, net \ {m}) /\ Fault({kind})
  BY <1>1, <1>4, GoodReceiveWrong
<1> QED
  BY <1>2, <1>3, <1>4 DEF Receive

LEMMA GoodTimeouts ==
  ASSUME NEW u \in Trackers, Good(u), Inv, GoodInv(u), Its(u), ConnIdTimeout \/ AttemptTimeout
  PROVE  GoodInv(u)'
<1>1. pc \in Waiting /\ UNCHANGED faults
  BY DEF ConnIdTimeout, AttemptTimeout, Waiting
<1>2. now \in Nat /\ call.deadline \in Nat /\ call.retry_deadline \in Nat /\ call.retry \in 0..3
  BY Typed DEF CallType
<1>3. /\ net = {} /\ call.attempt \in {1, 2} /\ call.attempt <= faults[u]
      /\ pc = "send_announce" /\ tracker.next_announce = 0
  BY <1>1, <1>2, GoodAwaits DEF ConnIdTimeout, AttemptTimeout
<1>4. Attempt(call.attempt + 1, tracker, {})
  BY <1>3 DEF ConnIdTimeout, AttemptTimeout
<1>5. call.attempt + 1 \in 1..3 /\ call.attempt + 1 <= faults'[u] + 1 /\ faults'[u] <= 2 /\ url <= u
  BY <1>1, <1>3, GoodFaults DEF GoodInv
<1> QED
  BY <1>3, <1>4, <1>5, GoodAttempt

LEMMA GoodLose ==
  ASSUME NEW u \in Trackers, Good(u), Inv, GoodInv(u), Its(u), Lose
  PROVE  GoodInv(u)'
<1>1. /\ pc \in Waiting /\ Fault({"lose"}) /\ UNCHANGED <<url, pc, tracker, call, now>>
      /\ \E m \in net : net' = net \ {m}
  BY DEF Lose
<1>2. /\ call.attempt \in {1, 2} /\ faults[u] \in 0..2 /\ faults[u] < 2
      /\ faults'[u] = faults[u] + 1
  BY <1>1, GoodFaults
<1>3. tracker.next_announce = 0 /\ call.attempt <= faults[u] + 1 /\ \E m \in net : net = {m}
  BY <1>1, GoodAwaits
<1>4. net' = {} /\ Awaited(u)'
  BY <1>1, <1>2, <1>3 DEF Awaited
<1>5. Trying(u)'
  BY <1>1, <1>2, <1>3, <1>4 DEF Trying
<1>6. url = u /\ u \in Nat /\ pc # "err"
  BY TrackersAssumption DEF Its, Trackers, Ended
<1> QED
  BY <1>1, <1>2, <1>5, <1>6 DEF GoodInv

LEMMA GoodTick ==
  ASSUME NEW u \in Trackers, Good(u), Inv, GoodInv(u), Its(u), Tick
  PROVE  GoodInv(u)'
<1>1. /\ pc \in Waiting /\ \A m \in net : m.late
      /\ UNCHANGED <<url, pc, tracker, call, net, faults, found>>
  BY DEF Tick
<1>2. net = {} /\ call.attempt > 0 /\ call.attempt <= faults[u]
  BY <1>1, GoodAwaits
<1>3. Awaited(u)'
  BY <1>1, <1>2 DEF Awaited
<1> QED
  BY <1>1, <1>3 DEF GoodInv, Trying

LEMMA GoodKeeps ==
  ASSUME ModestReplies, NEW u \in Trackers, Good(u), Inv, GoodInv(u), [Next]_vars
  PROVE  GoodInv(u)'
<1>1. ASSUME UNCHANGED vars
      PROVE  GoodInv(u)'
  BY <1>1 DEF vars, GoodInv, Trying, Awaited
<1>2. ASSUME Next, pc \in Ended
      PROVE  UNCHANGED vars
  <2>1. pc \notin {"connect", "announce"} \cup Waiting
    BY <1>2 DEF Ended, Waiting
  <2> QED
    BY <1>2, <2>1 DEF Next, Connect, Unreachable, EmptyTier, SendAnnounce, SocketError,
       ConnIdTimeout, AttemptTimeout, Lose, Delay, Tick, Over, Receive, Hear, ConnIdArrives,
       AnnounceArrives, Refused, Garbled, Waiting
<1>3. CASE Next /\ url < u
  BY <1>3, BeforeTurn
<1>4. CASE Next /\ Its(u)
  <2>1. Faults[u] \subseteq Tolerated /\ url = u
    BY <1>4, GoodFaults DEF Its
  <2>2. ~Unreachable /\ ~EmptyTier
    BY <2>1 DEF Unreachable, EmptyTier, Tolerated
  <2>3. ~Fault({"socket"}) /\ ~Fault({"late"})
    BY <1>4, GoodFaults DEF Tolerated
  <2>4. ~SocketError /\ ~Delay
    BY <2>3 DEF SocketError, Delay
  <2>5. ~Over
    BY <1>4 DEF Over, Its
  <2> QED
    BY <1>4, <2>2, <2>4, <2>5, GoodConnect, GoodSendAnnounce, GoodReceive, GoodTimeouts,
       GoodLose, GoodTick DEF Next
<1>5. url < u \/ url = u
  BY Typed, TrackersAssumption DEF GoodInv, Trackers
<1> QED
  BY <1>1, <1>2, <1>3, <1>4, <1>5 DEF Its

LEMMA InitGood ==
  ASSUME Init, NEW u \in Trackers
  PROVE  GoodInv(u)
<1>1. u \in Nat /\ 1 <= u
  BY TrackersAssumption DEF Trackers
<1> QED
  BY <1>1 DEF Init, GoodInv, Trying, NewTracker, NoCall, Waiting

\* If no reply lists more than 62 peers, then the search never ends without a tracker
\* when one in the list has enough seeders and makes at most two of the mistakes that
\* cost a single attempt, whatever the trackers before it do short of a panic
\* (udp.rs:115-142, main.rs:91-122).
THEOREM UdpTrackerFindsGood == ModestReplies => (Safety => []GoodTrackerFound)
<1> SUFFICES ASSUME ModestReplies PROVE Safety => []GoodTrackerFound
  OBVIOUS
<1>1. Inv /\ AllGood /\ [Next]_vars => AllGood'
  <2> SUFFICES ASSUME Inv, AllGood, [Next]_vars, NEW u \in Trackers, Good(u)
               PROVE  GoodInv(u)'
    BY DEF AllGood, Good
  <2> QED
    BY GoodKeeps DEF AllGood
<1>2. Init => AllGood
  BY InitGood DEF AllGood
<1>3. AllGood => GoodTrackerFound
  BY DEF AllGood, GoodInv, GoodTrackerFound
<1> QED
  BY <1>1, <1>2, <1>3, UdpTrackerInductive, PTL DEF Safety
=============================================================================
