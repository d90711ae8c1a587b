----------------------------- MODULE UdpTracker -----------------------------
(***************************************************************************)
(* Looking for a tracker (src/src/main.rs:85-124) with the UDP client of   *)
(* src/src/tracker/udp.rs: for each url connect, announce once with up to  *)
(* three attempts, and take the first tracker with five seeders.  A step   *)
(* is what the task does from one await to the next.                       *)
(*                                                                         *)
(* A datagram is a request and what became of it: the network may lose it, *)
(* answer it late or twice, and the tracker may answer it badly: Faults    *)
(* says which of this happens and MaxFaults how often.                     *)
(* Transaction ids are random in the code and here never repeat.           *)
(*                                                                         *)
(* Time is counted in units of 5 seconds, from 0 for each tracker.  A step *)
(* takes some time, less than any unit: what comes n units after an        *)
(* instant is more than n units past it.                                   *)
(***************************************************************************)
EXTENDS Integers, Sequences

CONSTANTS
    NumTrackers,    \* the length of `announce_list'
    Seeders,        \* url -> the seeders its tracker has
    Faults,         \* url -> what goes wrong with it, a subset of FaultKinds
    MaxFaults,      \* url -> bound on how often the others than the first two do
    PeerCounts,     \* how many peers a reply lists
    Intervals       \* the announce intervals, in units of time

Trackers == 1..NumTrackers

FaultKinds ==
    { "empty",          \* its list in `announce_list' is empty
      "unreachable",    \* its url or its host's name is no good
      "early",          \* the faults below may come before the first connection id
      "lose",           \* the request or its answer is lost
      "duplicate",      \* an answer comes twice
      "late",           \* an answer takes longer than a unit of time
      "socket",         \* the socket reports an error
      "short",          \* the answer is too short
      "odd",            \* an announce's answer has a byte too many
      "other",          \* the answer has another action
      "error",          \* the answer has the action `error'
      "garbled" }       \* ... and a message that is no UTF-8

ASSUME TrackersAssumption ==
    /\ NumTrackers \in Nat \ {0}
    /\ Seeders \in [Trackers -> Nat]
    /\ Faults \in [Trackers -> SUBSET FaultKinds]
    /\ MaxFaults \in [Trackers -> Nat]
    /\ PeerCounts \subseteq Nat
    /\ Intervals \subseteq Nat

RETRY_TIMEOUT == <<3, 9, 21>>   \* 15, 45 and 105 seconds
ConnectTimeout == 1             \* 5 seconds
ConnIdLifetime == 12            \* 60 seconds
EnoughSeeders == 5

\* Mutant: a smaller buffer.
SmallCapacity == 300

Capacity == 512                 \* of the buffer, in bytes

VARIABLES
    url,        \* which of `announce_list' is tried
    pc,         \* where the task is
    tracker,    \* the UdpTracker, and the transaction id it used last
    call,       \* the retries under way and when they time out
    now,        \* the time
    net,        \* the requests not answered yet, and whether they will be late
    faults,     \* url -> how much went wrong with it (for the bound only)
    found       \* what announce returned last

vars == <<url, pc, tracker, call, now, net, faults, found>>

\* `room' is the capacity left in the buffer: what is read from its front is not
\* given back by `clear'.
NewTracker == [conn_id_ts |-> 0, next_announce |-> 0, room |-> Capacity, tx |-> 0]
NoCall == [attempt |-> 0, deadline |-> 0, retry |-> 0, retry_deadline |-> 0]

Waiting == {"get_conn_id", "send_announce"}
Ended == {"ok", "err", "panicked"}

TypeOK ==
    /\ url \in Trackers
    /\ pc \in {"connect", "announce"} \cup Waiting \cup Ended
    /\ tracker \in [conn_id_ts : Nat, next_announce : Nat, room : 0..Capacity, tx : Nat]
    /\ call \in [attempt : 0..3, deadline : Nat, retry : 0..3, retry_deadline : Nat]
    /\ now \in Nat
    /\ \A m \in net : m.tx \in 1..tracker.tx /\ m.kind \in {"connect", "announce"} /\ m.late \in BOOLEAN
    /\ faults \in [Trackers -> Nat] /\ \A u \in Trackers : faults[u] <= MaxFaults[u]
    /\ found \in [peers : Nat, listed : Nat, seeders : Nat]

Init ==
    /\ url = 1
    /\ pc = "connect"
    /\ tracker = NewTracker
    /\ call = NoCall
    /\ now = 0
    /\ net = {}
    /\ faults = [u \in Trackers |-> 0]
    /\ found = [peers |-> 0, listed |-> 0, seeders |-> 0]

-----------------------------------------------------------------------------
(* Where the task goes on, with the UdpTracker as it is then and what is   *)
(* left in the network.                                                    *)

End(l) == pc' = l /\ net' = {} /\ UNCHANGED <<url, tracker, call, now>>

\* `continue': the UdpTracker and its socket are dropped; after the last url there
\* is no tracker.
NextTracker ==
    IF url < NumTrackers
    THEN /\ url' = url + 1
         /\ pc' = "connect"
         /\ tracker' = NewTracker
         /\ call' = NoCall
         /\ now' = 0
         /\ net' = {}
    ELSE End("err")

RequestSize == [connect |-> 16, announce |-> 98]

\* Mutant: the transaction id is not remembered.
RequestForgetsId(kind, tr, c, rest) ==
    /\ pc' = IF kind = "connect" THEN "get_conn_id" ELSE "send_announce"
    /\ tracker' = [tr EXCEPT !.room = IF RequestSize[kind] > @ THEN Capacity ELSE @]
    /\ call' = c
    /\ net' = rest \cup {[tx |-> tr.tx + 1, kind |-> kind, late |-> FALSE]}
    /\ UNCHANGED <<url, now>>

\* Write a request into the cleared buffer, which takes its front back if the
\* request does not fit, send it, and wait.
Request(kind, tr, c, rest) ==
    /\ pc' = IF kind = "connect" THEN "get_conn_id" ELSE "send_announce"
    /\ tracker' = [tr EXCEPT !.tx = @ + 1,
                             !.room = IF RequestSize[kind] > @ THEN Capacity ELSE @]
    /\ call' = c
    /\ net' = rest \cup {[tx |-> tr.tx + 1, kind |-> kind, late |-> FALSE]}
    /\ UNCHANGED <<url, now>>

\* Mutant: the last timeout is not used.
AttemptTwice(n, tr, rest) ==
    IF n < Len(RETRY_TIMEOUT)
    THEN /\ pc' = "announce"
         /\ tracker' = tr
         /\ call' = [NoCall EXCEPT !.attempt = n, !.deadline = now + RETRY_TIMEOUT[n]]
         /\ net' = rest
         /\ UNCHANGED <<url, now>>
    ELSE NextTracker

\* Mutant: after the last timeout the first one is used again.
AttemptForever(n, tr, rest) ==
    LET k == IF n <= Len(RETRY_TIMEOUT) THEN n ELSE 1
    IN  /\ pc' = "announce"
        /\ tracker' = tr
        /\ call' = [NoCall EXCEPT !.attempt = k, !.deadline = now + RETRY_TIMEOUT[k]]
        /\ net' = rest
        /\ UNCHANGED <<url, now>>

\* The n-th round of announce's loop.
Attempt(n, tr, rest) ==
    IF n <= Len(RETRY_TIMEOUT)
    THEN /\ pc' = "announce"
         /\ tracker' = tr
         /\ call' = [NoCall EXCEPT !.attempt = n, !.deadline = now + RETRY_TIMEOUT[n]]
         /\ net' = rest
         /\ UNCHANGED <<url, now>>
    ELSE NextTracker

\* Mutant: a retry extends the attempt it is part of.
RetryExtends(n, tr, rest) ==
    IF n <= Len(RETRY_TIMEOUT)
    THEN Request("connect", tr,
                 [call EXCEPT !.retry = n, !.retry_deadline = now + RETRY_TIMEOUT[n],
                              !.deadline = @ + RETRY_TIMEOUT[n]], rest)
    ELSE Attempt(call.attempt + 1, tr, rest)

\* The n-th round of retry_get_conn_id's loop; after the last, send_announce fails.
Retry(n, tr, rest) ==
    IF n <= Len(RETRY_TIMEOUT)
    THEN Request("connect", tr,
                 [call EXCEPT !.retry = n, !.retry_deadline = now + RETRY_TIMEOUT[n]], rest)
    ELSE Attempt(call.attempt + 1, tr, rest)

\* What waits for an answer fails: connect, a retry of it, or an attempt.
Fail(tr, rest) ==
    CASE pc = "get_conn_id" /\ call.retry = 0 -> NextTracker
      [] pc = "get_conn_id" /\ call.retry > 0 -> Retry(call.retry + 1, tr, rest)
      [] pc = "send_announce" -> Attempt(call.attempt + 1, tr, rest)

-----------------------------------------------------------------------------
(* Faults and answers. *)

\* Something goes wrong with the url under trial: one of kinds.
Fault(kinds) ==
    /\ faults[url] < MaxFaults[url]
    /\ faults' = [faults EXCEPT ![url] = @ + 1]
    /\ kinds \cap Faults[url] # {}
    /\ call.attempt = 0 => "early" \in Faults[url]

\* What may answer request m: `length' counts its bytes, 6 for each peer of an
\* announce's.
Answer(m, action, length, interval) ==
    [tx |-> m.tx, action |-> action, length |-> length, interval |-> interval]

GoodAnswers(m) ==
    IF m.kind = "connect"
    THEN {Answer(m, "connect", 16, 0)}
    ELSE {Answer(m, "announce", 20 + 6 * n, i) : n \in PeerCounts, i \in Intervals}

BadAnswers(m, kind) ==
    CASE kind = "short" -> {Answer(m, m.kind, 8, 0)}
      [] kind = "odd" /\ m.kind = "announce" ->
            {[a EXCEPT !.length = @ + 1] : a \in GoodAnswers(m)}
      [] kind = "other" -> {[a EXCEPT !.action = "other"] : a \in GoodAnswers(m)}
      [] kind \in {"error", "garbled"} -> {Answer(m, kind, n, 0) : n \in {16, 28}}
      [] OTHER -> {}

\* recv_buf reads as much of a datagram as there is room for, and drops the rest.
Got(a) == IF a.length <= tracker.room THEN a.length ELSE tracker.room

\* The UdpTracker when n bytes were read from the buffer.
Consumed(n) == [tracker EXCEPT !.room = @ - n]

\* The checks that come first: the length and the transaction id ...
Long(a) == IF pc = "get_conn_id" THEN Got(a) = 16 ELSE Got(a) >= 20
Mine(a) == Long(a) /\ a.tx = tracker.tx

\* ... and then validate_action.
Expected(a) == a.action = (IF pc = "get_conn_id" THEN "connect" ELSE "announce")

-----------------------------------------------------------------------------
(* The task. *)

\* The first try at a tracker has 5 seconds and no retry.
Connect ==
    /\ pc = "connect"
    /\ Request("connect", tracker, [NoCall EXCEPT !.deadline = now + ConnectTimeout], net)
    /\ UNCHANGED <<faults, found>>

Unreachable ==
    /\ pc = "connect"
    /\ "unreachable" \in Faults[url]
    /\ NextTracker
    /\ UNCHANGED <<faults, found>>

EmptyTier ==
    /\ pc = "connect"
    /\ "empty" \in Faults[url]
    /\ End("panicked")
    /\ UNCHANGED <<faults, found>>

\* Mutant: the interval is not looked at.
SendAnnounceAnyway ==
    /\ pc = "announce"
    /\ IF now - tracker.conn_id_ts >= ConnIdLifetime
       THEN Retry(1, tracker, net)
       ELSE Request("announce", tracker, call, net)
    /\ UNCHANGED <<faults, found>>

\* send_announce up to its first await: it may be too early, and the connection id
\* may be too old.
SendAnnounce ==
    /\ pc = "announce"
    /\ CASE now < tracker.next_announce -> Attempt(call.attempt + 1, tracker, net)
         [] now >= tracker.next_announce /\ now - tracker.conn_id_ts >= ConnIdLifetime ->
                Retry(1, tracker, net)
         [] OTHER -> Request("announce", tracker, call, net)
    /\ UNCHANGED <<faults, found>>

\* A connection id: go on to announce with it.
ConnIdArrives(a, rest) ==
    LET tr == [Consumed(16) EXCEPT !.conn_id_ts = now]
    IN  /\ pc = "get_conn_id"
        /\ Mine(a) /\ Expected(a)
        /\ IF call.retry = 0
           THEN Attempt(1, tr, rest)
           ELSE Request("announce", tr, [call EXCEPT !.retry = 0], rest)
        /\ UNCHANGED found

\* An announce's answer sets the time of the next one before the peers are looked
\* at; if there are bytes too many or too few, the attempt fails.
AnnounceArrives(a, rest) ==
    LET tr(n) == [Consumed(n) EXCEPT !.next_announce = now + a.interval]
    IN  /\ pc = "send_announce"
        /\ Mine(a) /\ Expected(a)
        /\ IF (Got(a) - 20) % 6 # 0
           THEN Fail(tr(20), rest) /\ UNCHANGED found
           ELSE /\ found' = [ peers |-> (Got(a) - 20) \div 6,
                              listed |-> (a.length - 20) \div 6,
                              seeders |-> Seeders[url] ]
                /\ IF Seeders[url] >= EnoughSeeders THEN End("ok") ELSE NextTracker

\* An answer that is too short or too long, to another request, or of another
\* action.  An error's message is read to its end.
Refused(a, rest) ==
    LET read == CASE ~Long(a) -> 0
                  [] Mine(a) /\ a.action = "error" -> Got(a)
                  [] OTHER -> 8
    IN  /\ pc \in Waiting
        /\ ~(Mine(a) /\ Expected(a)) /\ ~(Mine(a) /\ a.action = "garbled")
        /\ Fail(Consumed(read), rest)
        /\ UNCHANGED found

\* An error whose message is no UTF-8.
Garbled(a) ==
    /\ pc \in Waiting
    /\ Mine(a) /\ a.action = "garbled"
    /\ End("panicked")
    /\ UNCHANGED found

SocketError ==
    /\ pc \in Waiting
    /\ Fault({"socket"})
    /\ Fail(tracker, net)
    /\ UNCHANGED found

\* The inner timeout of a connection id, the first or a later one ...
ConnIdTimeout ==
    /\ pc = "get_conn_id"
    /\ now >= (IF call.retry = 0 THEN call.deadline ELSE call.retry_deadline)
    /\ Fail(tracker, net)
    /\ UNCHANGED <<faults, found>>

\* ... and the one of an attempt, which covers the retries in it.
AttemptTimeout ==
    /\ pc \in Waiting /\ call.attempt > 0
    /\ now >= call.deadline
    /\ Attempt(call.attempt + 1, tracker, net)
    /\ UNCHANGED <<faults, found>>

\* The network loses a request or its answer ...
Lose ==
    /\ pc \in Waiting
    /\ Fault({"lose"})
    /\ \E m \in net : net' = net \ {m}
    /\ UNCHANGED <<url, pc, tracker, call, now, found>>

\* ... or holds it back.
Delay ==
    /\ pc \in Waiting
    /\ Fault({"late"})
    /\ \E m \in net : ~m.late /\ net' = (net \ {m}) \cup {[m EXCEPT !.late = TRUE]}
    /\ UNCHANGED <<url, pc, tracker, call, now, found>>

\* Time passes while the task waits, up to the next timeout.
Tick ==
    /\ pc \in Waiting
    /\ now < call.deadline
    /\ call.retry > 0 => now < call.retry_deadline
    /\ \A m \in net : m.late
    /\ now' = now + 1
    /\ UNCHANGED <<url, pc, tracker, call, net, faults, found>>

\* Answer a arrives, and rest stays in the network.
Hear(a, rest) ==
    ConnIdArrives(a, rest) \/ AnnounceArrives(a, rest) \/ Refused(a, rest) \/ Garbled(a)

Receive(m) ==
    \/ \E a \in GoodAnswers(m) : Hear(a, net \ {m}) /\ UNCHANGED faults
    \/ \E a \in GoodAnswers(m) : Hear(a, net) /\ Fault({"duplicate"})
    \/ \E kind \in Faults[url] : \E a \in BadAnswers(m, kind) :
          Hear(a, net \ {m}) /\ Fault({kind})

Over == pc \in Ended /\ UNCHANGED vars

Next ==
    \/ Connect \/ Unreachable \/ EmptyTier
    \/ SendAnnounce \/ SocketError
    \/ \E m \in net : Receive(m)
    \/ ConnIdTimeout \/ AttemptTimeout \/ Lose \/ Delay \/ Tick
    \/ Over

\* The runtime runs the task whenever it can go on, and time passes.
Safety == Init /\ [][Next]_vars
Spec == Safety /\ WF_vars(Next)

-----------------------------------------------------------------------------
(* Properties. *)

\* An announce is only sent once the interval of the last answer has passed, even
\* one whose peers were refused, and with a connection id that is at most a minute
\* old, however often connecting failed before (udp.rs:21-22, 136-142).
AnnouncesAllowed ==
    [][\A m \in net' \ net : m.kind = "announce" =>
            now >= tracker.next_announce /\ now - tracker'.conn_id_ts < ConnIdLifetime]_vars

\* connect and announce take no more than 5 + 15 + 45 + 105 seconds: what
\* retry_get_conn_id would take is covered by the attempt it is part of
\* (udp.rs:58, 70-81, 115-126).
BoundedTime ==
    now <= ConnectTimeout + RETRY_TIMEOUT[1] + RETRY_TIMEOUT[2] + RETRY_TIMEOUT[3]

\* What costs one attempt.  An attempt that fails with its answer still to come
\* leaves that answer to the next one, which takes no other: after a socket error, an
\* answer that is late, or one that comes twice, every attempt that is left may fail.
Tolerated == {"lose", "short", "other", "error"}

Good(u) ==
    /\ Seeders[u] >= EnoughSeeders
    /\ Faults[u] = {} \/ (Faults[u] \subseteq Tolerated /\ MaxFaults[u] < 3)

\* A tracker with enough seeders is found, whatever the ones before it do short of
\* a panic, and although two of its answers are lost or wrong: three attempts are
\* enough for that, the last of them with a new connection id if need be
\* (udp.rs:115-142, main.rs:91-122).
GoodTrackerFound ==
    (\E u \in Trackers : Good(u)) => pc # "err"

\* What is picked answered with enough seeders, and none of its peers was lost on
\* the way (main.rs:109-119, udp.rs:187-195).
PeersComplete ==
    pc = "ok" => found.peers = found.listed /\ found.seeders >= EnoughSeeders

\* The search ends (main.rs:91-123).
SearchEnds == <>(pc \in Ended)

\* A tracker that answers every request at once, and with whole peers, needs one
\* attempt (udp.rs:182-185 `ip/port bytes should be divisible by 6').
WholePeersAccepted ==
    Faults[url] = {} => call.attempt < 2
=============================================================================
