------------------------------ MODULE Download ------------------------------
(***************************************************************************)
(* The download of one torrent (src/src/download/mod.rs:31-139, 247-585):  *)
(* the task that runs `File::download', and one task for each seed it      *)
(* picked, running `SeedDownloader::download'.  The tasks share            *)
(*   - the bitfield, behind a tokio mutex, and                             *)
(*   - a bounded kanal channel from the seeds' tasks to the File.          *)
(* A step is what a task does from one await to the next; the lock is      *)
(* taken and released within a step, except by a task that waits for room  *)
(* in the channel: it keeps the guard (mod.rs:411-427).                    *)
(*                                                                         *)
(* The peers are the environment: what each may do besides serving blocks  *)
(* is in Faults.                                                           *)
(***************************************************************************)
EXTENDS SeedDownloader, Sequences

CONSTANTS
    NumPeers,       \* the length of `peers'
    MAX_SEEDS,      \* 5 in the code
    ChannelBound,   \* the bound of the channel, 5 in the code
    Faults,         \* peer -> what goes wrong with it, a subset of FaultKinds
    MaxChokes       \* bound on the Choke messages of one peer

Peers == 1..NumPeers

FaultKinds ==
    { "refuse",     \* it is no seed, or does not show it within 5 seconds
      "choke",      \* it may choke us for a while
      "silent",     \* it need not unchoke us or answer, ever
      "corrupt",    \* a block may have other content than the torrent's
      "leave",      \* its stream may end, with or without a read error
      "break",      \* a write to its stream may fail, and all later ones
      "request" }   \* it may send Request or Cancel

ASSUME PeersAssumption ==
    /\ NumPeers \in Nat
    /\ MAX_SEEDS \in Nat \ {0}
    /\ ChannelBound \in Nat \ {0}
    /\ Faults \in [Peers -> SUBSET FaultKinds]
    /\ MaxChokes \in Nat

VARIABLES
    bf,         \* `own_bitfield', shared
    chan,       \* the channel: ChannelBound buffered messages, and behind them
                \* those of the senders that wait for room, in their order
    fpc,        \* where the File's task is
    tried,      \* how many peers pick_seeds has been through
    written,    \* the pieces that `bytes' holds
    pc,         \* peer -> where its task is
    d,          \* peer -> the local state of its downloader
    todo,       \* peer -> the pieces request_pieces has still to go through
    handling,   \* peer -> the piece whose last block is being handled
    stream,     \* peer -> its stream: "open", "broken" (for writing) or "ended"
    chokes      \* peer -> how often it has choked us (for the bound only)

fileVars == <<fpc, tried, written>>
seedVars == <<pc, d, todo, handling, stream, chokes>>
vars == <<bf, chan, fileVars, seedVars>>

NoPiece == TotalPieces

DownloaderMsg ==
    [kind : {"Piece"}, from : Peers, index : Pieces] \cup [kind : {"Disconnect"}, from : Peers]
PieceMsg(s, p) == [kind |-> "Piece", from |-> s, index |-> p]
DisconnectMsg(s) == [kind |-> "Disconnect", from |-> s]

\* A task that is at "loop", "pick" or "complete" waits for the mutex; at
\* "select" for its seed; at "send" and "disconnect" for room in the channel.
Running == {"loop", "select", "request", "pick", "complete", "send", "disconnect"}
TaskPcs == {"untried", "rejected", "exited", "panicked"} \cup Running
FilePcs == {"pick_seeds", "recv", "check", "ok", "err", "panicked"}

TypeOK ==
    /\ bf \in Bitfields
    /\ chan \in Seq(DownloaderMsg)
    /\ fpc \in FilePcs
    /\ tried \in 0..NumPeers
    /\ written \in SUBSET Pieces
    /\ pc \in [Peers -> TaskPcs]
    /\ d = [s \in Peers |-> d[s]] /\ \A s \in Peers : IsDownloader(d[s])
    /\ todo \in [Peers -> SUBSET Pieces]
    /\ handling \in [Peers -> Pieces \cup {NoPiece}]
    /\ stream \in [Peers -> {"open", "broken", "ended"}]
    /\ chokes \in [Peers -> 0..MaxChokes]

Init ==
    /\ bf = zero
    /\ chan = <<>>
    /\ fpc = "pick_seeds"
    /\ tried = 0
    /\ written = {}
    /\ pc = [s \in Peers |-> "untried"]
    /\ d = [s \in Peers |-> new]
    /\ todo = [s \in Peers |-> {}]
    /\ handling = [s \in Peers |-> NoPiece]
    /\ stream = [s \in Peers |-> "open"]
    /\ chokes = [s \in Peers |-> 0]

-----------------------------------------------------------------------------
(* The mutex and the channel. *)

LockFree == \A s \in Peers : pc[s] # "send"

\* Nobody listens once the File's task is over.
ReceiverGone == fpc \in {"ok", "err", "panicked"}

\* The messages of s that are past the bound: s waits with them.
Blocked(s) == \E i \in 1..Len(chan) : i > ChannelBound /\ chan[i].from = s

\* pick_seeds holds a sender until it returns, and each task one while it runs.
AllSendersGone == fpc # "pick_seeds" /\ \A s \in Peers : pc[s] \notin Running

-----------------------------------------------------------------------------
(* The File's task. *)

Seeds == {s \in Peers : pc[s] \notin {"untried", "rejected"}}

MorePeers == fpc = "pick_seeds" /\ tried < NumPeers /\ Cardinality(Seeds) < MAX_SEEDS

\* pick_seeds: try the next peer, and hand it to a task if it is a seed.
TryPeer ==
    LET s == tried + 1
    IN  /\ MorePeers
        /\ tried' = s
        /\ \/ pc' = [pc EXCEPT ![s] = "loop"]
           \/ "refuse" \in Faults[s] /\ pc' = [pc EXCEPT ![s] = "rejected"]
        /\ UNCHANGED <<bf, chan, fpc, written, d, todo, handling, stream, chokes>>

\* The try panics: the peer sent too short a bitfield, all bits of it 1, which is_seed
\* reads past, or it reset the connection behind its bitfield, and the downloader
\* gets no `peer_addr()' to unwrap.  It is the task of `main' that panics, so the
\* program ends and drops every task where it waits.
TryPeerPanics ==
    /\ MorePeers
    /\ Faults[tried + 1] \cap {"refuse", "leave", "break"} # {}
    /\ fpc' = "panicked"
    /\ chan' = <<>>
    /\ pc' = [s \in Peers |-> IF pc[s] \in Running THEN "exited" ELSE pc[s]]
    /\ d' = [s \in Peers |-> new]
    /\ todo' = [s \in Peers |-> {}]
    /\ handling' = [s \in Peers |-> NoPiece]
    /\ UNCHANGED <<bf, tried, written, stream, chokes>>

SeedsPicked ==
    /\ fpc = "pick_seeds"
    /\ tried = NumPeers \/ Cardinality(Seeds) = MAX_SEEDS
    /\ fpc' = "recv"
    /\ UNCHANGED <<bf, chan, tried, written, seedVars>>

\* recv, and the splice of a piece into `bytes'.
Recv ==
    /\ fpc = "recv"
    /\ chan # <<>>
    /\ written' = IF Head(chan).kind = "Piece"
                  THEN written \cup {Head(chan).index} ELSE written
    /\ chan' = Tail(chan)
    /\ fpc' = "check"
    /\ UNCHANGED <<bf, tried, seedVars>>

RecvFails ==
    /\ fpc = "recv"
    /\ chan = <<>>
    /\ AllSendersGone
    /\ fpc' = "err"
    /\ UNCHANGED <<bf, chan, tried, written, seedVars>>

\* Under the lock: return if nothing remains, which drops the receiver and with
\* it what is in the channel.
Check ==
    /\ fpc = "check"
    /\ LockFree
    /\ IF remaining(bf) = 0
       THEN fpc' = "ok" /\ chan' = <<>>
       ELSE fpc' = "recv" /\ UNCHANGED chan
    /\ UNCHANGED <<bf, tried, written, seedVars>>

-----------------------------------------------------------------------------
(* The task of seed s.  Each handler ends by saying where the task goes on.  *)

Goto(s, l) == pc' = [pc EXCEPT ![s] = l]

\* The task is over and its state dropped.
End(s, l) ==
    /\ Goto(s, l)
    /\ d' = [d EXCEPT ![s] = new]
    /\ todo' = [todo EXCEPT ![s] = {}]
    /\ handling' = [handling EXCEPT ![s] = NoPiece]

\* Where request_pieces is when it has the pieces in rest to go through: in its
\* loop, at the lock for a new piece, or done.
Requesting(dl, rest) ==
    CASE dl.choked_us -> "loop"
      [] ~dl.choked_us /\ rest # {} -> "request"
      [] ~dl.choked_us /\ rest = {} /\ dl.inflight < MAX_INFLIGHT_PER_PEER -> "pick"
      [] OTHER -> "loop"

\* The pieces in the map with blocks left to request; its loop skips the others.
Unrequested(dl) ==
    {p \in pending(dl) : dl.pending_pieces[p].requested < NumBlocks[p]}

\* Call request_pieces in state dl.
RequestPieces(s, dl) ==
    /\ d' = [d EXCEPT ![s] = dl]
    /\ todo' = [todo EXCEPT ![s] = IF dl.choked_us THEN {} ELSE Unrequested(dl)]
    /\ Goto(s, Requesting(dl, Unrequested(dl)))

\* Mutant: the seed's task does not look whether anything remains.
CheckRemainingNever(s) ==
    /\ pc[s] = "loop"
    /\ LockFree
    /\ Goto(s, "select")
    /\ UNCHANGED <<bf, chan, fileVars, d, todo, handling, stream, chokes>>

\* The top of the loop, under the lock.
CheckRemaining(s) ==
    /\ pc[s] = "loop"
    /\ LockFree
    /\ IF remaining(bf) = 0
       THEN End(s, "exited")
       ELSE Goto(s, "select") /\ UNCHANGED <<d, todo, handling>>
    /\ UNCHANGED <<bf, chan, fileVars, stream, chokes>>

\* The keep-alive timer ran out, or a message came that changes nothing:
\* KeepAlive, Have, Interested, NotInterested, a second Unchoke, and the messages
\* the handler refuses: Bitfield and a block that is not expected.
Nothing(s) ==
    /\ pc[s] = "select" /\ stream[s] # "ended"
    /\ Goto(s, "loop")
    /\ UNCHANGED <<bf, chan, fileVars, d, todo, handling, stream, chokes>>

Choke(s) ==
    /\ pc[s] = "select" /\ stream[s] # "ended"
    /\ "choke" \in Faults[s] /\ chokes[s] < MaxChokes
    /\ chokes' = [chokes EXCEPT ![s] = @ + 1]
    /\ d' = [d EXCEPT ![s] = choke(@)]
    /\ Goto(s, "loop")
    /\ UNCHANGED <<bf, chan, fileVars, todo, handling, stream>>

Unchoke(s) ==
    /\ pc[s] = "select" /\ stream[s] # "ended"
    /\ d[s].choked_us
    /\ RequestPieces(s, unchoke(d[s]))
    /\ UNCHANGED <<bf, chan, fileVars, handling, stream, chokes>>

\* Request and Cancel are `todo!()': the task panics and its sender is dropped.
PeerRequest(s) ==
    /\ pc[s] = "select" /\ stream[s] # "ended"
    /\ "request" \in Faults[s]
    /\ End(s, "panicked")
    /\ UNCHANGED <<bf, chan, fileVars, stream, chokes>>

\* A block that is expected, of a piece under way.
ReceiveBlock(s, p, b, good) ==
    LET dl == receive(d[s], p, b, good)
    IN  /\ pc[s] = "select" /\ stream[s] # "ended"
        /\ <<p, b>> \in d[s].pending_blocks /\ p \in pending(d[s])
        /\ good \/ "corrupt" \in Faults[s]
        /\ IF dl.pending_pieces[p].remaining_blocks = 0
           THEN /\ d' = [d EXCEPT ![s] = dl]
                /\ handling' = [handling EXCEPT ![s] = p]
                /\ Goto(s, "complete")
                /\ UNCHANGED todo
           ELSE RequestPieces(s, dl) /\ UNCHANGED handling
        /\ UNCHANGED <<bf, chan, fileVars, stream, chokes>>

\* A block that is expected, of a piece that never entered the map: its request
\* went out and a later one of the same piece could not be written.
ReceiveOrphan(s, p, b) ==
    /\ pc[s] = "select" /\ stream[s] # "ended"
    /\ <<p, b>> \in d[s].pending_blocks /\ p \notin pending(d[s])
    /\ d' = [d EXCEPT ![s] = receive_orphan(@, p, b)]
    /\ Goto(s, "loop")
    /\ UNCHANGED <<bf, chan, fileVars, todo, handling, stream, chokes>>

\* Mutant: the piece is sent and not owned.
CompleteWithoutSet(s) ==
    LET p == handling[s]
    IN  /\ pc[s] = "complete"
        /\ LockFree
        /\ d' = [d EXCEPT ![s] = complete(@, p)]
        /\ handling' = [handling EXCEPT ![s] = NoPiece]
        /\ IF validate_piece(d[s], p) /\ ~ReceiverGone
           THEN Goto(s, "send") /\ chan' = Append(chan, PieceMsg(s, p))
           ELSE Goto(s, "loop") /\ UNCHANGED chan
        /\ UNCHANGED <<bf, fileVars, todo, stream, chokes>>

\* The last block: own the piece, take it out of the map, and if it is valid send
\* it to the File, all of it under the lock.  A piece that is not valid, or that
\* nobody listens for, ends the handler.
Complete(s) ==
    LET p == handling[s]
    IN  /\ pc[s] = "complete"
        /\ LockFree
        /\ bf' = set(bf, p)
        /\ IF set_panics(bf, p)
           THEN End(s, "panicked") /\ UNCHANGED chan
           ELSE /\ d' = [d EXCEPT ![s] = complete(@, p)]
                /\ handling' = [handling EXCEPT ![s] = NoPiece]
                /\ IF validate_piece(d[s], p) /\ ~ReceiverGone
                   THEN Goto(s, "send") /\ chan' = Append(chan, PieceMsg(s, p))
                   ELSE Goto(s, "loop") /\ UNCHANGED chan
                /\ UNCHANGED todo
        /\ UNCHANGED <<fileVars, stream, chokes>>

\* Mutant: no more is requested after a piece.
PieceSentIdles(s) ==
    /\ pc[s] = "send"
    /\ ~Blocked(s)
    /\ Goto(s, "loop")
    /\ UNCHANGED <<bf, chan, fileVars, d, todo, handling, stream, chokes>>

\* There was room: drop the guard and request more.
PieceSent(s) ==
    /\ pc[s] = "send"
    /\ ~Blocked(s)
    /\ RequestPieces(s, d[s])
    /\ UNCHANGED <<bf, chan, fileVars, handling, stream, chokes>>

\* One iteration of the loop in request_pieces, in the order of the hash map,
\* which may be any.  More requests than a u8 counts panic.
RequestPending(s, p) ==
    LET dl == d[s].pending_pieces[p]
        k == Batch(d[s], NumBlocks[p] - dl.requested)
        after == request_blocks(d[s], p, k)
        rest == todo[s] \ {p}
    IN  /\ pc[s] = "request" /\ p \in todo[s]
        /\ stream[s] = "open"
        /\ IF after.inflight > U8Max
           THEN End(s, "panicked")
           ELSE /\ d' = [d EXCEPT ![s] = after]
                /\ todo' = [todo EXCEPT ![s] = rest]
                /\ Goto(s, Requesting(after, rest))
                /\ UNCHANGED handling
        /\ UNCHANGED <<bf, chan, fileVars, stream, chokes>>

\* A write fails after k of the requests went out: from then on all do.
WriteFails(s, k) ==
    \/ stream[s] = "broken" /\ k = 0
    \/ stream[s] = "open" /\ "break" \in Faults[s]

RequestPendingFails(s, p) ==
    LET dl == d[s].pending_pieces[p]
    IN  /\ pc[s] = "request" /\ p \in todo[s]
        /\ \E k \in 0..(Batch(d[s], NumBlocks[p] - dl.requested) - 1) :
              /\ WriteFails(s, k) /\ d[s].inflight + k <= U8Max
              /\ d' = [d EXCEPT ![s] = request_blocks(@, p, k)]
        /\ stream' = [stream EXCEPT ![s] = "broken"]
        /\ todo' = [todo EXCEPT ![s] = {}]
        /\ Goto(s, "loop")
        /\ UNCHANGED <<bf, chan, fileVars, handling, chokes>>

\* pick_piece under the lock: no piece, or one that is under way here already ...
PickNothing(s) ==
    /\ pc[s] = "pick"
    /\ LockFree
    /\ IF pick_some(bf)
       THEN Picked(bf) \in pending(d[s]) /\ bf' = pick_piece(bf)
       ELSE UNCHANGED bf
    /\ Goto(s, "loop")
    /\ UNCHANGED <<chan, fileVars, d, todo, handling, stream, chokes>>

\* ... or a new one, whose first blocks are requested ...
PickPiece(s) ==
    LET p == Picked(bf)
    IN  /\ pc[s] = "pick"
        /\ LockFree
        /\ pick_some(bf) /\ p \notin pending(d[s])
        /\ stream[s] = "open"
        /\ bf' = pick_piece(bf)
        /\ d' = [d EXCEPT ![s] = request_new(@, p, Batch(@, NumBlocks[p]))]
        /\ Goto(s, "loop")
        /\ UNCHANGED <<chan, fileVars, todo, handling, stream, chokes>>

\* ... or could not be: the piece is dropped, the requests that went out are not.
PickPieceFails(s) ==
    LET p == Picked(bf)
    IN  /\ pc[s] = "pick"
        /\ LockFree
        /\ pick_some(bf) /\ p \notin pending(d[s])
        /\ bf' = pick_piece(bf)
        /\ \E k \in 0..(Batch(d[s], NumBlocks[p]) - 1) :
              /\ WriteFails(s, k)
              /\ d' = [d EXCEPT ![s] = request_new_fails(@, p, k)]
        /\ stream' = [stream EXCEPT ![s] = "broken"]
        /\ Goto(s, "loop")
        /\ UNCHANGED <<chan, fileVars, todo, handling, chokes>>

\* A message cannot be read; after that the stream yields None.
ReadError(s) ==
    /\ pc[s] = "select" /\ stream[s] # "ended"
    /\ "leave" \in Faults[s] \/ stream[s] = "broken"
    /\ stream' = [stream EXCEPT ![s] = "ended"]
    /\ Goto(s, "loop")
    /\ UNCHANGED <<bf, chan, fileVars, d, todo, handling, chokes>>

\* The keep-alive timer ran out, and its message cannot be written.
KeepAliveFails(s) ==
    /\ pc[s] = "select" /\ stream[s] = "open"
    /\ "break" \in Faults[s]
    /\ stream' = [stream EXCEPT ![s] = "broken"]
    /\ Goto(s, "loop")
    /\ UNCHANGED <<bf, chan, fileVars, d, todo, handling, chokes>>

\* The stream is over: tell the File and end.
StreamEnds(s) ==
    /\ pc[s] = "select"
    /\ "leave" \in Faults[s] \/ stream[s] # "open"
    /\ stream' = [stream EXCEPT ![s] = "ended"]
    /\ IF ReceiverGone
       THEN End(s, "exited") /\ UNCHANGED chan
       ELSE /\ Goto(s, "disconnect")
            /\ chan' = Append(chan, DisconnectMsg(s))
            /\ UNCHANGED <<d, todo, handling>>
    /\ UNCHANGED <<bf, fileVars, chokes>>

DisconnectSent(s) ==
    /\ pc[s] = "disconnect"
    /\ ~Blocked(s)
    /\ End(s, "exited")
    /\ UNCHANGED <<bf, chan, fileVars, stream, chokes>>

-----------------------------------------------------------------------------

Request(s) == \E p \in Pieces : RequestPending(s, p) \/ RequestPendingFails(s, p)

Pick(s) == PickNothing(s) \/ PickPiece(s) \/ PickPieceFails(s)

Deliver(s, good) == \E x \in d[s].pending_blocks :
    ReceiveBlock(s, x[1], x[2], good) \/ (good /\ ReceiveOrphan(s, x[1], x[2]))

Seed(s) ==
    \/ CheckRemaining(s) \/ Nothing(s)
    \/ Choke(s) \/ Unchoke(s) \/ PeerRequest(s)
    \/ \E good \in BOOLEAN : Deliver(s, good)
    \/ Complete(s) \/ PieceSent(s)
    \/ Request(s) \/ Pick(s)
    \/ KeepAliveFails(s) \/ ReadError(s) \/ StreamEnds(s) \/ DisconnectSent(s)

FileTask == TryPeer \/ TryPeerPanics \/ SeedsPicked \/ Recv \/ RecvFails \/ Check

\* Everything has ended; not a step of the program.
Over ==
    /\ ReceiverGone
    /\ \A s \in Peers : pc[s] \notin Running
    /\ UNCHANGED vars

Next == FileTask \/ (\E s \in Peers : Seed(s)) \/ Over

\* What the task of s does by itself, wherever it is but at "select".
TaskStep(s) ==
    \/ CheckRemaining(s) \/ Complete(s) \/ PieceSent(s)
    \/ Request(s) \/ Pick(s) \/ DisconnectSent(s)

\* What a seed does that serves: it unchokes us and answers our requests.
Served(s) == Unchoke(s) \/ Deliver(s, TRUE)

\* The end of a stream that broke, or after an error, is seen.
EndSeen(s) == stream[s] # "open" /\ StreamEnds(s)

\* The runtime runs every task that can go on.  The mutex is first come, first
\* served, so a task that waits for it gets it if it is free again and again.
\* What a seed sends stays in the socket until the task reads it; the keep-alive
\* timer runs out if nothing comes.  Of a silent seed no service is assumed.
Fairness ==
    /\ SF_vars(FileTask)
    /\ \A s \in Peers : SF_vars(TaskStep(s)) /\ WF_vars(Nothing(s))
    /\ \A s \in {t \in Peers : Faults[t] # {}} : SF_vars(EndSeen(s))
    /\ \A s \in {t \in Peers : "silent" \notin Faults[t]} : SF_vars(Served(s))

Safety == Init /\ [][Next]_vars
Spec == Safety /\ Fairness

-----------------------------------------------------------------------------
(* Properties. *)

\* Of every piece under way, what remains is what was not requested plus what was
\* requested and did not arrive, through chokes, failed writes and any order of
\* arrival (mod.rs:326-331, 374-392, 542-585).
AccountingExact == \A s \in Peers : Accounted(d[s])

\* The assertions of the code hold where it makes them: no block is requested
\* twice (:573-576), no piece enters the map twice (:513), the pieces in the map
\* have something left and no more requested than they have (:450-451), and the
\* piece just finished is there to be taken out (:413-414).
AssertionsHold ==
    \A s \in Peers :
        /\ pc[s] = "request" =>
              \A p \in todo[s] :
                  LET dl == d[s].pending_pieces[p]
                  IN  /\ p \in pending(d[s])
                      /\ dl.requested < NumBlocks[p] /\ dl.remaining_blocks > 0
                      /\ NextBlocks(dl, p, NumBlocks[p] - dl.requested)
                            \cap d[s].pending_blocks = {}
        /\ pc[s] = "pick" /\ stream[s] = "open" =>
              \A p \in Pieces \ pending(d[s]) : PendingOf(d[s], p) = {}
        /\ pc[s] = "complete" => handling[s] \in pending(d[s])

\* A piece of a seed that sends the right content passes validation, even if the
\* seed choked us in the middle of it and all its blocks came a second time
\* (mod.rs:326-331, 410-418).
ValidationFair ==
    \A s \in Peers :
        pc[s] = "complete" /\ "corrupt" \notin Faults[s] =>
            validate_piece(d[s], handling[s])

\* `inflight -= 1' never goes below zero: the counter covers the requests out
\* (mod.rs:384-394).
InflightCovers ==
    \A s \in Peers : Cardinality(d[s].pending_blocks) <= d[s].inflight

\* With a seed that never chokes us and whose stream can be written, `inflight' is
\* the number of requests out and never exceeds the limit although the loop over
\* the pieces under way does not look at it (mod.rs:448-474, 579-582).
InflightExact ==
    \A s \in Peers : Faults[s] \cap {"choke", "break"} = {} =>
        /\ d[s].inflight = Cardinality(d[s].pending_blocks)
        /\ d[s].inflight <= MAX_INFLIGHT_PER_PEER

\* Nothing is out to a seed that has choked us, so its blocks are all refused
\* and request_pieces is never called for nothing (mod.rs:333, 384-387, 443).
ChokedMeansQuiet ==
    \A s \in Peers : d[s].choked_us =>
        d[s].pending_blocks = {} /\ pc[s] \notin {"request", "pick", "complete", "send"}

InChannel == {chan[i].index : i \in {j \in 1..Len(chan) : chan[j].kind = "Piece"}}

\* Seeds that send the right content may choke us, leave or stop taking requests:
\* no piece that is owned is ever lost before the File returns, and it returns as
\* PieceLedger says (mod.rs:99-138, 405-427).
Ledger == INSTANCE PieceLedger WITH
    owned <- bf.own, transit <- InChannel, written <- written,
    result <- IF ReceiverGone THEN fpc ELSE "running"

ImplementsLedger == Ledger!Spec

\* Whatever the seeds do, the File holds and is sent only pieces that are owned,
\* so `remaining() == 0' never comes later than the last piece (mod.rs:130-134,
\* 412-426).
WrittenIsOwned == written \cup InChannel \subseteq bf.own

\* A seed that serves and does not choke us is never waited for with nothing
\* requested while pieces are missing: each block that comes leads to new
\* requests until the last piece is under way (mod.rs:429, 442-540).
NeverIdle ==
    \A s \in Peers :
        /\ pc[s] = "select" /\ ~d[s].choked_us
        /\ remaining(bf) > 0
        /\ Faults[s] \cap {"choke", "corrupt", "break"} = {}
        => d[s].pending_blocks # {}

\* The File's task never waits for the mutex while its holder waits for the File
\* (mod.rs:130 against 420-426).
NotDeadlocked ==
    ~(fpc = "check" /\ \E s \in Peers : pc[s] = "send" /\ Blocked(s))

\* Waiting for each other like that is the only way in which the File's task, with one
\* seed that serves, does not return Ok, whatever the others do or leave undone,
\* unless trying one of them panics (mod.rs:61-95, 113-138).
OkUnlessDeadlocked == <>(fpc \in {"ok", "panicked"} \/ ~NotDeadlocked)

\* ... and the only way in which a task is left behind once it has, also one whose
\* seed has gone silent: each comes to see that nothing remains, if need be when its
\* keep-alive timer runs out, or ends with its stream (mod.rs:252-273, 276-284, 298).
EndUnlessDeadlocked ==
    \/ <>[](\A s \in Peers : pc[s] \notin Running)
    \/ <>~NotDeadlocked

\* A block that completes a piece leads to its bytes being in the File (mod.rs:409
\* `If have all blocks for a piece, we write it to file bytes').
CompletedIsWritten ==
    \A s \in Peers : \A p \in Pieces :
        (pc[s] = "send" /\ PieceMsg(s, p) \in {chan[i] : i \in 1..Len(chan)})
            ~> (p \in written \/ ReceiverGone)

\* The bytes that File::download returns hold every piece (mod.rs:409).
OkMeansWritten == fpc = "ok" => written = Pieces

\* A piece is yielded again until it is there (mod.rs:321-323).
EverythingOwned == <>(bf.own = Pieces)
=============================================================================
