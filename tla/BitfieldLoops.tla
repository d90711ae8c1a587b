--------------------------- MODULE BitfieldLoops ---------------------------
(***************************************************************************)
(* The methods of the bitfield as they run: bits in bytes, and one step    *)
(* for each iteration of the loops of `pick_piece' and `set'               *)
(* (src/src/download/bitfield.rs:60-117, 167-171).  It implements          *)
(* PiecePicker, in which every call is a single step.                      *)
(***************************************************************************)
EXTENDS Integers, FiniteSets

CONSTANT TotalPieces

ASSUME TotalPiecesLoopsAssumption == TotalPieces \in Nat \ {0}

VARIABLES
    ownership,  \* `piece_ownership': bucket -> the offsets of its 1 bits
    cur,
    confirmed,
    running,    \* the call in progress: "none", "pick_piece" or "set"
    answer,     \* what the last pick_piece returned
    panicked,   \* a call has indexed `piece_ownership' out of bounds
    before      \* the bitfield when the call in progress began (history)

vars == <<ownership, cur, confirmed, running, answer, panicked, before>>

Pieces == 0..(TotalPieces - 1)
Buckets == 0..((TotalPieces + 7) \div 8 - 1)

bucket(i) == i \div 8
offset(i) == 7 - (i % 8)

InBounds(i) == bucket(i) \in Buckets
has(i) == offset(i) \in ownership[bucket(i)]

\* The bitfield as its users see it.
Seen == [own |-> {i \in Pieces : has(i)}, cur |-> cur, confirmed |-> confirmed]

\* remaining(): all the 1 bits, those of the padding included, are subtracted.
Ones == {bit \in Buckets \X (0..7) : bit[2] \in ownership[bit[1]]}
remaining == TotalPieces - Cardinality(Ones)

Init ==
    /\ ownership = [b \in Buckets |-> {}]
    /\ cur = 0
    /\ confirmed = 0
    /\ running = "none"
    /\ answer = TotalPieces
    /\ panicked = FALSE
    /\ before = Seen

-----------------------------------------------------------------------------

CallPick ==
    /\ running = "none"
    /\ before' = Seen
    /\ IF cur >= TotalPieces /\ confirmed >= TotalPieces
       THEN answer' = TotalPieces /\ UNCHANGED running
       ELSE running' = "pick_piece" /\ UNCHANGED answer
    /\ UNCHANGED <<ownership, cur, confirmed, panicked>>

\* Mutant: the search stays at the last piece.
PickIterationStays ==
    /\ running = "pick_piece"
    /\ confirmed < TotalPieces
    /\ InBounds(cur)
    /\ cur' = IF cur + 1 = TotalPieces THEN cur ELSE cur + 1
    /\ IF has(cur) THEN UNCHANGED <<running, answer>>
                   ELSE running' = "none" /\ answer' = cur
    /\ UNCHANGED <<ownership, confirmed, panicked, before>>

\* One iteration of `while self.confirmed < self.total_pieces'.
PickIteration ==
    /\ running = "pick_piece"
    /\ confirmed < TotalPieces
    /\ InBounds(cur)
    /\ cur' = IF cur + 1 = TotalPieces THEN confirmed ELSE cur + 1
    /\ IF has(cur) THEN UNCHANGED <<running, answer>>
                   ELSE running' = "none" /\ answer' = cur
    /\ UNCHANGED <<ownership, confirmed, panicked, before>>

PickExhausted ==
    /\ running = "pick_piece"
    /\ confirmed >= TotalPieces
    /\ running' = "none"
    /\ answer' = TotalPieces
    /\ UNCHANGED <<ownership, cur, confirmed, panicked, before>>

\* Mutant: completing a piece does not move `confirmed'.
CallSetKeepsConfirmed(i) ==
    /\ running = "none"
    /\ before' = Seen
    /\ ownership' = [ownership EXCEPT ![bucket(i)] = @ \cup {offset(i)}]
    /\ UNCHANGED <<confirmed, running, cur, answer, panicked>>

\* Mutant: the offset is counted from 1.
CallSetShifted(i) ==
    /\ running = "none"
    /\ before' = Seen
    /\ ownership' = [ownership EXCEPT ![bucket(i)] = @ \cup {offset(i + 1)}]
    /\ IF confirmed = i
       THEN confirmed' = confirmed + 1 /\ running' = "set"
       ELSE UNCHANGED <<confirmed, running>>
    /\ UNCHANGED <<cur, answer, panicked>>

CallSet(i) ==
    /\ running = "none"
    /\ before' = Seen
    /\ ownership' = [ownership EXCEPT ![bucket(i)] = @ \cup {offset(i)}]
    /\ IF confirmed = i
       THEN confirmed' = confirmed + 1 /\ running' = "set"
       ELSE UNCHANGED <<confirmed, running>>
    /\ UNCHANGED <<cur, answer, panicked>>

\* Mutant: the loop ends after one iteration.
SetIterationOnce ==
    /\ running = "set"
    /\ running' = "none"
    /\ confirmed' = IF InBounds(confirmed) /\ has(confirmed) THEN confirmed + 1 ELSE confirmed
    /\ panicked' = (panicked \/ ~InBounds(confirmed))
    /\ UNCHANGED <<ownership, cur, answer, before>>

\* One iteration of `while self.has(self.confirmed as u32)'.  Indexing past the
\* vector panics; the bits and `confirmed' stay as they are.
SetIteration ==
    /\ running = "set"
    /\ IF InBounds(confirmed) /\ has(confirmed)
       THEN confirmed' = confirmed + 1 /\ UNCHANGED running
       ELSE running' = "none" /\ UNCHANGED confirmed
    /\ panicked' = (panicked \/ ~InBounds(confirmed))
    /\ UNCHANGED <<ownership, cur, answer, before>>

Iterate == PickIteration \/ PickExhausted \/ SetIteration

Next == CallPick \/ (\E i \in Pieces : CallSet(i)) \/ Iterate

\* A call that was made runs on.  Seeds ask for pieces again and again, however
\* often the other calls come first; nothing says that a piece is ever completed.
Spec == Init /\ [][Next]_vars /\ WF_vars(Iterate) /\ SF_vars(CallPick)

-----------------------------------------------------------------------------

\* Every call has the effect and the answer of the single step PiecePicker
\* gives for it: the loops find the piece the closed form names, and leave
\* `cur' and `confirmed' where it says (bitfield.rs:70-106).
Picker == INSTANCE PiecePicker WITH
    bf <- IF running = "none" THEN Seen ELSE before

ImplementsPicker == Picker!Init /\ [][Picker!Next]_(Picker!vars)

\* Between two calls `confirmed' is the first missing piece and `cur' indexes a
\* piece, whatever was called before (bitfield.rs:34-38, 99-105).
PositionsExact == Picker!PositionsExact

\* remaining(), by which every loop of the download ends, is 0 exactly when
\* pick_piece has nothing left to offer: counting bits and following `confirmed'
\* agree on the end (bitfield.rs:70-76, 108-116; mod.rs:132, 254, 477).
EndsAgree == running = "none" => ((remaining = 0) <=> (confirmed >= TotalPieces))

\* A piece that nobody completes is offered again and again, which is what the
\* Choke handler counts on (mod.rs:321-323: `it will yield this piece index again
\* eventually if we don't confirm its download completed').
YieldedAgain == \A i \in Pieces : ~has(i) ~> (has(i) \/ answer = i)

\* pick_piece never spins: its loop ends although its only exit besides the
\* return is a `confirmed' it does not change (bitfield.rs:76-86).
CallsReturn == (running # "none") ~> (running = "none")

\* The padding bits of the last byte stay 0, so that counting all the 1 bits
\* counts the owned pieces (bitfield.rs:108-116, `due to padding at the end, we
\* can't count 0s'), in the middle of a call too.
PaddingStaysClear == remaining = Cardinality({i \in Pieces : ~has(i)})
=============================================================================
