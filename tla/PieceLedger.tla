---------------------------- MODULE PieceLedger ----------------------------
(***************************************************************************)
(* What the download promises about pieces, without seeds, blocks, lock or *)
(* channel: a piece is owned once some seed has delivered it whole, and    *)
(* from then on its bytes are on the way to the file or in it.  Near the   *)
(* end a piece may come from several seeds and be written more than once.  *)
(* The download returns successfully only when every piece is owned --     *)
(* bytes on the way at that moment are lost -- and gives up only when      *)
(* nothing is on the way, unless it panics.                                *)
(***************************************************************************)
EXTENDS Integers

CONSTANT Pieces

VARIABLES owned, transit, written, result

ledger == <<owned, transit, written, result>>

Init ==
    /\ owned = {}
    /\ transit = {}
    /\ written = {}
    /\ result = "running"

\* A seed has delivered piece p and sends it to the file.
Deliver(p) ==
    /\ result = "running"
    /\ owned' = owned \cup {p}
    /\ transit' = transit \cup {p}
    /\ UNCHANGED <<written, result>>

\* A copy of p arrives; another one may still be on the way.
Write(p) ==
    /\ result = "running"
    /\ p \in transit
    /\ written' = written \cup {p}
    /\ transit' \in {transit, transit \ {p}}
    /\ UNCHANGED <<owned, result>>

ReturnOk ==
    /\ result = "running"
    /\ owned = Pieces
    /\ result' = "ok"
    /\ transit' = {}
    /\ UNCHANGED <<owned, written>>

ReturnErr ==
    /\ result = "running"
    /\ transit = {}
    /\ result' = "err"
    /\ UNCHANGED <<owned, transit, written>>

\* The program ends with all it had.
Panic ==
    /\ result = "running"
    /\ result' = "panicked"
    /\ transit' = {}
    /\ UNCHANGED <<owned, written>>

Next ==
    \/ \E p \in Pieces : Deliver(p) \/ Write(p)
    \/ ReturnOk
    \/ ReturnErr
    \/ Panic

Spec == Init /\ [][Next]_ledger

\* No piece that is owned is forgotten while the download runs.
Conserved == result = "running" => owned = written \cup transit
=============================================================================
