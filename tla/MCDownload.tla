----------------------------- MODULE MCDownload -----------------------------
(***************************************************************************)
(* Instances of Download for TLC: one or two seeds, pieces of one or two   *)
(* blocks.                                                                 *)
(***************************************************************************)
EXTENDS Download

\* Pieces with two blocks, and a last one that is short.
MCNumBlocks == [p \in Pieces |-> IF p = TotalPieces - 1 THEN 1 ELSE 2]
MCOneLongPiece == [p \in Pieces |-> IF p = 0 THEN 2 ELSE 1]
MCSingleBlocks == [p \in Pieces |-> 1]

NoFaults == [s \in Peers |-> {}]
Choking == [s \in Peers |-> {"choke"}]
\* Every fault there is, shared out so that each meets a peer with others.
Hostile == [s \in Peers |-> IF s = 1 THEN {"choke"}
                            ELSE {"corrupt", "leave", "break", "request", "refuse"}]
\* The first seed serves to the end; the second may choke us for good, fall silent
\* or go, at any time, but what it sends is right.
Unsteady == [s \in Peers |-> IF s = 1 THEN {}
                             ELSE {"choke", "silent", "leave", "break"}]
=============================================================================
