---------------------------- MODULE MCUdpTracker ----------------------------
(***************************************************************************)
(* Values for checking UdpTracker.                                         *)
(***************************************************************************)
EXTENDS UdpTracker

\* With the first tracker anything may go wrong, the second is slow and has too few
\* seeders, the third makes two mistakes that further attempts make good.
MCSeeders == <<9, 3, 9>>
MCFaults == <<FaultKinds, {"late", "lose"}, Tolerated>>
MCMaxFaults == <<4, 1, 2>>

\* One tracker, with which nothing goes wrong.
OneSeeders == <<9>>
OneFaults == <<{}>>
OneMaxFaults == <<0>>
=============================================================================
