-------------------------- MODULE MCTorrentStorage --------------------------
(***************************************************************************)
(* Torrents for TLC: every torrent of up to three files of up to four      *)
(* bytes, empty ones too, or of one file of up to ten, with pieces of one  *)
(* to seven bytes and blocks of two: pieces shorter than a block, of whole *)
(* blocks and not, a last piece of every length, files that begin and end  *)
(* inside a piece.                                                         *)
(***************************************************************************)
EXTENDS TorrentStorage

Files == {<<a>> : a \in 1..10} \cup {<<a, b>> : a, b \in 0..4} \cup {<<a, b, c>> : a, b, c \in 0..4}

MCTorrents ==
    {t \in [piece_length : 1..7, files : Files] :
        LET length == LenTo(t.files, Len(t.files))
        IN  length > 0 /\ num_pieces(length, t.piece_length) <= 5}
=============================================================================
