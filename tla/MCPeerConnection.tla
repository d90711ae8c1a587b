-------------------------- MODULE MCPeerConnection --------------------------
(***************************************************************************)
(* Peers for TLC: seeds of torrents of 1, 8, 9 and 16 pieces that send     *)
(* every type of message, and peers that are none.  Behind a Request and a *)
(* Cancel, which end the task, comes something that is not read.           *)
(***************************************************************************)
EXTENDS PeerConnection

Bitfield(bytes) == [type |-> "Bitfield", bytes |-> bytes]
Simple(type) == [type |-> type]
Have(i) == [type |-> "Have", piece_index |-> i]
Request(type, i, b, n) == [type |-> type, index |-> i, begin |-> b, length |-> n]
Piece(i, b, block) == [type |-> "Piece", index |-> i, begin |-> b, block |-> block]

Peer(total, id, sends) ==
    [total |-> total, handshake |-> Handshake(7, id), msgs |-> sends]

MCPeers == <<
    \* Seeds: nine pieces, seven bits of padding; eight, none; one.
    Peer(9, 1, << Bitfield(<<255, 128>>), Simple("Unchoke"), Piece(1, 16384, <<7, 0>>),
                  KeepAlive, Have(300) >>),
    Peer(8, 2, << Bitfield(<<255>>), Simple("Choke"), Request("Request", 2, 32768, 16384),
                  Simple("NotInterested") >>),
    Peer(16, 9, << Bitfield(<<255, 255>>), Simple("Interested"), Request("Cancel", 2, 0, 5),
                   KeepAlive >>),
    \* A seed that speaks of its DHT port, which the codec does not know.
    Peer(1, 3, << Bitfield(<<128>>), Simple("NotInterested"), Port, Simple("Choke") >>),
    \* No seeds: a piece is missing in the last byte, in the first, or all are.
    Peer(16, 4, << Bitfield(<<255, 254>>), Simple("Unchoke") >>),
    Peer(12, 5, << Bitfield(<<127, 240>>), Simple("Unchoke") >>),
    Peer(5, 6, << Simple("Interested"), Bitfield(<<248>>) >>),
    Peer(5, 7, << Port, Bitfield(<<248>>) >>),
    \* A seed of another torrent, with fewer pieces.
    Peer(12, 8, << Bitfield(<<255>>), Simple("Unchoke") >>) >>
=============================================================================
