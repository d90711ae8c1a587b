--------------------------- MODULE TorrentStorage ---------------------------
(***************************************************************************)
(* The way of a torrent's bytes through the program: blocks are requested  *)
(* and spliced into their piece (src/src/download/mod.rs:493-502, 550-583, *)
(* 392-426), pieces are spliced into the buffer of the `File' (117-126),   *)
(* and the buffer is cut into files (src/src/file/mod.rs:12-32).  Which    *)
(* task downloads which piece when is the business of module Download:     *)
(* here one piece at a time is under way, in any order.                    *)
(***************************************************************************)
EXTENDS Geometry, FiniteSets

CONSTANTS
    Torrents,   \* records [piece_length, files]: the length of each file
    MaxPicks    \* bound on how many pieces are downloaded more than once

\* A piece length of 0 ends the program in num_pieces, which divides by it
\* (meta_info.rs:54-59), before any of this begins; a file may be empty.
ASSUME TorrentsAssumption ==
    \A t \in Torrents : t \in [piece_length : Nat \ {0}, files : Seq(Nat)]

VARIABLES
    info,           \* `torrent_info'
    bytes,          \* the buffer of the File
    piece,          \* the piece under way, or NoPiece
    requested, remaining_blocks, piece_bytes,   \* its PieceDownload
    pending_blocks, \* <<begin, length>> of the requests out
    received,       \* pieces whose bytes the File has taken
    again,          \* how many of them came again (for the bound only)
    phase,          \* "download", "write", "ok", "err" or "panicked"
    idx,            \* `idx' of file::write
    disk            \* the contents of the files written so far

pieceVars == <<piece, requested, remaining_blocks, piece_bytes, pending_blocks>>
diskVars == <<idx, disk>>
vars == <<info, bytes, pieceVars, received, again, phase, diskVars>>

\* DownloadType::len.
LenTo(files, n) == LET s[i \in 0..n] == IF i = 0 THEN 0 ELSE s[i - 1] + files[i] IN s[n]
total_length == LenTo(info.files, Len(info.files))

Pieces == 0..(num_pieces(total_length, info.piece_length) - 1)
NoPiece == -1
piece_len(i) == get_piece_length(total_length, info.piece_length, i)

\* The torrent's own bytes: each is told by its place, and none is 0.
Content == [i \in 1..total_length |-> i]
PieceContent(i) == SubSeq(Content, i * info.piece_length + 1, i * info.piece_length + piece_len(i))

Init ==
    /\ info \in Torrents
    /\ bytes = zeros(total_length)
    /\ piece = NoPiece /\ requested = 0 /\ remaining_blocks = 0
    /\ piece_bytes = <<>> /\ pending_blocks = {}
    /\ received = {} /\ again = 0
    /\ phase = "download"
    /\ idx = 0 /\ disk = <<>>

-----------------------------------------------------------------------------
(* One piece. *)

\* Near the end a piece may be downloaded by several seeds, and arrive again.
PickPiece ==
    /\ phase = "download" /\ piece = NoPiece
    /\ \E i \in Pieces :
          /\ i \in received => again < MaxPicks
          /\ again' = IF i \in received THEN again + 1 ELSE again
          /\ piece' = i
          /\ requested' = 0
          /\ remaining_blocks' = num_blocks(piece_len(i))
          /\ piece_bytes' = zeros(piece_len(i))
    /\ UNCHANGED <<info, bytes, pending_blocks, received, phase, diskVars>>

\* One iteration of request_blocks; the limit on requests may stop it after any.
RequestBlock ==
    /\ phase = "download" /\ piece # NoPiece
    /\ requested < Len(piece_bytes)
    /\ LET length == block_len(Len(piece_bytes), requested)
       IN  /\ pending_blocks' = pending_blocks \cup {<<requested, length>>}
           /\ requested' = requested + length
    /\ UNCHANGED <<info, bytes, piece, remaining_blocks, piece_bytes, received, again, phase, diskVars>>

\* The File's splice, and what is left of the piece's download: nothing.
TakePiece(filled) ==
    LET begin == piece * info.piece_length
        end == begin + piece_len(piece)
    IN  /\ IF InBounds(bytes, begin, end)
           THEN bytes' = splice(bytes, begin, end, filled) /\ UNCHANGED phase
           ELSE phase' = "panicked" /\ UNCHANGED bytes
        /\ received' = received \cup {piece}
        /\ piece' = NoPiece /\ requested' = 0 /\ piece_bytes' = <<>> /\ pending_blocks' = {}

\* A block that was asked for arrives, with the torrent's bytes; the last one
\* completes the piece.
ReceiveBlock ==
    /\ phase = "download"
    /\ \E b \in pending_blocks :
          LET begin == b[1]
              end == b[1] + b[2]
              block == SubSeq(PieceContent(piece), begin + 1, end)
              filled == splice(piece_bytes, begin, end, block)
          IN  /\ remaining_blocks' = remaining_blocks - 1
              /\ IF remaining_blocks = 1
                 THEN TakePiece(filled)
                 ELSE /\ piece_bytes' = filled
                      /\ pending_blocks' = pending_blocks \ {b}
                      /\ UNCHANGED <<piece, requested, received, bytes, phase>>
    /\ UNCHANGED <<info, again, diskVars>>

-----------------------------------------------------------------------------
(* file::write, for a download that returned the whole buffer. *)

StartWriting ==
    /\ phase = "download" /\ piece = NoPiece
    /\ received = Pieces
    /\ phase' = "write"
    /\ UNCHANGED <<info, bytes, pieceVars, received, again, diskVars>>

file_len == info.files[Len(disk) + 1]
Slice == SubSeq(bytes, idx + 1, idx + file_len)

\* Mutant: the files are cut without going on in the buffer.
WriteFileFromStart ==
    /\ phase = "write" /\ Len(disk) < Len(info.files)
    /\ IF InBounds(bytes, idx, idx + file_len)
       THEN disk' = Append(disk, Slice) /\ UNCHANGED phase
       ELSE phase' = "panicked" /\ UNCHANGED disk
    /\ UNCHANGED <<info, bytes, pieceVars, received, again, idx>>

\* One iteration of the loop over the files; a torrent of a single file is written
\* in one go, which comes to the same.
WriteFile ==
    /\ phase = "write" /\ Len(disk) < Len(info.files)
    /\ IF InBounds(bytes, idx, idx + file_len)
       THEN disk' = Append(disk, Slice) /\ idx' = idx + file_len /\ UNCHANGED phase
       ELSE phase' = "panicked" /\ UNCHANGED diskVars
    /\ UNCHANGED <<info, bytes, pieceVars, received, again>>

\* create_dir_all fails, or fs::write does after some of the bytes; `?' returns.
WriteFails ==
    /\ phase = "write" /\ Len(disk) < Len(info.files)
    /\ InBounds(bytes, idx, idx + file_len)
    /\ disk' \in {disk} \cup {Append(disk, SubSeq(Slice, 1, n)) : n \in 0..file_len}
    /\ phase' = "err"
    /\ UNCHANGED <<info, bytes, pieceVars, received, again, idx>>

WriteDone ==
    /\ phase = "write" /\ Len(disk) = Len(info.files)
    /\ phase' = "ok"
    /\ UNCHANGED <<info, bytes, pieceVars, received, again, diskVars>>

Download == PickPiece \/ RequestBlock \/ ReceiveBlock
Write == StartWriting \/ WriteFile \/ WriteFails \/ WriteDone

Next == Download \/ Write

\* Blocks that were asked for arrive, and the task that writes is run.
Spec == Init /\ [][Next]_vars /\ WF_vars(Download \/ Write)

-----------------------------------------------------------------------------
(* Properties. *)

\* Splicing never moves a byte: both buffers keep their lengths, and each position
\* holds its own byte of the torrent or still 0.  The last block, the last piece and
\* pieces that arrive twice included, whatever comes before them (mod.rs:41, 123-125,
\* 405-407, 501).
BytesInPlace ==
    /\ Len(bytes) = total_length
    /\ \A k \in 1..total_length : bytes[k] \in {0, k}
    /\ piece # NoPiece =>
          /\ Len(piece_bytes) = piece_len(piece)
          /\ \A k \in DOMAIN piece_bytes :
                piece_bytes[k] \in {0, piece * info.piece_length + k}

\* The count of blocks made when a piece is picked and the loop that cuts the requests
\* agree at every moment, so that `remaining_blocks' reaches 0 with the last byte of
\* the piece and not before; no byte is asked for twice (mod.rs:392, 410, 493-500,
\* 550-577).
BlocksTile ==
    piece # NoPiece =>
        /\ remaining_blocks =
              Cardinality(pending_blocks) + num_blocks(Len(piece_bytes) - requested)
        /\ \A b \in pending_blocks :
              /\ b[2] > 0 /\ b[1] + b[2] <= requested
              /\ \A k \in (b[1] + 1)..(b[1] + b[2]) : piece_bytes[k] = 0
              /\ \A c \in pending_blocks \ {b} : c[1] + c[2] <= b[1] \/ b[1] + b[2] <= c[1]

\* The pieces cover the torrent: once all of them were received, and whatever their
\* order, the buffer is the torrent, with no byte before the first, between two of
\* them or after the last left out (meta_info.rs:43-61, mod.rs:108, 123-125).
PiecesCover ==
    /\ \A i \in received :
          \A k \in 1..piece_len(i) :
              bytes[i * info.piece_length + k] = i * info.piece_length + k
    /\ received = Pieces => bytes = Content

\* Every file on the disk has its own bytes and all of them, but for the one that
\* was being written when an error ended the program; Ok means that all the files
\* are there (file/mod.rs:18-29).
FilesExact ==
    /\ \A f \in 1..Len(disk) :
          LET file == SubSeq(Content, LenTo(info.files, f - 1) + 1, LenTo(info.files, f))
          IN  IF f = Len(disk) /\ phase = "err"
              THEN disk[f] = SubSeq(file, 1, Len(disk[f]))
              ELSE disk[f] = file
    /\ phase = "ok" => Len(disk) = Len(info.files)

\* Whatever the lengths, every piece completes, no index is out of bounds, and the
\* program gets to the end of its writing (mod.rs:116-137, file/mod.rs:12-32).
StorageEnds == <>(phase \in {"ok", "err"})
=============================================================================
