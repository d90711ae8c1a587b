--------------------------- MODULE DownloadProofs ---------------------------
(***************************************************************************)
(* Safety of the download for any number of seeds, pieces and blocks, any  *)
(* channel and whatever the seeds do.  The inductive invariant says of     *)
(* each seed's task that its books balance (LocalOK) and that where it is  *)
(* agrees with what it has: only a task at "complete" has a piece with     *)
(* nothing left, only one at "request" has pieces to go through, and       *)
(* requests without a piece in the map occur only on a broken stream.  The *)
(* second half says what a task may rely on and what the tasks and the     *)
(* File do together.                                                       *)
(***************************************************************************)
EXTENDS Download, BitfieldProofs, FiniteSetTheorems, SequenceTheorems, TLAPS

-----------------------------------------------------------------------------
(* What the handlers of one seed's downloader preserve, for any number of pieces and *)
(* blocks: a lemma for each operator of SeedDownloader.                              *)

\* The state of a downloader is well formed and its blocks are accounted for.
LocalOK(sd) ==
    /\ IsDownloader(sd)
    /\ IsFiniteSet(sd.pending_blocks)
    /\ Accounted(sd)
    /\ Cardinality(sd.pending_blocks) <= sd.inflight

\* Every piece has a block at least (meta_info.rs:56-61: no piece is empty).
LEMMA NumBlocksPositive ==
  ASSUME NEW p \in Pieces
  PROVE  NumBlocks[p] \in Nat /\ NumBlocks[p] > 0
<1>1. NumBlocks[p] \in 1..U16Max
  BY NumBlocksAssumption
<1>2. \A m, n \in Int : n \in 1..m => n \in Nat /\ n > 0
  OBVIOUS
<1>3. U16Max \in Int
  BY SMT DEF U16Max
<1>4. NumBlocks[p] \in Int
  BY ONLY <1>1, <1>3
<1> QED
  BY ONLY <1>1, <1>2, <1>3, <1>4

\* A new downloader awaits nothing (mod.rs:228-245).
LEMMA NewOK == LocalOK(new)
<1>1. IsDownloader(new)
  BY DEF IsDownloader, IsPieceMap, new
<1>2. IsFiniteSet(new.pending_blocks) /\ Cardinality(new.pending_blocks) = 0
  BY FS_EmptySet DEF new
<1>3. Accounted(new)
  BY DEF Accounted, new, pending
<1> QED
  BY <1>1, <1>2, <1>3 DEF LocalOK, new

\* Choke starts every piece over and forgets the requests (mod.rs:308-337).
LEMMA ChokeOK ==
  ASSUME NEW sd, LocalOK(sd)
  PROVE  LocalOK(choke(sd)) /\ choke(sd).pending_blocks = {}
<1> DEFINE c == choke(sd)
           dls == sd.pending_pieces
<1>1. /\ IsPieceMap(dls)
      /\ sd.inflight \in Nat
  BY DEF LocalOK, IsDownloader
<1>2. /\ c.choked_us = TRUE
      /\ c.inflight = sd.inflight
      /\ c.pending_pieces = [p \in DOMAIN dls |->
            [requested |-> 0, remaining_blocks |-> NumBlocks[p], bytes |-> dls[p].bytes]]
      /\ c.pending_blocks = {}
  BY DEF choke, pending
<1> HIDE DEF c
<1>3. ASSUME NEW p \in DOMAIN dls
      PROVE  /\ p \in Pieces
             /\ dls[p].bytes \in SUBSET Nat
             /\ NumBlocks[p] \in Nat
             /\ c.pending_pieces[p].requested = 0
             /\ c.pending_pieces[p].remaining_blocks = NumBlocks[p]
             /\ c.pending_pieces[p].bytes = dls[p].bytes
             /\ c.pending_pieces[p] \in PieceDownloads
  <2>1. p \in Pieces /\ dls[p] \in PieceDownloads
    BY <1>1 DEF IsPieceMap
  <2>2. NumBlocks[p] \in Nat
    BY <2>1, NumBlocksPositive
  <2>3. dls[p].bytes \in SUBSET Nat
    BY <2>1 DEF PieceDownloads
  <2> QED
    BY <1>2, <2>1, <2>2, <2>3 DEF PieceDownloads
<1>4. IsDownloader(c)
  BY <1>1, <1>2, <1>3 DEF IsDownloader, IsPieceMap
<1>5. IsFiniteSet(c.pending_blocks) /\ Cardinality(c.pending_blocks) = 0
  BY <1>2, FS_EmptySet
<1>6. Accounted(c)
  <2>1. \A p \in DOMAIN dls : PendingOf(c, p) = {}
    BY <1>2 DEF PendingOf
  <2>2. pending(c) = DOMAIN dls
    BY <1>2 DEF pending
  <2>3. \A p \in DOMAIN dls : PieceAccounted(c.pending_pieces[p], {}, NumBlocks[p])
    BY <1>3, FS_EmptySet DEF PieceAccounted
  <2> QED
    BY <2>1, <2>2, <2>3 DEF Accounted
<1> QED
  BY <1>1, <1>2, <1>4, <1>5, <1>6 DEF LocalOK, c

\* Unchoke touches neither the pieces nor the requests (mod.rs:338-348).
LEMMA UnchokeOK ==
  ASSUME NEW sd, LocalOK(sd)
  PROVE  LocalOK(unchoke(sd))
<1> DEFINE c == unchoke(sd)
<1>1. /\ c.choked_us = FALSE
      /\ c.inflight = sd.inflight
      /\ c.pending_pieces = sd.pending_pieces
      /\ c.pending_blocks = sd.pending_blocks
  BY DEF unchoke
<1> HIDE DEF c
<1>2. Accounted(c)
  BY <1>1 DEF LocalOK, Accounted, pending, PendingOf
<1>3. LocalOK(c)
  BY <1>1, <1>2 DEF LocalOK, IsDownloader
<1> QED
  BY <1>3 DEF c

\* The entries of the pieces that stay, and the requests for them, are as before.
LEMMA KeepOK ==
  ASSUME NEW sd, NEW c, LocalOK(sd),
         c.choked_us \in BOOLEAN, c.inflight \in Nat,
         c.pending_blocks \subseteq Block, IsFiniteSet(c.pending_blocks),
         Cardinality(c.pending_blocks) <= c.inflight,
         pending(c) \subseteq pending(sd),
         \A q \in pending(c) :
            /\ c.pending_pieces[q] = sd.pending_pieces[q]
            /\ PendingOf(c, q) = PendingOf(sd, q)
  PROVE  LocalOK(c)
<1>1. IsPieceMap(c.pending_pieces)
  BY DEF LocalOK, IsDownloader, IsPieceMap, pending
<1>2. Accounted(c)
  BY DEF LocalOK, Accounted
<1> QED
  BY <1>1, <1>2 DEF LocalOK, IsDownloader

\* One entry is put in the map, and only the requests for its piece change.
LEMMA PutOK ==
  ASSUME NEW sd, NEW c, NEW p \in Pieces, NEW e \in PieceDownloads, LocalOK(sd),
         c.choked_us \in BOOLEAN, c.inflight \in Nat,
         c.pending_blocks \subseteq Block, IsFiniteSet(c.pending_blocks),
         Cardinality(c.pending_blocks) <= c.inflight,
         c.pending_pieces = put(sd.pending_pieces, p, e),
         \A q \in pending(sd) : q # p => PendingOf(c, q) = PendingOf(sd, q),
         PieceAccounted(e, PendingOf(c, p), NumBlocks[p])
  PROVE  LocalOK(c)
<1>1. /\ pending(c) = pending(sd) \cup {p}
      /\ c.pending_pieces[p] = e
      /\ \A q \in pending(sd) : q # p => c.pending_pieces[q] = sd.pending_pieces[q]
  BY DEF put, pending
<1>2. IsPieceMap(c.pending_pieces)
  BY <1>1 DEF LocalOK, IsDownloader, IsPieceMap, pending
<1>3. Accounted(c)
  BY <1>1 DEF LocalOK, Accounted
<1> QED
  BY <1>2, <1>3 DEF LocalOK, IsDownloader

\* The requests for one piece are finitely many, and the others are apart.
LEMMA PendingOfFinite ==
  ASSUME NEW sd, NEW p, LocalOK(sd)
  PROVE  /\ IsFiniteSet(PendingOf(sd, p))
         /\ Cardinality(PendingOf(sd, p)) \in Nat
         /\ Cardinality(sd.pending_blocks) \in Nat
         /\ sd.inflight \in Nat
         /\ sd.choked_us \in BOOLEAN
         /\ sd.pending_blocks \subseteq Block
<1>1. PendingOf(sd, p) \subseteq sd.pending_blocks
  BY DEF PendingOf
<1>2. IsFiniteSet(sd.pending_blocks)
  BY DEF LocalOK
<1>3. IsFiniteSet(PendingOf(sd, p))
  BY <1>1, <1>2, FS_Subset
<1> QED
  BY <1>2, <1>3, FS_CardinalityType DEF LocalOK, IsDownloader

\* A block that is expected, of a piece under way, is counted exactly: there is
\* something left of the piece before, and one block less after (mod.rs:374-407).
LEMMA ReceiveOK ==
  ASSUME NEW sd, LocalOK(sd), NEW p \in pending(sd), NEW b, NEW good \in BOOLEAN,
         <<p, b>> \in sd.pending_blocks
  PROVE  /\ LocalOK(receive(sd, p, b, good))
         /\ sd.pending_pieces[p].remaining_blocks > 0
<1> DEFINE c == receive(sd, p, b, good)
           dl == sd.pending_pieces[p]
           x == <<p, b>>
           bytes == IF good THEN dl.bytes \cup {b} ELSE dl.bytes \ {b}
           e == [ requested |-> dl.requested,
                  remaining_blocks |-> dl.remaining_blocks - 1,
                  bytes |-> bytes ]
<1>1. /\ c.choked_us = sd.choked_us
      /\ c.inflight = sd.inflight - 1
      /\ c.pending_pieces = put(sd.pending_pieces, p, e)
      /\ c.pending_blocks = sd.pending_blocks \ {x}
  BY DEF receive
<1> HIDE DEF c
<1>2. /\ p \in Pieces
      /\ dl \in PieceDownloads
      /\ PieceAccounted(dl, PendingOf(sd, p), NumBlocks[p])
      /\ IsFiniteSet(sd.pending_blocks)
      /\ Cardinality(sd.pending_blocks) <= sd.inflight
  BY DEF LocalOK, IsDownloader, IsPieceMap, pending, Accounted
<1>3. b \in Nat
  BY DEF LocalOK, IsDownloader, Block
<1>4. x \in PendingOf(sd, p)
  BY DEF PendingOf
<1>5. /\ Cardinality(PendingOf(sd, p)) \in Nat /\ Cardinality(PendingOf(sd, p)) > 0
      /\ Cardinality(sd.pending_blocks) \in Nat /\ Cardinality(sd.pending_blocks) > 0
  BY <1>2, <1>4, PendingOfFinite, FS_EmptySet
<1>6. /\ PendingOf(c, p) = PendingOf(sd, p) \ {x}
      /\ \A q \in pending(sd) : q # p => PendingOf(c, q) = PendingOf(sd, q)
  BY <1>1 DEF PendingOf
<1>7. /\ IsFiniteSet(c.pending_blocks)
      /\ Cardinality(c.pending_blocks) = Cardinality(sd.pending_blocks) - 1
      /\ Cardinality(PendingOf(c, p)) = Cardinality(PendingOf(sd, p)) - 1
  <2>1. /\ IsFiniteSet(sd.pending_blocks \ {x})
        /\ Cardinality(sd.pending_blocks \ {x}) = Cardinality(sd.pending_blocks) - 1
    BY <1>2, FS_RemoveElement
  <2>2. IsFiniteSet(PendingOf(sd, p))
    BY PendingOfFinite
  <2>3. Cardinality(PendingOf(sd, p) \ {x}) = Cardinality(PendingOf(sd, p)) - 1
    BY <2>2, <1>4, FS_RemoveElement
  <2> QED
    BY <2>1, <2>3, <1>1, <1>6
<1>8. /\ dl.requested \in Nat /\ dl.remaining_blocks \in Nat /\ dl.bytes \in SUBSET Nat
      /\ NumBlocks[p] \in Nat
  BY <1>2, NumBlocksPositive DEF PieceDownloads
<1>9. /\ dl.requested <= NumBlocks[p]
      /\ \A y \in PendingOf(sd, p) : y[2] < dl.requested
      /\ dl.remaining_blocks = NumBlocks[p] - dl.requested + Cardinality(PendingOf(sd, p))
  BY <1>2, <1>8 DEF PieceAccounted
<1>10. dl.remaining_blocks > 0
  BY <1>5, <1>8, <1>9
<1>11. bytes \in SUBSET Nat
  BY <1>3, <1>8
<1>12. e \in PieceDownloads
  <2> HIDE DEF bytes
  <2>1. dl.remaining_blocks - 1 \in Nat
    BY <1>8, <1>10
  <2> QED
    BY <1>8, <1>11, <2>1 DEF PieceDownloads
<1>13. PieceAccounted(e, PendingOf(c, p), NumBlocks[p])
  <2>1. /\ e.requested = dl.requested
        /\ e.remaining_blocks = dl.remaining_blocks - 1
    OBVIOUS
  <2> HIDE DEF e
  <2>2. e.requested \in 0..NumBlocks[p]
    BY <2>1, <1>8, <1>9
  <2>3. \A y \in PendingOf(c, p) : y[2] < e.requested
    BY <2>1, <1>6, <1>9
  <2>4. e.remaining_blocks = NumBlocks[p] - e.requested + Cardinality(PendingOf(c, p))
    BY <2>1, <1>5, <1>7, <1>8, <1>9
  <2> QED
    BY <2>2, <2>3, <2>4 DEF PieceAccounted
<1>14. /\ c.choked_us \in BOOLEAN /\ c.inflight \in Nat
       /\ c.pending_blocks \subseteq Block
       /\ Cardinality(c.pending_blocks) <= c.inflight
  BY <1>1, <1>2, <1>5, <1>7, PendingOfFinite
<1>15. LocalOK(c)
  <2> HIDE DEF e
  <2> QED
    BY <1>1, <1>2, <1>6, <1>7, <1>12, <1>13, <1>14, PutOK
<1> QED
  BY <1>10, <1>15 DEF c

\* A block of a piece that is not in the map (mod.rs:384-391).
LEMMA ReceiveOrphanOK ==
  ASSUME NEW sd, LocalOK(sd), NEW p, NEW b, p \notin pending(sd)
  PROVE  LocalOK(receive_orphan(sd, p, b))
<1> DEFINE c == receive_orphan(sd, p, b)
<1>1. /\ c.choked_us = sd.choked_us
      /\ c.inflight = sd.inflight
      /\ c.pending_pieces = sd.pending_pieces
      /\ c.pending_blocks = sd.pending_blocks \ {<<p, b>>}
  BY DEF receive_orphan
<1> HIDE DEF c
<1>2. pending(c) = pending(sd) /\ \A q \in pending(c) : PendingOf(c, q) = PendingOf(sd, q)
  BY <1>1 DEF pending, PendingOf
<1>3. IsFiniteSet(sd.pending_blocks) /\ Cardinality(sd.pending_blocks) <= sd.inflight
  BY DEF LocalOK
<1>4. /\ IsFiniteSet(c.pending_blocks)
      /\ Cardinality(c.pending_blocks) <= Cardinality(sd.pending_blocks)
      /\ Cardinality(c.pending_blocks) \in Nat
  BY <1>1, <1>3, FS_Subset, FS_CardinalityType
<1>5. /\ c.choked_us \in BOOLEAN /\ c.inflight \in Nat
      /\ c.pending_blocks \subseteq Block
      /\ Cardinality(sd.pending_blocks) \in Nat
  BY <1>1, PendingOfFinite
<1>6. Cardinality(c.pending_blocks) <= c.inflight
  BY <1>1, <1>3, <1>4, <1>5
<1>7. LocalOK(c)
  BY <1>1, <1>2, <1>4, <1>5, <1>6, KeepOK
<1> QED
  BY <1>7 DEF c

\* When nothing is left of a piece no request for it is out (mod.rs:410-414).
LEMMA NothingLeft ==
  ASSUME NEW sd, LocalOK(sd), NEW p \in pending(sd),
         sd.pending_pieces[p].remaining_blocks = 0
  PROVE  PendingOf(sd, p) = {} /\ sd.pending_pieces[p].requested = NumBlocks[p]
<1> DEFINE dl == sd.pending_pieces[p]
           n == NumBlocks[p]
           out == Cardinality(PendingOf(sd, p))
<1>1. /\ p \in Pieces
      /\ PieceAccounted(dl, PendingOf(sd, p), n)
  BY DEF LocalOK, IsDownloader, IsPieceMap, pending, Accounted
<1>2. n \in Nat
  BY <1>1, NumBlocksPositive
<1>3. out \in Nat /\ IsFiniteSet(PendingOf(sd, p))
  BY PendingOfFinite
<1>4. dl.requested \in 0..n /\ 0 = n - dl.requested + out
  BY <1>1 DEF PieceAccounted
<1>5. dl.requested = n /\ out = 0
  <2>1. ASSUME NEW r \in 0..n, NEW m \in Nat, 0 = n - r + m
        PROVE  r = n /\ m = 0
    <3> HIDE DEF n
    <3> QED
      BY <2>1, <1>2
  <2> QED
    BY <2>1, <1>3, <1>4
<1> QED
  BY <1>3, <1>5, FS_EmptySet

\* Taking a piece out of the map leaves the others as they are (mod.rs:414).
LEMMA CompleteOK ==
  ASSUME NEW sd, LocalOK(sd), NEW p
  PROVE  LocalOK(complete(sd, p)) /\ pending(complete(sd, p)) = pending(sd) \ {p}
<1> DEFINE c == complete(sd, p)
<1>1. /\ c.choked_us = sd.choked_us
      /\ c.inflight = sd.inflight
      /\ c.pending_pieces = [q \in pending(sd) \ {p} |-> sd.pending_pieces[q]]
      /\ c.pending_blocks = sd.pending_blocks
  BY DEF complete
<1> HIDE DEF c
<1>2. /\ pending(c) = pending(sd) \ {p}
      /\ \A q \in pending(c) : /\ c.pending_pieces[q] = sd.pending_pieces[q]
                              /\ PendingOf(c, q) = PendingOf(sd, q)
  BY <1>1 DEF pending, PendingOf
<1>3. IsFiniteSet(sd.pending_blocks) /\ Cardinality(sd.pending_blocks) <= sd.inflight
  BY DEF LocalOK
<1>4. LocalOK(c)
  BY <1>1, <1>2, <1>3, PendingOfFinite, KeepOK
<1> QED
  BY <1>2, <1>4 DEF c

\* The next k blocks of a piece are k blocks of it, and none is requested already:
\* the assertion of request_blocks (mod.rs:568-576).
LEMMA NextBlocksFresh ==
  ASSUME NEW sd, LocalOK(sd), NEW p \in Pieces, NEW dl, NEW k \in Nat,
         dl.requested \in Nat, dl.requested + k <= NumBlocks[p],
         \A x \in PendingOf(sd, p) : x[2] < dl.requested
  PROVE  /\ IsFiniteSet(NextBlocks(dl, p, k))
         /\ Cardinality(NextBlocks(dl, p, k)) = k
         /\ NextBlocks(dl, p, k) \subseteq Block
         /\ NextBlocks(dl, p, k) \cap sd.pending_blocks = {}
         /\ \A x \in NextBlocks(dl, p, k) : x[1] = p /\ x[2] < dl.requested + k
<1> DEFINE r == dl.requested
           I == r..(r + k - 1)
<1>1. r \in Nat /\ NumBlocks[p] \in Nat /\ r + k <= NumBlocks[p]
  BY NumBlocksPositive
<1>2. NextBlocks(dl, p, k) = {p} \X I
  BY DEF NextBlocks
<1>3. \A i \in I : i \in Nat /\ i >= r /\ i < r + k /\ i \in 0..(NumBlocks[p] - 1)
  <2> HIDE DEF r
  <2> QED
    BY <1>1
<1>4. IsFiniteSet(I) /\ Cardinality(I) = k
  <2> HIDE DEF r
  <2>1. r \in Int /\ r + k - 1 \in Int
    BY <1>1
  <2>2. IsFiniteSet(I) /\ Cardinality(I) = IF r > r + k - 1 THEN 0 ELSE (r + k - 1) - r + 1
    BY <2>1, FS_Interval
  <2> QED
    BY <2>2, <1>1
<1>5. IsFiniteSet({p}) /\ Cardinality({p}) = 1
  BY FS_Singleton
<1> HIDE DEF I
<1>6. IsFiniteSet({p} \X I) /\ Cardinality({p} \X I) = 1 * k
  BY <1>4, <1>5, FS_Product
<1>7. \A x \in {p} \X I : x[1] = p /\ x[2] \in I
  OBVIOUS
<1>8. {p} \X I \subseteq Block
  BY <1>3, <1>7 DEF Block, BlocksOf
<1>9. \A x \in {p} \X I : x \notin sd.pending_blocks
  <2> SUFFICES ASSUME NEW x \in {p} \X I, x \in sd.pending_blocks
               PROVE  FALSE
    OBVIOUS
  <2>1. x \in PendingOf(sd, p)
    BY <1>7 DEF PendingOf
  <2>2. x[2] < r /\ x[2] \in I
    BY <2>1, <1>7
  <2> HIDE DEF r
  <2> QED
    BY <2>2, <1>1, <1>3
<1>10. \A x \in {p} \X I : x[2] < r + k
  BY <1>3, <1>7
<1> QED
  BY <1>2, <1>6, <1>7, <1>8, <1>9, <1>10

\* Requests that are sent are outstanding and counted (mod.rs:568-579).
LEMMA RequestsSent ==
  ASSUME NEW sd, LocalOK(sd), NEW p \in Pieces, NEW dl, NEW k \in Nat, NEW dls,
         dl.requested \in Nat, dl.requested + k <= NumBlocks[p],
         \A x \in PendingOf(sd, p) : x[2] < dl.requested
  PROVE  LET c == requests_sent(sd, p, dl, k, dls)
         IN  /\ c.choked_us = sd.choked_us
             /\ c.inflight = sd.inflight + k
             /\ c.pending_pieces = dls
             /\ c.choked_us \in BOOLEAN /\ c.inflight \in Nat
             /\ c.pending_blocks \subseteq Block
             /\ IsFiniteSet(c.pending_blocks)
             /\ Cardinality(c.pending_blocks) <= c.inflight
             /\ \A q : q # p => PendingOf(c, q) = PendingOf(sd, q)
             /\ PendingOf(c, p) = PendingOf(sd, p) \cup NextBlocks(dl, p, k)
             /\ Cardinality(PendingOf(c, p)) = Cardinality(PendingOf(sd, p)) + k
<1> DEFINE c == requests_sent(sd, p, dl, k, dls)
           N == NextBlocks(dl, p, k)
<1>1. /\ c.choked_us = sd.choked_us
      /\ c.inflight = sd.inflight + k
      /\ c.pending_pieces = dls
      /\ c.pending_blocks = sd.pending_blocks \cup N
  BY DEF requests_sent
<1>2. /\ IsFiniteSet(N) /\ Cardinality(N) = k
      /\ N \subseteq Block
      /\ N \cap sd.pending_blocks = {}
      /\ \A x \in N : x[1] = p
  BY NextBlocksFresh
<1> HIDE DEF c, N
<1>3. IsFiniteSet(sd.pending_blocks) /\ Cardinality(sd.pending_blocks) <= sd.inflight
  BY DEF LocalOK
<1>4. /\ sd.choked_us \in BOOLEAN /\ sd.inflight \in Nat
      /\ sd.pending_blocks \subseteq Block
      /\ Cardinality(sd.pending_blocks) \in Nat
      /\ IsFiniteSet(PendingOf(sd, p)) /\ Cardinality(PendingOf(sd, p)) \in Nat
  BY PendingOfFinite
<1>5. \A q : q # p => PendingOf(c, q) = PendingOf(sd, q)
  BY <1>1, <1>2 DEF PendingOf
<1>6. PendingOf(c, p) = PendingOf(sd, p) \cup N
  BY <1>1, <1>2 DEF PendingOf
<1>7. ASSUME NEW S, IsFiniteSet(S), N \cap S = {}, Cardinality(S) \in Nat
      PROVE  IsFiniteSet(S \cup N) /\ Cardinality(S \cup N) = Cardinality(S) + k
  <2>1. S \cap N = {}
    BY <1>7
  <2>2. /\ IsFiniteSet(S \cup N)
        /\ Cardinality(S \cup N) = Cardinality(S) + Cardinality(N) - Cardinality(S \cap N)
    BY <1>2, <1>7, FS_Union
  <2>3. Cardinality(S \cap N) = 0
    BY <2>1, FS_EmptySet
  <2> QED
    BY <2>2, <2>3, <1>2, <1>7
<1>8. N \cap PendingOf(sd, p) = {}
  BY <1>2 DEF PendingOf
<1>9. /\ IsFiniteSet(c.pending_blocks)
      /\ Cardinality(c.pending_blocks) = Cardinality(sd.pending_blocks) + k
  BY <1>1, <1>2, <1>3, <1>4, <1>7
<1>10. Cardinality(PendingOf(c, p)) = Cardinality(PendingOf(sd, p)) + k
  BY <1>4, <1>6, <1>7, <1>8
<1>11. c.inflight \in Nat /\ Cardinality(c.pending_blocks) <= c.inflight
  BY <1>1, <1>3, <1>4, <1>9
<1>12. c.pending_blocks \subseteq Block
  BY <1>1, <1>2, <1>4
<1> QED
  BY <1>1, <1>4, <1>5, <1>6, <1>9, <1>10, <1>11, <1>12 DEF c, N

\* Requests for a piece whose entry is in balance leave it in balance, in the map or
\* about to enter it (mod.rs:542-585).
LEMMA RequestOK ==
  ASSUME NEW sd, LocalOK(sd), NEW p \in Pieces, NEW k \in Nat,
         NEW dl \in PieceDownloads, PieceAccounted(dl, PendingOf(sd, p), NumBlocks[p]),
         dl.requested + k <= NumBlocks[p]
  PROVE  LocalOK(requests_sent(sd, p, dl, k, put(sd.pending_pieces, p, Advanced(dl, k))))
<1> DEFINE e == Advanced(dl, k)
           c == requests_sent(sd, p, dl, k, put(sd.pending_pieces, p, e))
<1>2. /\ dl.requested \in Nat /\ dl.remaining_blocks \in Nat /\ dl.bytes \in SUBSET Nat
      /\ NumBlocks[p] \in Nat /\ dl.requested + k <= NumBlocks[p]
  BY NumBlocksPositive DEF PieceDownloads
<1>3. /\ \A x \in PendingOf(sd, p) : x[2] < dl.requested
      /\ dl.remaining_blocks = NumBlocks[p] - dl.requested + Cardinality(PendingOf(sd, p))
  BY DEF PieceAccounted
<1>4. /\ e.requested = dl.requested + k
      /\ e.remaining_blocks = dl.remaining_blocks
      /\ e \in PieceDownloads
  <2>1. dl.requested + k \in Nat
    BY <1>2
  <2> QED
    BY <1>2, <2>1 DEF Advanced, PieceDownloads
<1> HIDE DEF e
<1>5. /\ c.pending_pieces = put(sd.pending_pieces, p, e)
      /\ c.choked_us \in BOOLEAN /\ c.inflight \in Nat
      /\ c.pending_blocks \subseteq Block
      /\ IsFiniteSet(c.pending_blocks)
      /\ Cardinality(c.pending_blocks) <= c.inflight
      /\ \A q : q # p => PendingOf(c, q) = PendingOf(sd, q)
      /\ PendingOf(c, p) = PendingOf(sd, p) \cup NextBlocks(dl, p, k)
      /\ Cardinality(PendingOf(c, p)) = Cardinality(PendingOf(sd, p)) + k
  BY <1>2, <1>3, RequestsSent
<1>6. PieceAccounted(e, PendingOf(c, p), NumBlocks[p])
  <2>1. e.requested \in 0..NumBlocks[p]
    BY <1>2, <1>4
  <2>2. \A x \in NextBlocks(dl, p, k) : x[2] < e.requested
    BY <1>2, <1>3, <1>4, NextBlocksFresh
  <2>3. \A x \in PendingOf(sd, p) : x \in Block
    BY PendingOfFinite DEF PendingOf
  <2>4. \A x \in PendingOf(sd, p) : x[2] \in Nat
    BY <2>3 DEF Block
  <2>5. \A x \in PendingOf(sd, p) : x[2] < e.requested
    BY <2>4, <1>2, <1>3, <1>4
  <2>6. e.remaining_blocks = NumBlocks[p] - e.requested + Cardinality(PendingOf(c, p))
    <3>1. Cardinality(PendingOf(sd, p)) \in Nat
      BY PendingOfFinite
    <3> QED
      BY <1>2, <1>3, <1>4, <1>5, <3>1
  <2> QED
    BY <2>1, <2>2, <2>5, <2>6, <1>5 DEF PieceAccounted
<1> HIDE DEF c
<1>7. LocalOK(c)
  BY <1>4, <1>5, <1>6, PutOK
<1> QED
  BY <1>7 DEF c, e

\* request_blocks for a piece under way: what is requested is no longer left to
\* request, and the books still balance (mod.rs:448-470).
LEMMA RequestBlocksOK ==
  ASSUME NEW sd, LocalOK(sd), NEW p \in pending(sd), NEW k \in Nat,
         sd.pending_pieces[p].requested + k <= NumBlocks[p]
  PROVE  LocalOK(request_blocks(sd, p, k))
<1>1. /\ p \in Pieces
      /\ sd.pending_pieces[p] \in PieceDownloads
      /\ PieceAccounted(sd.pending_pieces[p], PendingOf(sd, p), NumBlocks[p])
  BY DEF LocalOK, IsDownloader, IsPieceMap, pending, Accounted
<1> QED
  BY <1>1, RequestOK DEF request_blocks

\* A piece that is picked starts in balance if no block of it is out.
LEMMA NewPieceAccounted ==
  ASSUME NEW p \in Pieces
  PROVE  /\ NewPiece(p) \in PieceDownloads
         /\ NewPiece(p).requested = 0
         /\ PieceAccounted(NewPiece(p), {}, NumBlocks[p])
<1>1. NumBlocks[p] \in Nat
  BY NumBlocksPositive
<1>2. NewPiece(p) \in PieceDownloads
  BY <1>1 DEF NewPiece, PieceDownloads
<1>3. PieceAccounted(NewPiece(p), {}, NumBlocks[p])
  BY <1>1, FS_EmptySet DEF NewPiece, PieceAccounted
<1> QED
  BY <1>2, <1>3 DEF NewPiece

\* The piece enters the map with its first requests (mod.rs:496-513).
LEMMA RequestNewOK ==
  ASSUME NEW sd, LocalOK(sd), NEW p \in Pieces, NEW k \in Nat,
         k <= NumBlocks[p], PendingOf(sd, p) = {}
  PROVE  LocalOK(request_new(sd, p, k))
<1>1. /\ NewPiece(p) \in PieceDownloads
      /\ PieceAccounted(NewPiece(p), PendingOf(sd, p), NumBlocks[p])
      /\ NewPiece(p).requested + k <= NumBlocks[p]
  BY NewPieceAccounted
<1> QED
  BY <1>1, RequestOK DEF request_new

\* Requests for a piece that does not enter the map leave the pieces in it as they
\* are (mod.rs:504-512, 566).
LEMMA RequestNewFailsOK ==
  ASSUME NEW sd, LocalOK(sd), NEW p \in Pieces, NEW k \in Nat,
         k <= NumBlocks[p], PendingOf(sd, p) = {}, p \notin pending(sd)
  PROVE  LocalOK(request_new_fails(sd, p, k))
<1> DEFINE dl == NewPiece(p)
           c == requests_sent(sd, p, dl, k, sd.pending_pieces)
<1>1. dl.requested \in Nat /\ dl.requested + k <= NumBlocks[p]
  BY NumBlocksPositive DEF NewPiece
<1> HIDE DEF dl
<1>2. /\ c.pending_pieces = sd.pending_pieces
      /\ c.choked_us \in BOOLEAN /\ c.inflight \in Nat
      /\ c.pending_blocks \subseteq Block
      /\ IsFiniteSet(c.pending_blocks)
      /\ Cardinality(c.pending_blocks) <= c.inflight
      /\ \A q : q # p => PendingOf(c, q) = PendingOf(sd, q)
  BY <1>1, RequestsSent
<1> HIDE DEF c
<1>3. LocalOK(c)
  BY <1>2, KeepOK DEF pending
<1> QED
  BY <1>3 DEF request_new_fails, c, dl

-----------------------------------------------------------------------------
(* The download. *)


TaskOK(dl, l, rest, h, st) ==
    /\ LocalOK(dl)
    /\ l \in TaskPcs
    /\ h \in Pieces \cup {NoPiece}
    /\ st \in {"open", "broken", "ended"}
    /\ rest \subseteq Unrequested(dl)
    /\ l # "request" => rest = {}
    /\ l = "request" => ~dl.choked_us
    /\ l = "complete" => h \in pending(dl) /\ dl.pending_pieces[h].remaining_blocks = 0
    /\ \A p \in pending(dl) :
          dl.pending_pieces[p].remaining_blocks = 0 => l = "complete" /\ p = h
    /\ st = "open" => \A x \in dl.pending_blocks : x[1] \in pending(dl)

TasksOK == \A s \in Peers : TaskOK(d[s], pc[s], todo[s], handling[s], stream[s])

Shape ==
    /\ d = [s \in Peers |-> d[s]]
    /\ pc = [s \in Peers |-> pc[s]]
    /\ todo = [s \in Peers |-> todo[s]]
    /\ handling = [s \in Peers |-> handling[s]]
    /\ stream = [s \in Peers |-> stream[s]]

RestOK ==
    /\ chan \in Seq(DownloaderMsg)
    /\ fpc \in FilePcs
    /\ tried \in 0..NumPeers
    /\ written \in SUBSET Pieces
    /\ chokes \in [Peers -> 0..MaxChokes]

\* A peer that pick_seeds has not come to has no task.
UntriedOK == \A s \in Peers : s > tried => pc[s] = "untried"

Inv == Shape /\ TasksOK /\ RestOK /\ UntriedOK /\ BitfieldOK(bf)

-----------------------------------------------------------------------------

\* Only task s moves, and it ends up well.
LEMMA TaskMoves ==
  ASSUME Shape, TasksOK, NEW s \in Peers, Shape',
         \A t \in Peers : t # s =>
            /\ d'[t] = d[t] /\ pc'[t] = pc[t] /\ todo'[t] = todo[t]
            /\ handling'[t] = handling[t] /\ stream'[t] = stream[t],
         TaskOK(d'[s], pc'[s], todo'[s], handling'[s], stream'[s])
  PROVE  TasksOK'
  BY DEF TasksOK

\* Where a call of request_pieces leads (mod.rs:442-474).
LEMMA RequestPiecesOK ==
  ASSUME NEW dl, LocalOK(dl), NEW h \in Pieces \cup {NoPiece},
         NEW st \in {"open", "broken", "ended"},
         \A p \in pending(dl) : dl.pending_pieces[p].remaining_blocks # 0,
         st = "open" => \A x \in dl.pending_blocks : x[1] \in pending(dl),
         NEW rest, rest \subseteq Unrequested(dl)
  PROVE  TaskOK(dl, Requesting(dl, rest), IF dl.choked_us THEN {} ELSE rest, h, st)
<1>1. dl.choked_us \in BOOLEAN
  BY DEF LocalOK, IsDownloader
<1>2. /\ Requesting(dl, rest) \in {"loop", "request", "pick"}
      /\ Requesting(dl, rest) = "request" <=> ~dl.choked_us /\ rest # {}
  BY <1>1 DEF Requesting
<1> QED
  BY <1>1, <1>2 DEF TaskOK, TaskPcs, Running

\* A task that ended has dropped its state.
LEMMA EndedOK ==
  ASSUME NEW st \in {"open", "broken", "ended"}, NEW l \in TaskPcs,
         l \notin {"request", "complete"}
  PROVE  TaskOK(new, l, {}, NoPiece, st)
<1>1. new.pending_blocks = {} /\ pending(new) = {}
  BY DEF new, pending
<1> QED
  BY <1>1, NewOK DEF TaskOK

LEMMA InitInv == Init => Inv
<1> SUFFICES ASSUME Init PROVE Inv
  OBVIOUS
<1>1. Shape
  BY DEF Init, Shape
<1>2. TasksOK
  BY EndedOK DEF Init, TasksOK, TaskPcs, Running
<1>3. chan \in Seq(DownloaderMsg)
  BY EmptySeq DEF Init
<1>4. RestOK
  BY <1>3, PeersAssumption DEF Init, RestOK, FilePcs
<1>5. UntriedOK
  BY DEF Init, UntriedOK
<1> QED
  BY <1>1, <1>2, <1>4, <1>5, ZeroOK DEF Init, Inv

\* The steps of the File's task (mod.rs:50-139).
LEMMA PanicInv == Inv /\ TryPeerPanics => Inv'
<1> SUFFICES ASSUME Inv, TryPeerPanics PROVE Inv'
  OBVIOUS
<1> USE DEF Inv
<1>1. /\ fpc' = "panicked" /\ chan' = <<>>
      /\ pc' = [s \in Peers |-> IF pc[s] \in Running THEN "exited" ELSE pc[s]]
      /\ d' = [s \in Peers |-> new] /\ todo' = [s \in Peers |-> {}]
      /\ handling' = [s \in Peers |-> NoPiece]
      /\ UNCHANGED <<bf, tried, written, stream, chokes>>
  BY DEF TryPeerPanics
<1>2. Shape'
  BY <1>1 DEF Shape
<1>3. TasksOK'
  <2> SUFFICES ASSUME NEW s \in Peers
               PROVE  TaskOK(d'[s], pc'[s], todo'[s], handling'[s], stream'[s])
    BY DEF TasksOK
  <2>1. pc[s] \in TaskPcs /\ stream[s] \in {"open", "broken", "ended"}
    BY DEF TasksOK, TaskOK
  <2>2. pc'[s] \in TaskPcs /\ pc'[s] \notin {"request", "complete"}
    BY <1>1, <2>1 DEF TaskPcs, Running
  <2> QED
    BY <1>1, <2>1, <2>2, EndedOK
<1>4. RestOK'
  BY <1>1, EmptySeq DEF RestOK, FilePcs
<1>5. UntriedOK'
  BY <1>1 DEF UntriedOK, Running
<1> QED
  BY <1>1, <1>2, <1>3, <1>4, <1>5

LEMMA FileInv == Inv /\ FileTask => Inv'
<1> SUFFICES ASSUME Inv, FileTask PROVE Inv'
  OBVIOUS
<1> USE DEF Inv, RestOK
<1>1. CASE TryPeer
  <2> DEFINE s == tried + 1
  <2>1. s \in Peers /\ tried' = s /\ tried' \in 0..NumPeers
    BY <1>1, PeersAssumption DEF TryPeer, MorePeers, Peers
  <2>2. PICK l \in {"loop", "rejected"} : pc' = [pc EXCEPT ![s] = l]
    BY <1>1 DEF TryPeer
  <2>3. UNCHANGED <<bf, chan, fpc, written, d, todo, handling, stream, chokes>>
    BY <1>1 DEF TryPeer
  <2>4. pc[s] = "untried" /\ TaskOK(d[s], pc[s], todo[s], handling[s], stream[s])
    <3>1. s > tried
      BY PeersAssumption
    <3> QED
      BY <2>1, <3>1 DEF UntriedOK, TasksOK
  <2> HIDE DEF s
  <2>5. Shape'
    BY <2>1, <2>2, <2>3 DEF Shape
  <2>6. pc'[s] = l /\ \A t \in Peers : t # s => pc'[t] = pc[t]
    BY <2>1, <2>2 DEF Shape
  <2>7. TaskOK(d'[s], pc'[s], todo'[s], handling'[s], stream'[s])
    BY <2>3, <2>4, <2>6 DEF TaskOK, TaskPcs, Running
  <2>8. TasksOK'
    BY <2>1, <2>3, <2>5, <2>6, <2>7, TaskMoves
  <2>9. UntriedOK'
    <3>1. \A t \in Peers : t > s => t > tried /\ t # s
      BY <2>1 DEF Peers, s
    <3> QED
      BY <2>1, <2>6, <3>1 DEF UntriedOK
  <2> QED
    BY <2>1, <2>3, <2>5, <2>8, <2>9
<1>2. CASE SeedsPicked \/ RecvFails
  <2>1. UNCHANGED <<bf, chan, tried, written, seedVars>> /\ fpc' \in FilePcs
    BY <1>2 DEF SeedsPicked, RecvFails, FilePcs
  <2> QED
    BY <2>1 DEF seedVars, Shape, TasksOK, UntriedOK
<1>3. CASE Recv
  <2>1. UNCHANGED <<bf, tried, seedVars>> /\ fpc' \in FilePcs
    BY <1>3 DEF Recv, FilePcs
  <2>2. Head(chan) \in DownloaderMsg /\ chan' \in Seq(DownloaderMsg)
    BY <1>3, HeadTailProperties DEF Recv
  <2>3. written' \in SUBSET Pieces
    BY <1>3, <2>2 DEF Recv, DownloaderMsg
  <2> QED
    BY <2>1, <2>2, <2>3 DEF seedVars, Shape, TasksOK, UntriedOK
<1>4. CASE Check
  <2>1. UNCHANGED <<bf, tried, written, seedVars>> /\ fpc' \in FilePcs
    BY <1>4 DEF Check, FilePcs
  <2>2. chan' \in Seq(DownloaderMsg)
    BY <1>4, EmptySeq DEF Check
  <2> QED
    BY <2>1, <2>2 DEF seedVars, Shape, TasksOK, UntriedOK
<1> QED
  BY <1>1, <1>2, <1>3, <1>4, PanicInv DEF FileTask

-----------------------------------------------------------------------------
(* The steps of a seed's task. *)

Only(s) ==
    /\ Shape'
    /\ \A t \in Peers : t # s =>
            /\ d'[t] = d[t] /\ pc'[t] = pc[t] /\ todo'[t] = todo[t]
            /\ handling'[t] = handling[t] /\ stream'[t] = stream[t]

TaskOf(s) == TaskOK(d[s], pc[s], todo[s], handling[s], stream[s])

LEMMA SeedMoves ==
  ASSUME Inv, NEW s \in Peers, pc[s] # "untried",
         Only(s), TaskOf(s)', UNCHANGED tried, RestOK', BitfieldOK(bf)'
  PROVE  Inv'
<1>1. TasksOK'
  BY TaskMoves DEF Inv, Only, TaskOf
<1>2. UntriedOK'
  BY DEF Inv, Only, UntriedOK
<1> QED
  BY <1>1, <1>2 DEF Inv, Only

LEMMA TaskFacts ==
  ASSUME Inv, NEW s \in Peers
  PROVE  TaskOf(s) /\ LocalOK(d[s]) /\ Shape /\ stream[s] \in {"open", "broken", "ended"}
  BY DEF Inv, TasksOK, TaskOf, TaskOK

\* The top of the loop, and messages that change nothing (mod.rs:251-270).
LEMMA LoopInv ==
  ASSUME Inv, NEW s \in Peers, CheckRemaining(s) \/ Nothing(s) \/ PeerRequest(s)
  PROVE  Inv'
<1>1. UNCHANGED <<bf, chan, fileVars, stream, chokes>>
  BY DEF CheckRemaining, Nothing, PeerRequest
<1>2. pc[s] \in {"loop", "select"}
  BY DEF CheckRemaining, Nothing, PeerRequest
<1>3. RestOK' /\ BitfieldOK(bf)' /\ UNCHANGED tried
  BY <1>1 DEF Inv, RestOK, fileVars
<1>4. TaskOf(s) /\ Shape /\ stream[s] \in {"open", "broken", "ended"}
  BY TaskFacts
<1>5. CASE \E l \in {"exited", "panicked"} : End(s, l)
  <2>1. PICK l \in {"exited", "panicked"} : End(s, l)
    BY <1>5
  <2>2. Only(s) /\ d'[s] = new /\ pc'[s] = l /\ todo'[s] = {} /\ handling'[s] = NoPiece
    BY <1>1, <1>4, <2>1 DEF End, Goto, Only, Shape
  <2>3. stream'[s] = stream[s]
    BY <1>1
  <2>4. TaskOf(s)'
    BY <1>4, <2>2, <2>3, EndedOK DEF TaskOf, TaskPcs, Running
  <2> QED
    BY <1>2, <1>3, <2>2, <2>4, SeedMoves
<1>6. CASE \E l \in {"select", "loop"} : Goto(s, l) /\ UNCHANGED <<d, todo, handling>>
  <2>1. PICK l \in {"select", "loop"} : Goto(s, l) /\ UNCHANGED <<d, todo, handling>>
    BY <1>6
  <2>2. Only(s) /\ pc'[s] = l
    BY <1>1, <1>4, <2>1 DEF Goto, Only, Shape
  <2>3. TaskOf(s)'
    BY <1>1, <1>2, <1>4, <2>1, <2>2 DEF TaskOf, TaskOK, TaskPcs, Running
  <2> QED
    BY <1>2, <1>3, <2>2, <2>3, SeedMoves
<1> QED
  BY <1>5, <1>6 DEF CheckRemaining, Nothing, PeerRequest

\* (mod.rs:308-337)
LEMMA ChokeInv ==
  ASSUME Inv, NEW s \in Peers, Choke(s)
  PROVE  Inv'
<1> DEFINE c == choke(d[s])
<1>1. TaskOf(s) /\ LocalOK(d[s]) /\ Shape /\ stream[s] \in {"open", "broken", "ended"}
  BY TaskFacts
<1>2. LocalOK(c) /\ c.pending_blocks = {}
  BY <1>1, ChokeOK
<1>3. Only(s) /\ d'[s] = c /\ pc'[s] = "loop" /\ todo'[s] = todo[s]
      /\ handling'[s] = handling[s] /\ stream'[s] = stream[s]
  BY <1>1 DEF Choke, Goto, Only, Shape
<1>4. \A p \in pending(c) : p \in Pieces /\ c.pending_pieces[p].remaining_blocks # 0
  <2>1. ASSUME NEW p \in pending(c)
        PROVE  p \in Pieces /\ c.pending_pieces[p].remaining_blocks # 0
    <3>1. p \in Pieces
      BY <1>2 DEF LocalOK, IsDownloader, IsPieceMap, pending
    <3>2. c.pending_pieces[p].remaining_blocks = NumBlocks[p]
      BY DEF choke, pending
    <3> QED
      BY <3>1, <3>2, NumBlocksPositive
  <2> QED
    BY <2>1
<1>5. todo[s] = {} /\ pc[s] = "select"
  BY <1>1 DEF Choke, TaskOf, TaskOK
<1> HIDE DEF c
<1>6. TaskOf(s)'
  BY <1>1, <1>2, <1>3, <1>4, <1>5 DEF TaskOf, TaskOK, TaskPcs, Running
<1>7. chokes' \in [Peers -> 0..MaxChokes]
  BY PeersAssumption DEF Choke, Inv, RestOK
<1>8. RestOK' /\ BitfieldOK(bf)' /\ UNCHANGED tried
  BY <1>7 DEF Choke, Inv, RestOK, fileVars
<1> QED
  BY <1>3, <1>5, <1>6, <1>8, SeedMoves

LEMMA UnchokeInv ==
  ASSUME Inv, NEW s \in Peers, Unchoke(s)
  PROVE  Inv'
<1> DEFINE c == unchoke(d[s])
<1>1. TaskOf(s) /\ LocalOK(d[s]) /\ Shape /\ stream[s] \in {"open", "broken", "ended"}
  BY TaskFacts
<1>2. LocalOK(c)
  BY <1>1, UnchokeOK
<1>3. c.pending_pieces = d[s].pending_pieces /\ c.pending_blocks = d[s].pending_blocks
  BY DEF unchoke
<1> HIDE DEF c
<1>4. /\ pc[s] = "select"
      /\ Only(s) /\ d'[s] = c /\ handling'[s] = handling[s] /\ stream'[s] = stream[s]
      /\ pc'[s] = Requesting(c, Unrequested(c))
      /\ todo'[s] = IF c.choked_us THEN {} ELSE Unrequested(c)
  BY <1>1 DEF Unchoke, RequestPieces, Goto, Only, Shape, c
<1>5. /\ \A p \in pending(c) : c.pending_pieces[p].remaining_blocks # 0
      /\ stream[s] = "open" => \A x \in c.pending_blocks : x[1] \in pending(c)
      /\ handling[s] \in Pieces \cup {NoPiece}
  BY <1>1, <1>3, <1>4 DEF TaskOf, TaskOK, pending
<1>6. TaskOf(s)'
  BY <1>1, <1>2, <1>4, <1>5, RequestPiecesOK DEF TaskOf
<1>7. RestOK' /\ BitfieldOK(bf)' /\ UNCHANGED tried
  BY DEF Unchoke, Inv, RestOK, fileVars
<1> QED
  BY <1>4, <1>6, <1>7, SeedMoves

\* (mod.rs:374-410)
LEMMA ReceiveInv ==
  ASSUME Inv, NEW s \in Peers, NEW p, NEW b, NEW good \in BOOLEAN, ReceiveBlock(s, p, b, good)
  PROVE  Inv'
<1> DEFINE c == receive(d[s], p, b, good)
           left == c.pending_pieces[p].remaining_blocks
<1>1. TaskOf(s) /\ LocalOK(d[s]) /\ Shape /\ stream[s] \in {"open", "broken", "ended"}
  BY TaskFacts
<1>2. /\ pc[s] = "select" /\ p \in pending(d[s]) /\ <<p, b>> \in d[s].pending_blocks
      /\ UNCHANGED <<bf, chan, fileVars, stream, chokes>>
  BY DEF ReceiveBlock
<1>3. LocalOK(c)
  BY <1>1, <1>2, ReceiveOK
<1>4. /\ pending(c) = pending(d[s])
      /\ c.pending_blocks \subseteq d[s].pending_blocks
      /\ \A q \in pending(c) : q # p => c.pending_pieces[q] = d[s].pending_pieces[q]
  BY <1>2 DEF receive, put, pending
<1>5. p \in Pieces
  BY <1>1, <1>2 DEF LocalOK, IsDownloader, IsPieceMap, pending
<1>6. RestOK' /\ BitfieldOK(bf)' /\ UNCHANGED tried
  BY <1>2 DEF Inv, RestOK, fileVars
<1>7. /\ todo[s] = {} /\ handling[s] \in Pieces \cup {NoPiece}
      /\ \A q \in pending(c) : q # p => c.pending_pieces[q].remaining_blocks # 0
      /\ stream[s] = "open" => \A x \in c.pending_blocks : x[1] \in pending(c)
  BY <1>1, <1>2, <1>4 DEF TaskOf, TaskOK
<1>8. IF left = 0
      THEN /\ d' = [d EXCEPT ![s] = c]
           /\ handling' = [handling EXCEPT ![s] = p]
           /\ Goto(s, "complete") /\ UNCHANGED todo
      ELSE RequestPieces(s, c) /\ UNCHANGED handling
  BY DEF ReceiveBlock
<1> HIDE DEF c
<1>9. CASE left = 0
  <2>1. /\ Only(s) /\ d'[s] = c /\ pc'[s] = "complete" /\ todo'[s] = todo[s]
        /\ handling'[s] = p /\ stream'[s] = stream[s]
    BY <1>1, <1>2, <1>8, <1>9 DEF Goto, Only, Shape
  <2>2. TaskOf(s)'
    BY <1>1, <1>2, <1>3, <1>4, <1>5, <1>7, <1>9, <2>1 DEF TaskOf, TaskOK, TaskPcs, Running
  <2> QED
    BY <1>2, <1>6, <2>1, <2>2, SeedMoves
<1>10. CASE left # 0
  <2>1. /\ Only(s) /\ d'[s] = c /\ handling'[s] = handling[s] /\ stream'[s] = stream[s]
        /\ pc'[s] = Requesting(c, Unrequested(c))
        /\ todo'[s] = IF c.choked_us THEN {} ELSE Unrequested(c)
    BY <1>1, <1>2, <1>8, <1>10 DEF RequestPieces, Goto, Only, Shape
  <2>2. \A q \in pending(c) : c.pending_pieces[q].remaining_blocks # 0
    BY <1>7, <1>10
  <2>3. TaskOf(s)'
    BY <1>1, <1>3, <1>7, <2>1, <2>2, RequestPiecesOK DEF TaskOf
  <2> QED
    BY <1>2, <1>6, <2>1, <2>3, SeedMoves
<1> QED
  BY <1>9, <1>10

\* (mod.rs:389-391)
LEMMA OrphanInv ==
  ASSUME Inv, NEW s \in Peers, NEW p, NEW b, ReceiveOrphan(s, p, b)
  PROVE  Inv'
<1> DEFINE c == receive_orphan(d[s], p, b)
<1>1. TaskOf(s) /\ LocalOK(d[s]) /\ Shape /\ stream[s] \in {"open", "broken", "ended"}
  BY TaskFacts
<1>2. pc[s] = "select" /\ p \notin pending(d[s])
  BY DEF ReceiveOrphan
<1>3. LocalOK(c)
  BY <1>1, <1>2, ReceiveOrphanOK
<1>4. /\ c.pending_pieces = d[s].pending_pieces
      /\ c.pending_blocks \subseteq d[s].pending_blocks
      /\ c.choked_us = d[s].choked_us
  BY DEF receive_orphan
<1>5. /\ Only(s) /\ d'[s] = c /\ pc'[s] = "loop" /\ todo'[s] = todo[s]
      /\ handling'[s] = handling[s] /\ stream'[s] = stream[s]
  BY <1>1 DEF ReceiveOrphan, Goto, Only, Shape
<1> HIDE DEF c
<1>6. TaskOf(s)'
  BY <1>1, <1>2, <1>3, <1>4, <1>5
     DEF TaskOf, TaskOK, TaskPcs, Running, pending, Unrequested
<1>7. RestOK' /\ BitfieldOK(bf)' /\ UNCHANGED tried
  BY DEF ReceiveOrphan, Inv, RestOK, fileVars
<1> QED
  BY <1>2, <1>5, <1>6, <1>7, SeedMoves

\* A task that ends in good order leaves nothing to keep.
LEMMA EndMoves ==
  ASSUME Inv, NEW s \in Peers, pc[s] # "untried", NEW l \in {"exited", "panicked"},
         End(s, l), stream' = [stream EXCEPT ![s] = stream'[s]],
         stream'[s] \in {"open", "broken", "ended"},
         UNCHANGED tried, RestOK', BitfieldOK(bf)'
  PROVE  Inv'
<1>1. Shape
  BY TaskFacts DEF Inv
<1>2. Only(s) /\ d'[s] = new /\ pc'[s] = l /\ todo'[s] = {} /\ handling'[s] = NoPiece
  BY <1>1 DEF End, Goto, Only, Shape
<1>3. TaskOf(s)'
  BY <1>2, EndedOK DEF TaskOf, TaskPcs, Running
<1> QED
  BY <1>2, <1>3, SeedMoves

\* (mod.rs:405-427)
LEMMA CompleteInv ==
  ASSUME Inv, NEW s \in Peers, Complete(s)
  PROVE  Inv'
<1> DEFINE p == handling[s]
           c == complete(d[s], p)
<1>1. TaskOf(s) /\ LocalOK(d[s]) /\ Shape /\ stream[s] \in {"open", "broken", "ended"}
  BY TaskFacts
<1>2. pc[s] = "complete" /\ bf' = set(bf, p) /\ UNCHANGED <<fileVars, stream, chokes>>
  BY DEF Complete
<1>3. p \in pending(d[s]) /\ d[s].pending_pieces[p].remaining_blocks = 0 /\ todo[s] = {}
  BY <1>1, <1>2 DEF TaskOf, TaskOK
<1>4. p \in Pieces
  BY <1>1, <1>3 DEF LocalOK, IsDownloader, IsPieceMap, pending
<1>5. BitfieldOK(bf)'
  BY <1>2, <1>4, SetOK DEF Inv
<1>6. PieceMsg(s, p) \in DownloaderMsg
  BY <1>4 DEF PieceMsg, DownloaderMsg
<1>7. chan' \in Seq(DownloaderMsg)
  <2>1. chan' = chan \/ chan' = Append(chan, PieceMsg(s, p))
    BY DEF Complete
  <2> QED
    BY <1>6, <2>1, AppendProperties DEF Inv, RestOK
<1>8. RestOK' /\ UNCHANGED tried
  BY <1>2, <1>7 DEF Inv, RestOK, fileVars
<1>9. CASE End(s, "panicked")
  <2>1. stream' = [stream EXCEPT ![s] = stream'[s]] /\ stream'[s] = stream[s]
    BY <1>1, <1>2 DEF Shape
  <2> QED
    BY <1>1, <1>2, <1>5, <1>8, <1>9, <2>1, EndMoves
<1>10. CASE /\ d' = [d EXCEPT ![s] = c]
            /\ handling' = [handling EXCEPT ![s] = NoPiece]
            /\ \E l \in {"send", "loop"} : Goto(s, l)
            /\ UNCHANGED todo
  <2>1. PICK l \in {"send", "loop"} : Goto(s, l)
    BY <1>10
  <2>2. LocalOK(c) /\ pending(c) = pending(d[s]) \ {p}
    BY <1>1, CompleteOK
  <2>3. PendingOf(d[s], p) = {}
    BY <1>1, <1>3, NothingLeft
  <2>4. /\ c.pending_blocks = d[s].pending_blocks
        /\ \A q \in pending(c) : c.pending_pieces[q] = d[s].pending_pieces[q]
    BY <2>2 DEF complete, pending
  <2> HIDE DEF c
  <2>5. \A q \in pending(c) : c.pending_pieces[q].remaining_blocks # 0
    BY <1>1, <2>2, <2>4 DEF TaskOf, TaskOK
  <2>6. stream[s] = "open" => \A x \in c.pending_blocks : x[1] \in pending(c)
    BY <1>1, <2>2, <2>3, <2>4 DEF TaskOf, TaskOK, PendingOf
  <2>7. /\ Only(s) /\ d'[s] = c /\ pc'[s] = l /\ todo'[s] = {}
        /\ handling'[s] = NoPiece /\ stream'[s] = stream[s]
    BY <1>1, <1>2, <1>3, <1>10, <2>1 DEF Goto, Only, Shape
  <2>8. TaskOf(s)'
    BY <1>1, <2>2, <2>5, <2>6, <2>7 DEF TaskOf, TaskOK, TaskPcs, Running
  <2> QED
    BY <1>2, <1>5, <1>8, <2>7, <2>8, SeedMoves
<1> QED
  BY <1>9, <1>10 DEF Complete

\* (mod.rs:429)
LEMMA PieceSentInv ==
  ASSUME Inv, NEW s \in Peers, PieceSent(s)
  PROVE  Inv'
<1> DEFINE c == d[s]
<1>1. TaskOf(s) /\ LocalOK(d[s]) /\ Shape /\ stream[s] \in {"open", "broken", "ended"}
  BY TaskFacts
<1>2. /\ pc[s] = "send"
      /\ Only(s) /\ d'[s] = c /\ handling'[s] = handling[s] /\ stream'[s] = stream[s]
      /\ pc'[s] = Requesting(c, Unrequested(c))
      /\ todo'[s] = IF c.choked_us THEN {} ELSE Unrequested(c)
  BY <1>1 DEF PieceSent, RequestPieces, Goto, Only, Shape
<1>3. /\ \A p \in pending(c) : c.pending_pieces[p].remaining_blocks # 0
      /\ stream[s] = "open" => \A x \in c.pending_blocks : x[1] \in pending(c)
      /\ handling[s] \in Pieces \cup {NoPiece}
  BY <1>1, <1>2 DEF TaskOf, TaskOK
<1>4. TaskOf(s)'
  BY <1>1, <1>2, <1>3, RequestPiecesOK DEF TaskOf
<1>5. RestOK' /\ BitfieldOK(bf)' /\ UNCHANGED tried
  BY DEF PieceSent, Inv, RestOK, fileVars
<1> QED
  BY <1>2, <1>4, <1>5, SeedMoves

\* The stream fails or ends (mod.rs:263-295).
LEMMA StreamInv ==
  ASSUME Inv, NEW s \in Peers, KeepAliveFails(s) \/ ReadError(s) \/ StreamEnds(s) \/ DisconnectSent(s)
  PROVE  Inv'
<1>1. TaskOf(s) /\ LocalOK(d[s]) /\ Shape /\ stream[s] \in {"open", "broken", "ended"}
  BY TaskFacts
<1>2. pc[s] \in {"select", "disconnect"} /\ UNCHANGED <<bf, fileVars, chokes>>
  BY DEF KeepAliveFails, ReadError, StreamEnds, DisconnectSent
<1>3. DisconnectMsg(s) \in DownloaderMsg
  BY DEF DisconnectMsg, DownloaderMsg
<1>4. chan' \in Seq(DownloaderMsg)
  <2>1. chan' = chan \/ chan' = Append(chan, DisconnectMsg(s))
    BY DEF KeepAliveFails, ReadError, StreamEnds, DisconnectSent
  <2> QED
    BY <1>3, <2>1, AppendProperties DEF Inv, RestOK
<1>5. RestOK' /\ BitfieldOK(bf)' /\ UNCHANGED tried
  BY <1>2, <1>4 DEF Inv, RestOK, fileVars
<1>6. /\ stream' = [stream EXCEPT ![s] = stream'[s]]
      /\ stream'[s] \in {"open", "broken", "ended"}
      /\ stream'[s] = "open" => stream[s] = "open"
  BY <1>1 DEF KeepAliveFails, ReadError, StreamEnds, DisconnectSent, Shape
<1>7. CASE End(s, "exited")
  BY <1>2, <1>5, <1>6, <1>7, EndMoves
<1>8. CASE \E l \in {"loop", "disconnect"} : Goto(s, l) /\ UNCHANGED <<d, todo, handling>>
  <2>1. PICK l \in {"loop", "disconnect"} : Goto(s, l) /\ UNCHANGED <<d, todo, handling>>
    BY <1>8
  <2>2. Only(s) /\ pc'[s] = l
    BY <1>1, <1>6, <2>1 DEF Goto, Only, Shape
  <2>3. TaskOf(s)'
    BY <1>1, <1>2, <1>6, <2>1, <2>2 DEF TaskOf, TaskOK, TaskPcs, Running
  <2> QED
    BY <1>2, <1>5, <2>2, <2>3, SeedMoves
<1> QED
  BY <1>7, <1>8 DEF KeepAliveFails, ReadError, StreamEnds, DisconnectSent

\* request_blocks asks for no more blocks than the piece has left (mod.rs:556).
LEMMA BatchFits ==
  ASSUME NEW dl, dl.inflight \in Nat, NEW left \in Nat
  PROVE  Batch(dl, left) \in 0..left
<1>1. MAX_INFLIGHT_PER_PEER \in Nat
  BY MaxInflightAssumption DEF U8Max
<1> QED
  BY <1>1 DEF Batch

\* What one batch of requests for a piece under way does to the pieces and the
\* requests (mod.rs:542-585): c is dl after it.
AskedFor(c, dl, p) ==
    /\ LocalOK(c)
    /\ pending(c) = pending(dl)
    /\ c.choked_us = dl.choked_us
    /\ \A q \in pending(c) :
          /\ c.pending_pieces[q].remaining_blocks = dl.pending_pieces[q].remaining_blocks
          /\ q # p => c.pending_pieces[q] = dl.pending_pieces[q]
    /\ \A x \in c.pending_blocks : x \in dl.pending_blocks \/ x[1] = p

LEMMA RequestBlocksIs ==
  ASSUME NEW dl, LocalOK(dl), NEW p \in pending(dl), NEW k \in Nat,
         k <= NumBlocks[p] - dl.pending_pieces[p].requested
  PROVE  AskedFor(request_blocks(dl, p, k), dl, p)
<1> DEFINE c == request_blocks(dl, p, k)
           e == dl.pending_pieces[p]
<1>1. p \in Pieces /\ e \in PieceDownloads
  BY DEF LocalOK, IsDownloader, IsPieceMap, pending
<1>2. NumBlocks[p] \in Nat /\ e.requested \in Nat
  BY <1>1, NumBlocksPositive DEF PieceDownloads
<1>3. LocalOK(c)
  <2>1. e.requested + k <= NumBlocks[p]
    BY <1>2
  <2> QED
    BY <2>1, RequestBlocksOK
<1>4. /\ c.pending_pieces = put(dl.pending_pieces, p, Advanced(e, k))
      /\ c.choked_us = dl.choked_us
      /\ c.pending_blocks = dl.pending_blocks \cup NextBlocks(e, p, k)
  BY DEF request_blocks, requests_sent
<1>5. \A x \in NextBlocks(e, p, k) : x[1] = p
  BY DEF NextBlocks
<1> HIDE DEF c
<1>6. /\ pending(c) = pending(dl)
      /\ c.pending_pieces[p] = Advanced(e, k)
      /\ \A q \in pending(c) : q # p => c.pending_pieces[q] = dl.pending_pieces[q]
  BY <1>4 DEF put, pending
<1>7. Advanced(e, k).remaining_blocks = e.remaining_blocks
  BY DEF Advanced
<1> QED
  BY <1>3, <1>4, <1>5, <1>6, <1>7 DEF c, AskedFor

\* The task that asks for the rest of piece p of its list (mod.rs:448-467).
LEMMA RequestFacts ==
  ASSUME Inv, NEW s \in Peers, NEW p \in todo[s], pc[s] = "request"
  PROVE  LET left == NumBlocks[p] - d[s].pending_pieces[p].requested
         IN  /\ p \in pending(d[s])
             /\ left \in Nat /\ left > 0
             /\ Batch(d[s], left) \in 0..left
             /\ ~d[s].choked_us
             /\ \A q \in pending(d[s]) : d[s].pending_pieces[q].remaining_blocks # 0
             /\ handling[s] \in Pieces \cup {NoPiece}
<1> DEFINE e == d[s].pending_pieces[p]
<1>1. TaskOf(s) /\ LocalOK(d[s])
  BY TaskFacts
<1>2. todo[s] \subseteq Unrequested(d[s])
  BY <1>1 DEF TaskOf, TaskOK
<1>3. p \in pending(d[s]) /\ e.requested < NumBlocks[p]
  BY <1>2 DEF Unrequested
<1>4. p \in Pieces /\ e \in PieceDownloads /\ d[s].inflight \in Nat
  BY <1>1, <1>3 DEF LocalOK, IsDownloader, IsPieceMap, pending
<1>5. NumBlocks[p] \in Nat /\ e.requested \in Nat
  BY <1>4, NumBlocksPositive DEF PieceDownloads
<1>6. NumBlocks[p] - e.requested \in Nat /\ NumBlocks[p] - e.requested > 0
  BY <1>3, <1>5
<1>7. Batch(d[s], NumBlocks[p] - e.requested) \in 0..(NumBlocks[p] - e.requested)
  BY <1>4, <1>6, BatchFits
<1>8. /\ ~d[s].choked_us
      /\ \A q \in pending(d[s]) : d[s].pending_pieces[q].remaining_blocks # 0
      /\ handling[s] \in Pieces \cup {NoPiece}
  BY <1>1 DEF TaskOf, TaskOK
<1> QED
  BY <1>3, <1>6, <1>7, <1>8

LEMMA RequestPendingInv ==
  ASSUME Inv, NEW s \in Peers, NEW p, RequestPending(s, p)
  PROVE  Inv'
<1> DEFINE left == NumBlocks[p] - d[s].pending_pieces[p].requested
           k == Batch(d[s], left)
           c == request_blocks(d[s], p, k)
           rest == todo[s] \ {p}
<1>1. TaskOf(s) /\ LocalOK(d[s]) /\ Shape /\ stream[s] \in {"open", "broken", "ended"}
  BY TaskFacts
<1>2. /\ pc[s] = "request" /\ p \in todo[s] /\ stream[s] = "open"
      /\ UNCHANGED <<bf, chan, fileVars, stream, chokes>>
  BY DEF RequestPending
<1>3. /\ p \in pending(d[s]) /\ left \in Nat /\ k \in 0..left
      /\ ~d[s].choked_us
      /\ \A q \in pending(d[s]) : d[s].pending_pieces[q].remaining_blocks # 0
      /\ handling[s] \in Pieces \cup {NoPiece}
  BY <1>2, RequestFacts
<1>4. RestOK' /\ BitfieldOK(bf)' /\ UNCHANGED tried
  BY <1>2 DEF Inv, RestOK, fileVars
<1>5. \/ End(s, "panicked")
      \/ /\ d' = [d EXCEPT ![s] = c]
         /\ todo' = [todo EXCEPT ![s] = rest]
         /\ Goto(s, Requesting(c, rest))
         /\ UNCHANGED handling
  BY DEF RequestPending
<1>6. CASE End(s, "panicked")
  <2>1. stream' = [stream EXCEPT ![s] = stream'[s]] /\ stream'[s] = stream[s]
    BY <1>1, <1>2 DEF Shape
  <2> QED
    BY <1>1, <1>2, <1>4, <1>6, <2>1, EndMoves
<1>7. CASE /\ d' = [d EXCEPT ![s] = c]
           /\ todo' = [todo EXCEPT ![s] = rest]
           /\ Goto(s, Requesting(c, rest))
           /\ UNCHANGED handling
  <2>1. k \in Nat /\ k <= left
    BY <1>3
  <2>2. /\ LocalOK(c)
        /\ pending(c) = pending(d[s])
        /\ c.choked_us = d[s].choked_us
        /\ \A q \in pending(c) :
              /\ c.pending_pieces[q].remaining_blocks = d[s].pending_pieces[q].remaining_blocks
              /\ q # p => c.pending_pieces[q] = d[s].pending_pieces[q]
        /\ \A x \in c.pending_blocks : x \in d[s].pending_blocks \/ x[1] = p
    <3>1. LocalOK(d[s]) /\ p \in pending(d[s])
          /\ k <= NumBlocks[p] - d[s].pending_pieces[p].requested
      BY ONLY <1>1, <1>3, <2>1
    <3> HIDE DEF k
    <3>2. AskedFor(c, d[s], p)
      BY <2>1, <3>1, RequestBlocksIs
    <3> HIDE DEF c
    <3> QED
      BY ONLY <3>2 DEF AskedFor
  <2> HIDE DEF c
  <2>3. todo[s] \subseteq Unrequested(d[s])
        /\ \A x \in d[s].pending_blocks : x[1] \in pending(d[s])
    BY <1>1, <1>2 DEF TaskOf, TaskOK
  <2>4. rest \subseteq Unrequested(c)
    BY <2>2, <2>3 DEF Unrequested
  <2>5. \A x \in c.pending_blocks : x[1] \in pending(c)
    BY <1>3, <2>2, <2>3
  <2>6. \A q \in pending(c) : c.pending_pieces[q].remaining_blocks # 0
    BY <1>3, <2>2
  <2>7. /\ Only(s) /\ d'[s] = c /\ pc'[s] = Requesting(c, rest) /\ todo'[s] = rest
        /\ handling'[s] = handling[s] /\ stream'[s] = stream[s]
    BY <1>1, <1>2, <1>7 DEF Goto, Only, Shape
  <2>8. TaskOK(c, Requesting(c, rest), IF c.choked_us THEN {} ELSE rest, handling[s], stream[s])
    BY <1>1, <1>3, <2>2, <2>4, <2>5, <2>6, RequestPiecesOK
  <2>9. TaskOf(s)'
    BY <1>3, <2>2, <2>7, <2>8 DEF TaskOf
  <2> QED
    BY <1>2, <1>4, <2>7, <2>9, SeedMoves
<1> QED
  BY <1>5, <1>6, <1>7

LEMMA RequestFailsInv ==
  ASSUME Inv, NEW s \in Peers, NEW p, RequestPendingFails(s, p)
  PROVE  Inv'
<1> DEFINE left == NumBlocks[p] - d[s].pending_pieces[p].requested
<1>1. TaskOf(s) /\ LocalOK(d[s]) /\ Shape /\ stream[s] \in {"open", "broken", "ended"}
  BY TaskFacts
<1>2. /\ pc[s] = "request" /\ p \in todo[s]
      /\ stream' = [stream EXCEPT ![s] = "broken"]
      /\ todo' = [todo EXCEPT ![s] = {}]
      /\ Goto(s, "loop")
      /\ UNCHANGED <<bf, chan, fileVars, handling, chokes>>
  BY DEF RequestPendingFails
<1>3. PICK k \in 0..(Batch(d[s], left) - 1) : d' = [d EXCEPT ![s] = request_blocks(@, p, k)]
  BY DEF RequestPendingFails
<1> DEFINE c == request_blocks(d[s], p, k)
<1>4. /\ p \in pending(d[s]) /\ left \in Nat /\ Batch(d[s], left) \in 0..left
      /\ \A q \in pending(d[s]) : d[s].pending_pieces[q].remaining_blocks # 0
      /\ handling[s] \in Pieces \cup {NoPiece}
  BY <1>2, RequestFacts
<1>5. k \in Nat /\ k <= left
  BY <1>3, <1>4
<1>6. /\ LocalOK(c)
      /\ pending(c) = pending(d[s])
      /\ \A q \in pending(c) :
            c.pending_pieces[q].remaining_blocks = d[s].pending_pieces[q].remaining_blocks
  <2>1. AskedFor(c, d[s], p)
    BY <1>1, <1>4, <1>5, RequestBlocksIs
  <2> HIDE DEF c
  <2> QED
    BY ONLY <2>1 DEF AskedFor
<1>7. /\ Only(s) /\ d'[s] = c /\ pc'[s] = "loop" /\ todo'[s] = {}
      /\ handling'[s] = handling[s] /\ stream'[s] = "broken"
  BY <1>1, <1>2, <1>3 DEF Goto, Only, Shape
<1> HIDE DEF c
<1>8. TaskOf(s)'
  BY <1>4, <1>6, <1>7 DEF TaskOf, TaskOK, TaskPcs, Running
<1>9. RestOK' /\ BitfieldOK(bf)' /\ UNCHANGED tried
  BY <1>2 DEF Inv, RestOK, fileVars
<1> QED
  BY <1>2, <1>7, <1>8, <1>9, SeedMoves

\* The task that has picked piece p and finds it new (mod.rs:480-496).
LEMMA PickFacts ==
  ASSUME Inv, NEW s \in Peers, pc[s] = "pick", pick_some(bf), Picked(bf) \notin pending(d[s])
  PROVE  LET p == Picked(bf)
         IN  /\ p \in Pieces /\ NumBlocks[p] \in Nat /\ NumBlocks[p] > 0
             /\ Batch(d[s], NumBlocks[p]) \in 0..NumBlocks[p]
             /\ BitfieldOK(pick_piece(bf))
             /\ stream[s] = "open" => PendingOf(d[s], p) = {}
             /\ todo[s] = {}
             /\ \A q \in pending(d[s]) : d[s].pending_pieces[q].remaining_blocks # 0
             /\ handling[s] \in Pieces \cup {NoPiece}
<1> DEFINE p == Picked(bf)
<1>1. TaskOf(s) /\ LocalOK(d[s])
  BY TaskFacts
<1>2. p \in Pieces /\ BitfieldOK(pick_piece(bf))
  BY PickOK DEF Inv
<1>3. NumBlocks[p] \in Nat /\ NumBlocks[p] > 0
  BY <1>2, NumBlocksPositive
<1>4. d[s].inflight \in Nat
  BY <1>1 DEF LocalOK, IsDownloader
<1>5. Batch(d[s], NumBlocks[p]) \in 0..NumBlocks[p]
  BY <1>3, <1>4, BatchFits
<1>6. stream[s] = "open" => PendingOf(d[s], p) = {}
  BY <1>1 DEF TaskOf, TaskOK, PendingOf
<1>7. /\ todo[s] = {}
      /\ \A q \in pending(d[s]) : d[s].pending_pieces[q].remaining_blocks # 0
      /\ handling[s] \in Pieces \cup {NoPiece}
  BY <1>1 DEF TaskOf, TaskOK
<1> QED
  BY <1>2, <1>3, <1>5, <1>6, <1>7

LEMMA PickNothingInv ==
  ASSUME Inv, NEW s \in Peers, PickNothing(s)
  PROVE  Inv'
<1>1. TaskOf(s) /\ Shape
  BY TaskFacts
<1>2. pc[s] = "pick" /\ Goto(s, "loop")
      /\ UNCHANGED <<chan, fileVars, d, todo, handling, stream, chokes>>
  BY DEF PickNothing
<1>3. BitfieldOK(bf)'
  <2>1. bf' = bf \/ (pick_some(bf) /\ bf' = pick_piece(bf))
    BY DEF PickNothing
  <2> QED
    BY <2>1, PickOK DEF Inv
<1>4. Only(s) /\ pc'[s] = "loop"
  BY <1>1, <1>2 DEF Goto, Only, Shape
<1>5. TaskOf(s)'
  BY <1>1, <1>2, <1>4 DEF TaskOf, TaskOK, TaskPcs, Running
<1>6. RestOK' /\ UNCHANGED tried
  BY <1>2 DEF Inv, RestOK, fileVars
<1> QED
  BY <1>2, <1>3, <1>4, <1>5, <1>6, SeedMoves

LEMMA PickPieceInv ==
  ASSUME Inv, NEW s \in Peers, PickPiece(s)
  PROVE  Inv'
<1> DEFINE p == Picked(bf)
           k == Batch(d[s], NumBlocks[p])
           c == request_new(d[s], p, k)
<1>1. TaskOf(s) /\ LocalOK(d[s]) /\ Shape
  BY TaskFacts
<1>2. /\ pc[s] = "pick" /\ pick_some(bf) /\ p \notin pending(d[s]) /\ stream[s] = "open"
      /\ bf' = pick_piece(bf) /\ d' = [d EXCEPT ![s] = c] /\ Goto(s, "loop")
      /\ UNCHANGED <<chan, fileVars, todo, handling, stream, chokes>>
  BY DEF PickPiece
<1>3. /\ p \in Pieces /\ NumBlocks[p] \in Nat /\ NumBlocks[p] > 0
      /\ k \in 0..NumBlocks[p]
      /\ BitfieldOK(pick_piece(bf))
      /\ PendingOf(d[s], p) = {}
      /\ todo[s] = {}
      /\ \A q \in pending(d[s]) : d[s].pending_pieces[q].remaining_blocks # 0
      /\ handling[s] \in Pieces \cup {NoPiece}
  BY <1>2, PickFacts
<1>4. LocalOK(c)
  <2>1. k \in Nat /\ k <= NumBlocks[p]
    BY <1>3
  <2> QED
    BY <1>1, <1>3, <2>1, RequestNewOK
<1>5. /\ c.pending_pieces = put(d[s].pending_pieces, p, Advanced(NewPiece(p), k))
      /\ c.pending_blocks = d[s].pending_blocks \cup NextBlocks(NewPiece(p), p, k)
      /\ Advanced(NewPiece(p), k).remaining_blocks = NumBlocks[p]
      /\ \A x \in NextBlocks(NewPiece(p), p, k) : x[1] = p
  BY DEF request_new, requests_sent, Advanced, NewPiece, NextBlocks
<1>6. Only(s) /\ d'[s] = c /\ pc'[s] = "loop" /\ todo'[s] = todo[s]
      /\ handling'[s] = handling[s] /\ stream'[s] = stream[s]
  BY <1>1, <1>2 DEF Goto, Only, Shape
<1> HIDE DEF c
<1>7. /\ pending(c) = pending(d[s]) \cup {p}
      /\ c.pending_pieces[p] = Advanced(NewPiece(p), k)
      /\ \A q \in pending(c) : q # p => c.pending_pieces[q] = d[s].pending_pieces[q]
  BY <1>5 DEF put, pending
<1>8. \A q \in pending(c) : c.pending_pieces[q].remaining_blocks # 0
  BY <1>3, <1>5, <1>7
<1>9. \A x \in c.pending_blocks : x[1] \in pending(c)
  BY <1>1, <1>2, <1>5, <1>7 DEF TaskOf, TaskOK
<1> HIDE DEF p, k
<1>10. TaskOf(s)'
  BY <1>2, <1>3, <1>4, <1>6, <1>8, <1>9 DEF TaskOf, TaskOK, TaskPcs, Running
<1>11. RestOK' /\ BitfieldOK(bf)' /\ UNCHANGED tried
  BY <1>2, <1>3 DEF Inv, RestOK, fileVars
<1> QED
  BY <1>2, <1>6, <1>10, <1>11, SeedMoves

LEMMA PickFailsInv ==
  ASSUME Inv, NEW s \in Peers, PickPieceFails(s)
  PROVE  Inv'
<1> DEFINE p == Picked(bf)
<1>1. TaskOf(s) /\ LocalOK(d[s]) /\ Shape
  BY TaskFacts
<1>2. /\ pc[s] = "pick" /\ pick_some(bf) /\ p \notin pending(d[s])
      /\ bf' = pick_piece(bf) /\ stream' = [stream EXCEPT ![s] = "broken"] /\ Goto(s, "loop")
      /\ UNCHANGED <<chan, fileVars, todo, handling, chokes>>
  BY DEF PickPieceFails
<1>3. PICK k \in 0..(Batch(d[s], NumBlocks[p]) - 1) :
        /\ WriteFails(s, k)
        /\ d' = [d EXCEPT ![s] = request_new_fails(@, p, k)]
  BY DEF PickPieceFails
<1> DEFINE c == request_new_fails(d[s], p, k)
<1>4. /\ p \in Pieces /\ NumBlocks[p] \in Nat
      /\ Batch(d[s], NumBlocks[p]) \in 0..NumBlocks[p]
      /\ BitfieldOK(pick_piece(bf))
      /\ stream[s] = "open" => PendingOf(d[s], p) = {}
      /\ todo[s] = {}
      /\ \A q \in pending(d[s]) : d[s].pending_pieces[q].remaining_blocks # 0
      /\ handling[s] \in Pieces \cup {NoPiece}
  BY <1>2, PickFacts
<1>5. k \in Nat /\ k <= NumBlocks[p]
  BY <1>3, <1>4
<1>6. LocalOK(c)
  <2>1. CASE stream[s] = "open"
    BY <1>1, <1>2, <1>4, <1>5, <2>1, RequestNewFailsOK
  <2>2. CASE k = 0
    <3>1. NextBlocks(NewPiece(p), p, 0) = {}
      BY DEF NextBlocks, NewPiece
    <3>2. d[s].inflight \in Nat
      BY <1>1 DEF LocalOK, IsDownloader
    <3>3. /\ c.choked_us = d[s].choked_us /\ c.inflight = d[s].inflight
          /\ c.pending_pieces = d[s].pending_pieces
          /\ c.pending_blocks = d[s].pending_blocks
      BY <2>2, <3>1, <3>2 DEF request_new_fails, requests_sent
    <3> HIDE DEF c
    <3>4. /\ pending(c) = pending(d[s])
          /\ \A q \in pending(c) : PendingOf(c, q) = PendingOf(d[s], q)
      BY <3>3 DEF pending, PendingOf
    <3> QED
      BY <1>1, <3>2, <3>3, <3>4, KeepOK DEF LocalOK, IsDownloader
  <2> QED
    BY <1>3, <2>1, <2>2 DEF WriteFails
<1>7. c.pending_pieces = d[s].pending_pieces
  BY DEF request_new_fails, requests_sent
<1>8. Only(s) /\ d'[s] = c /\ pc'[s] = "loop" /\ todo'[s] = todo[s]
      /\ handling'[s] = handling[s] /\ stream'[s] = "broken"
  BY <1>1, <1>2, <1>3 DEF Goto, Only, Shape
<1> HIDE DEF c, p
<1>9. TaskOf(s)'
  BY <1>4, <1>6, <1>7, <1>8 DEF TaskOf, TaskOK, TaskPcs, Running, pending
<1>10. RestOK' /\ BitfieldOK(bf)' /\ UNCHANGED tried
  BY <1>2, <1>4 DEF Inv, RestOK, fileVars, p
<1> QED
  BY <1>2, <1>8, <1>9, <1>10, SeedMoves

-----------------------------------------------------------------------------

LEMMA SeedInv ==
  ASSUME Inv, NEW s \in Peers, Seed(s)
  PROVE  Inv'
<1>1. CASE CheckRemaining(s) \/ Nothing(s) \/ PeerRequest(s)
  BY <1>1, LoopInv
<1>2. CASE Choke(s)
  BY <1>2, ChokeInv
<1>3. CASE Unchoke(s)
  BY <1>3, UnchokeInv
<1>4. CASE \E good \in BOOLEAN : Deliver(s, good)
  <2>1. PICK good \in BOOLEAN, x \in d[s].pending_blocks :
          ReceiveBlock(s, x[1], x[2], good) \/ ReceiveOrphan(s, x[1], x[2])
    BY <1>4 DEF Deliver
  <2> QED
    BY <2>1, ReceiveInv, OrphanInv
<1>5. CASE Complete(s)
  BY <1>5, CompleteInv
<1>6. CASE PieceSent(s)
  BY <1>6, PieceSentInv
<1>7. CASE Request(s)
  BY <1>7, RequestPendingInv, RequestFailsInv DEF Request
<1>8. CASE Pick(s)
  BY <1>8, PickNothingInv, PickPieceInv, PickFailsInv DEF Pick
<1>9. CASE KeepAliveFails(s) \/ ReadError(s) \/ StreamEnds(s) \/ DisconnectSent(s)
  BY <1>9, StreamInv
<1> QED
  BY <1>1, <1>2, <1>3, <1>4, <1>5, <1>6, <1>7, <1>8, <1>9 DEF Seed

LEMMA StutterInv == Inv /\ UNCHANGED vars => Inv'
  BY DEF Inv, Shape, TasksOK, RestOK, UntriedOK, vars, fileVars, seedVars

LEMMA DownloadInductive == Safety => []Inv
<1>1. Inv /\ [Next]_vars => Inv'
  BY FileInv, SeedInv, StutterInv DEF Next, Over
<1> QED
  BY InitInv, <1>1, PTL DEF Safety

-----------------------------------------------------------------------------

\* The state stays well formed: no counter of the tasks becomes negative, every
\* block awaited and every piece under way or in the channel exists, and the
\* bitfield's indices stay in range, whatever the seeds do (mod.rs:99-585).
THEOREM DownloadTypes == Safety => []TypeOK
<1>1. Inv => TypeOK
  <2> SUFFICES ASSUME Inv PROVE TypeOK
    OBVIOUS
  <2>1. ASSUME NEW s \in Peers
        PROVE  /\ IsDownloader(d[s]) /\ pc[s] \in TaskPcs /\ todo[s] \in SUBSET Pieces
               /\ handling[s] \in Pieces \cup {NoPiece}
               /\ stream[s] \in {"open", "broken", "ended"}
    <3>1. TaskOf(s) /\ IsDownloader(d[s])
      BY TaskFacts DEF LocalOK
    <3>2. Unrequested(d[s]) \subseteq Pieces
      BY <3>1 DEF IsDownloader, IsPieceMap, Unrequested, pending
    <3> QED
      BY <3>1, <3>2 DEF TaskOf, TaskOK
  <2>2. /\ pc \in [Peers -> TaskPcs]
        /\ todo \in [Peers -> SUBSET Pieces]
        /\ handling \in [Peers -> Pieces \cup {NoPiece}]
        /\ stream \in [Peers -> {"open", "broken", "ended"}]
    BY <2>1 DEF Inv, Shape
  <2> QED
    BY <2>1, <2>2 DEF Inv, Shape, RestOK, BitfieldOK, TypeOK
<1> QED
  BY <1>1, DownloadInductive, PTL

\* Of every piece under way, what remains is what was not requested plus what was
\* requested and did not arrive, through chokes, failed writes, corrupt blocks and
\* any order of arrival (mod.rs:326-331, 374-392, 542-585).
THEOREM DownloadAccounting == Safety => []AccountingExact
<1>1. Inv => AccountingExact
  BY TaskFacts DEF AccountingExact, LocalOK
<1> QED
  BY <1>1, DownloadInductive, PTL

\* `inflight -= 1' (mod.rs:394) never goes below zero.
THEOREM DownloadInflight == Safety => []InflightCovers
<1>1. Inv => InflightCovers
  BY TaskFacts DEF InflightCovers, LocalOK
<1> QED
  BY <1>1, DownloadInductive, PTL

\* The assertions of the code hold wherever it makes them: no block is requested
\* twice (mod.rs:573-576), no piece enters the map twice (:513), the pieces in the
\* map have something left (:450-451), and the piece just finished is there to be
\* taken out (:413-414).
THEOREM DownloadAssertions == Safety => []AssertionsHold
<1>1. Inv => AssertionsHold
  <2> SUFFICES ASSUME Inv, NEW s \in Peers
               PROVE  /\ pc[s] = "request" =>
                            \A p \in todo[s] :
                                LET dl == d[s].pending_pieces[p]
                                IN  /\ p \in pending(d[s])
                                    /\ dl.requested < NumBlocks[p] /\ dl.remaining_blocks > 0
                                    /\ NextBlocks(dl, p, NumBlocks[p] - dl.requested)
                                          \cap d[s].pending_blocks = {}
                      /\ pc[s] = "pick" /\ stream[s] = "open" =>
                            \A p \in Pieces \ pending(d[s]) : PendingOf(d[s], p) = {}
                      /\ pc[s] = "complete" => handling[s] \in pending(d[s])
    BY DEF AssertionsHold
  <2>1. TaskOf(s) /\ LocalOK(d[s])
    BY TaskFacts
  <2>2. ASSUME pc[s] = "request", NEW p \in todo[s]
        PROVE  LET dl == d[s].pending_pieces[p]
               IN  /\ p \in pending(d[s])
                   /\ dl.requested < NumBlocks[p] /\ dl.remaining_blocks > 0
                   /\ NextBlocks(dl, p, NumBlocks[p] - dl.requested)
                         \cap d[s].pending_blocks = {}
    <3> DEFINE dl == d[s].pending_pieces[p]
               left == NumBlocks[p] - dl.requested
    <3>1. p \in pending(d[s]) /\ left \in Nat /\ left > 0 /\ dl.remaining_blocks # 0
      BY <2>2, RequestFacts
    <3>2. /\ p \in Pieces /\ dl \in PieceDownloads
          /\ PieceAccounted(dl, PendingOf(d[s], p), NumBlocks[p])
      BY <2>1, <3>1 DEF LocalOK, IsDownloader, IsPieceMap, Accounted, pending
    <3>3. dl.requested \in Nat /\ dl.remaining_blocks \in Nat /\ NumBlocks[p] \in Nat
      BY <3>2, NumBlocksPositive DEF PieceDownloads
    <3>4. dl.requested < NumBlocks[p] /\ dl.remaining_blocks > 0
          /\ dl.requested + left <= NumBlocks[p]
      BY <3>1, <3>3
    <3>5. \A x \in PendingOf(d[s], p) : x[2] < dl.requested
      BY <3>2 DEF PieceAccounted
    <3> HIDE DEF dl, left
    <3>6. NextBlocks(dl, p, left) \cap d[s].pending_blocks = {}
      BY <2>1, <3>1, <3>2, <3>3, <3>4, <3>5, NextBlocksFresh
    <3> QED
      BY <3>1, <3>4, <3>6 DEF dl, left
  <2>3. pc[s] = "pick" /\ stream[s] = "open" =>
            \A p \in Pieces \ pending(d[s]) : PendingOf(d[s], p) = {}
    BY <2>1 DEF TaskOf, TaskOK, PendingOf
  <2>4. pc[s] = "complete" => handling[s] \in pending(d[s])
    BY <2>1 DEF TaskOf, TaskOK
  <2> QED
    BY <2>2, <2>3, <2>4
<1> QED
  BY <1>1, DownloadInductive, PTL

-----------------------------------------------------------------------------
(* What one seed's task may rely on: a seed that has choked us owes us nothing, a     *)
(* seed that sends the right content passes validation, and a seed that serves is     *)
(* asked for no more than the limit.  With Inv each is inductive: the content of      *)
(* every block that was requested is there or awaited (Kept), and at most one piece   *)
(* has blocks that are not requested, for a new one is picked only when none has      *)
(* (Exact).  From that, what the tasks and the File do together: they never wait      *)
(* idle, write only what is owned, and implement PieceLedger.                         *)

Busy == {"request", "pick", "complete", "send"}

Quiet(dl, l) == dl.choked_us => dl.pending_blocks = {} /\ l \notin Busy

\* Of piece p, whose entry is e, the blocks requested are there or in out.
EntryKept(p, e, out) ==
    /\ e.bytes \subseteq BlocksOf(p)
    /\ \A b \in BlocksOf(p) : b < e.requested => b \in e.bytes \/ <<p, b>> \in out

Kept(dl) == \A p \in pending(dl) : EntryKept(p, dl.pending_pieces[p], dl.pending_blocks)

OneOpen(dl) == \A p, q \in Unrequested(dl) : p = q

Exact(dl, l, st) ==
    /\ st # "broken"
    /\ dl.inflight = Cardinality(dl.pending_blocks)
    /\ dl.inflight <= MAX_INFLIGHT_PER_PEER
    /\ OneOpen(dl)
    /\ l \in Busy => dl.inflight < MAX_INFLIGHT_PER_PEER
    /\ l = "pick" => Unrequested(dl) = {}

Honest(s) == "corrupt" \notin Faults[s]
Serving(s) == Faults[s] \cap {"choke", "break"} = {}

Fine(s, dl, l, st) ==
    /\ Quiet(dl, l)
    /\ Honest(s) => Kept(dl)
    /\ Serving(s) => Exact(dl, l, st)

AllFine == \A s \in Peers : Fine(s, d[s], pc[s], stream[s])

-----------------------------------------------------------------------------
(* What the handlers do to the content. *)

\* The numbers that the limit compares.
LEMMA MaxIsNat == MAX_INFLIGHT_PER_PEER \in Nat /\ MAX_INFLIGHT_PER_PEER > 0
<1>1. \A n \in 1..U8Max : n \in Nat /\ n > 0
  BY DEF U8Max
<1> QED
  BY <1>1, MaxInflightAssumption

LEMMA NewFine ==
  ASSUME NEW s \in Peers, NEW l, l \notin Busy, NEW st, Serving(s) => st # "broken"
  PROVE  Fine(s, new, l, st)
<1>1. /\ pending(new) = {} /\ new.pending_blocks = {} /\ new.inflight = 0
      /\ Cardinality({}) = 0
  BY FS_EmptySet DEF new, pending
<1>2. Unrequested(new) = {}
  BY <1>1 DEF Unrequested
<1> QED
  BY <1>1, <1>2, MaxIsNat DEF Fine, Quiet, Kept, Exact, OneOpen, Busy

\* Choke keeps the bytes and forgets what was requested (mod.rs:326-333).
LEMMA ChokeKept ==
  ASSUME NEW dl, LocalOK(dl), Kept(dl)
  PROVE  Kept(choke(dl))
<1> DEFINE c == choke(dl)
<1>1. /\ pending(c) = pending(dl)
      /\ \A p \in pending(c) : /\ c.pending_pieces[p].requested = 0
                              /\ c.pending_pieces[p].bytes = dl.pending_pieces[p].bytes
  BY DEF choke, pending
<1> HIDE DEF c
<1>2. ASSUME NEW p \in pending(c)
      PROVE  EntryKept(p, c.pending_pieces[p], c.pending_blocks)
  <2>1. \A b \in BlocksOf(p) : ~(b < 0)
    <3>1. p \in Pieces
      BY <1>1 DEF LocalOK, IsDownloader, IsPieceMap, pending
    <3> QED
      BY <3>1, NumBlocksPositive DEF BlocksOf
  <2> QED
    BY <1>1, <2>1 DEF Kept, EntryKept
<1> QED
  BY <1>2 DEF Kept, c

\* A block with the right content is there when it is no longer awaited
\* (mod.rs:384-407).
LEMMA ReceiveKept ==
  ASSUME NEW dl, LocalOK(dl), Kept(dl), NEW p \in pending(dl), NEW b,
         <<p, b>> \in dl.pending_blocks
  PROVE  Kept(receive(dl, p, b, TRUE))
<1> DEFINE c == receive(dl, p, b, TRUE)
           e == dl.pending_pieces[p]
<1>1. /\ pending(c) = pending(dl)
      /\ c.pending_blocks = dl.pending_blocks \ {<<p, b>>}
      /\ c.pending_pieces[p].requested = e.requested
      /\ c.pending_pieces[p].bytes = e.bytes \cup {b}
      /\ \A q \in pending(c) : q # p => c.pending_pieces[q] = dl.pending_pieces[q]
  BY DEF receive, put, pending
<1>2. b \in BlocksOf(p)
  BY DEF LocalOK, IsDownloader, Block
<1>3. EntryKept(p, e, dl.pending_blocks)
  BY DEF Kept
<1> HIDE DEF c, e
<1>4. EntryKept(p, c.pending_pieces[p], c.pending_blocks)
  BY <1>1, <1>2, <1>3 DEF EntryKept
<1>5. ASSUME NEW q \in pending(c), q # p
      PROVE  EntryKept(q, c.pending_pieces[q], c.pending_blocks)
  BY <1>1, <1>5 DEF Kept, EntryKept
<1> QED
  BY <1>4, <1>5 DEF Kept, c

\* A request that goes out is awaited (mod.rs:568-579).
LEMMA RequestKept ==
  ASSUME NEW dl, Kept(dl), NEW p \in Pieces, NEW e, NEW k \in Nat,
         e.requested \in Nat, EntryKept(p, e, dl.pending_blocks)
  PROVE  Kept(requests_sent(dl, p, e, k, put(dl.pending_pieces, p, Advanced(e, k))))
<1> DEFINE c == requests_sent(dl, p, e, k, put(dl.pending_pieces, p, Advanced(e, k)))
<1>1. /\ pending(c) = pending(dl) \cup {p}
      /\ c.pending_blocks = dl.pending_blocks \cup NextBlocks(e, p, k)
      /\ c.pending_pieces[p].requested = e.requested + k
      /\ c.pending_pieces[p].bytes = e.bytes
      /\ \A q \in pending(c) : q # p =>
            q \in pending(dl) /\ c.pending_pieces[q] = dl.pending_pieces[q]
  BY DEF requests_sent, put, Advanced, pending
<1> HIDE DEF c
<1>2. ASSUME NEW b \in BlocksOf(p), b < e.requested + k, ~(b < e.requested)
      PROVE  <<p, b>> \in NextBlocks(e, p, k)
  <2>1. b \in Int
    BY NumBlocksPositive DEF BlocksOf
  <2>2. b \in e.requested..(e.requested + k - 1)
    BY <1>2, <2>1
  <2> QED
    BY <2>2 DEF NextBlocks
<1>3. EntryKept(p, c.pending_pieces[p], c.pending_blocks)
  BY <1>1, <1>2 DEF EntryKept
<1>4. ASSUME NEW q \in pending(c), q # p
      PROVE  EntryKept(q, c.pending_pieces[q], c.pending_blocks)
  BY <1>1, <1>4 DEF Kept, EntryKept
<1> QED
  BY <1>3, <1>4 DEF Kept, c

\* Nothing left of a piece means all its content is there (mod.rs:410-418).
LEMMA NothingLeftValid ==
  ASSUME NEW dl, LocalOK(dl), Kept(dl), NEW p \in pending(dl),
         dl.pending_pieces[p].remaining_blocks = 0
  PROVE  validate_piece(dl, p)
<1>1. PendingOf(dl, p) = {} /\ dl.pending_pieces[p].requested = NumBlocks[p]
  BY NothingLeft
<1>2. EntryKept(p, dl.pending_pieces[p], dl.pending_blocks)
  BY DEF Kept
<1>3. p \in Pieces
  BY DEF LocalOK, IsDownloader, IsPieceMap, pending
<1>4. \A b \in BlocksOf(p) : b < NumBlocks[p]
  BY <1>3, NumBlocksPositive DEF BlocksOf
<1>5. \A b \in BlocksOf(p) : <<p, b>> \notin dl.pending_blocks
  BY <1>1 DEF PendingOf
<1> QED
  BY <1>1, <1>2, <1>4, <1>5 DEF EntryKept, validate_piece

-----------------------------------------------------------------------------
(* What the handlers do to the number of requests. *)

\* Where a call of request_pieces leads when there is room (mod.rs:442-474).
LEMMA RequestingExact ==
  ASSUME NEW c, LocalOK(c), c.inflight = Cardinality(c.pending_blocks),
         c.inflight < MAX_INFLIGHT_PER_PEER, OneOpen(c), NEW st, st # "broken"
  PROVE  Exact(c, Requesting(c, Unrequested(c)), st)
<1>1. c.inflight \in Nat /\ c.choked_us \in BOOLEAN
  BY DEF LocalOK, IsDownloader
<1>2. c.inflight <= MAX_INFLIGHT_PER_PEER
  BY <1>1, MaxIsNat
<1>3. Requesting(c, Unrequested(c)) = "pick" => Unrequested(c) = {}
  BY <1>1 DEF Requesting
<1> QED
  BY <1>2, <1>3 DEF Exact

\* Requests that were not out add up (mod.rs:568-579).
LEMMA SentCount ==
  ASSUME NEW dl, LocalOK(dl), NEW p \in Pieces, NEW e, NEW k \in Nat, NEW dls,
         e.requested \in Nat, e.requested + k <= NumBlocks[p],
         \A x \in PendingOf(dl, p) : x[2] < e.requested
  PROVE  Cardinality(requests_sent(dl, p, e, k, dls).pending_blocks) =
             Cardinality(dl.pending_blocks) + k
<1> DEFINE N == NextBlocks(e, p, k)
<1>1. IsFiniteSet(N) /\ Cardinality(N) = k /\ N \cap dl.pending_blocks = {}
  BY NextBlocksFresh
<1>2. IsFiniteSet(dl.pending_blocks) /\ Cardinality(dl.pending_blocks) \in Nat
  BY PendingOfFinite DEF LocalOK
<1>3. requests_sent(dl, p, e, k, dls).pending_blocks = dl.pending_blocks \cup N
  BY DEF requests_sent
<1> HIDE DEF N
<1>4. dl.pending_blocks \cap N = {} /\ Cardinality({}) = 0
  BY <1>1, FS_EmptySet
<1>5. Cardinality(dl.pending_blocks \cup N) =
          Cardinality(dl.pending_blocks) + Cardinality(N) - Cardinality(dl.pending_blocks \cap N)
  BY <1>1, <1>2, FS_Union
<1>6. Cardinality(dl.pending_blocks \cap N) = 0
  BY <1>4
<1>7. Cardinality(dl.pending_blocks \cup N) = Cardinality(dl.pending_blocks) + k
  BY <1>1, <1>2, <1>5, <1>6
<1> QED
  BY <1>3, <1>7

\* From below the limit a batch does not pass it, and stays below only when nothing
\* of the piece is left to request (mod.rs:556-582).
LEMMA BatchKeepsLimit ==
  ASSUME NEW dl, dl.inflight \in Nat, dl.inflight < MAX_INFLIGHT_PER_PEER, NEW left \in Nat
  PROVE  /\ dl.inflight + Batch(dl, left) <= MAX_INFLIGHT_PER_PEER
         /\ dl.inflight + Batch(dl, left) < MAX_INFLIGHT_PER_PEER => Batch(dl, left) = left
         /\ left > 0 => Batch(dl, left) > 0
  BY MaxIsNat DEF Batch

\* The block that comes makes room for one request (mod.rs:384-394).
LEMMA ReceiveExact ==
  ASSUME NEW dl, LocalOK(dl), NEW l, NEW st, Exact(dl, l, st),
         NEW p \in pending(dl), NEW b, NEW good \in BOOLEAN, <<p, b>> \in dl.pending_blocks
  PROVE  LET c == receive(dl, p, b, good)
         IN  /\ c.inflight = Cardinality(c.pending_blocks)
             /\ c.inflight < MAX_INFLIGHT_PER_PEER
             /\ OneOpen(c)
<1> DEFINE c == receive(dl, p, b, good)
<1>1. /\ pending(c) = pending(dl)
      /\ c.inflight = dl.inflight - 1
      /\ c.pending_blocks = dl.pending_blocks \ {<<p, b>>}
      /\ \A q \in pending(c) : c.pending_pieces[q].requested = dl.pending_pieces[q].requested
  BY DEF receive, put, pending
<1>2. Unrequested(c) = Unrequested(dl)
  BY <1>1 DEF Unrequested
<1>3. IsFiniteSet(dl.pending_blocks) /\ dl.inflight \in Nat
  BY DEF LocalOK, IsDownloader
<1>4. Cardinality(c.pending_blocks) = Cardinality(dl.pending_blocks) - 1
  BY <1>1, <1>3, FS_RemoveElement
<1> HIDE DEF c
<1>5. /\ c.inflight = Cardinality(c.pending_blocks)
      /\ c.inflight < MAX_INFLIGHT_PER_PEER
  BY <1>1, <1>3, <1>4, MaxIsNat DEF Exact
<1>6. OneOpen(c)
  BY <1>2 DEF Exact, OneOpen
<1> QED
  BY <1>5, <1>6 DEF c

\* The one piece with blocks to request uses up the room or is then requested
\* (mod.rs:448-474).
LEMMA RequestExact ==
  ASSUME NEW dl, LocalOK(dl), NEW st, Exact(dl, "request", st),
         NEW p \in Unrequested(dl), NEW rest, rest \subseteq Unrequested(dl) \ {p}
  PROVE  LET c == request_blocks(dl, p, Batch(dl, NumBlocks[p] - dl.pending_pieces[p].requested))
         IN  Exact(c, Requesting(c, rest), st)
<1> DEFINE e == dl.pending_pieces[p]
           left == NumBlocks[p] - e.requested
           k == Batch(dl, left)
           c == request_blocks(dl, p, k)
<1>1. p \in pending(dl) /\ e.requested < NumBlocks[p]
  BY DEF Unrequested
<1>2. p \in Pieces /\ e \in PieceDownloads /\ PieceAccounted(e, PendingOf(dl, p), NumBlocks[p])
      /\ dl.inflight \in Nat
  BY <1>1 DEF LocalOK, IsDownloader, IsPieceMap, pending, Accounted
<1>3. e.requested \in Nat /\ NumBlocks[p] \in Nat /\ left \in Nat
  BY <1>1, <1>2, NumBlocksPositive DEF PieceDownloads
<1>4. k \in 0..left
  BY <1>2, <1>3, BatchFits
<1>5. k \in Nat /\ e.requested + k <= NumBlocks[p]
  <2> HIDE DEF k
  <2> QED
    BY <1>3, <1>4
<1>6. dl.inflight < MAX_INFLIGHT_PER_PEER
  BY DEF Exact, Busy
<1>7. /\ dl.inflight + k <= MAX_INFLIGHT_PER_PEER
      /\ dl.inflight + k < MAX_INFLIGHT_PER_PEER => k = left
  BY <1>2, <1>3, <1>6, BatchKeepsLimit
<1>8. \A x \in PendingOf(dl, p) : x[2] < e.requested
  BY <1>2 DEF PieceAccounted
<1> HIDE DEF k, e
<1>9. /\ c.inflight = dl.inflight + k
      /\ c.choked_us = dl.choked_us
      /\ pending(c) = pending(dl)
      /\ c.pending_pieces[p].requested = e.requested + k
      /\ \A q \in pending(c) : q # p => c.pending_pieces[q] = dl.pending_pieces[q]
      /\ Cardinality(c.pending_blocks) = Cardinality(dl.pending_blocks) + k
  <2>1. c = requests_sent(dl, p, e, k, put(dl.pending_pieces, p, Advanced(e, k)))
    BY DEF request_blocks, e
  <2>2. Cardinality(c.pending_blocks) = Cardinality(dl.pending_blocks) + k
    BY <1>2, <1>3, <1>5, <1>8, <2>1, SentCount
  <2> QED
    BY <1>1, <2>1, <2>2 DEF requests_sent, put, Advanced, pending
<1>10. Unrequested(dl) = {p} /\ rest = {}
  BY DEF Exact, OneOpen
<1> HIDE DEF c
<1>11. Unrequested(c) \subseteq {p}
  BY <1>9, <1>10 DEF Unrequested
<1>12. c.inflight < MAX_INFLIGHT_PER_PEER => Unrequested(c) = {}
  <2>1. SUFFICES ASSUME c.inflight < MAX_INFLIGHT_PER_PEER PROVE p \notin Unrequested(c)
    BY <1>11
  <2>2. e.requested + k = NumBlocks[p]
    BY <1>3, <1>5, <1>7, <1>9, <2>1
  <2> QED
    BY <1>3, <1>9, <2>2 DEF Unrequested
<1>13. c.choked_us \in BOOLEAN /\ c.inflight \in Nat
  BY <1>2, <1>5, <1>9 DEF LocalOK, IsDownloader
<1>14. /\ Requesting(c, rest) \in {"loop", "pick"}
       /\ Requesting(c, rest) = "pick" => c.inflight < MAX_INFLIGHT_PER_PEER
  BY <1>10, <1>13 DEF Requesting
<1>15. Exact(c, Requesting(c, rest), st)
  BY <1>7, <1>9, <1>11, <1>12, <1>14 DEF Exact, OneOpen, Busy
<1> QED
  BY <1>15 DEF c, k, e

\* A piece is picked when nothing is left to request, and is then the only one
\* (mod.rs:476-513).
LEMMA NewPieceExact ==
  ASSUME NEW dl, LocalOK(dl), NEW st, Exact(dl, "pick", st),
         NEW p \in Pieces, p \notin pending(dl), PendingOf(dl, p) = {}
  PROVE  LET c == request_new(dl, p, Batch(dl, NumBlocks[p]))
         IN  Exact(c, "loop", st) /\ Cardinality(c.pending_blocks) > 0
<1> DEFINE e == NewPiece(p)
           k == Batch(dl, NumBlocks[p])
           c == request_new(dl, p, k)
<1>1. NumBlocks[p] \in Nat /\ NumBlocks[p] > 0 /\ e.requested = 0
  BY NumBlocksPositive DEF NewPiece
<1>2. dl.inflight \in Nat /\ dl.inflight < MAX_INFLIGHT_PER_PEER /\ Unrequested(dl) = {}
  BY DEF LocalOK, IsDownloader, Exact, Busy
<1>3. k \in 0..NumBlocks[p]
  BY <1>1, <1>2, BatchFits
<1>4. dl.inflight + k <= MAX_INFLIGHT_PER_PEER /\ k > 0
  BY <1>1, <1>2, BatchKeepsLimit
<1> HIDE DEF k, e
<1>5. k \in Nat /\ e.requested + k <= NumBlocks[p]
  BY <1>1, <1>3
<1>6. c = requests_sent(dl, p, e, k, put(dl.pending_pieces, p, Advanced(e, k)))
  BY DEF request_new, e
<1>7. /\ c.inflight = dl.inflight + k
      /\ pending(c) = pending(dl) \cup {p}
      /\ \A q \in pending(c) : q # p => c.pending_pieces[q] = dl.pending_pieces[q]
  BY <1>6 DEF requests_sent, put, pending
<1>8. Cardinality(c.pending_blocks) = Cardinality(dl.pending_blocks) + k
  BY <1>1, <1>5, <1>6, SentCount
<1>9. Cardinality(dl.pending_blocks) = dl.inflight /\ st # "broken"
  BY DEF Exact
<1> HIDE DEF c
<1>10. Unrequested(c) \subseteq {p}
  BY <1>2, <1>7 DEF Unrequested
<1>11. Exact(c, "loop", st)
  BY <1>4, <1>7, <1>8, <1>9, <1>10 DEF Exact, OneOpen, Busy
<1>12. Cardinality(c.pending_blocks) > 0
  BY <1>2, <1>4, <1>5, <1>8, <1>9
<1> QED
  BY <1>11, <1>12 DEF c, k

-----------------------------------------------------------------------------
(* The steps. *)

\* Only task s moves, and it ends up fine.
LEMMA FineMoves ==
  ASSUME Shape, AllFine, NEW s \in Peers, NEW dl, NEW l, NEW st,
         d' = [d EXCEPT ![s] = dl], Goto(s, l), stream' = [stream EXCEPT ![s] = st],
         Fine(s, dl, l, st)
  PROVE  AllFine'
<1>1. ASSUME NEW t \in Peers
      PROVE  Fine(t, d'[t], pc'[t], stream'[t])
  <2>1. CASE t = s
    BY <2>1 DEF Shape, Goto
  <2>2. CASE t # s
    BY <2>2 DEF Shape, Goto, AllFine
  <2> QED
    BY <2>1, <2>2
<1> QED
  BY <1>1 DEF AllFine

\* A task that ends is fine.
LEMMA FineEnds ==
  ASSUME Shape, AllFine, NEW s \in Peers, NEW l, l \notin Busy, NEW st, End(s, l),
         stream' = [stream EXCEPT ![s] = st], Serving(s) => st # "broken"
  PROVE  AllFine'
<1>1. Fine(s, new, l, st)
  BY NewFine
<1> QED
  BY <1>1, FineMoves DEF End

\* A task that keeps what it has is fine where it does nothing with it.
LEMMA FineStays ==
  ASSUME Shape, AllFine, NEW s \in Peers, NEW l, l \notin Busy, NEW st,
         UNCHANGED d, Goto(s, l),
         stream' = [stream EXCEPT ![s] = st], Serving(s) => st # "broken"
  PROVE  AllFine'
<1>1. d' = [d EXCEPT ![s] = d[s]]
  BY DEF Shape
<1>2. Fine(s, d[s], l, st)
  BY DEF AllFine, Fine, Quiet, Exact, Busy
<1> QED
  BY <1>1, <1>2, FineMoves

\* What a step finds.
LEMMA FineFacts ==
  ASSUME Inv, AllFine, NEW s \in Peers
  PROVE  /\ Shape /\ LocalOK(d[s]) /\ TaskOf(s)
         /\ Fine(s, d[s], pc[s], stream[s])
         /\ Serving(s) => stream[s] # "broken"
         /\ UNCHANGED stream => stream' = [stream EXCEPT ![s] = stream[s]]
  BY TaskFacts DEF AllFine, Fine, Exact, Shape

\* Steps that ask nothing and receive nothing (mod.rs:251-295).
LEMMA FineLoop ==
  ASSUME Inv, AllFine, NEW s \in Peers,
         \/ CheckRemaining(s) \/ Nothing(s) \/ PeerRequest(s) \/ PickNothing(s)
         \/ KeepAliveFails(s) \/ ReadError(s) \/ StreamEnds(s) \/ DisconnectSent(s)
  PROVE  AllFine'
<1> USE FineFacts
<1>1. PICK st : stream' = [stream EXCEPT ![s] = st] /\ (Serving(s) => st # "broken")
  <2>1. CASE UNCHANGED stream
    BY <2>1
  <2>2. CASE KeepAliveFails(s)
    BY <2>2 DEF KeepAliveFails, Serving
  <2>3. CASE ReadError(s) \/ StreamEnds(s)
    BY <2>3 DEF ReadError, StreamEnds
  <2> QED
    BY <2>1, <2>2, <2>3
       DEF CheckRemaining, Nothing, PeerRequest, PickNothing, DisconnectSent
<1>2. CASE \E l \in {"exited", "panicked"} : End(s, l)
  BY <1>1, <1>2, FineEnds DEF Busy
<1>3. CASE \E l \in {"select", "loop", "disconnect"} : Goto(s, l) /\ UNCHANGED d
  BY <1>1, <1>3, FineStays DEF Busy
<1> QED
  BY <1>2, <1>3
     DEF CheckRemaining, Nothing, PeerRequest, PickNothing, KeepAliveFails, ReadError,
         StreamEnds, DisconnectSent

\* (mod.rs:308-337)
LEMMA FineChoke ==
  ASSUME Inv, AllFine, NEW s \in Peers, Choke(s)
  PROVE  AllFine'
<1>1. /\ Shape /\ LocalOK(d[s]) /\ Fine(s, d[s], pc[s], stream[s])
      /\ d' = [d EXCEPT ![s] = choke(d[s])] /\ Goto(s, "loop")
      /\ stream' = [stream EXCEPT ![s] = stream[s]]
  BY FineFacts DEF Choke
<1>2. ~Serving(s)
  BY DEF Choke, Serving
<1>3. choke(d[s]).pending_blocks = {} /\ (Honest(s) => Kept(choke(d[s])))
  BY <1>1, ChokeOK, ChokeKept DEF Fine
<1>4. Fine(s, choke(d[s]), "loop", stream[s])
  BY <1>2, <1>3 DEF Fine, Quiet, Busy
<1> QED
  BY <1>1, <1>4, FineMoves

\* Where a call of request_pieces leads is fine (mod.rs:442-474).
LEMMA FineRequestPieces ==
  ASSUME Inv, AllFine, NEW s \in Peers, NEW c, LocalOK(c), RequestPieces(s, c),
         UNCHANGED stream, ~c.choked_us, Honest(s) => Kept(c),
         Serving(s) => /\ c.inflight = Cardinality(c.pending_blocks)
                       /\ c.inflight < MAX_INFLIGHT_PER_PEER
                       /\ OneOpen(c)
  PROVE  AllFine'
<1> DEFINE l == Requesting(c, Unrequested(c))
<1>1. Shape /\ stream' = [stream EXCEPT ![s] = stream[s]] /\ (Serving(s) => stream[s] # "broken")
  BY FineFacts
<1>2. Serving(s) => Exact(c, l, stream[s])
  BY <1>1, RequestingExact
<1>3. Fine(s, c, l, stream[s])
  BY <1>2 DEF Fine, Quiet
<1> HIDE DEF l
<1>4. d' = [d EXCEPT ![s] = c] /\ Goto(s, l)
  BY DEF RequestPieces, l
<1> QED
  BY <1>1, <1>3, <1>4, FineMoves

\* (mod.rs:338-348)
LEMMA FineUnchoke ==
  ASSUME Inv, AllFine, NEW s \in Peers, Unchoke(s)
  PROVE  AllFine'
<1> DEFINE c == unchoke(d[s])
<1>1. LocalOK(d[s]) /\ Fine(s, d[s], pc[s], stream[s])
  BY FineFacts
<1>2. /\ c.choked_us = FALSE /\ c.inflight = d[s].inflight
      /\ c.pending_pieces = d[s].pending_pieces /\ c.pending_blocks = d[s].pending_blocks
  BY DEF unchoke
<1>3. LocalOK(c)
  BY <1>1, UnchokeOK
<1>4. RequestPieces(s, c) /\ UNCHANGED stream /\ d[s].choked_us
  BY DEF Unchoke
<1> HIDE DEF c
<1>5. Honest(s) => Kept(c)
  BY <1>1, <1>2 DEF Fine, Kept, pending
<1>6. Unrequested(c) = Unrequested(d[s])
  BY <1>2 DEF Unrequested, pending
<1>7. Serving(s) => c.inflight = Cardinality(c.pending_blocks) /\ OneOpen(c)
  BY <1>1, <1>2, <1>6 DEF Fine, Exact, OneOpen
<1>8. Cardinality(c.pending_blocks) = 0
  BY <1>1, <1>2, <1>4, FS_EmptySet DEF Fine, Quiet
<1> QED
  BY <1>2, <1>3, <1>4, <1>5, <1>7, <1>8, MaxIsNat, FineRequestPieces

\* (mod.rs:374-429)
LEMMA FineReceive ==
  ASSUME Inv, AllFine, NEW s \in Peers, NEW p, NEW b, NEW good \in BOOLEAN,
         ReceiveBlock(s, p, b, good)
  PROVE  AllFine'
<1> DEFINE c == receive(d[s], p, b, good)
<1>1. /\ Shape /\ LocalOK(d[s]) /\ Fine(s, d[s], pc[s], stream[s])
      /\ Serving(s) => stream[s] # "broken"
  BY FineFacts
<1>2. /\ p \in pending(d[s]) /\ <<p, b>> \in d[s].pending_blocks
      /\ Honest(s) => good = TRUE
      /\ UNCHANGED stream
  BY DEF ReceiveBlock, Honest
<1>3. LocalOK(c)
  BY <1>1, <1>2, ReceiveOK
<1>4. Honest(s) => Kept(c)
  BY <1>1, <1>2, ReceiveKept DEF Fine
<1>5. Serving(s) => /\ c.inflight = Cardinality(c.pending_blocks)
                    /\ c.inflight < MAX_INFLIGHT_PER_PEER
                    /\ OneOpen(c)
  BY <1>1, <1>2, ReceiveExact DEF Fine
<1>6. ~c.choked_us
  BY <1>1, <1>2 DEF Fine, Quiet, receive
<1>7. \/ d' = [d EXCEPT ![s] = c] /\ Goto(s, "complete")
      \/ RequestPieces(s, c)
  BY DEF ReceiveBlock
<1> HIDE DEF c
<1>8. CASE d' = [d EXCEPT ![s] = c] /\ Goto(s, "complete")
  <2>1. c.inflight \in Nat
    BY <1>3 DEF LocalOK, IsDownloader
  <2>2. Fine(s, c, "complete", stream[s])
    BY <1>1, <1>4, <1>5, <1>6, <2>1, MaxIsNat DEF Fine, Quiet, Exact
  <2> QED
    BY <1>1, <1>2, <1>8, <2>2, FineFacts, FineMoves
<1>9. CASE RequestPieces(s, c)
  BY <1>2, <1>3, <1>4, <1>5, <1>6, <1>9, FineRequestPieces
<1> QED
  BY <1>7, <1>8, <1>9

\* On a stream that can be written every block awaited is of a piece under way
\* (mod.rs:389-391).
LEMMA FineOrphan ==
  ASSUME Inv, AllFine, NEW s \in Peers, NEW p, NEW b, ReceiveOrphan(s, p, b)
  PROVE  AllFine'
<1> DEFINE c == receive_orphan(d[s], p, b)
<1>1. /\ Shape /\ TaskOf(s) /\ Fine(s, d[s], pc[s], stream[s])
      /\ Serving(s) => stream[s] # "broken"
  BY FineFacts
<1>2. /\ <<p, b>> \in d[s].pending_blocks /\ p \notin pending(d[s]) /\ stream[s] # "ended"
      /\ d' = [d EXCEPT ![s] = c] /\ Goto(s, "loop") /\ UNCHANGED stream
  BY DEF ReceiveOrphan
<1>3. ~Serving(s)
  BY <1>1, <1>2 DEF TaskOf, TaskOK
<1>4. /\ c.choked_us = d[s].choked_us
      /\ c.pending_pieces = d[s].pending_pieces
      /\ c.pending_blocks = d[s].pending_blocks \ {<<p, b>>}
  BY DEF receive_orphan
<1> HIDE DEF c
<1>5. Honest(s) => Kept(c)
  BY <1>1, <1>2, <1>4 DEF Fine, Kept, EntryKept, pending
<1>6. Fine(s, c, "loop", stream[s])
  BY <1>1, <1>3, <1>4, <1>5 DEF Fine, Quiet, Busy
<1> QED
  BY <1>1, <1>2, <1>6, FineFacts, FineMoves

\* (mod.rs:405-427)
LEMMA FineComplete ==
  ASSUME Inv, AllFine, NEW s \in Peers, Complete(s)
  PROVE  AllFine'
<1> DEFINE c == complete(d[s], handling[s])
<1>1. /\ Shape /\ LocalOK(d[s]) /\ Fine(s, d[s], pc[s], stream[s])
      /\ stream' = [stream EXCEPT ![s] = stream[s]] /\ pc[s] = "complete"
      /\ Serving(s) => stream[s] # "broken"
  BY FineFacts DEF Complete
<1>2. /\ c.choked_us = d[s].choked_us /\ c.inflight = d[s].inflight
      /\ c.pending_pieces = [q \in pending(d[s]) \ {handling[s]} |-> d[s].pending_pieces[q]]
      /\ c.pending_blocks = d[s].pending_blocks
  BY DEF complete
<1>3. \/ End(s, "panicked")
      \/ d' = [d EXCEPT ![s] = c] /\ \E l \in {"send", "loop"} : Goto(s, l)
  BY DEF Complete
<1> HIDE DEF c
<1>4. Honest(s) => Kept(c)
  BY <1>1, <1>2 DEF Fine, Kept, pending
<1>5. Unrequested(c) \subseteq Unrequested(d[s])
  BY <1>2 DEF Unrequested, pending
<1>6. ASSUME NEW l \in {"send", "loop"}
      PROVE  Fine(s, c, l, stream[s])
  BY <1>1, <1>2, <1>4, <1>5 DEF Fine, Quiet, Exact, OneOpen, Busy
<1>7. CASE End(s, "panicked")
  BY <1>1, <1>7, FineEnds DEF Busy
<1>8. CASE d' = [d EXCEPT ![s] = c] /\ \E l \in {"send", "loop"} : Goto(s, l)
  BY <1>1, <1>6, <1>8, FineMoves
<1> QED
  BY <1>3, <1>7, <1>8

\* (mod.rs:429)
LEMMA FinePieceSent ==
  ASSUME Inv, AllFine, NEW s \in Peers, PieceSent(s)
  PROVE  AllFine'
<1>1. LocalOK(d[s]) /\ Fine(s, d[s], pc[s], stream[s])
  BY FineFacts
<1>2. pc[s] = "send" /\ RequestPieces(s, d[s]) /\ UNCHANGED stream
  BY DEF PieceSent
<1> QED
  BY <1>1, <1>2, FineRequestPieces DEF Fine, Quiet, Exact, Busy

\* (mod.rs:448-467)
LEMMA FineRequest ==
  ASSUME Inv, AllFine, NEW s \in Peers, NEW p, RequestPending(s, p) \/ RequestPendingFails(s, p)
  PROVE  AllFine'
<1> DEFINE e == d[s].pending_pieces[p]
           left == NumBlocks[p] - e.requested
           c(k) == request_blocks(d[s], p, k)
<1>1. /\ Shape /\ LocalOK(d[s]) /\ TaskOf(s) /\ Fine(s, d[s], pc[s], stream[s])
      /\ pc[s] = "request" /\ p \in todo[s]
      /\ Serving(s) => stream[s] # "broken"
  BY FineFacts DEF RequestPending, RequestPendingFails
<1>2. /\ p \in pending(d[s]) /\ ~d[s].choked_us
      /\ left \in Nat /\ Batch(d[s], left) \in 0..left
  BY <1>1, RequestFacts
<1>3. todo[s] \subseteq Unrequested(d[s])
  BY <1>1 DEF TaskOf, TaskOK
<1>4. p \in Pieces /\ e \in PieceDownloads
  BY <1>1, <1>2 DEF LocalOK, IsDownloader, IsPieceMap, pending
<1>5. e.requested \in Nat
  BY <1>4 DEF PieceDownloads
<1>6. ASSUME NEW k \in Nat
      PROVE  ~c(k).choked_us /\ (Honest(s) => Kept(c(k)))
  <2>1. ~c(k).choked_us
    BY <1>2 DEF request_blocks, requests_sent
  <2>2. Honest(s) => EntryKept(p, e, d[s].pending_blocks)
    BY <1>1, <1>2 DEF Fine, Kept
  <2>3. Honest(s) => Kept(c(k))
    BY <1>1, <1>4, <1>5, <2>2, RequestKept DEF Fine, request_blocks
  <2> QED
    BY <2>1, <2>3
<1>7. CASE RequestPending(s, p)
  <2> DEFINE k == Batch(d[s], left)
             rest == todo[s] \ {p}
             l == Requesting(c(k), rest)
  <2>1. \/ End(s, "panicked")
        \/ d' = [d EXCEPT ![s] = c(k)] /\ Goto(s, l)
    BY <1>7 DEF RequestPending
  <2>2. stream' = [stream EXCEPT ![s] = stream[s]]
    BY <1>7, FineFacts DEF RequestPending
  <2>3. k \in Nat
    <3> HIDE DEF k
    <3>1. k \in 0..left
      BY <1>2 DEF k
    <3> QED
      BY <1>2, <3>1
  <2>4. Serving(s) => Exact(c(k), l, stream[s])
    <3>1. p \in Unrequested(d[s]) /\ rest \subseteq Unrequested(d[s]) \ {p}
      BY <1>1, <1>3
    <3> QED
      BY <1>1, <3>1, RequestExact DEF Fine
  <2>5. Fine(s, c(k), l, stream[s])
    BY <1>6, <2>3, <2>4 DEF Fine, Quiet
  <2> HIDE DEF l, k, c
  <2> QED
    BY <1>1, <2>1, <2>2, <2>5, FineEnds, FineMoves DEF Busy
<1>8. CASE RequestPendingFails(s, p)
  <2>1. PICK k \in 0..(Batch(d[s], left) - 1) :
            WriteFails(s, k) /\ d' = [d EXCEPT ![s] = c(k)]
    BY <1>8 DEF RequestPendingFails
  <2>2. stream' = [stream EXCEPT ![s] = "broken"] /\ Goto(s, "loop")
    BY <1>8 DEF RequestPendingFails
  <2>3. ~Serving(s)
    BY <1>1, <2>1 DEF WriteFails, Serving
  <2>4. k \in Nat
    BY <1>2, <2>1
  <2>5. Fine(s, c(k), "loop", "broken")
    BY <1>6, <2>3, <2>4 DEF Fine, Quiet
  <2> HIDE DEF c
  <2> QED
    BY <1>1, <2>1, <2>2, <2>5, FineMoves
<1> QED
  BY <1>7, <1>8

\* (mod.rs:476-513)
LEMMA FinePick ==
  ASSUME Inv, AllFine, NEW s \in Peers, PickPiece(s) \/ PickPieceFails(s)
  PROVE  AllFine'
<1> DEFINE p == Picked(bf)
           e == NewPiece(p)
           k0 == Batch(d[s], NumBlocks[p])
<1>1. /\ Shape /\ LocalOK(d[s]) /\ Fine(s, d[s], pc[s], stream[s])
      /\ pc[s] = "pick" /\ pick_some(bf) /\ p \notin pending(d[s])
      /\ Serving(s) => stream[s] # "broken"
      /\ Goto(s, "loop")
  BY FineFacts DEF PickPiece, PickPieceFails
<1>2. /\ p \in Pieces /\ NumBlocks[p] \in Nat
      /\ k0 \in 0..NumBlocks[p]
      /\ stream[s] = "open" => PendingOf(d[s], p) = {}
  BY <1>1, PickFacts
<1>3. ~d[s].choked_us
  BY <1>1 DEF Fine, Quiet, Busy
<1> HIDE DEF p
<1>4. CASE PickPiece(s)
  <2> DEFINE c == request_new(d[s], p, k0)
  <2>1. d' = [d EXCEPT ![s] = c] /\ stream[s] = "open"
        /\ stream' = [stream EXCEPT ![s] = stream[s]]
    BY <1>4, FineFacts DEF PickPiece, p
  <2>2. k0 \in Nat
    <3> HIDE DEF k0
    <3> QED
      BY <1>2
  <2>3. e.requested \in Nat /\ EntryKept(p, e, d[s].pending_blocks)
    <3>1. \A b \in BlocksOf(p) : ~(b < 0)
      BY <1>2 DEF BlocksOf
    <3> QED
      BY <3>1 DEF NewPiece, EntryKept
  <2>4. Honest(s) => Kept(c)
    BY <1>1, <1>2, <2>2, <2>3, RequestKept DEF Fine, request_new
  <2>5. Serving(s) => Exact(c, "loop", stream[s])
    BY <1>1, <1>2, <2>1, NewPieceExact DEF Fine
  <2>6. c.choked_us = d[s].choked_us
    BY DEF request_new, requests_sent
  <2> HIDE DEF c
  <2>7. Fine(s, c, "loop", stream[s])
    BY <1>3, <2>4, <2>5, <2>6 DEF Fine, Quiet
  <2> QED
    BY <1>1, <2>1, <2>7, FineMoves
<1>5. CASE PickPieceFails(s)
  <2>1. PICK k \in 0..(k0 - 1) :
            WriteFails(s, k) /\ d' = [d EXCEPT ![s] = request_new_fails(d[s], p, k)]
    BY <1>5 DEF PickPieceFails, p
  <2>2. stream' = [stream EXCEPT ![s] = "broken"]
    BY <1>5 DEF PickPieceFails
  <2>3. ~Serving(s)
    BY <1>1, <2>1 DEF WriteFails, Serving
  <2> DEFINE c == request_new_fails(d[s], p, k)
  <2>4. /\ c.choked_us = d[s].choked_us
        /\ c.pending_pieces = d[s].pending_pieces
        /\ d[s].pending_blocks \subseteq c.pending_blocks
    BY DEF request_new_fails, requests_sent
  <2> HIDE DEF c
  <2>5. Honest(s) => Kept(c)
    BY <1>1, <2>4 DEF Fine, Kept, EntryKept, pending
  <2>6. Fine(s, c, "loop", "broken")
    BY <1>3, <2>3, <2>4, <2>5 DEF Fine, Quiet
  <2> QED
    BY <1>1, <2>1, <2>2, <2>6, FineMoves DEF c
<1> QED
  BY <1>1, <1>4, <1>5

LEMMA FineSeed ==
  ASSUME Inv, AllFine, NEW s \in Peers, Seed(s)
  PROVE  AllFine'
<1>1. CASE \/ CheckRemaining(s) \/ Nothing(s) \/ PeerRequest(s) \/ PickNothing(s)
           \/ KeepAliveFails(s) \/ ReadError(s) \/ StreamEnds(s) \/ DisconnectSent(s)
  BY <1>1, FineLoop
<1>2. CASE Choke(s)
  BY <1>2, FineChoke
<1>3. CASE Unchoke(s)
  BY <1>3, FineUnchoke
<1>4. CASE \E good \in BOOLEAN : Deliver(s, good)
  <2>1. PICK good \in BOOLEAN, x \in d[s].pending_blocks :
          ReceiveBlock(s, x[1], x[2], good) \/ ReceiveOrphan(s, x[1], x[2])
    BY <1>4 DEF Deliver
  <2> QED
    BY <2>1, FineReceive, FineOrphan
<1>5. CASE Complete(s)
  BY <1>5, FineComplete
<1>6. CASE PieceSent(s)
  BY <1>6, FinePieceSent
<1>7. CASE Request(s)
  BY <1>7, FineRequest DEF Request
<1>8. CASE PickPiece(s) \/ PickPieceFails(s)
  BY <1>8, FinePick
<1> QED
  BY <1>1, <1>2, <1>3, <1>4, <1>5, <1>6, <1>7, <1>8 DEF Seed, Pick

\* The File's task starts a seed's task and touches nothing of it later
\* (mod.rs:50-139).
LEMMA FineFile ==
  ASSUME Inv, AllFine, FileTask
  PROVE  AllFine'
<1>1. CASE TryPeer
  <2>1. PICK l \in {"loop", "rejected"} : Goto(tried + 1, l)
    BY <1>1 DEF TryPeer, Goto
  <2>2. tried + 1 \in Peers
    BY <1>1, PeersAssumption DEF TryPeer, MorePeers, Peers, Inv, RestOK
  <2>3. UNCHANGED <<d, stream>>
    BY <1>1 DEF TryPeer
  <2> QED
    BY <2>1, <2>2, <2>3, FineFacts, FineStays DEF Busy
<1>2. CASE TryPeerPanics
  <2> SUFFICES ASSUME NEW s \in Peers PROVE Fine(s, d'[s], pc'[s], stream'[s])
    BY DEF AllFine
  <2>1. d'[s] = new /\ pc'[s] \notin Busy /\ stream'[s] = stream[s]
    BY <1>2 DEF TryPeerPanics, Busy, Running, Inv, Shape
  <2>2. Serving(s) => stream[s] # "broken"
    BY DEF AllFine, Fine, Exact
  <2> QED
    BY <2>1, <2>2, NewFine
<1>3. CASE UNCHANGED <<pc, d, stream>>
  BY <1>3 DEF AllFine
<1> QED
  BY <1>1, <1>2, <1>3 DEF FileTask, SeedsPicked, Recv, RecvFails, Check, seedVars

LEMMA FineInductive == Safety => [](Inv /\ AllFine)
<1>1. Init => AllFine
  BY NewFine DEF Init, AllFine, Busy
<1>2. Inv /\ AllFine /\ [Next]_vars => AllFine'
  <2>1. CASE UNCHANGED vars
    BY <2>1 DEF vars, seedVars, AllFine
  <2> QED
    BY <2>1, FineFile, FineSeed DEF Next, Over
<1> QED
  BY <1>1, <1>2, DownloadInductive, PTL DEF Safety

\* Nothing is out to a seed that has choked us, so request_pieces is never called
\* for nothing and every block that comes late is refused (mod.rs:333, 384-387, 443).
THEOREM DownloadChoked == Safety => []ChokedMeansQuiet
<1>1. Inv /\ AllFine => ChokedMeansQuiet
  BY DEF AllFine, Fine, Quiet, Busy, ChokedMeansQuiet
<1> QED
  BY <1>1, FineInductive, PTL

\* A piece of a seed that sends the right content passes validation, however often
\* the seed choked us in the middle of it and in whatever order its blocks came,
\* some of them twice (mod.rs:326-331, 410-418).
THEOREM DownloadValidation == Safety => []ValidationFair
<1>1. Inv /\ AllFine => ValidationFair
  <2> SUFFICES ASSUME Inv, AllFine, NEW s \in Peers,
                      pc[s] = "complete", "corrupt" \notin Faults[s]
               PROVE  validate_piece(d[s], handling[s])
    BY DEF ValidationFair
  <2>1. TaskOf(s) /\ LocalOK(d[s]) /\ Kept(d[s])
    BY TaskFacts DEF AllFine, Fine, Honest
  <2> QED
    BY <2>1, NothingLeftValid DEF TaskOf, TaskOK
<1> QED
  BY <1>1, FineInductive, PTL

\* With a seed that never chokes us and whose stream can be written, `inflight' is
\* the number of requests out and never passes the limit, although the loop over
\* the pieces under way does not look at it (mod.rs:448-474, 579-582): no more than
\* one of them has blocks to request.
THEOREM DownloadLimit == Safety => []InflightExact
<1>1. Inv /\ AllFine => InflightExact
  BY DEF AllFine, Fine, Serving, Exact, InflightExact
<1> QED
  BY <1>1, FineInductive, PTL

-----------------------------------------------------------------------------
(* A seed that serves is not waited for in vain. *)

Trusted(s) == Faults[s] \cap {"choke", "corrupt", "break"} = {}

\* Nothing remains exactly when all is owned (bitfield.rs:56-68).
LEMMA RemainingIs ==
  ASSUME NEW b, BitfieldOK(b)
  PROVE  remaining(b) = 0 <=> b.own = Pieces
<1>1. TotalPieces \in Nat /\ TotalPieces > 0
  BY TotalPiecesAssumption
<1>2. IsFiniteSet(0..(TotalPieces - 1)) /\ Cardinality(0..(TotalPieces - 1)) = TotalPieces
  <2>1. /\ IsFiniteSet(0..(TotalPieces - 1))
        /\ Cardinality(0..(TotalPieces - 1)) =
              IF 0 > TotalPieces - 1 THEN 0 ELSE (TotalPieces - 1) - 0 + 1
    BY <1>1, FS_Interval
  <2> QED
    BY <1>1, <2>1
<1>3. IsFiniteSet(Pieces) /\ Cardinality(Pieces) = TotalPieces
  BY <1>2 DEF Pieces
<1>4. b.own \in SUBSET Pieces
  BY DEF BitfieldOK, Bitfields
<1>5. /\ IsFiniteSet(b.own)
      /\ Cardinality(Pieces) = Cardinality(b.own) => Pieces = b.own
  BY <1>3, <1>4, FS_Subset
<1>6. Cardinality(b.own) \in Nat
  BY <1>5, FS_CardinalityType
<1> QED
  BY <1>1, <1>3, <1>5, <1>6 DEF remaining

\* pick_piece offers nothing only when all is owned (bitfield.rs:70-76).
LEMMA NoPickMeansAll ==
  ASSUME NEW b, BitfieldOK(b), ~pick_some(b)
  PROVE  b.own = Pieces
<1>1. /\ TotalPieces \in Nat /\ b.confirmed \in 0..TotalPieces /\ b.own \in SUBSET Pieces
      /\ \A i \in Pieces : i < b.confirmed => i \in b.own
  BY TotalPiecesAssumption DEF BitfieldOK, Bitfields, ConfirmedExact
<1>2. \A i \in Pieces : i < b.confirmed
  BY <1>1 DEF pick_some, Pieces
<1> QED
  BY <1>1, <1>2

AllOwned == bf.own = Pieces

Awaiting(dl) == dl.pending_blocks # {}

\* A seed's task goes to wait for it with requests out, or with nothing to ask for.
NotIdle(s) ==
    Trusted(s) /\ pc[s] \in {"loop", "select"} /\ ~d[s].choked_us =>
        Awaiting(d[s]) \/ AllOwned

ResultOK ==
    /\ fpc = "ok" => AllOwned
    /\ fpc \in {"err", "panicked"} => \A s \in Peers : pc[s] \notin Running

\* A seed that was not tried has not unchoked us.
UntriedChoked == \A s \in Peers : s > tried => d[s].choked_us

IdleInv == ResultOK /\ UntriedChoked /\ \A s \in Peers : NotIdle(s)

\* What the other tasks see of a step of the task of s.
LEMMA SeedFrame ==
  ASSUME Inv, NEW s \in Peers, Seed(s)
  PROVE  /\ pc[s] \in Running /\ UNCHANGED <<fpc, tried>> /\ (AllOwned => AllOwned')
         /\ \A t \in Peers : t # s => d'[t] = d[t] /\ pc'[t] = pc[t]
<1>1. Shape /\ TaskOf(s) /\ LocalOK(d[s])
  BY TaskFacts
<1>2. pc[s] \in Running /\ UNCHANGED <<fpc, tried>>
  BY DEF Seed, CheckRemaining, Nothing, Choke, Unchoke, PeerRequest, Deliver, ReceiveBlock,
         ReceiveOrphan, Complete, PieceSent, Request, RequestPending, RequestPendingFails,
         Pick, PickNothing, PickPiece, PickPieceFails, KeepAliveFails, ReadError,
         StreamEnds, DisconnectSent, Running, fileVars
<1>3. \E l : Goto(s, l)
  BY DEF Seed, CheckRemaining, Nothing, Choke, Unchoke, PeerRequest, Deliver, ReceiveBlock,
         ReceiveOrphan, Complete, PieceSent, Request, RequestPending, RequestPendingFails,
         Pick, PickNothing, PickPiece, PickPieceFails, KeepAliveFails, ReadError,
         StreamEnds, DisconnectSent, End, RequestPieces
<1>4. UNCHANGED d \/ \E dl : d' = [d EXCEPT ![s] = dl]
  BY DEF Seed, CheckRemaining, Nothing, Choke, Unchoke, PeerRequest, Deliver, ReceiveBlock,
         ReceiveOrphan, Complete, PieceSent, Request, RequestPending, RequestPendingFails,
         Pick, PickNothing, PickPiece, PickPieceFails, KeepAliveFails, ReadError,
         StreamEnds, DisconnectSent, End, RequestPieces
<1>5. \/ UNCHANGED bf
      \/ pick_some(bf) /\ bf' = pick_piece(bf)
      \/ Complete(s) /\ bf' = set(bf, handling[s])
  BY DEF Seed, CheckRemaining, Nothing, Choke, Unchoke, PeerRequest, Deliver, ReceiveBlock,
         ReceiveOrphan, Complete, PieceSent, Request, RequestPending, RequestPendingFails,
         Pick, PickNothing, PickPiece, PickPieceFails, KeepAliveFails, ReadError,
         StreamEnds, DisconnectSent
<1>6. AllOwned => AllOwned'
  <2>1. CASE UNCHANGED bf
    BY <2>1 DEF AllOwned
  <2>2. CASE pick_some(bf) /\ bf' = pick_piece(bf)
    BY <2>2, PickOK DEF AllOwned, Inv
  <2>3. CASE Complete(s) /\ bf' = set(bf, handling[s])
    <3>1. handling[s] \in pending(d[s])
      BY <1>1, <2>3 DEF Complete, TaskOf, TaskOK
    <3>2. handling[s] \in Pieces
      BY <1>1, <3>1 DEF LocalOK, IsDownloader, IsPieceMap, pending
    <3>3. bf'.own = bf.own \cup {handling[s]}
      BY <2>3, <3>2, SetOK DEF Inv
    <3> QED
      BY <3>2, <3>3 DEF AllOwned
  <2> QED
    BY <1>5, <2>1, <2>2, <2>3
<1>7. \A t \in Peers : t # s => d'[t] = d[t] /\ pc'[t] = pc[t]
  BY <1>1, <1>3, <1>4 DEF Shape, Goto
<1> QED
  BY <1>2, <1>6, <1>7

\* request_pieces ends its task's handler without more requests only when the
\* limit is reached, and then requests are out (mod.rs:442-476).
LEMMA RequestingNotIdle ==
  ASSUME NEW s \in Peers, NEW c, LocalOK(c), NEW rest, NEW st,
         Exact(c, Requesting(c, rest), st), ~c.choked_us,
         Requesting(c, rest) \in {"loop", "select"}
  PROVE  Awaiting(c)
<1>1. c.inflight \in Nat
  BY DEF LocalOK, IsDownloader
<1>2. c.inflight >= MAX_INFLIGHT_PER_PEER
  BY <1>1, MaxIsNat DEF Requesting
<1>3. Cardinality(c.pending_blocks) > 0
  BY <1>1, <1>2, MaxIsNat DEF Exact
<1> QED
  BY <1>3, FS_EmptySet DEF Awaiting

\* The piece pick_piece yields is under way here already, and awaited
\* (mod.rs:480-493).
LEMMA UnderWayIsAwaited ==
  ASSUME Inv, NEW s \in Peers, Exact(d[s], "pick", stream[s]), pc[s] = "pick",
         NEW p \in pending(d[s])
  PROVE  Awaiting(d[s])
<1> DEFINE e == d[s].pending_pieces[p]
<1>1. TaskOf(s) /\ LocalOK(d[s])
  BY TaskFacts
<1>2. e.remaining_blocks # 0
  BY <1>1 DEF TaskOf, TaskOK
<1>3. /\ p \in Pieces /\ e \in PieceDownloads
      /\ PieceAccounted(e, PendingOf(d[s], p), NumBlocks[p])
  BY <1>1 DEF LocalOK, IsDownloader, IsPieceMap, pending, Accounted
<1>4. ~(e.requested < NumBlocks[p])
  BY DEF Exact, Unrequested
<1>5. NumBlocks[p] \in Nat /\ e.requested \in Nat /\ e.requested <= NumBlocks[p]
  BY <1>3, NumBlocksPositive DEF PieceDownloads, PieceAccounted
<1>6. e.remaining_blocks = NumBlocks[p] - e.requested + Cardinality(PendingOf(d[s], p))
  BY <1>3 DEF PieceAccounted
<1>7. Cardinality(PendingOf(d[s], p)) \in Nat
  BY <1>1, PendingOfFinite
<1> HIDE DEF e
<1>8. Cardinality(PendingOf(d[s], p)) # 0
  BY <1>2, <1>4, <1>5, <1>6, <1>7
<1>9. PendingOf(d[s], p) # {}
  BY <1>8, FS_EmptySet
<1> QED
  BY <1>9 DEF PendingOf, Awaiting

\* Every step of the task of s keeps it from waiting in vain.
LEMMA SeedNotIdle ==
  ASSUME Inv, AllFine, IdleInv, NEW s \in Peers, Seed(s), Inv', AllFine'
  PROVE  NotIdle(s)'
<1> SUFFICES ASSUME Trusted(s), pc'[s] \in {"loop", "select"}, ~d'[s].choked_us
             PROVE  Awaiting(d'[s]) \/ AllOwned'
  BY DEF NotIdle
<1>1. /\ Shape /\ TaskOf(s) /\ LocalOK(d[s]) /\ pc[s] \in Running
      /\ AllOwned => AllOwned'
  BY TaskFacts, SeedFrame
<1>2. Serving(s) /\ Honest(s)
  BY DEF Trusted, Serving, Honest
<1>3. /\ Exact(d[s], pc[s], stream[s]) /\ Kept(d[s])
      /\ Exact(d'[s], pc'[s], stream'[s])
  BY <1>2 DEF AllFine, Fine
<1>4. LocalOK(d'[s])
  BY DEF Inv, TasksOK, TaskOK
<1>5. ASSUME NEW l \in {"exited", "panicked"}, End(s, l)
      PROVE  FALSE
  BY <1>1, <1>5 DEF End, Goto, Shape
<1>6. ASSUME UNCHANGED d, pc[s] \in {"loop", "select"}
      PROVE  Awaiting(d'[s]) \/ AllOwned'
  BY <1>1, <1>6 DEF IdleInv, NotIdle
<1>7. ASSUME NEW c, d' = [d EXCEPT ![s] = c]
      PROVE  d'[s] = c
  BY <1>1, <1>7 DEF Shape
<1>8. ASSUME NEW c, NEW rest, d'[s] = c, Goto(s, Requesting(c, rest))
      PROVE  Awaiting(d'[s])
  <2>1. pc'[s] = Requesting(c, rest)
    BY <1>1, <1>8 DEF Goto, Shape
  <2> QED
    BY <1>3, <1>4, <1>8, <2>1, RequestingNotIdle
<1>9. CASE \/ CheckRemaining(s) \/ Nothing(s) \/ PeerRequest(s)
           \/ KeepAliveFails(s) \/ ReadError(s) \/ StreamEnds(s) \/ DisconnectSent(s)
  <2>1. CASE StreamEnds(s)
    BY <1>1, <1>5, <2>1 DEF StreamEnds, Goto, Shape
  <2> QED
    BY <1>5, <1>6, <1>9, <2>1
       DEF CheckRemaining, Nothing, PeerRequest, KeepAliveFails, ReadError, DisconnectSent
<1>10. CASE Choke(s)
  BY <1>2, <1>10 DEF Choke, Serving
<1>11. CASE Unchoke(s)
  BY <1>7, <1>8, <1>11 DEF Unchoke, RequestPieces
<1>12. CASE PieceSent(s)
  BY <1>7, <1>8, <1>12 DEF PieceSent, RequestPieces
<1>13. ASSUME NEW p, NEW b, NEW good \in BOOLEAN, ReceiveBlock(s, p, b, good)
       PROVE  Awaiting(d'[s])
  <2>1. \/ Goto(s, "complete")
        \/ RequestPieces(s, receive(d[s], p, b, good))
    BY <1>13 DEF ReceiveBlock
  <2>2. ~Goto(s, "complete")
    BY <1>1 DEF Goto, Shape
  <2> QED
    BY <1>7, <1>8, <2>1, <2>2 DEF RequestPieces
<1>14. ASSUME NEW p, NEW b, ReceiveOrphan(s, p, b)
       PROVE  FALSE
  <2>1. /\ <<p, b>> \in d[s].pending_blocks /\ p \notin pending(d[s]) /\ stream[s] # "ended"
    BY <1>14 DEF ReceiveOrphan
  <2> QED
    BY <1>1, <1>3, <2>1 DEF TaskOf, TaskOK, Exact
<1>15. CASE \E good \in BOOLEAN : Deliver(s, good)
  <2>1. PICK good \in BOOLEAN, x \in d[s].pending_blocks :
          ReceiveBlock(s, x[1], x[2], good) \/ ReceiveOrphan(s, x[1], x[2])
    BY <1>15 DEF Deliver
  <2> QED
    BY <1>13, <1>14, <2>1
<1>16. CASE Complete(s)
  <2>1. ~End(s, "panicked") /\ ~Goto(s, "send")
    BY <1>1, <1>5 DEF Goto, Shape
  <2>2. ReceiverGone \/ ~validate_piece(d[s], handling[s])
    BY <1>16, <2>1 DEF Complete
  <2>3. handling[s] \in pending(d[s])
        /\ d[s].pending_pieces[handling[s]].remaining_blocks = 0
    BY <1>1, <1>16 DEF Complete, TaskOf, TaskOK
  <2>4. ReceiverGone
    BY <1>1, <1>3, <2>2, <2>3, NothingLeftValid
  <2>5. AllOwned
    BY <1>1, <2>4 DEF ReceiverGone, IdleInv, ResultOK
  <2> QED
    BY <1>1, <2>5
<1>17. CASE Request(s)
  <2>1. PICK p \in Pieces : RequestPending(s, p) \/ RequestPendingFails(s, p)
    BY <1>17 DEF Request
  <2>2. CASE RequestPending(s, p)
    BY <1>5, <1>7, <1>8, <2>2 DEF RequestPending
  <2>3. CASE RequestPendingFails(s, p)
    <3>1. \E k : WriteFails(s, k)
      BY <2>3 DEF RequestPendingFails
    <3> QED
      BY <1>2, <1>3, <3>1 DEF WriteFails, Serving, Exact
  <2> QED
    BY <2>1, <2>2, <2>3
<1>18. CASE PickNothing(s)
  <2>1. pc[s] = "pick" /\ UNCHANGED d
        /\ (pick_some(bf) => Picked(bf) \in pending(d[s]))
    BY <1>18 DEF PickNothing
  <2>2. CASE pick_some(bf)
    BY <1>3, <2>1, <2>2, UnderWayIsAwaited
  <2>3. CASE ~pick_some(bf)
    BY <1>1, <2>3, NoPickMeansAll DEF Inv, AllOwned
  <2> QED
    BY <2>2, <2>3
<1>19. CASE PickPiece(s)
  <2> DEFINE p == Picked(bf)
             c == request_new(d[s], p, Batch(d[s], NumBlocks[p]))
  <2>1. /\ pc[s] = "pick" /\ pick_some(bf) /\ p \notin pending(d[s]) /\ stream[s] = "open"
        /\ d' = [d EXCEPT ![s] = c]
    BY <1>19 DEF PickPiece
  <2>2. p \in Pieces /\ PendingOf(d[s], p) = {}
    BY <2>1, PickFacts
  <2> HIDE DEF p
  <2>3. Cardinality(c.pending_blocks) > 0
    BY <1>1, <1>3, <2>1, <2>2, NewPieceExact
  <2> HIDE DEF c
  <2>4. c.pending_blocks # {}
    BY <2>3, FS_EmptySet
  <2>5. d'[s] = c
    BY <1>7, <2>1
  <2> QED
    BY <2>4, <2>5 DEF Awaiting
<1>20. CASE PickPieceFails(s)
  <2>1. \E k : WriteFails(s, k)
    BY <1>20 DEF PickPieceFails
  <2> QED
    BY <1>2, <1>3, <2>1 DEF WriteFails, Serving, Exact
<1> QED
  BY <1>9, <1>10, <1>11, <1>12, <1>15, <1>16, <1>17, <1>18, <1>19, <1>20 DEF Seed, Pick

LEMMA SeedIdle ==
  ASSUME Inv, AllFine, IdleInv, NEW s \in Peers, Seed(s), Inv', AllFine'
  PROVE  IdleInv'
<1>1. /\ pc[s] \in Running /\ UNCHANGED <<fpc, tried>> /\ (AllOwned => AllOwned')
      /\ \A t \in Peers : t # s => d'[t] = d[t] /\ pc'[t] = pc[t]
  BY SeedFrame
<1>2. ResultOK'
  BY <1>1 DEF IdleInv, ResultOK
<1>3. ASSUME NEW t \in Peers
      PROVE  NotIdle(t)'
  <2>1. CASE t = s
    BY <2>1, SeedNotIdle
  <2>2. CASE t # s
    BY <1>1, <2>2 DEF IdleInv, NotIdle
  <2> QED
    BY <2>1, <2>2
<1>4. UntriedChoked'
  <2>1. ~(s > tried)
    BY <1>1 DEF Inv, UntriedOK, Running
  <2> QED
    BY <1>1, <2>1 DEF IdleInv, UntriedChoked
<1> QED
  BY <1>2, <1>3, <1>4 DEF IdleInv

\* The File returns when nothing remains, or when every task is over
\* (mod.rs:99-138).
LEMMA FileIdle ==
  ASSUME Inv, AllFine, IdleInv, FileTask
  PROVE  IdleInv'
<1>1. bf' = bf
  BY DEF FileTask, TryPeer, TryPeerPanics, SeedsPicked, Recv, RecvFails, Check
<1>2. CASE TryPeer
  <2>0. d' = d
    BY <1>2 DEF TryPeer
  <2>1. tried + 1 \in Peers /\ Shape
    BY <1>2, PeersAssumption DEF TryPeer, MorePeers, Peers, Inv, RestOK
  <2>2. PICK l \in {"loop", "rejected"} : pc' = [pc EXCEPT ![tried + 1] = l]
    BY <1>2 DEF TryPeer
  <2>3. d[tried + 1].choked_us
    BY <2>1, PeersAssumption DEF Inv, RestOK, IdleInv, UntriedChoked
  <2>4. fpc = "pick_seeds" /\ fpc' = fpc /\ tried' = tried + 1
    BY <1>2 DEF TryPeer, MorePeers
  <2>5. \A t \in Peers : NotIdle(t)'
    BY <1>1, <2>0, <2>1, <2>2, <2>3 DEF IdleInv, NotIdle, AllOwned, Shape
  <2>6. UntriedChoked'
    <3>1. \A t \in Peers : t > tried + 1 => t > tried
      BY PeersAssumption DEF Inv, RestOK, Peers
    <3> QED
      BY <2>0, <2>4, <3>1 DEF IdleInv, UntriedChoked
  <2> QED
    BY <2>4, <2>5, <2>6 DEF IdleInv, ResultOK
<1>3. CASE TryPeerPanics
  <2>1. /\ fpc' = "panicked" /\ UNCHANGED tried
        /\ \A t \in Peers : d'[t] = new /\ pc'[t] \notin Running
    BY <1>3 DEF TryPeerPanics, Running
  <2>2. \A t \in Peers : NotIdle(t)'
    BY <2>1 DEF NotIdle, Running
  <2> QED
    BY <2>1, <2>2 DEF IdleInv, ResultOK, UntriedChoked, new
<1>4. CASE UNCHANGED <<pc, d, tried>> /\ ~TryPeerPanics
  <2>1. fpc' = fpc \/ fpc' \in {"recv", "check"} \/ (fpc' = "err" /\ AllSendersGone)
        \/ (fpc' = "ok" /\ remaining(bf) = 0)
    BY <1>4 DEF FileTask, TryPeer, SeedsPicked, Recv, RecvFails, Check
  <2>2. ResultOK'
    BY <1>1, <1>4, <2>1, RemainingIs DEF Inv, IdleInv, ResultOK, AllOwned, AllSendersGone
  <2> QED
    BY <1>1, <1>4, <2>2 DEF IdleInv, NotIdle, AllOwned, UntriedChoked
<1> QED
  BY <1>2, <1>3, <1>4 DEF FileTask, SeedsPicked, Recv, RecvFails, Check, seedVars

LEMMA IdleInductive == Safety => [](Inv /\ AllFine /\ IdleInv)
<1>1. Init => IdleInv
  BY DEF Init, IdleInv, ResultOK, UntriedChoked, NotIdle, new
<1>2. Inv /\ AllFine /\ IdleInv /\ [Next]_vars /\ Inv' /\ AllFine' => IdleInv'
  <2>1. CASE UNCHANGED vars
    BY <2>1 DEF vars, fileVars, seedVars, IdleInv, ResultOK, UntriedChoked, NotIdle, AllOwned
  <2> QED
    BY <2>1, FileIdle, SeedIdle DEF Next, Over
<1> QED
  BY <1>1, <1>2, FineInductive, PTL DEF Safety

\* A seed that serves and does not choke us is never waited for with nothing
\* requested while pieces are missing, whatever the other seeds do: each block that
\* comes leads to new requests until the last piece is under way
\* (mod.rs:429, 442-540).
THEOREM DownloadNeverIdle == Safety => []NeverIdle
<1>1. Inv /\ AllFine /\ IdleInv => NeverIdle
  BY RemainingIs DEF Inv, IdleInv, NotIdle, Trusted, Awaiting, AllOwned, NeverIdle
<1> QED
  BY <1>1, IdleInductive, PTL

-----------------------------------------------------------------------------
(* What the File holds and is sent is owned. *)

\* The pieces that the messages in c carry.
Carried(c) == {c[i].index : i \in {j \in 1..Len(c) : c[j].kind = "Piece"}}

LEMMA InChannelIs == InChannel = Carried(chan) /\ InChannel' = Carried(chan')
  BY DEF InChannel, Carried

\* Receiving takes from the channel what is received.
LEMMA CarriedTail ==
  ASSUME NEW c \in Seq(DownloaderMsg), c # <<>>
  PROVE  /\ Carried(Tail(c)) \subseteq Carried(c)
         /\ Head(c).kind = "Piece" => Head(c).index \in Carried(c)
<1>1. Len(c) \in Nat /\ Len(c) > 0 /\ Head(c) = c[1] /\ Len(Tail(c)) = Len(c) - 1
      /\ \A i \in 1..Len(Tail(c)) : Tail(c)[i] = c[i + 1]
  BY HeadTailProperties, EmptySeq, LenProperties
<1>2. ASSUME NEW i \in 1..Len(Tail(c)), Tail(c)[i].kind = "Piece"
      PROVE  Tail(c)[i].index \in Carried(c)
  <2>1. i + 1 \in 1..Len(c) /\ c[i + 1] = Tail(c)[i]
    BY <1>1
  <2> QED
    BY <1>2, <2>1 DEF Carried
<1>3. 1 \in 1..Len(c)
  BY <1>1
<1> QED
  BY <1>1, <1>2, <1>3 DEF Carried

\* Sending adds what is sent.
LEMMA CarriedAppend ==
  ASSUME NEW c \in Seq(DownloaderMsg), NEW m \in DownloaderMsg
  PROVE  Carried(Append(c, m)) \subseteq
             Carried(c) \cup (IF m.kind = "Piece" THEN {m.index} ELSE {})
<1>1. Len(c) \in Nat /\ Len(Append(c, m)) = Len(c) + 1
      /\ \A i \in 1..Len(c) : Append(c, m)[i] = c[i]
      /\ Append(c, m)[Len(c) + 1] = m
  BY AppendProperties, LenProperties
<1>2. ASSUME NEW i \in 1..(Len(c) + 1), Append(c, m)[i].kind = "Piece"
      PROVE  Append(c, m)[i].index \in
                 Carried(c) \cup (IF m.kind = "Piece" THEN {m.index} ELSE {})
  <2>1. CASE i \in 1..Len(c)
    BY <1>1, <1>2, <2>1 DEF Carried
  <2>2. CASE i = Len(c) + 1
    BY <1>1, <1>2, <2>2
  <2> QED
    BY <1>1, <2>1, <2>2
<1> QED
  BY <1>1, <1>2 DEF Carried


\* Steps that add nothing to the channel and take no bit away.
LEMMA NothingSent ==
  ASSUME WrittenIsOwned, Carried(chan') \subseteq Carried(chan),
         written' \subseteq written \cup Carried(chan), bf.own \subseteq bf'.own
  PROVE  WrittenIsOwned'
  BY InChannelIs DEF WrittenIsOwned

LEMMA FileOwned ==
  ASSUME Inv, WrittenIsOwned, FileTask
  PROVE  WrittenIsOwned'
<1>1. bf' = bf
  BY DEF FileTask, TryPeer, TryPeerPanics, SeedsPicked, Recv, RecvFails, Check
<1>2. CASE TryPeer \/ SeedsPicked \/ RecvFails
  BY <1>1, <1>2, NothingSent DEF TryPeer, SeedsPicked, RecvFails
<1>3. CASE Recv
  <2>1. chan \in Seq(DownloaderMsg) /\ chan # <<>> /\ chan' = Tail(chan)
    BY <1>3 DEF Inv, RestOK, Recv
  <2>2. written' \subseteq written \cup Carried(chan)
    BY <1>3, <2>1, CarriedTail DEF Recv
  <2> QED
    BY <1>1, <2>1, <2>2, CarriedTail, NothingSent
<1>4. CASE Check \/ TryPeerPanics
  <2>1. chan' \in {chan, <<>>} /\ written' = written
    BY <1>4 DEF Check, TryPeerPanics
  <2>2. Carried(<<>>) = {}
    BY DEF Carried
  <2> QED
    BY <1>1, <2>1, <2>2, NothingSent
<1> QED
  BY <1>2, <1>3, <1>4 DEF FileTask

\* pick_piece moves `cur' only (bitfield.rs:70-88).
LEMMA PickKeepsOwn == pick_piece(bf).own = bf.own \/ ~BitfieldOK(bf)
  BY DEF pick_piece, BitfieldOK, Bitfields

\* A piece is owned before it is sent (mod.rs:412-420).
LEMMA CompleteOwned ==
  ASSUME Inv, WrittenIsOwned, NEW s \in Peers, Complete(s)
  PROVE  WrittenIsOwned'
<1> DEFINE p == handling[s]
<1>1. p \in Pieces
  <2>1. TaskOf(s) /\ LocalOK(d[s])
    BY TaskFacts
  <2>2. p \in pending(d[s])
    BY <2>1 DEF Complete, TaskOf, TaskOK
  <2> QED
    BY <2>1, <2>2 DEF LocalOK, IsDownloader, IsPieceMap, pending
<1>2. bf'.own = bf.own \cup {p} /\ written' = written
  BY <1>1, SetOK DEF Complete, Inv, fileVars
<1>3. CASE chan' = chan
  BY <1>2, <1>3, NothingSent
<1>4. CASE chan' = Append(chan, PieceMsg(s, p))
  <2>1. PieceMsg(s, p) \in DownloaderMsg /\ PieceMsg(s, p).index = p
    BY <1>1 DEF PieceMsg, DownloaderMsg
  <2>2. chan \in Seq(DownloaderMsg)
    BY DEF Inv, RestOK
  <2>3. Carried(chan') \subseteq Carried(chan) \cup {p}
    BY <1>4, <2>1, <2>2, CarriedAppend
  <2> QED
    BY <1>2, <2>3, InChannelIs DEF WrittenIsOwned
<1> QED
  BY <1>3, <1>4 DEF Complete

LEMMA StreamEndsOwned ==
  ASSUME Inv, WrittenIsOwned, NEW s \in Peers, StreamEnds(s)
  PROVE  WrittenIsOwned'
<1>1. bf' = bf /\ written' = written
  BY DEF StreamEnds, fileVars
<1>2. CASE chan' = chan
  BY <1>1, <1>2, NothingSent
<1>3. CASE chan' = Append(chan, DisconnectMsg(s))
  <2>1. DisconnectMsg(s) \in DownloaderMsg /\ DisconnectMsg(s).kind # "Piece"
    BY DEF DisconnectMsg, DownloaderMsg
  <2>2. chan \in Seq(DownloaderMsg)
    BY DEF Inv, RestOK
  <2>3. Carried(chan') \subseteq Carried(chan)
    BY <1>3, <2>1, <2>2, CarriedAppend
  <2> QED
    BY <1>1, <2>3, NothingSent
<1> QED
  BY <1>2, <1>3 DEF StreamEnds

LEMMA SeedOwned ==
  ASSUME Inv, WrittenIsOwned, NEW s \in Peers, Seed(s)
  PROVE  WrittenIsOwned'
<1>1. CASE Complete(s)
  BY <1>1, CompleteOwned
<1>2. CASE StreamEnds(s)
  BY <1>2, StreamEndsOwned
<1>3. CASE Pick(s)
  <2>1. bf' \in {bf, pick_piece(bf)} /\ UNCHANGED <<chan, fileVars>>
    BY <1>3 DEF Pick, PickNothing, PickPiece, PickPieceFails
  <2>2. bf'.own = bf.own
    BY <2>1, PickKeepsOwn DEF Inv
  <2> QED
    BY <2>1, <2>2, NothingSent DEF fileVars
<1>4. CASE UNCHANGED <<bf, chan, fileVars>>
  BY <1>4, NothingSent DEF fileVars
<1>5. Complete(s) \/ StreamEnds(s) \/ Pick(s) \/ UNCHANGED <<bf, chan, fileVars>>
  BY DEF Seed, CheckRemaining, Nothing, Choke, Unchoke, PeerRequest, Deliver,
         ReceiveBlock, ReceiveOrphan, PieceSent, Request, RequestPending,
         RequestPendingFails, KeepAliveFails, ReadError, DisconnectSent
<1> QED
  BY <1>1, <1>2, <1>3, <1>4, <1>5

\* Whatever the seeds do, the File holds and is sent only pieces that are owned: the
\* bit is set before the piece is sent, under the same lock, and never taken back
\* (mod.rs:130-134, 411-426).
THEOREM DownloadOwned == Safety => []WrittenIsOwned
<1>1. Init => WrittenIsOwned
  BY DEF Init, WrittenIsOwned, InChannel, zero
<1>2. Inv /\ WrittenIsOwned /\ [Next]_vars => WrittenIsOwned'
  <2>1. CASE UNCHANGED vars
    BY <2>1, NothingSent DEF vars, fileVars
  <2> QED
    BY <2>1, FileOwned, SeedOwned DEF Next, Over
<1> QED
  BY <1>1, <1>2, DownloadInductive, PTL DEF Safety

-----------------------------------------------------------------------------
(* The download implements PieceLedger, step by step. *)

\* What a received message carried may be carried by another one.
LEMMA CarriedHead ==
  ASSUME NEW c \in Seq(DownloaderMsg), c # <<>>
  PROVE  Carried(c) =
            Carried(Tail(c)) \cup (IF Head(c).kind = "Piece" THEN {Head(c).index} ELSE {})
<1>1. Len(c) \in Nat /\ Len(c) > 0 /\ Head(c) = c[1] /\ Len(Tail(c)) = Len(c) - 1
      /\ \A i \in 1..Len(Tail(c)) : Tail(c)[i] = c[i + 1]
  BY HeadTailProperties, EmptySeq, LenProperties
<1>2. ASSUME NEW i \in 1..Len(c), c[i].kind = "Piece"
      PROVE  c[i].index \in
                Carried(Tail(c)) \cup (IF Head(c).kind = "Piece" THEN {Head(c).index} ELSE {})
  <2>1. CASE i = 1
    BY <1>1, <1>2, <2>1
  <2>2. CASE i # 1
    <3>1. i - 1 \in 1..Len(Tail(c)) /\ Tail(c)[i - 1] = c[i]
      BY <1>1, <2>2
    <3> QED
      BY <1>2, <3>1 DEF Carried
  <2> QED
    BY <2>1, <2>2
<1> QED
  BY <1>2, CarriedTail DEF Carried

\* What is sent is carried, and what was still is.
LEMMA CarriedSent ==
  ASSUME NEW c \in Seq(DownloaderMsg), NEW m \in DownloaderMsg
  PROVE  Carried(Append(c, m)) =
             Carried(c) \cup (IF m.kind = "Piece" THEN {m.index} ELSE {})
<1>1. Len(c) \in Nat /\ Len(Append(c, m)) = Len(c) + 1
      /\ \A i \in 1..Len(c) : Append(c, m)[i] = c[i]
      /\ Append(c, m)[Len(c) + 1] = m
  BY AppendProperties, LenProperties
<1>2. ASSUME NEW i \in 1..Len(c), c[i].kind = "Piece"
      PROVE  c[i].index \in Carried(Append(c, m))
  <2>1. i \in 1..Len(Append(c, m)) /\ Append(c, m)[i] = c[i]
    BY <1>1
  <2> QED
    BY <1>2, <2>1 DEF Carried
<1>3. m.kind = "Piece" => m.index \in Carried(Append(c, m))
  <2>1. Len(c) + 1 \in 1..Len(Append(c, m))
    BY <1>1
  <2> QED
    BY <1>1, <2>1 DEF Carried
<1>4. Carried(c) \subseteq Carried(Append(c, m))
  BY <1>2 DEF Carried
<1> QED
  BY <1>3, <1>4, CarriedAppend

\* Under what the download keeps its promise.  A corrupt piece is owned and not sent,
\* and in a torrent whose last byte of bits has no padding the task that completes the
\* last piece panics (bitfield.rs:101-103): mod.rs:411-427 owns before it validates
\* and sends.
AllHonest == \A s \in Peers : Honest(s)
Padded == TotalPieces % 8 # 0

LEMMA PaddedNeverPanics ==
  ASSUME Padded, NEW b, BitfieldOK(b), NEW i \in Pieces
  PROVE  ~set_panics(b, i)
<1>1. set(b, i).confirmed \in 0..TotalPieces
  BY SetOK DEF BitfieldOK, Bitfields
<1>2. TotalPieces < Capacity
  BY TotalPiecesAssumption DEF Padded, Capacity, Bits
<1> QED
  BY <1>1, <1>2, TotalPiecesAssumption DEF set_panics

LedgerStep == [Ledger!Next]_(Ledger!ledger)

\* Steps that the ledger does not see.
LEMMA LedgerStutters ==
  ASSUME bf'.own = bf.own, Carried(chan') = Carried(chan), UNCHANGED written,
         (ReceiverGone \/ ReceiverGone') => UNCHANGED fpc
  PROVE  LedgerStep
  BY InChannelIs DEF LedgerStep, Ledger!ledger, ReceiverGone

LEMMA FileLedger ==
  ASSUME Inv, FileTask
  PROVE  LedgerStep
<1>1. chan \in Seq(DownloaderMsg)
  BY DEF Inv, RestOK
<1>2. bf' = bf
  BY DEF FileTask, TryPeer, TryPeerPanics, SeedsPicked, Recv, RecvFails, Check
<1>3. CASE TryPeer \/ SeedsPicked
  <2>1. UNCHANGED <<chan, written>> /\ ~ReceiverGone /\ ~ReceiverGone'
    BY <1>3 DEF TryPeer, MorePeers, SeedsPicked, ReceiverGone
  <2> QED
    BY <1>2, <2>1, LedgerStutters
<1>4. CASE Recv
  <2>1. chan # <<>> /\ chan' = Tail(chan) /\ ~ReceiverGone /\ ~ReceiverGone'
    BY <1>4 DEF Recv, ReceiverGone
  <2>2. CASE Head(chan).kind = "Piece"
    <3> DEFINE p == Head(chan).index
    <3>1. InChannel = InChannel' \cup {p}
      BY <1>1, <2>1, <2>2, CarriedHead, InChannelIs
    <3>2. written' = written \cup {p}
      BY <1>4, <2>2 DEF Recv
    <3>3. p \in Pieces
      BY <1>1, <2>1, <2>2, HeadTailProperties DEF DownloaderMsg
    <3> HIDE DEF p
    <3>4. Ledger!Write(p)
      BY <1>2, <2>1, <3>1, <3>2 DEF Ledger!Write
    <3> QED
      BY <3>3, <3>4 DEF LedgerStep, Ledger!Next
  <2>3. CASE Head(chan).kind # "Piece"
    <3>1. Carried(chan') = Carried(chan) /\ UNCHANGED written
      BY <1>1, <1>4, <2>1, <2>3, CarriedHead DEF Recv
    <3> QED
      BY <1>2, <2>1, <3>1, LedgerStutters
  <2> QED
    BY <2>2, <2>3
<1>5. CASE RecvFails
  <2>1. InChannel = {} /\ InChannel' = {}
    BY <1>5, InChannelIs DEF RecvFails, Carried
  <2>2. ~ReceiverGone /\ ReceiverGone' /\ fpc' = "err" /\ UNCHANGED written
    BY <1>5 DEF RecvFails, ReceiverGone
  <2>3. Ledger!ReturnErr
    BY <1>2, <2>1, <2>2 DEF Ledger!ReturnErr
  <2> QED
    BY <2>3 DEF LedgerStep, Ledger!Next
<1>6. CASE Check
  <2>1. ~ReceiverGone /\ UNCHANGED written
    BY <1>6 DEF Check, ReceiverGone
  <2>2. CASE remaining(bf) = 0
    <3>1. fpc' = "ok" /\ ReceiverGone' /\ InChannel' = {}
      BY <1>6, <2>2, InChannelIs DEF Check, ReceiverGone, Carried
    <3>2. bf.own = Pieces
      BY <2>2, RemainingIs DEF Inv
    <3>3. Ledger!ReturnOk
      BY <1>2, <2>1, <3>1, <3>2 DEF Ledger!ReturnOk
    <3> QED
      BY <3>3 DEF LedgerStep, Ledger!Next
  <2>3. CASE remaining(bf) # 0
    <3>1. chan' = chan /\ ~ReceiverGone'
      BY <1>6, <2>3 DEF Check, ReceiverGone
    <3> QED
      BY <1>2, <2>1, <3>1, LedgerStutters
  <2> QED
    BY <2>2, <2>3
<1>7. CASE TryPeerPanics
  <2>1. /\ ~ReceiverGone /\ ReceiverGone' /\ fpc' = "panicked" /\ UNCHANGED written
        /\ InChannel' = {}
    BY <1>7, InChannelIs DEF TryPeerPanics, MorePeers, ReceiverGone, Carried
  <2>2. Ledger!Panic
    BY <1>2, <2>1 DEF Ledger!Panic
  <2> QED
    BY <2>2 DEF LedgerStep, Ledger!Next
<1> QED
  BY <1>3, <1>4, <1>5, <1>6, <1>7 DEF FileTask

\* A piece is owned and sent in one step; once the File has returned nothing changes.
LEMMA CompleteLedger ==
  ASSUME AllHonest, Padded, Inv, AllFine, IdleInv, NEW s \in Peers, Complete(s)
  PROVE  LedgerStep
<1> DEFINE p == handling[s]
<1>1. TaskOf(s) /\ LocalOK(d[s]) /\ Fine(s, d[s], pc[s], stream[s]) /\ pc[s] = "complete"
  BY FineFacts DEF Complete
<1>2. p \in pending(d[s]) /\ d[s].pending_pieces[p].remaining_blocks = 0
  BY <1>1 DEF TaskOf, TaskOK
<1>3. p \in Pieces
  BY <1>1, <1>2 DEF LocalOK, IsDownloader, IsPieceMap, pending
<1>4. validate_piece(d[s], p)
  BY <1>1, <1>2, NothingLeftValid DEF AllHonest, Fine
<1>5. bf'.own = bf.own \cup {p} /\ UNCHANGED <<fpc, written>>
  BY <1>3, SetOK DEF Complete, Inv, fileVars
<1>6. ~set_panics(bf, p)
  BY <1>3, PaddedNeverPanics DEF Inv
<1>7. CASE ReceiverGone
  <2>1. fpc = "ok"
    BY <1>1, <1>7 DEF ReceiverGone, IdleInv, ResultOK, Running
  <2>2. bf'.own = bf.own
    BY <1>3, <1>5, <2>1 DEF IdleInv, ResultOK, AllOwned
  <2>3. chan' = chan
    BY <1>6, <1>7 DEF Complete
  <2> QED
    BY <1>5, <2>2, <2>3, LedgerStutters
<1>8. CASE ~ReceiverGone
  <2>1. chan' = Append(chan, PieceMsg(s, p))
    BY <1>4, <1>6, <1>8 DEF Complete
  <2>2. PieceMsg(s, p) \in DownloaderMsg /\ PieceMsg(s, p).index = p
        /\ PieceMsg(s, p).kind = "Piece" /\ chan \in Seq(DownloaderMsg)
    BY <1>3 DEF PieceMsg, DownloaderMsg, Inv, RestOK
  <2>3. InChannel' = InChannel \cup {p}
    BY <2>1, <2>2, CarriedSent, InChannelIs
  <2>4. ~ReceiverGone'
    BY <1>5, <1>8 DEF ReceiverGone
  <2> HIDE DEF p
  <2>5. Ledger!Deliver(p)
    BY <1>5, <1>8, <2>3, <2>4 DEF Ledger!Deliver
  <2> QED
    BY <1>3, <2>5 DEF LedgerStep, Ledger!Next
<1> QED
  BY <1>7, <1>8

LEMMA SeedLedger ==
  ASSUME AllHonest, Padded, Inv, AllFine, IdleInv, NEW s \in Peers, Seed(s)
  PROVE  LedgerStep
<1>1. CASE StreamEnds(s)
  <2>1. bf' = bf /\ UNCHANGED <<fpc, written>>
    BY <1>1 DEF StreamEnds, fileVars
  <2>2. CASE chan' = chan
    BY <2>1, <2>2, LedgerStutters
  <2>3. CASE chan' = Append(chan, DisconnectMsg(s))
    <3>1. DisconnectMsg(s) \in DownloaderMsg /\ DisconnectMsg(s).kind # "Piece"
          /\ chan \in Seq(DownloaderMsg)
      BY DEF DisconnectMsg, DownloaderMsg, Inv, RestOK
    <3>2. Carried(chan') = Carried(chan)
      BY <2>3, <3>1, CarriedSent
    <3> QED
      BY <2>1, <3>2, LedgerStutters
  <2> QED
    BY <1>1, <2>2, <2>3 DEF StreamEnds
<1>2. CASE Pick(s)
  <2>1. bf' \in {bf, pick_piece(bf)} /\ UNCHANGED <<chan, fileVars>>
    BY <1>2 DEF Pick, PickNothing, PickPiece, PickPieceFails
  <2>2. bf'.own = bf.own
    BY <2>1, PickKeepsOwn DEF Inv
  <2> QED
    BY <2>1, <2>2, LedgerStutters DEF fileVars
<1>3. CASE UNCHANGED <<bf, chan, fileVars>>
  BY <1>3, LedgerStutters DEF fileVars
<1>4. Complete(s) \/ StreamEnds(s) \/ Pick(s) \/ UNCHANGED <<bf, chan, fileVars>>
  BY DEF Seed, CheckRemaining, Nothing, Choke, Unchoke, PeerRequest, Deliver,
         ReceiveBlock, ReceiveOrphan, PieceSent, Request, RequestPending,
         RequestPendingFails, KeepAliveFails, ReadError, DisconnectSent
<1> QED
  BY <1>1, <1>2, <1>3, <1>4, CompleteLedger

\* With seeds that send the right content, which may choke us, leave, fail and answer
\* in any order, and unless the last byte of bits is all pieces, the download owns,
\* carries and writes pieces as PieceLedger says: what is owned is on its way to the
\* file or in it until the File returns, and the File returns Ok only when every piece
\* is owned (mod.rs:99-138, 405-427).
THEOREM DownloadImplementsLedger == AllHonest /\ Padded => (Safety => ImplementsLedger)
<1> SUFFICES ASSUME AllHonest, Padded PROVE Safety => ImplementsLedger
  OBVIOUS
<1>1. Init => Ledger!Init
  BY DEF Init, Ledger!Init, zero, InChannel, ReceiverGone
<1>2. Inv /\ AllFine /\ IdleInv /\ [Next]_vars => [Ledger!Next]_(Ledger!ledger)
  <2> SUFFICES ASSUME Inv, AllFine, IdleInv, [Next]_vars PROVE LedgerStep
    BY DEF LedgerStep
  <2>1. CASE UNCHANGED vars
    BY <2>1, LedgerStutters DEF vars, fileVars
  <2> QED
    BY <2>1, FileLedger, SeedLedger DEF Next, Over
<1> QED
  BY <1>1, <1>2, IdleInductive, PTL DEF Safety, ImplementsLedger, Ledger!Spec

\* Under the same conditions no piece that is owned is lost while the File's task runs:
\* its bytes are in the file or in the channel (mod.rs:99-138, 411-427).
THEOREM DownloadConserves == AllHonest /\ Padded => (Safety => []Ledger!Conserved)
<1>1. Ledger!Init => Ledger!Conserved
  BY DEF Ledger!Init, Ledger!Conserved
<1>2. Ledger!Conserved /\ [Ledger!Next]_(Ledger!ledger) => Ledger!Conserved'
  <2> SUFFICES ASSUME Ledger!Conserved, [Ledger!Next]_(Ledger!ledger)
               PROVE  Ledger!Conserved'
    OBVIOUS
  <2>1. CASE UNCHANGED Ledger!ledger
    BY <2>1 DEF Ledger!ledger, Ledger!Conserved
  <2>2. CASE \E p \in Pieces : Ledger!Deliver(p) \/ Ledger!Write(p)
    BY <2>2 DEF Ledger!Deliver, Ledger!Write, Ledger!Conserved
  <2>3. CASE Ledger!ReturnOk \/ Ledger!ReturnErr \/ Ledger!Panic
    BY <2>3 DEF Ledger!ReturnOk, Ledger!ReturnErr, Ledger!Panic, Ledger!Conserved
  <2> QED
    BY <2>1, <2>2, <2>3 DEF Ledger!Next
<1> QED
  BY <1>1, <1>2, DownloadImplementsLedger, PTL DEF ImplementsLedger, Ledger!Spec
=============================================================================
