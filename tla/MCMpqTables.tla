---------------------------- MODULE MCMpqTables ----------------------------
(* Instances of MpqTables for TLC.                                         *)
EXTENDS MpqTables, TLC

CONSTANTS k1, k2

Data(off, n) == [offset |-> off, blockSize |-> n, fileSize |-> n + 1, flags |-> "Set"]
BlockAt(i, d) ==
    [index |-> i, offset |-> d.offset, blockSize |-> d.blockSize, fileSize |-> d.fileSize,
     flags |-> d.flags]
FileHash(k, p) == [key |-> k, block |-> p, deleted |-> FALSE]
NeverUsed == [key |-> ErasedKey, block |-> NoBlock, deleted |-> FALSE]
WasDeleted == [key |-> ErasedKey, block |-> NoBlock, deleted |-> TRUE]

(* Tables behind the header, data behind the tables: one file and a free   *)
(* entry that was never used or was deleted.                               *)
TablesFirst(free) ==
    [blocks |-> <<BlockAt(0, Data(96, 2)), NewBlock(1)>>,
     hashes |-> <<free, FileHash(k1, 1)>>,
     bto |-> 32, hto |-> 64, size |-> 98]

(* The same file next to an entry never used and one deleted.              *)
DeletedBehindFree ==
    [TablesFirst(NeverUsed) EXCEPT !.hashes = Append(@, WasDeleted),
                                   !.blocks = [@ EXCEPT ![1].offset = 112],
                                   !.size = 114]

(* The usual layout of other programs: header, data, hash and block table. *)
TablesLast ==
    [blocks |-> <<BlockAt(0, Data(32, 2)), NewBlock(1)>>,
     hashes |-> <<NeverUsed, FileHash(k1, 1)>>,
     bto |-> 66, hto |-> 34, size |-> 98]
MCImages == {TablesFirst(NeverUsed), TablesFirst(WasDeleted), DeletedBehindFree, TablesLast}

(* A file stored as it is, and one in sectors, whose size stays unknown.   *)
MCLayouts == {[blockSize |-> 1, fileSize |-> 1, flags |-> "None"],
              [blockSize |-> 2, fileSize |-> 0, flags |-> "Set"]}
(* The same two in larger pieces.                                          *)
MCLargeLayouts == {[blockSize |-> 8, fileSize |-> 8, flags |-> "None"],
                   [blockSize |-> 16, fileSize |-> 0, flags |-> "Set"]}
MCOneLayout == {[blockSize |-> 24, fileSize |-> 24, flags |-> "None"]}

(* What the theorems assume of images and files holds of these.           *)
ASSUME InstanceAssumption ==
    ImagesHoldFiles /\ FilesNotEmpty /\ ImagesOwnBlocks /\ ImagesDataApart /\ ImagesSizeAdds

MCSymmetry == Permutations(Clients)
=============================================================================
