---------------------------- MODULE MCMpqArchive ----------------------------
(* Instances of MpqArchive and MpqArchiveRefines for TLC.                  *)
EXTENDS MpqArchiveRefines

MCLayouts == {[blockSize |-> 1, fileSize |-> 1, flags |-> "None"],
              [blockSize |-> 2, fileSize |-> 0, flags |-> "Set"]}
MCImages == {}

(* What the theorems assume holds of the instance.                         *)
ASSUME InstanceAssumption == FilesNotEmpty
=============================================================================
