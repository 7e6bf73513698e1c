------------------------- MODULE MpqArchiveRefines -------------------------
(***************************************************************************)
(* The archive together with its file implements the abstract archive of   *)
(* MpqFiles as its tables do, for clients that keep to one hash entry per  *)
(* path: also when it is opened again from the file it has written, and    *)
(* whenever the process is killed in between.                              *)
(***************************************************************************)
EXTENDS MpqArchive, MpqTablesRefines

ArchiveOneEntryInit == ArchiveInit /\ session = FALSE
ArchiveOneEntryNext ==
    \/ Begins /\ OneEntryPerPath /\ session' = ~session
    \/ Continues /\ OneEntryPerPath /\ UNCHANGED session
ArchiveOneEntry == ArchiveOneEntryInit /\ [][ArchiveOneEntryNext]_<<allVars, session>>
=============================================================================
