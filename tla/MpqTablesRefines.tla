-------------------------- MODULE MpqTablesRefines --------------------------
(***************************************************************************)
(* For clients that keep to one hash entry per path the two tables         *)
(* implement the abstract archive of MpqFiles.                             *)
(***************************************************************************)
EXTENDS MpqTables

(* Which call of create() or open() the archive is in, as a parity.        *)
VARIABLE session

(* Clients that call addFile() only for paths findHash() finds no entry    *)
(* for, and that open archives other programs wrote with one per path.     *)
OneEntryPerPath == \A k \in Keys : Cardinality(Group(hashes', k)) <= 1

InitOneEntry == Init /\ session = FALSE
NextOneEntry ==
    \/ Restart /\ OneEntryPerPath /\ session' = ~session
    \/ (Stop \/ Call) /\ OneEntryPerPath /\ UNCHANGED session
SpecOneEntry == InitOneEntry /\ [][NextOneEntry]_<<vars, session>>

NoContent == [index |-> -1]
Stored(k) ==
    LET f == FindFile(hashes, head, k)
    IN  IF isOpen /\ f.state = "live" THEN blocks[hashes[f.slot].block] ELSE NoContent

(* The tables implement the map from paths to files: while the archive is  *)
(* open, what is found under a path is added by addFile() for that path    *)
(* only, removed by removeFile() of that file only, and never altered in   *)
(* between.                                                                *)
Files == INSTANCE MpqFiles WITH open <- isOpen, content <- [k \in Keys |-> Stored(k)]
ImplementsFiles == Files!Spec
=============================================================================
