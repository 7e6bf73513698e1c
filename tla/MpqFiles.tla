------------------------------ MODULE MpqFiles ------------------------------
(***************************************************************************)
(* What an mpq::Archive promises to its clients: a map from paths to       *)
(* stored files which is there while the archive is open and which         *)
(* addFile() and removeFile() change at the one path they are called with. *)
(* MpqTablesRefines shows that the two tables of an archive implement it.  *)
(***************************************************************************)
CONSTANTS Keys, NoContent

VARIABLES open, content, session

Nothing == [k \in Keys |-> NoContent]

Init == open = FALSE /\ content = Nothing /\ session = FALSE

(* open() shows what is in the file, create() nothing.                     *)
Open ==
    /\ open' = TRUE
    /\ DOMAIN content' = Keys
    /\ session' = ~session

(* close(), an exception of open() or create(), or the end of the process. *)
Drop ==
    /\ open' = FALSE
    /\ content' = Nothing
    /\ UNCHANGED session

Put(k) ==
    /\ open
    /\ content[k] = NoContent
    /\ content'[k] # NoContent
    /\ content' = [content EXCEPT ![k] = content'[k]]
    /\ UNCHANGED <<open, session>>

Delete(k) ==
    /\ open
    /\ content[k] # NoContent
    /\ content' = [content EXCEPT ![k] = NoContent]
    /\ UNCHANGED <<open, session>>

Next == Open \/ Drop \/ \E k \in Keys : Put(k) \/ Delete(k)

Spec == Init /\ [][Next]_<<open, content, session>>
=============================================================================
