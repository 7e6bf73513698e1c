--------------------------- MODULE MCEditorObjects ---------------------------
(* An instance of EditorObjects for TLC.                                   *)
EXTENDS EditorObjects

CONSTANTS ring, first, second, permanent, charged, class, name, heroOnly

MCClassOf == ring :> permanent

(* A file with two custom objects, of which one changes its class, and one *)
(* with a modification of the original.                                    *)
Object(c) == [original |-> ring, custom |-> c]
MCImports == {
    << [id |-> Object(first), field |-> class, value |-> charged],
       [id |-> Object(second), field |-> heroOnly, value |-> "changed"],
       [id |-> Object(first), field |-> class, value |-> permanent] >>,
    << [id |-> Object(Standard), field |-> name, value |-> "changed"] >> }
=============================================================================
