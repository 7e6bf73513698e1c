-------------------------- MODULE MCEditorSources --------------------------
(* An instance of EditorSources for TLC.                                   *)
EXTENDS EditorSources, TLC

CONSTANTS war3, patch, share, bare

MCContent == war3 :> {"strings"} @@ patch :> {"strings", "icon"} @@ share :> {"icon"}
MCDefaults == <<war3, patch>>
MCBareDefaults == <<bare>>
=============================================================================
