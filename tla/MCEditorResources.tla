------------------------- MODULE MCEditorResources -------------------------
(* An instance of EditorResources for TLC.                                 *)
EXTENDS EditorResources, TLC

CONSTANTS strings, teamColor, abilities, buffs, abilityData, abilityFunc, buffFunc,
          picture, map

(* As AbilityData and BuffData do, two objects read one file.              *)
MCFiles == abilities :> <<abilityData, abilityFunc>> @@ buffs :> <<buffFunc>>

(* A texture opened by the texture editor has the URL of a team colour.    *)
MCUrlOf ==
    strings :> "WorldEditStrings.txt" @@ teamColor :> "TeamColor00.blp" @@
    abilityData :> "AbilityData.slk" @@ abilityFunc :> "ItemAbilityFunc.txt" @@
    buffFunc :> "ItemAbilityFunc.txt" @@
    picture :> "TeamColor00.blp" @@
    map :> "map.w3x"

MCUrls == {MCUrlOf[m] : m \in DOMAIN MCUrlOf}
=============================================================================
