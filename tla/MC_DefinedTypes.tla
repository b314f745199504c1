-------------------------- MODULE MC_DefinedTypes --------------------------
(* Model-checking instance of DefinedTypes: one numeric and both          *)
(* reference-handle value types, up to three positions, and (in the cfg) *)
(* two type indices apart from the position numbers.                     *)
EXTENDS DefinedTypes, TLC
CONSTANTS MC_None, MC_Unknown
MC_WASM_TYPE_MAP ==
    (0 :> "VALUE_TYPE_I32" @@ 1 :> "REF_TYPE_HT_NULLABLE"
     @@ 2 :> "REF_TYPE_HT_NON_NULLABLE")
=============================================================================
