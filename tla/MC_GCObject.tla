---------------------------- MODULE MC_GCObject ----------------------------
(* The WAMR layout, scaled to an 8-bit HMU header word with the fields in  *)
(* the runtime's order: usage type in the top two bits, then the pinned    *)
(* bit (odd offset, as 29 is), the mark bit (even offset, as 28 is), and   *)
(* the size below.                                                          *)
EXTENDS GCObject, TLC

\* The usage types, as model values.
CONSTANTS HMU_FC, HMU_FM, HMU_VO, HMU_WO
MC_HMU_UT_MAP == (0 :> HMU_FC @@ 1 :> HMU_FM @@ 2 :> HMU_VO @@ 3 :> HMU_WO)
MC_TYPE_KIND == <<"WASM_TYPE_FUNC", "WASM_TYPE_STRUCT", "WASM_TYPE_ARRAY">>
=============================================================================
