CONSTANTS
    WASM_TYPE_MAP <- MC_WASM_TYPE_MAP
    TypeIdxs = {5, 7}
    MaxFields = 3
    None = MC_None
    Unknown = MC_Unknown
    MC_None = MC_None
    MC_Unknown = MC_Unknown
    SparseMaps = TRUE
SPECIFICATION Spec
INVARIANT RefTypeResolved
