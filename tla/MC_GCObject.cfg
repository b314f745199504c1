CONSTANTS
    HMU_HEADER_SIZE = 4
    HMU_SIZE_SIZE = 4
    HMU_SIZE_OFFSET = 0
    HMU_UT_SIZE = 2
    HMU_UT_OFFSET = 6
    HMU_P_OFFSET = 5
    HMU_WO_MB_OFFSET = 4
    HMU_UT_MAP <- MC_HMU_UT_MAP
    HMU_FC = HMU_FC
    HMU_FM = HMU_FM
    HMU_VO = HMU_VO
    HMU_WO = HMU_WO
    WASM_OBJ_EXTERNREF_OBJ_FLAG = 2
    WASM_OBJ_ANYREF_OBJ_FLAG = 4
    TYPE_KIND <- MC_TYPE_KIND
    WASM_ARRAY_LENGTH_SHIFT = 2
    WASM_ARRAY_ELEM_SIZE_MASK = 3
    I31_BITS = 4
    NoRead = NoRead
    ObjRefs = {16}
    RttRefs = {8}
    HmuSizes = {8, 24}
    ArrayLengths = {0, 3}
SPECIFICATION Spec
INVARIANTS TypeOK DecodeRoundTrip
