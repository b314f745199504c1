----------------------------- MODULE GCObject -----------------------------
(***************************************************************************)
(* The heap-object decoder of the WAMR gdb scripts: the command            *)
(* wamr_gc_obj_dump(ref), i.e. WASMObj.create_obj (wamr_objects.py) with   *)
(* the header helpers of utils.py, then str() of the object it built.      *)
(*                                                                         *)
(* A command reads at most five cells of the halted target: the HMU        *)
(* header word before the object, the object's header word (its RTT        *)
(* reference), the type_flag of the RTT record, the type_flag of the       *)
(* defined type, and the object body word (array length, bound function,  *)
(* host pointer).  Each cell holds a word or is unreadable (NoRead).  The  *)
(* command reads each cell once and keeps nothing afterwards, so the cells *)
(* are an input of the command.  The ghost variable src records what was  *)
(* written to memory: a tagged i31 value, an object encoded as the WAMR    *)
(* runtime lays it out (Encode), or memory that holds no object.           *)
(***************************************************************************)
EXTENDS Integers, Sequences

CONSTANTS
    HMU_HEADER_SIZE,              \* bytes of the HMU header before an object
    HMU_SIZE_SIZE, HMU_SIZE_OFFSET,
    HMU_UT_SIZE, HMU_UT_OFFSET,
    HMU_P_OFFSET, HMU_WO_MB_OFFSET,
    HMU_UT_MAP,                   \* usage-type code -> name
    WASM_OBJ_EXTERNREF_OBJ_FLAG, WASM_OBJ_ANYREF_OBJ_FLAG,
    TYPE_KIND,                    \* the list indexed by an RTT's type_flag
    WASM_ARRAY_LENGTH_SHIFT, WASM_ARRAY_ELEM_SIZE_MASK,
    I31_BITS,                     \* payload bits of a tagged i31 reference
    NoRead,                       \* an unreadable cell
    ObjRefs,                      \* addresses of heap objects (even)
    RttRefs,                      \* addresses of RTT records (aligned)
    HmuSizes, ArrayLengths        \* object sizes and array lengths to try

\* `1 << k`: the masks and shifts of utils.py and wamr_objects.py.
Pow2[k \in Nat] == IF k = 0 THEN 1 ELSE 2 * Pow2[k - 1]

\* The flags and the element-size mask are single bits and a low-bit mask,
\* so that `&` with them is arithmetic on the binary digits.
IsPow2(n) == \E k \in 0 .. n : n = Pow2[k]
ASSUME LayoutAssumption ==
    /\ \A c \in {HMU_HEADER_SIZE, HMU_SIZE_SIZE, HMU_SIZE_OFFSET, HMU_UT_SIZE,
                 HMU_UT_OFFSET, HMU_P_OFFSET, HMU_WO_MB_OFFSET,
                 WASM_ARRAY_LENGTH_SHIFT, WASM_ARRAY_ELEM_SIZE_MASK} : c \in Nat
    /\ I31_BITS \in Nat \ {0}
    /\ DOMAIN HMU_UT_MAP = 0 .. Pow2[HMU_UT_SIZE] - 1
    /\ IsPow2(WASM_OBJ_EXTERNREF_OBJ_FLAG) /\ IsPow2(WASM_OBJ_ANYREF_OBJ_FLAG)
    /\ IsPow2(WASM_ARRAY_ELEM_SIZE_MASK + 1)
    /\ TYPE_KIND \in Seq(STRING)
    /\ ObjRefs \subseteq {a \in Nat : a % 2 = 0}
    /\ RttRefs \subseteq Nat
    /\ NoRead \notin Int /\ NoRead # "ok"

(***************************************************************************)
(* utils.py                                                                *)
(***************************************************************************)
\* get_bits: (val & (((1 << size) - 1) << offset)) >> offset.
get_bits(val, size, offset) == (val \div Pow2[offset]) % Pow2[size]
get_bit(val, offset) == get_bits(val, 1, offset)

hmu_get_size(hmu) == get_bits(hmu, HMU_SIZE_SIZE, HMU_SIZE_OFFSET) * 8
hmu_get_ut(hmu) == HMU_UT_MAP[get_bits(hmu, HMU_UT_SIZE, HMU_UT_OFFSET)]
\* As written, these two pass the offset where the header belongs: they
\* return bit 0 of the offset constant, whatever the header holds.
hmu_get_pinuse(hmu) == get_bit(HMU_P_OFFSET, 0)
hmu_get_vo_marked(hmu) == get_bit(HMU_WO_MB_OFFSET, 0)

\* `(x & flag) == flag` for a single-bit flag.
HasFlag(x, flag) == (x \div flag) % 2 = 1

(***************************************************************************)
(* Outcomes of a decode: a value, or a Python exception.                   *)
(***************************************************************************)
MemoryError == [exc |-> "gdb.MemoryError"]
IndexError == [exc |-> "IndexError"]
IsExc(x) == x \in {MemoryError, IndexError}
None == [none |-> "None"]
NoType == "None"                  \* None where a type kind is expected

ARRAY == "WASM_TYPE_ARRAY"
STRUCT == "WASM_TYPE_STRUCT"
FUNC == "WASM_TYPE_FUNC"
EXTERNREF == "WASM_TYPE_EXTERNREF"
ANYREF == "WASM_TYPE_ANYREF"
I31 == "WASM_I31"

\* HMU(hmu): the header word is read when hmu_get_size masks it.
HMU(cell) ==
    IF cell = NoRead THEN MemoryError
    ELSE [size |-> hmu_get_size(cell), ut |-> hmu_get_ut(cell),
          pinuse |-> hmu_get_pinuse(cell), marked |-> hmu_get_vo_marked(cell)]

\* WASMRtt(rtt_ref): the two sentinel tests on the header word, then the
\* dereference and the TYPE_KIND lookup of type_flag.
WASMRtt(header, rttCell) ==
    IF header = NoRead THEN MemoryError
    ELSE IF HasFlag(header, WASM_OBJ_EXTERNREF_OBJ_FLAG) THEN [type_flag |-> EXTERNREF]
    ELSE IF HasFlag(header, WASM_OBJ_ANYREF_OBJ_FLAG) THEN [type_flag |-> ANYREF]
    ELSE IF rttCell = NoRead THEN MemoryError
    ELSE IF rttCell \notin 0 .. Len(TYPE_KIND) - 1 THEN IndexError
    ELSE [type_flag |-> TYPE_KIND[rttCell + 1]]

\* WASMType.create_type: the TYPE_KIND lookup of the defined type's flag,
\* and for a function type the two counts WASMFuncType reads at once; a
\* MemoryError or an IndexError there gives None.
create_type(defCell, typeBody) ==
    IF defCell = NoRead THEN NoType
    ELSE IF defCell \notin 0 .. Len(TYPE_KIND) - 1 THEN NoType
    ELSE IF TYPE_KIND[defCell + 1] = FUNC /\ typeBody = NoRead THEN NoType
    ELSE IF TYPE_KIND[defCell + 1] \in {ARRAY, STRUCT, FUNC} THEN TYPE_KIND[defCell + 1]
    ELSE NoType

\* The plausible slip of reading the raw usage-type code.
hmu_get_ut_raw(mem) ==
    LET hmu == HMU(mem.hmu) IN
    IF hmu = MemoryError THEN hmu
    ELSE [hmu EXCEPT !.ut = get_bits(mem.hmu, HMU_UT_SIZE, HMU_UT_OFFSET)]
\* The plausible slip of dropping the `<< 3` of hmu_get_size.
hmu_get_size_unscaled(mem) ==
    LET hmu == HMU(mem.hmu) IN
    IF hmu = MemoryError THEN hmu
    ELSE [hmu EXCEPT !.size = get_bits(mem.hmu, HMU_SIZE_SIZE, HMU_SIZE_OFFSET)]

\* HMU(obj_to_hmu(obj_ref)): the header word HMU_HEADER_SIZE bytes before
\* the object.
obj_to_hmu(mem) == HMU(mem.hmu)

\* WASMObj.create_obj: bit 0 tags an i31; otherwise a MemoryError while
\* reading the HMU or the RTT is caught and gives None, any other
\* exception propagates.  The object keeps the still unread body cell.
create_obj(ref, mem) ==
    IF get_bit(ref, 0) = 1 THEN [kind |-> I31, value |-> ref \div 2]
    ELSE LET hmu == obj_to_hmu(mem)
             rtt == WASMRtt(mem.header, mem.rtt)
         IN IF hmu = MemoryError THEN None
            ELSE IF rtt = MemoryError THEN None
            ELSE IF rtt = IndexError THEN IndexError
            ELSE IF rtt.type_flag \in {ARRAY, STRUCT, FUNC}
            THEN [kind |-> rtt.type_flag, hmu |-> hmu, body |-> mem.body,
                  type |-> create_type(mem.def, mem.typeBody)]
            ELSE IF rtt.type_flag \in {EXTERNREF, ANYREF}
            THEN [kind |-> rtt.type_flag, hmu |-> hmu, body |-> mem.body, type |-> NoType]
            ELSE None

\* str(type) of an array or struct type reads the rest of the defined type
\* (element type, fields) outside create_type's handler.
TypeStr(type, typeBody) ==
    IF type \in {ARRAY, STRUCT} /\ typeBody = NoRead THEN MemoryError
    ELSE [type |-> type]

\* str(obj): the array, func, externref and anyref objects read their body
\* word only now, outside create_obj's handler, and then str(type).
ObjStr(obj, typeBody) ==
    IF obj.kind = I31 THEN obj
    ELSE IF obj.kind # STRUCT /\ obj.body = NoRead THEN MemoryError
    ELSE IF TypeStr(obj.type, typeBody) = MemoryError THEN MemoryError
    ELSE IF obj.kind = ARRAY
    THEN [kind |-> ARRAY, hmu |-> obj.hmu, type |-> obj.type,
          length |-> obj.body \div Pow2[WASM_ARRAY_LENGTH_SHIFT],
          elem_size |-> Pow2[obj.body % (WASM_ARRAY_ELEM_SIZE_MASK + 1)]]
    ELSE [kind |-> obj.kind, hmu |-> obj.hmu, type |-> obj.type]

\* wamr_gc_obj_dump: prints the object create_obj returns, if any.
gc_obj_dump_output(ref, mem) ==
    LET obj == create_obj(ref, mem)
    IN IF IsExc(obj) \/ obj = None THEN obj ELSE ObjStr(obj, mem.typeBody)

\* wamr_type_dump: prints the type create_type returns, if any.
type_dump_output(mem) ==
    LET type == create_type(mem.def, mem.typeBody)
    IN IF type = NoType THEN None ELSE TypeStr(type, mem.typeBody)

(***************************************************************************)
(* What the WAMR runtime writes: an object of each kind laid out with its  *)
(* HMU header, its RTT reference or sentinel, and its array length word.  *)
(***************************************************************************)
HeapKinds == {ARRAY, STRUCT, FUNC}
ObjKinds == HeapKinds \cup {EXTERNREF, ANYREF}

\* WAMR's object layout (gc_object.h, ems_gc_internal.h): the HMU header
\* holds the size in its low field, then the mark bit, the pinned bit and
\* the usage type; object sizes are 8-byte multiples that fit the size
\* field; the array word keeps the element-size log below the length; the
\* two sentinels are different bits, clear in every RTT address (RTT
\* records are aligned); and the three heap kinds are in TYPE_KIND.
ASSUME WAMRLayoutAssumption ==
    /\ HMU_SIZE_OFFSET + HMU_SIZE_SIZE <= HMU_WO_MB_OFFSET
    /\ HMU_WO_MB_OFFSET < HMU_P_OFFSET /\ HMU_P_OFFSET < HMU_UT_OFFSET
    /\ HmuSizes \subseteq {8 * k : k \in 0 .. Pow2[HMU_SIZE_SIZE] - 1}
    /\ ArrayLengths \subseteq Nat
    /\ \E j \in 0 .. WASM_ARRAY_LENGTH_SHIFT : WASM_ARRAY_ELEM_SIZE_MASK + 1 = Pow2[j]
    /\ WASM_OBJ_EXTERNREF_OBJ_FLAG # WASM_OBJ_ANYREF_OBJ_FLAG
    /\ \A a \in RttRefs : /\ a % (2 * WASM_OBJ_EXTERNREF_OBJ_FLAG) = 0
                         /\ a % (2 * WASM_OBJ_ANYREF_OBJ_FLAG) = 0
    /\ \A k \in HeapKinds : \E i \in 1 .. Len(TYPE_KIND) : TYPE_KIND[i] = k
Objects == [kind : ObjKinds, size : HmuSizes, ut : DOMAIN HMU_UT_MAP,
            pinned : {0, 1}, marked : {0, 1}, length : ArrayLengths,
            elemLog2 : 0 .. WASM_ARRAY_ELEM_SIZE_MASK]
KindIndex(k) == CHOOSE i \in 0 .. Len(TYPE_KIND) - 1 : TYPE_KIND[i + 1] = k
Encode(o, rttRef) ==
    [hmu |-> (o.size \div 8) * Pow2[HMU_SIZE_OFFSET] + o.ut * Pow2[HMU_UT_OFFSET]
             + o.pinned * Pow2[HMU_P_OFFSET] + o.marked * Pow2[HMU_WO_MB_OFFSET],
     header |-> CASE o.kind = EXTERNREF -> WASM_OBJ_EXTERNREF_OBJ_FLAG
                  [] o.kind = ANYREF -> WASM_OBJ_ANYREF_OBJ_FLAG
                  [] OTHER -> rttRef,
     rtt |-> IF o.kind \in HeapKinds THEN KindIndex(o.kind) ELSE NoRead,
     def |-> IF o.kind \in HeapKinds THEN KindIndex(o.kind) ELSE NoRead,
     typeBody |-> "ok",
     body |-> IF o.kind = ARRAY
              THEN o.length * Pow2[WASM_ARRAY_LENGTH_SHIFT] + o.elemLog2 ELSE 0]

\* A tagged i31 reference: (value << 1) | 1 in a word of I31_BITS + 1 bits.
I31Values == -Pow2[I31_BITS - 1] .. Pow2[I31_BITS - 1] - 1
I31Ref(v) == (v % Pow2[I31_BITS]) * 2 + 1

\* Memory that holds no object, or a damaged one.
Garbage == [garbage |-> "garbage"]
Blank == [hmu |-> NoRead, header |-> NoRead, rtt |-> NoRead, def |-> NoRead,
          typeBody |-> NoRead, body |-> NoRead]
Flags == 0 .. Len(TYPE_KIND)
Slices == [hmu : {NoRead} \cup Nat,
           header : {NoRead} \cup Nat, rtt : {NoRead} \cup Nat,
           def : {NoRead} \cup Nat, typeBody : {NoRead, "ok"},
           body : {NoRead} \cup Nat]
GarbageSlices ==
    [hmu : {NoRead, 0},
     header : {NoRead, WASM_OBJ_EXTERNREF_OBJ_FLAG, WASM_OBJ_ANYREF_OBJ_FLAG}
              \cup RttRefs,
     rtt : {NoRead} \cup Flags, def : {NoRead} \cup Flags,
     typeBody : {NoRead, "ok"}, body : {NoRead, 0}]

VARIABLES
    cmd,    \* the last command run
    src,    \* what the memory holds (ghost)
    ref,    \* the reference argument
    mem,    \* the cells the command reads
    out     \* what the command printed: a view, None, or an exception
vars == <<cmd, src, ref, mem, out>>

Init ==
    /\ cmd = "none" /\ src = [none |-> "none"] /\ ref = 0 /\ mem = Blank
    /\ out = None

\* wamr_gc_obj_dump(arg) with what memory holds: a tagged i31 reference, an
\* object the runtime laid out, or memory that holds none.
Dump(s, r, m) ==
    /\ cmd = "none"
    /\ cmd' = "wamr_gc_obj_dump" /\ src' = s /\ ref' = r /\ mem' = m
    /\ out' = gc_obj_dump_output(r, m)

wamr_gc_obj_dump ==
    \/ \E v \in I31Values : Dump([i31 |-> v], I31Ref(v), Blank)
    \/ \E o \in Objects, r \in ObjRefs, a \in RttRefs : Dump(o, r, Encode(o, a))
    \/ \E r \in ObjRefs, m \in GarbageSlices : Dump(Garbage, r, m)

\* wamr_type_dump(arg) on a defined type the runtime laid out, or on garbage.
TypeDump(s, m) ==
    /\ cmd = "none"
    /\ cmd' = "wamr_type_dump" /\ src' = s /\ mem' = m
    /\ out' = type_dump_output(m)
    /\ UNCHANGED ref

wamr_type_dump ==
    \/ \E o \in Objects, a \in RttRefs : TypeDump(o, Encode(o, a))
    \/ \E m \in GarbageSlices : TypeDump(Garbage, m)

\* Back at the gdb prompt: the command's Python objects are gone, nothing
\* it read is kept for the next one.
prompt ==
    /\ cmd # "none"
    /\ cmd' = "none" /\ src' = [none |-> "none"] /\ ref' = 0 /\ mem' = Blank
    /\ out' = None

Next == wamr_gc_obj_dump \/ wamr_type_dump \/ prompt
Spec == Init /\ [][Next]_vars

(***************************************************************************)
(* Properties                                                              *)
(***************************************************************************)
HmuViews == [size : Nat, ut : {HMU_UT_MAP[c] : c \in DOMAIN HMU_UT_MAP},
             pinuse : {0, 1}, marked : {0, 1}]
Views ==
    [kind : {I31}, value : Int]
    \cup [kind : {ARRAY}, hmu : HmuViews, type : HeapKinds \cup {NoType},
          length : Nat, elem_size : Nat]
    \cup [kind : ObjKinds \ {ARRAY}, hmu : HmuViews, type : HeapKinds \cup {NoType}]

\* Every command leaves a well-formed record of what it printed.
TypeOK ==
    /\ cmd \in {"none", "wamr_gc_obj_dump", "wamr_type_dump"}
    /\ src \in {[none |-> "none"], Garbage} \cup Objects \cup [i31 : I31Values]
    /\ ref \in Nat
    /\ mem \in Slices
    /\ out \in {None, MemoryError, IndexError} \cup [type : HeapKinds] \cup Views

\* Decoding what the runtime wrote gives it back (create_obj, HMU, WASMRtt,
\* create_type, the array length word): the kind, the HMU size and usage
\* type, the defined type, and the array length and element size.
DecodeRoundTrip ==
    src \in Objects =>
        CASE cmd = "wamr_type_dump" ->
                 out = IF src.kind \in HeapKinds THEN [type |-> src.kind] ELSE None
          [] cmd = "wamr_gc_obj_dump" ->
                 /\ out \in Views
                 /\ out.kind = src.kind
                 /\ out.hmu.size = src.size
                 /\ out.hmu.ut = HMU_UT_MAP[src.ut]
                 /\ out.type = IF src.kind \in HeapKinds THEN src.kind ELSE NoType
                 /\ src.kind = ARRAY =>
                        out.length = src.length /\ out.elem_size = Pow2[src.elemLog2]
          [] OTHER -> TRUE

\* The HMU's pinned and marked bits read back as written (HMU, utils.py
\* hmu_get_pinuse and hmu_get_vo_marked).
HmuFlagsRoundTrip ==
    cmd = "wamr_gc_obj_dump" /\ src \in Objects /\ out \in Views =>
        out.hmu.pinuse = src.pinned /\ out.hmu.marked = src.marked

\* An i31 reference shows the signed 31-bit value it carries
\* (create_obj's `int(obj_ref) >> 1`).
I31RoundTrip ==
    cmd = "wamr_gc_obj_dump" /\ src \in [i31 : I31Values] => out.value = src.i31

\* No dump command ends in a Python exception, whatever the memory holds
\* (create_obj's handler, WASMRtt's TYPE_KIND lookup, the lazy reads of str).
NoUncaughtException == out \notin {MemoryError, IndexError}

=============================================================================
