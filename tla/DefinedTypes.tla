---------------------------- MODULE DefinedTypes ----------------------------
(***************************************************************************)
(* The defined-type decoder of the WAMR gdb scripts in the detail GCObject *)
(* abstracts: how str() of a WASMStructType lists its fields and str() of  *)
(* a WASMFuncType its parameters and results, with the type index of every *)
(* reference-handle position looked up in the type's ref_type_maps.        *)
(*                                                                         *)
(* A defined type is an input of the wamr_type_dump command: its value-    *)
(* type codes, its param_count (a function type lists types[0..p-1] as     *)
(* parameters and the rest as results, one index space), and its           *)
(* ref_type_maps, index-ordered entries (index, type_idx).                 *)
(***************************************************************************)
EXTENDS Integers, Sequences

CONSTANTS
    WASM_TYPE_MAP,   \* value-type code -> name (constants.py)
    TypeIdxs,        \* type indices an entry may hold
    MaxFields,       \* bound on field / param + result count
    None,            \* what _get_reftype_id returns on no match
    Unknown,         \* the "unknown" marker spec 4.4 asks for
    SparseMaps       \* TRUE: ref_type_maps may miss a position (spec 4.4)

ASSUME DefinedTypesAssumption ==
    /\ MaxFields \in Nat /\ TypeIdxs \subseteq Nat /\ SparseMaps \in BOOLEAN
    /\ None \notin Nat /\ Unknown \notin Nat /\ None # Unknown

RefHt == {"REF_TYPE_HT_NON_NULLABLE", "REF_TYPE_HT_NULLABLE"}
\* `type == 'REF_TYPE_HT_NON_NULLABLE' or type == 'REF_TYPE_HT_NULLABLE'`
IsRefHt(code) == WASM_TYPE_MAP[code] \in RefHt

\* The entries of ref_type_maps whose index is i, in table order: the loop
\* `for j in range(ret_type_count): if ref_type['index'] == i` run over
\* the first j entries.
Matches(d, i) ==
    LET scan[j \in 0 .. Len(d.maps)] ==
            IF j = 0 THEN << >>
            ELSE IF d.maps[j].index = i THEN Append(scan[j - 1], d.maps[j])
            ELSE scan[j - 1]
    IN  scan[Len(d.maps)]

(***************************************************************************)
(* WASMStructType._get_fields_info: every matching entry appends its       *)
(* " (typeid=...)" to the field's type, so a field shows one annotation    *)
(* per entry with its index and none when there is no entry.               *)
(***************************************************************************)
\* The plausible slip of printing the entry's index instead of its type_idx.
struct_typeids_index(d, i) == [k \in 1 .. Len(Matches(d, i)) |-> Matches(d, i)[k].index]

struct_typeids(d, i) == [k \in 1 .. Len(Matches(d, i)) |-> Matches(d, i)[k].type_idx]

FieldInfo(d, i) ==
    [type |-> WASM_TYPE_MAP[d.types[i + 1]],
     typeids |-> IF IsRefHt(d.types[i + 1]) THEN struct_typeids(d, i) ELSE << >>]

_get_fields_info(d) == [k \in 1 .. Len(d.types) |-> FieldInfo(d, k - 1)]

(***************************************************************************)
(* WASMFuncType._get_reftype_id: the type index of the first entry with    *)
(* index i, and None (printed "typeid=None") when there is none.           *)
(***************************************************************************)
_get_reftype_id(d, i) ==
    IF Matches(d, i) = << >> THEN None ELSE Matches(d, i)[1].type_idx

PositionInfo(d, i) ==
    [type |-> WASM_TYPE_MAP[d.types[i + 1]],
     typeids |-> IF IsRefHt(d.types[i + 1]) THEN <<_get_reftype_id(d, i)>> ELSE << >>]

_get_parameter_types(d) == [k \in 1 .. d.param_count |-> PositionInfo(d, k - 1)]

\* The plausible slip of numbering the results from 0 in the lookup.
_get_result_types_own_index(d) ==
    [k \in 1 .. Len(d.types) - d.param_count |->
        [type |-> WASM_TYPE_MAP[d.types[d.param_count + k]],
         typeids |-> IF IsRefHt(d.types[d.param_count + k])
                     THEN <<_get_reftype_id(d, k - 1)>> ELSE << >>]]

\* `for i in range(param_count, param_count + result_count)`
_get_result_types(d) ==
    [k \in 1 .. Len(d.types) - d.param_count |-> PositionInfo(d, d.param_count + k - 1)]

\* str(type) of a struct or function type, as wamr_type_dump prints it.
TypeDescription(d) ==
    IF d.kind = "WASM_TYPE_STRUCT"
    THEN [kind |-> d.kind, fields |-> _get_fields_info(d)]
    ELSE [kind |-> d.kind, params |-> _get_parameter_types(d),
          results |-> _get_result_types(d)]

(***************************************************************************)
(* The defined types the runtime writes: value types of the map's domain,  *)
(* and in ref_type_maps, index-ordered, one entry for each reference-      *)
(* handle position (WAMR's loader), or with SparseMaps only for some.     *)
(***************************************************************************)
TypeSeqs == UNION {[1 .. n -> DOMAIN WASM_TYPE_MAP] : n \in 0 .. MaxFields}
RefPositions(t) == {i \in 0 .. Len(t) - 1 : IsRefHt(t[i + 1])}
Entries(t) == [index : 0 .. Len(t) - 1, type_idx : TypeIdxs]
MapsOf(t) ==
    {m \in UNION {[1 .. k -> Entries(t)] : k \in 0 .. Len(t)} :
        /\ \A a, b \in DOMAIN m : a < b => m[a].index < m[b].index
        /\ IF SparseMaps THEN {m[a].index : a \in DOMAIN m} \subseteq RefPositions(t)
           ELSE {m[a].index : a \in DOMAIN m} = RefPositions(t)}
DefinedTypes ==
    (UNION {[kind : {"WASM_TYPE_STRUCT"}, types : {t}, param_count : {0},
             maps : MapsOf(t)] : t \in TypeSeqs})
    \cup (UNION {[kind : {"WASM_TYPE_FUNC"}, types : {t}, param_count : 0 .. Len(t),
                  maps : MapsOf(t)] : t \in TypeSeqs})

NoType == [kind |-> "none", types |-> << >>, param_count |-> 0, maps |-> << >>]

VARIABLES
    busy,   \* a wamr_type_dump has printed and the prompt is not back yet
    type,   \* the defined type it printed
    out     \* what it printed
vars == <<busy, type, out>>

Init == busy = FALSE /\ type = NoType /\ out = TypeDescription(NoType)

\* wamr_type_dump(ref) of a struct or function type.
wamr_type_dump ==
    /\ ~busy
    /\ busy' = TRUE
    /\ \E d \in DefinedTypes : type' = d /\ out' = TypeDescription(d)

\* Back at the gdb prompt.
prompt == busy /\ busy' = FALSE /\ type' = NoType /\ out' = TypeDescription(NoType)

Next == wamr_type_dump \/ prompt
Spec == Init /\ [][Next]_vars

(***************************************************************************)
(* Properties                                                              *)
(***************************************************************************)
Description == [type : {WASM_TYPE_MAP[c] : c \in DOMAIN WASM_TYPE_MAP},
                typeids : Seq(TypeIdxs \cup {None, Unknown})]

\* Every dump prints a list of described fields, or of parameters and results.
TypeOK ==
    /\ busy \in BOOLEAN
    /\ type \in DefinedTypes \cup {NoType}
    /\ \/ out \in [kind : {"WASM_TYPE_STRUCT"}, fields : Seq(Description)]
       \/ out \in [kind : {"WASM_TYPE_FUNC", "none"}, params : Seq(Description),
                   results : Seq(Description)]

\* The printed positions in the type's one index space (a function type's
\* results follow its parameters).
Printed(o) == IF o.kind = "WASM_TYPE_STRUCT" THEN o.fields ELSE o.params \o o.results

\* Spec 4.4: the type index a position should show.
Expected(d, i) ==
    IF ~IsRefHt(d.types[i + 1]) THEN << >>
    ELSE IF Matches(d, i) = << >> THEN <<Unknown>> ELSE <<Matches(d, i)[1].type_idx>>

\* Every reference-handle field of a struct, parameter or result of a
\* function shows exactly the type index its ref_type_maps entry holds,
\* one shared lookup for struct fields and function positions (spec 4.4),
\* and a position without an entry shows one "unknown" marker; other
\* positions show none.
RefTypeResolved ==
    busy => \A i \in 1 .. Len(Printed(out)) :
                Printed(out)[i].typeids = Expected(type, i - 1)

====
