----------------------------- MODULE FrameTable -----------------------------
(***************************************************************************)
(* The frame reconstructor of the WAMR gdb scripts: what str() of a        *)
(* WASMInterpFrame prints after the frame's own fields, i.e. the operand   *)
(* stack table of WASMInterpFrame._get_conditional_info with the function  *)
(* descriptor it reads (WASMFunction) and the build-mode probe of          *)
(* WASMInterpFrame.__init__.                                               *)
(*                                                                         *)
(* A frame is an input of the print: its interpreter build (classic or     *)
(* fast, with or without GC), its function pointer (null, unreadable, or  *)
(* "ok" with a descriptor func of cell counts), the slot its sp points at (classic), its  *)
(* ret_offset (fast), whether the frame_ref and (fast) lp pointers are   *)
(* null, and how many rows' cells are readable.  The print builds one     *)
(* string, so it shows the whole table or raises.                          *)
(***************************************************************************)
EXTENDS Integers, Sequences

CONSTANTS
    NoRead,       \* an unreadable cell
    LpAddr,       \* address of lp[0] in a classic frame
    CELL_SIZE,    \* bytes per cell (uint32)
    MaxCount      \* bound on param, local and stack cell counts

ASSUME FrameAssumption ==
    /\ LpAddr \in Nat /\ CELL_SIZE \in Nat \ {0} /\ MaxCount \in Nat
    /\ NoRead \notin Nat

Modes == {"classic", "fast"}

(***************************************************************************)
(* WASMInterpFrame.__init__: the fields of the frame's debug-info type.    *)
(* A classic frame has sp and the lp array; a fast frame has ret_offset,   *)
(* an lp pointer and the operand area, and frame_ref when GC is built in.  *)
(***************************************************************************)
interp_frame_fields(fr) ==
    IF fr.mode = "classic"
    THEN {"sp_bottom", "sp_boundary", "sp", "csp_bottom", "csp_boundary",
          "csp", "lp"}
    ELSE {"ret_offset", "lp", "operand"}
         \cup (IF fr.gc THEN {"frame_ref"} ELSE {})

(***************************************************************************)
(* WASMFunction(ref): the cell counts of the function instance, and        *)
(* get_max_stack_cell_num, which adds max_stack_cell_num unless the        *)
(* function is an import.                                                  *)
(***************************************************************************)
WASMFunction(fr) ==
    [is_import_func |-> fr.func.is_import, param_cell_num |-> fr.func.p,
     local_cell_num |-> fr.func.l, max_stack_cell_num |-> fr.func.stack]

get_max_stack_cell_num(func) ==
    LET max_local_slot == func.param_cell_num + func.local_cell_num
    IN IF func.is_import_func THEN max_local_slot
       ELSE max_local_slot + func.max_stack_cell_num

(***************************************************************************)
(* Where the ref column comes from: the frame_ref field (fast interpreter  *)
(* with GC), or in a classic frame the inferior call get_frame_ref(frame), *)
(* whose gdb.error is swallowed: no such function (a build without GC) or *)
(* a call that fails (callOK = FALSE: no live inferior, e.g. a core file). *)
(* The tests `if (frame_ref_array)` are on the pointer: a null frame_ref,  *)
(* or a null result of the call, gives no ref column (refNull).           *)
(***************************************************************************)
frame_ref_array(fr) ==
    IF "frame_ref" \in interp_frame_fields(fr) THEN ~fr.refNull
    ELSE fr.mode = "classic" /\ fr.gc /\ fr.callOK /\ ~fr.refNull

\* `if lp_array`: a fast frame's lp is a pointer, null or not; a classic
\* frame's lp is an array, a gdb.Value that is always true.
lp_array(fr) == "operand" \notin interp_frame_fields(fr) \/ ~fr.lpNull

(***************************************************************************)
(* The markers of row i: param_end, local_end and dynamic_space_start     *)
(* stand for the " <--- param end" etc. the code appends to the row.      *)
(***************************************************************************)
\* int(self.interp_frame['sp']) is the address the sp pointer holds.
SpValue(fr) == LpAddr + CELL_SIZE * fr.spSlot

\* The plausible slip of putting the boundaries one row late.
RowMarks_late(fr, func, i) ==
    LET p == func.param_cell_num
        l == func.local_cell_num
    IN  {m \in {"param_end", "local_end", "dynamic_space_start"} :
            \/ m = "param_end" /\ i = p
            \/ m = "local_end" /\ i = p + l
            \/ m = "dynamic_space_start" /\ i = p + l + 1}
        \cup (IF "sp" \in interp_frame_fields(fr) /\ i = SpValue(fr)
              THEN {"sp"} ELSE {})
        \cup (IF "ret_offset" \in interp_frame_fields(fr) /\ i = fr.retOffset
              THEN {"ret_offset"} ELSE {})

\* The plausible slip of marking the neighbouring csp field instead of sp.
RowMarks_csp(fr, func, i) ==
    LET p == func.param_cell_num
        l == func.local_cell_num
    IN  {m \in {"param_end", "local_end", "dynamic_space_start"} :
            \/ m = "param_end" /\ i = p - 1
            \/ m = "local_end" /\ i = p + l - 1
            \/ m = "dynamic_space_start" /\ i = p + l}
        \cup (IF "csp" \in interp_frame_fields(fr) /\ i = fr.spSlot
              THEN {"csp"} ELSE {})
        \cup (IF "ret_offset" \in interp_frame_fields(fr) /\ i = fr.retOffset
              THEN {"ret_offset"} ELSE {})

RowMarks(fr, func, i) ==
    LET p == func.param_cell_num
        l == func.local_cell_num
    IN  {m \in {"param_end", "local_end", "dynamic_space_start"} :
            \/ m = "param_end" /\ i = p - 1
            \/ m = "local_end" /\ i = p + l - 1
            \/ m = "dynamic_space_start" /\ i = p + l}
        \cup (IF "sp" \in interp_frame_fields(fr) /\ i = SpValue(fr)
              THEN {"sp"} ELSE {})
        \cup (IF "ret_offset" \in interp_frame_fields(fr) /\ i = fr.retOffset
              THEN {"ret_offset"} ELSE {})

\* What a print shows without a table: a null function pointer, no cells,
\* or neither array.
NoTable == [refColumn |-> FALSE, rows |-> << >>]

(***************************************************************************)
(* _get_conditional_info: nothing when the function pointer is null; a     *)
(* MemoryError when the function is unreadable; nothing unless            *)
(* `max_cell_num > 0` and `frame_ref_array or lp_array`; a MemoryError    *)
(* when a cell of the table is unreadable (the first loop reads           *)
(* lp_array[i] and frame_ref_array[i] of every row, those that are set);  *)
(* otherwise the table, one row per cell, with its markers.                *)
(***************************************************************************)
get_conditional_info(fr) ==
    LET func == WASMFunction(fr) IN
    IF fr.function = "null" THEN NoTable
    ELSE IF fr.function = "unreadable" THEN NoRead
    ELSE IF get_max_stack_cell_num(func) = 0 THEN NoTable
    ELSE IF ~(frame_ref_array(fr) \/ lp_array(fr)) THEN NoTable
    ELSE IF get_max_stack_cell_num(func) > fr.readable THEN NoRead
    ELSE [refColumn |-> frame_ref_array(fr),
          rows |-> [i \in 1 .. get_max_stack_cell_num(func) |->
                       RowMarks(fr, func, i - 1)]]

(***************************************************************************)
(* The frames a print may meet.                                            *)
(***************************************************************************)
Funcs == [is_import : BOOLEAN, p : 0 .. MaxCount, l : 0 .. MaxCount,
          stack : 0 .. MaxCount]
NoFunc == [is_import |-> FALSE, p |-> 0, l |-> 0, stack |-> 0]
\* Cells of the function's table, as spec 4.7 defines them.
SpecCells(f) == f.p + f.l + (IF f.is_import THEN 0 ELSE f.stack)
\* Frames whose function is readable: sp between the end of the locals and
\* the end of the operand area, ret_offset and the readable prefix within
\* the function's cells.
FuncFrames(m, f) ==
    [mode : {m}, gc : BOOLEAN, callOK : BOOLEAN, refNull : BOOLEAN,
     lpNull : IF m = "fast" THEN BOOLEAN ELSE {FALSE}, function : {"ok"}, func : {f},
     spSlot : f.p + f.l .. SpecCells(f), retOffset : 0 .. SpecCells(f),
     readable : 0 .. f.p + f.l + f.stack]
\* Frames whose function pointer is null or cannot be read.
NoFuncFrames ==
    [mode : Modes, gc : BOOLEAN, callOK : {TRUE}, refNull : {FALSE}, lpNull : {FALSE},
     function : {"null", "unreadable"},
     func : {NoFunc}, spSlot : {0}, retOffset : {0}, readable : {0}]
Frames == (UNION {FuncFrames(m, f) : m \in Modes, f \in Funcs}) \cup NoFuncFrames

\* The frame the gdb prompt has not printed yet.
NoFrame == [mode |-> "none", gc |-> FALSE, callOK |-> TRUE, refNull |-> FALSE,
            lpNull |-> FALSE, function |-> "null",
            func |-> NoFunc, spSlot |-> 0, retOffset |-> 0, readable |-> 0]

VARIABLES
    busy,     \* a frame print has run and the prompt is not back yet
    frame,    \* the frame printed last
    out       \* what the print showed: a table, or NoRead for MemoryError
vars == <<busy, frame, out>>

Init == busy = FALSE /\ frame = NoFrame /\ out = NoTable

\* wamr_interp_frame_dump(arg): print(WASMInterpFrame(arg)).
wamr_interp_frame_dump ==
    /\ ~busy
    /\ busy' = TRUE
    /\ \E fr \in Frames : frame' = fr /\ out' = get_conditional_info(fr)

\* Back at the gdb prompt.
prompt == busy /\ busy' = FALSE /\ frame' = NoFrame /\ out' = NoTable

Next == wamr_interp_frame_dump \/ prompt
Spec == Init /\ [][Next]_vars

(***************************************************************************)
(* Properties                                                              *)
(***************************************************************************)
Markers == {"param_end", "local_end", "dynamic_space_start", "sp", "ret_offset"}

\* Every print leaves a table of marker sets, or a MemoryError.
TypeOK ==
    /\ busy \in BOOLEAN
    /\ frame \in Frames \cup {NoFrame}
    /\ out \in {NoRead}
               \cup [refColumn : BOOLEAN, rows : Seq(SUBSET Markers)]

IsTable(o) == busy /\ o # NoRead

\* The region of row i that a reader infers from the markers: a param row
\* lies at or above the "param_end" marker, a local row at or above the
\* "local_end" marker, every other row is dynamic.
MarkedRegion(rows, i) ==
    IF \E j \in i .. Len(rows) : "param_end" \in rows[j] THEN "param"
    ELSE IF \E j \in i .. Len(rows) : "local_end" \in rows[j] THEN "local"
    ELSE "dynamic"

SpecRegion(f, i) ==
    IF i <= f.p THEN "param" ELSE IF i <= f.p + f.l THEN "local" ELSE "dynamic"

\* The param end / local end / dynamic space start markers delimit the
\* three regions of the table: the region a reader infers for each row
\* from the markers is the row's real region, and "dynamic_space_start"
\* marks the first dynamic row, whatever the counts (zero params, zero
\* locals, no operand stack).
MarkersDelimitRegions ==
    IsTable(out) =>
        \A i \in 1 .. Len(out.rows) :
            /\ MarkedRegion(out.rows, i) = SpecRegion(frame.func, i)
            /\ ("dynamic_space_start" \in out.rows[i]
                    <=> i = frame.func.p + frame.func.l + 1)

\* In a classic frame the sp marker sits on the row of the cell sp points
\* at (the `i == int(sp)` test of _get_conditional_info).
SpMarkerOnSp ==
    IsTable(out) /\ frame.mode = "classic" =>
        \A i \in 1 .. Len(out.rows) :
            "sp" \in out.rows[i] <=> i - 1 = frame.spSlot

=============================================================================
