--------------------------- MODULE FrameTableProofs ---------------------------
(***************************************************************************)
(* Proofs about the operand stack table of a frame print, for every bound  *)
(* on the cell counts and every frame address.                             *)
(***************************************************************************)
EXTENDS FrameTable, TLAPS

\* What a print shows is what _get_conditional_info computes for its frame,
\* and at the prompt nothing is shown.
Inv ==
    /\ busy \in BOOLEAN
    /\ busy => frame \in Frames /\ out = get_conditional_info(frame)
    /\ ~busy => frame = NoFrame /\ out = NoTable

LEMMA InvInductive == Spec => []Inv
<1>1. Init => Inv
    BY DEF Init, Inv
<1>2. Inv /\ [Next]_vars => Inv'
    <2> SUFFICES ASSUME Inv, [Next]_vars PROVE Inv'
        OBVIOUS
    <2>1. CASE wamr_interp_frame_dump
        BY <2>1 DEF Inv, wamr_interp_frame_dump
    <2>2. CASE prompt
        BY <2>2 DEF Inv, prompt
    <2>3. CASE UNCHANGED vars
        BY <2>3 DEF Inv, vars
    <2>4. QED
        BY <2>1, <2>2, <2>3 DEF Next
<1>3. QED
    BY <1>1, <1>2, PTL DEF Spec

\* A frame of a classic or fast build has a function pointer that is null,
\* unreadable, or "ok" with a function of Funcs.
LEMMA FrameShape ==
    ASSUME NEW fr \in Frames
    PROVE  /\ fr.mode \in Modes /\ fr.gc \in BOOLEAN /\ fr.callOK \in BOOLEAN
           /\ fr.refNull \in BOOLEAN /\ fr.lpNull \in BOOLEAN
           /\ \/ fr.function \in {"null", "unreadable"}
              \/ fr.function = "ok" /\ fr.func \in Funcs
<1>1. CASE fr \in NoFuncFrames
    BY <1>1 DEF NoFuncFrames
<1>2. CASE fr \in UNION {FuncFrames(m, f) : m \in Modes, f \in Funcs}
    <2>1. PICK m \in Modes, f \in Funcs : fr \in FuncFrames(m, f)
        BY <1>2
    <2>2. QED
        BY <2>1 DEF FuncFrames
<1>3. QED
    BY <1>1, <1>2 DEF Frames

\* Every row shows a set of the five markers.
LEMMA RowMarksType ==
    ASSUME NEW fr, NEW func, NEW i
    PROVE  RowMarks(fr, func, i) \subseteq Markers
    BY DEF RowMarks, Markers

\* Whether the table has a ref column is a truth value.
LEMMA RefColumn ==
    ASSUME NEW fr \in Frames
    PROVE  frame_ref_array(fr) \in BOOLEAN
<1>1. fr.mode \in Modes /\ fr.gc \in BOOLEAN /\ fr.callOK \in BOOLEAN
      /\ fr.refNull \in BOOLEAN
    BY FrameShape
<1>2. QED
    BY <1>1 DEF frame_ref_array

\* A print shows a MemoryError or a table of marker sets.
LEMMA TableShape ==
    ASSUME NEW fr \in Frames
    PROVE  get_conditional_info(fr) \in {NoRead}
               \cup [refColumn : BOOLEAN, rows : Seq(SUBSET Markers)]
<1>0. NoTable \in [refColumn : BOOLEAN, rows : Seq(SUBSET Markers)]
    BY DEF NoTable
<1>1. CASE fr.function = "null"
    BY <1>0, <1>1 DEF get_conditional_info
<1>2. CASE fr.function = "unreadable"
    BY <1>2 DEF get_conditional_info
<1>3. CASE fr.function = "ok" /\ fr.func \in Funcs
    <2> DEFINE func == WASMFunction(fr)
               cells == get_max_stack_cell_num(func)
    <2>1. cells \in Nat
        BY <1>3 DEF get_max_stack_cell_num, WASMFunction, Funcs
    <2>2. CASE cells = 0 \/ ~(frame_ref_array(fr) \/ lp_array(fr))
        BY <1>0, <1>3, <2>2 DEF get_conditional_info
    <2>3. CASE ~(cells = 0 \/ ~(frame_ref_array(fr) \/ lp_array(fr))) /\ cells > fr.readable
        BY <1>3, <2>3 DEF get_conditional_info
    <2>4. CASE ~(cells = 0 \/ ~(frame_ref_array(fr) \/ lp_array(fr))) /\ ~(cells > fr.readable)
        <3>1. get_conditional_info(fr) =
                [refColumn |-> frame_ref_array(fr),
                 rows |-> [i \in 1 .. cells |-> RowMarks(fr, func, i - 1)]]
            BY <1>3, <2>4 DEF get_conditional_info
        <3>2. [i \in 1 .. cells |-> RowMarks(fr, func, i - 1)] \in Seq(SUBSET Markers)
            BY <2>1, RowMarksType
        <3>3. frame_ref_array(fr) \in BOOLEAN
            BY RefColumn
        <3> HIDE DEF func, cells
        <3>4. QED
            BY <2>1, <3>1, <3>2, <3>3
    <2>5. QED
        BY <2>2, <2>3, <2>4
<1>4. QED
    BY <1>1, <1>2, <1>3, FrameShape

\* Row j of the table shows slot j - 1.
\* The markers of row j of a function with p param and l local cells.
LEMMA RowMarkers ==
    ASSUME NEW fr, NEW func, NEW p \in Int, NEW l \in Int, NEW j \in Int,
           func.param_cell_num = p, func.local_cell_num = l
    PROVE  /\ "param_end" \in RowMarks(fr, func, j) <=> j = p - 1
           /\ "local_end" \in RowMarks(fr, func, j) <=> j = p + l - 1
           /\ "dynamic_space_start" \in RowMarks(fr, func, j) <=> j = p + l
<1> DEFINE Extra == (IF "sp" \in interp_frame_fields(fr) /\ j = SpValue(fr)
                     THEN {"sp"} ELSE {})
                    \cup (IF "ret_offset" \in interp_frame_fields(fr) /\ j = fr.retOffset
                          THEN {"ret_offset"} ELSE {})
<1>1. Extra \subseteq {"sp", "ret_offset"}
    OBVIOUS
<1>2. RowMarks(fr, func, j) =
        {m \in {"param_end", "local_end", "dynamic_space_start"} :
            \/ m = "param_end" /\ j = p - 1
            \/ m = "local_end" /\ j = p + l - 1
            \/ m = "dynamic_space_start" /\ j = p + l} \cup Extra
    BY DEF RowMarks
<1> HIDE DEF Extra
<1>3. QED
    BY <1>1, <1>2

\* How a reader infers the region of row i from the markers of a table
\* with one "param_end" at row p and one "local_end" at row p + l.
LEMMA MarkedRegions ==
    ASSUME NEW rows, NEW n \in Nat, NEW p \in Nat, NEW l \in Nat, p + l <= n,
           Len(rows) = n,
           \A j \in 1 .. n : /\ "param_end" \in rows[j] <=> j = p
                             /\ "local_end" \in rows[j] <=> j = p + l,
           NEW i \in 1 .. n
    PROVE  MarkedRegion(rows, i) =
               IF i <= p THEN "param" ELSE IF i <= p + l THEN "local" ELSE "dynamic"
<1>1. (\E j \in i .. Len(rows) : "param_end" \in rows[j]) <=> i <= p
    <2>1. ASSUME i <= p PROVE \E j \in i .. Len(rows) : "param_end" \in rows[j]
        <3>1. p \in i .. Len(rows) /\ p \in 1 .. n
            BY <2>1
        <3>2. QED
            BY <3>1
    <2>2. ASSUME NEW j \in i .. Len(rows), "param_end" \in rows[j] PROVE i <= p
        <3>1. j \in 1 .. n
            OBVIOUS
        <3>2. QED
            BY <2>2, <3>1
    <2>3. QED
        BY <2>1, <2>2
<1>2. (\E j \in i .. Len(rows) : "local_end" \in rows[j]) <=> i <= p + l
    <2>1. ASSUME i <= p + l PROVE \E j \in i .. Len(rows) : "local_end" \in rows[j]
        <3>1. p + l \in i .. Len(rows) /\ p + l \in 1 .. n
            BY <2>1
        <3>2. QED
            BY <3>1
    <2>2. ASSUME NEW j \in i .. Len(rows), "local_end" \in rows[j] PROVE i <= p + l
        <3>1. j \in 1 .. n
            OBVIOUS
        <3>2. QED
            BY <2>2, <3>1
    <2>3. QED
        BY <2>1, <2>2
<1>3. QED
    BY <1>1, <1>2 DEF MarkedRegion

\* The markers of row j of the table of such a function: row j shows
\* slot j - 1.
LEMMA TableMarkers ==
    ASSUME NEW fr, NEW func, NEW p \in Nat, NEW l \in Nat, NEW j \in Int,
           func.param_cell_num = p, func.local_cell_num = l
    PROVE  /\ "param_end" \in RowMarks(fr, func, j - 1) <=> j = p
           /\ "local_end" \in RowMarks(fr, func, j - 1) <=> j = p + l
           /\ "dynamic_space_start" \in RowMarks(fr, func, j - 1) <=> j = p + l + 1
<1>1. /\ "param_end" \in RowMarks(fr, func, j - 1) <=> j - 1 = p - 1
      /\ "local_end" \in RowMarks(fr, func, j - 1) <=> j - 1 = p + l - 1
      /\ "dynamic_space_start" \in RowMarks(fr, func, j - 1) <=> j - 1 = p + l
    BY RowMarkers
<1>2. /\ j - 1 = p - 1 <=> j = p
      /\ j - 1 = p + l - 1 <=> j = p + l
      /\ j - 1 = p + l <=> j = p + l + 1
    OBVIOUS
<1>3. QED
    BY <1>1, <1>2

(***************************************************************************)
(* The table of every frame print: the region a reader infers for a row   *)
(* from the markers is the real one.                                       *)
(***************************************************************************)
LEMMA TableRegions ==
    ASSUME NEW fr \in Frames, get_conditional_info(fr) # NoRead,
           NEW i \in 1 .. Len(get_conditional_info(fr).rows)
    PROVE  /\ MarkedRegion(get_conditional_info(fr).rows, i) = SpecRegion(fr.func, i)
           /\ ("dynamic_space_start" \in get_conditional_info(fr).rows[i]
                   <=> i = fr.func.p + fr.func.l + 1)
<1>1. CASE fr.function = "null"
    <2>1. get_conditional_info(fr).rows = << >>
        BY <1>1 DEF get_conditional_info, NoTable
    <2>2. QED
        BY <2>1
<1>2. CASE fr.function = "unreadable"
    BY <1>2 DEF get_conditional_info
<1>3. CASE fr.function = "ok" /\ fr.func \in Funcs
    <2> DEFINE func == WASMFunction(fr)
               cells == get_max_stack_cell_num(func)
               tbl == get_conditional_info(fr).rows
    <2>a. CASE cells = 0 \/ ~(frame_ref_array(fr) \/ lp_array(fr))
        <3>1. tbl = << >>
            BY <1>3, <2>a DEF get_conditional_info, NoTable
        <3>2. QED
            BY <3>1
    <2>b. SUFFICES ASSUME ~(cells = 0 \/ ~(frame_ref_array(fr) \/ lp_array(fr)))
                   PROVE  /\ MarkedRegion(get_conditional_info(fr).rows, i) = SpecRegion(fr.func, i)
                          /\ ("dynamic_space_start" \in get_conditional_info(fr).rows[i]
                                  <=> i = fr.func.p + fr.func.l + 1)
        BY <2>a
    <2>0. tbl = [k \in 1 .. cells |-> RowMarks(fr, func, k - 1)]
        BY <1>3, <2>b DEF get_conditional_info
    <2>1. cells \in Nat /\ fr.func.p + fr.func.l <= cells
        BY <1>3 DEF get_max_stack_cell_num, WASMFunction, Funcs
    <2>2. fr.func.p \in Nat /\ fr.func.l \in Nat
        BY <1>3 DEF Funcs
    <2>3. func.param_cell_num = fr.func.p /\ func.local_cell_num = fr.func.l
        BY <2>1 DEF WASMFunction
    <2>4. Len(tbl) = cells
        BY <2>0, <2>1
    <2> HIDE DEF func, cells, tbl
    <2>5. ASSUME NEW j \in 1 .. cells
          PROVE  /\ "param_end" \in tbl[j] <=> j = fr.func.p
                 /\ "local_end" \in tbl[j] <=> j = fr.func.p + fr.func.l
                 /\ "dynamic_space_start" \in tbl[j] <=> j = fr.func.p + fr.func.l + 1
        <3>1. tbl[j] = RowMarks(fr, func, j - 1)
            BY <2>0
        <3>2. /\ "param_end" \in RowMarks(fr, func, j - 1) <=> j = fr.func.p
              /\ "local_end" \in RowMarks(fr, func, j - 1) <=> j = fr.func.p + fr.func.l
              /\ "dynamic_space_start" \in RowMarks(fr, func, j - 1)
                     <=> j = fr.func.p + fr.func.l + 1
            <4> DEFINE pp == fr.func.p
                       ll == fr.func.l
            <4>1. pp \in Nat /\ ll \in Nat /\ j \in Int
                  /\ func.param_cell_num = pp /\ func.local_cell_num = ll
                BY <2>1, <2>2, <2>3
            <4> HIDE DEF pp, ll
            <4>2. /\ "param_end" \in RowMarks(fr, func, j - 1) <=> j = pp
                  /\ "local_end" \in RowMarks(fr, func, j - 1) <=> j = pp + ll
                  /\ "dynamic_space_start" \in RowMarks(fr, func, j - 1)
                         <=> j = pp + ll + 1
                BY <4>1, TableMarkers
            <4>3. QED
                BY <4>2 DEF pp, ll
        <3>3. QED
            BY <3>1, <3>2
    <2>6. i \in 1 .. cells
        BY <2>4 DEF tbl
    <2>7. MarkedRegion(tbl, i) = SpecRegion(fr.func, i)
        <3>1. MarkedRegion(tbl, i) =
                IF i <= fr.func.p THEN "param"
                ELSE IF i <= fr.func.p + fr.func.l THEN "local" ELSE "dynamic"
            <4>1. \A j \in 1 .. cells :
                      /\ "param_end" \in tbl[j] <=> j = fr.func.p
                      /\ "local_end" \in tbl[j] <=> j = fr.func.p + fr.func.l
                BY <2>5
            <4> DEFINE pp == fr.func.p
                       ll == fr.func.l
            <4>2. /\ pp \in Nat /\ ll \in Nat /\ pp + ll <= cells
                  /\ \A j \in 1 .. cells : /\ "param_end" \in tbl[j] <=> j = pp
                                           /\ "local_end" \in tbl[j] <=> j = pp + ll
                BY <2>1, <2>2, <4>1
            <4> HIDE DEF pp, ll
            <4>3. MarkedRegion(tbl, i) =
                    IF i <= pp THEN "param" ELSE IF i <= pp + ll THEN "local" ELSE "dynamic"
                BY <2>1, <2>4, <2>6, <4>2, MarkedRegions
            <4>4. QED
                BY <4>3 DEF pp, ll
        <3>2. QED
            BY <3>1 DEF SpecRegion
    <2>8. QED
        BY <2>5, <2>6, <2>7 DEF tbl
<1>4. QED
    BY <1>1, <1>2, <1>3, FrameShape

\* The param end / local end / dynamic space start markers of every frame
\* print delimit the param, local and dynamic regions of the frame's cells
\* (MarkersDelimitRegions), for every cell count.
THEOREM MarkersDelimitRegionsHolds == Spec => []MarkersDelimitRegions
<1>1. Inv => MarkersDelimitRegions
    BY TableRegions DEF Inv, MarkersDelimitRegions, IsTable
<1>2. QED
    BY <1>1, InvInductive, PTL

\* Every frame print leaves a table of marker sets or a MemoryError
\* (TypeOK), for every bound on the cell counts.
THEOREM TypeCorrect == Spec => []TypeOK
<1>1. Inv => TypeOK
    <2> SUFFICES ASSUME Inv PROVE TypeOK
        OBVIOUS
    <2>1. CASE busy
        BY <2>1, TableShape DEF Inv, TypeOK
    <2>2. CASE ~busy
        <3>1. NoTable \in [refColumn : BOOLEAN, rows : Seq(SUBSET Markers)]
            BY DEF NoTable
        <3>2. QED
            BY <2>2, <3>1 DEF Inv, TypeOK
    <2>3. QED
        BY <2>1, <2>2
<1>2. QED
    BY <1>1, InvInductive, PTL

=============================================================================
