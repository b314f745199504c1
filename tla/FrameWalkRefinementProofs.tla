---------------------- MODULE FrameWalkRefinementProofs ----------------------
(***************************************************************************)
(* Proof that the frame walker implements ChainDump, for every set of      *)
(* frames and environments and every memory image.  It rests on the        *)
(* inductive invariant IInv of FrameWalkProofs: inside a walk the frames   *)
(* passed are a prefix of the chain, the loop variable is the next frame, *)
(* the printing walks have printed exactly those frames and the frame      *)
(* count equals their number.                                              *)
(***************************************************************************)
EXTENDS FrameWalkRefinement, FrameWalkProofs, TLAPS

\* The abstract chain predicates are the walker's under the mapping.
LEMMA ChainPredicates ==
    ASSUME NEW s, NEW f
    PROVE  /\ Abs!ChainPrefix(s, f) <=> IsChainPrefix(s, f)
           /\ Abs!WholeChain(s, f) <=> IsWholeChain(s, f)
    BY DEF Abs!ChainPrefix, IsChainPrefix, Abs!WholeChain, IsWholeChain,
           Abs!NextOf, After

\* The walker's initial state is one of ChainDump's.
LEMMA InitRefines == Init => Abs!Init
    BY DEF Init, Abs!Init, EnvDump, FrameRef, Abs!FrameRef

(***************************************************************************)
(* Every step of the frame commands, from a state of IInv, is a step of    *)
(* ChainDump or leaves the mapped state unchanged: starting a loop is      *)
(* Start, an unreadable environment Refuse, the single-frame dump DumpOne, *)
(* a loop iteration a stutter, the MemoryError that ends a loop Abort, and *)
(* the end of the chain Complete.                                          *)
(***************************************************************************)
LEMMA StepRefines == IInv /\ [Next]_vars => [Abs!Next]_Abs!vars
<1> SUFFICES ASSUME IInv, [Next]_vars PROVE [Abs!Next]_Abs!vars
    OBVIOUS
<1> USE DEF IInv, TypeOK, WalkInv, image, Abs!image, Abs!vars, Abs!Next
<1> DEFINE Stutter == UNCHANGED <<image, cmd, start, result>>
                      /\ pc = "walk" /\ pc' = "walk"
<1>0. Stutter => UNCHANGED Abs!vars
    OBVIOUS
<1>1. ASSUME NEW e \in Envs, wamr_exec_env_dump(e) PROVE Abs!Next
    <2>1. CASE ExecEnvReadable(e)
        <3>1. /\ pc = "idle" /\ pc' = "walk" /\ cmd' = EnvDump
              /\ start' = envCur[e] /\ result' = "none" /\ UNCHANGED image
            BY <1>1, <2>1 DEF wamr_exec_env_dump, Begin
        <3>2. Abs!Start(EnvDump, envCur[e])
            BY <3>1 DEF Abs!Start
        <3>3. QED
            BY <3>2 DEF Abs!EnvDump, EnvDump
    <2>2. CASE ~ExecEnvReadable(e)
        <3>1. /\ pc = "idle" /\ pc' = "idle" /\ cmd' = EnvDump
              /\ walked' = << >> /\ envShown' = << >> /\ result' = "fault"
              /\ UNCHANGED <<image, start>>
            BY <1>1, <2>2 DEF wamr_exec_env_dump, Begin, Fault
        <3>2. Abs!Refuse(EnvDump)
            BY <3>1 DEF Abs!Refuse
        <3>3. QED
            BY <3>2 DEF Abs!EnvDump, EnvDump
    <2>3. QED
        BY <2>1, <2>2
<1>2. ASSUME NEW e \in Envs, wamr_exec_env_dump_all_interp_frame(e)
      PROVE Abs!Next
    <2>1. CASE ExecEnvReadable(e)
        <3>1. /\ pc = "idle" /\ pc' = "walk" /\ cmd' = EnvDumpAll
              /\ start' = envCur[e] /\ result' = "none" /\ UNCHANGED image
            BY <1>2, <2>1 DEF wamr_exec_env_dump_all_interp_frame, Begin
        <3>2. Abs!Start(EnvDumpAll, envCur[e])
            BY <3>1 DEF Abs!Start
        <3>3. QED
            BY <3>2 DEF Abs!EnvDumpAll, EnvDumpAll
    <2>2. CASE ~ExecEnvReadable(e)
        <3>1. /\ pc = "idle" /\ pc' = "idle" /\ cmd' = EnvDumpAll
              /\ walked' = << >> /\ shown' = << >> /\ result' = "fault"
              /\ UNCHANGED <<image, start>>
            BY <1>2, <2>2 DEF wamr_exec_env_dump_all_interp_frame, Begin, Fault
        <3>2. Abs!Refuse(EnvDumpAll)
            BY <3>1 DEF Abs!Refuse, EnvDump, EnvDumpAll
        <3>3. QED
            BY <3>2 DEF Abs!EnvDumpAll, EnvDumpAll
    <2>3. QED
        BY <2>1, <2>2
<1>3. ASSUME NEW f \in Frames, wamr_interp_frame_dump_all(f) PROVE Abs!Next
    <2>1. /\ pc = "idle" /\ pc' = "walk" /\ cmd' = FrameDumpAll
          /\ start' = f /\ result' = "none" /\ UNCHANGED image
        BY <1>3 DEF wamr_interp_frame_dump_all, Begin
    <2>2. Abs!Start(FrameDumpAll, f)
        BY <2>1 DEF Abs!Start
    <2>3. QED
        BY <2>2 DEF Abs!FrameDumpAll, FrameDumpAll
<1>4. ASSUME NEW f \in Frames, wamr_interp_frame_dump(f) PROVE Abs!Next
    <2>1. /\ pc = "idle" /\ pc' = "idle" /\ cmd' = FrameDump /\ start' = f
          /\ walked' = << >> /\ UNCHANGED image
          /\ \/ shown' = << f >> /\ result' = "ok"
             \/ shown' = << >> /\ result' = "fault"
        BY <1>4 DEF wamr_interp_frame_dump, Begin, Fault
    <2>2. Abs!DumpOne(f)
        BY <2>1 DEF Abs!DumpOne, Abs!FrameDump, FrameDump, EnvDump
    <2>3. QED
        BY <2>2
<1>5. CASE get_dynamic_info_step
    <2>1. CASE cur \in frameReadable
        <3>1. Stutter
            BY <1>5, <2>1 DEF get_dynamic_info_step
        <3>2. QED
            BY <1>0, <3>1
    <2>2. CASE cur \notin frameReadable
        <3>1. /\ pc = "walk" /\ pc' = "idle" /\ cmd = EnvDump /\ result' = "fault"
              /\ UNCHANGED <<image, cmd, start, walked, envShown>>
            BY <1>5, <2>2 DEF get_dynamic_info_step, Fault
        <3>2. IsChainPrefix(walked, start) /\ envShown = << >>
            BY <3>1
        <3>3. Abs!Abort
            BY <3>1, <3>2, ChainPredicates DEF Abs!Abort, Abs!EnvDump, EnvDump
        <3>4. QED
            BY <3>3
    <2>3. QED
        BY <2>1, <2>2
<1>6. CASE exec_env_print
    <2>1. /\ pc = "walk" /\ pc' = "idle" /\ cmd = EnvDump /\ cur = NULL
          /\ result' = "ok" /\ envShown' = Append(envShown, frame_num)
          /\ UNCHANGED <<image, cmd, start, walked>>
        BY <1>6 DEF exec_env_print
    <2>2. envShown' = << Len(walked) >>
        BY <2>1
    <2>3. IsWholeChain(walked, start)
        BY <2>1 DEF IsWholeChain
    <2>4. Abs!Complete
        BY <2>1, <2>2, <2>3, ChainPredicates DEF Abs!Complete, Abs!EnvDump, EnvDump
    <2>5. QED
        BY <2>4
<1>7. CASE dump_frame_step
    <2>1. CASE FramePrintable(cur)
        <3>1. Stutter
            BY <1>7, <2>1 DEF dump_frame_step
        <3>2. QED
            BY <1>0, <3>1
    <2>2. CASE ~FramePrintable(cur)
        <3>1. /\ pc = "walk" /\ pc' = "idle" /\ cmd \in PrintingWalks
              /\ result' = "fault"
              /\ UNCHANGED <<image, cmd, start, walked, shown>>
            BY <1>7, <2>2 DEF dump_frame_step, Fault
        <3>2. IsChainPrefix(walked, start) /\ shown = walked /\ cmd # EnvDump
            BY <3>1 DEF PrintingWalks, EnvDump, EnvDumpAll, FrameDumpAll
        <3>3. Abs!Abort
            BY <3>1, <3>2, ChainPredicates DEF Abs!Abort, Abs!EnvDump, EnvDump
        <3>4. QED
            BY <3>3
    <2>3. QED
        BY <2>1, <2>2
<1>8. CASE dump_frames_done
    <2>1. /\ pc = "walk" /\ pc' = "idle" /\ cmd \in PrintingWalks /\ cur = NULL
          /\ result' = "ok"
          /\ UNCHANGED <<image, cmd, start, walked, shown>>
        BY <1>8 DEF dump_frames_done
    <2>2. IsWholeChain(walked, start) /\ shown = walked /\ cmd # EnvDump
        BY <2>1 DEF IsWholeChain, PrintingWalks, EnvDump, EnvDumpAll, FrameDumpAll
    <2>3. Abs!Complete
        BY <2>1, <2>2, ChainPredicates DEF Abs!Complete, Abs!EnvDump, EnvDump
    <2>4. QED
        BY <2>3
<1>9. CASE UNCHANGED vars
    BY <1>9 DEF vars, session
<1>10. QED
    BY <1>1, <1>2, <1>3, <1>4, <1>5, <1>6, <1>7, <1>8, <1>9 DEF Next

\* The frame commands implement ChainDump: every command shows the whole
\* prev_frame chain from its first frame, or faults having shown a prefix
\* of it (AbsSpec, checked by TLC on three frames with every link
\* function).
THEOREM Refinement == Spec => AbsSpec
<1>1. []IInv /\ [][Next]_vars => [][Abs!Next]_Abs!vars
    BY StepRefines, PTL
<1>2. QED
    BY InitRefines, ChainInvariant, <1>1, PTL DEF Spec, AbsSpec, Abs!Spec

=============================================================================
