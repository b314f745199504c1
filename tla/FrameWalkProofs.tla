-------------------------- MODULE FrameWalkProofs --------------------------
(***************************************************************************)
(* Proofs about the call-stack walker, for every set of frames and         *)
(* environments and every memory image.                                    *)
(***************************************************************************)
EXTENDS FrameWalk, TLAPS

(***************************************************************************)
(* Type correctness: every step of the session keeps every variable in     *)
(* its domain.                                                             *)
(***************************************************************************)
LEMMA TypeStep == TypeOK /\ [Next]_vars => TypeOK'
    <2> SUFFICES ASSUME TypeOK, [Next]_vars PROVE TypeOK'
        OBVIOUS
    <2> USE DEF TypeOK, FrameRef, Commands, image
    \* The provers need the sequence-valued variables' new values as
    \* equalities of their own, so each case first states them.
    <2>1. ASSUME NEW e \in Envs, wamr_exec_env_dump(e) PROVE TypeOK'
        <3>1. walked' = << >> /\ shown' = << >> /\ envShown' = << >>
            BY <2>1 DEF wamr_exec_env_dump, Begin
        <3>2. QED
            BY <2>1, <3>1 DEF Fault, wamr_exec_env_dump, Begin, EnvDump
    <2>2. ASSUME NEW e \in Envs, wamr_exec_env_dump_all_interp_frame(e)
          PROVE TypeOK'
        <3>1. walked' = << >> /\ shown' = << >> /\ envShown' = << >>
            BY <2>2 DEF wamr_exec_env_dump_all_interp_frame, Begin
        <3>2. QED
            BY <2>2, <3>1 DEF Fault, wamr_exec_env_dump_all_interp_frame,
                              Begin, EnvDumpAll
    <2>3. ASSUME NEW f \in Frames, wamr_interp_frame_dump_all(f) PROVE TypeOK'
        <3>1. walked' = << >> /\ shown' = << >> /\ envShown' = << >>
            BY <2>3 DEF wamr_interp_frame_dump_all, Begin
        <3>2. QED
            BY <2>3, <3>1 DEF wamr_interp_frame_dump_all, Begin, FrameDumpAll
    <2>4. ASSUME NEW f \in Frames, wamr_interp_frame_dump(f) PROVE TypeOK'
        <3>1. walked' = << >> /\ envShown' = << >>
            BY <2>4 DEF wamr_interp_frame_dump, Begin
        <3>2. shown' = << f >> \/ shown' = << >>
            BY <2>4 DEF wamr_interp_frame_dump
        <3>3. shown' \in Seq(Frames)
            <4>1. CASE shown' = << f >>
                BY <4>1
            <4>2. CASE shown' = << >>
                BY <4>2
            <4>3. QED
                BY <3>2, <4>1, <4>2
        <3>4. QED
            BY <2>4, <3>1, <3>3 DEF Fault, wamr_interp_frame_dump, Begin,
                                    FrameDump
    <2>5. CASE get_dynamic_info_step
        <3>1. CASE cur \in frameReadable
            <4>1. walked' = Append(walked, cur) /\ cur' = prevOf[cur]
                BY <2>5, <3>1 DEF get_dynamic_info_step, get_prev_frame
            <4>2. QED
                BY <2>5, <3>1, <4>1 DEF get_dynamic_info_step
        <3>2. CASE cur \notin frameReadable
            BY <2>5, <3>2 DEF Fault, get_dynamic_info_step
        <3>3. QED
            BY <3>1, <3>2
    <2>6. CASE exec_env_print
        BY <2>6 DEF exec_env_print
    <2>7. CASE dump_frame_step
        <3>1. CASE FramePrintable(cur)
            <4>1. /\ walked' = Append(walked, cur)
                  /\ shown' = Append(shown, cur)
                  /\ cur' = prevOf[cur]
                BY <2>7, <3>1 DEF dump_frame_step, get_prev_frame
            <4>2. QED
                BY <2>7, <3>1, <4>1 DEF dump_frame_step
        <3>2. CASE ~FramePrintable(cur)
            BY <2>7, <3>2 DEF Fault, dump_frame_step
        <3>3. QED
            BY <3>1, <3>2
    <2>8. CASE dump_frames_done
        BY <2>8 DEF dump_frames_done
    <2>9. CASE UNCHANGED vars
        BY <2>9 DEF vars, session
    <2>10. QED
        BY <2>1, <2>2, <2>3, <2>4, <2>5, <2>6, <2>7, <2>8, <2>9 DEF Next

THEOREM TypeCorrect == Spec => []TypeOK
<1>1. Init => TypeOK
    BY PrevImagesAssumption DEF Init, TypeOK, FrameRef
<1>2. QED
    BY <1>1, TypeStep, PTL DEF Spec

(***************************************************************************)
(* The walk follows the chain.  CompletedWalkIsWholeChain is not inductive *)
(* by itself: at the step that ends a loop it needs what the loop has      *)
(* built so far, namely that the frames passed are the chain from the      *)
(* first frame, that the loop variable is the next frame of that chain,    *)
(* that a printing loop has printed every frame it passed and that the     *)
(* count loop's frame_num counts them.                                     *)
(***************************************************************************)
WalkInv ==
    pc = "walk" =>
        /\ cmd \in {EnvDump, EnvDumpAll, FrameDumpAll}
        /\ result = "none"
        /\ IsChainPrefix(walked, start)
        /\ cur = After(walked, start)
        /\ cmd \in PrintingWalks => shown = walked
        /\ cmd = EnvDump => frame_num = Len(walked) /\ envShown = << >>

IInv == TypeOK /\ WalkInv /\ CompletedWalkIsWholeChain

\* Appending the next frame of the chain gives a longer prefix of it.
LEMMA AppendChain ==
    ASSUME prevOf \in [Frames -> FrameRef],
           NEW s \in Seq(Frames), NEW f \in FrameRef, NEW c \in Frames,
           IsChainPrefix(s, f), c = After(s, f)
    PROVE  /\ IsChainPrefix(Append(s, c), f)
           /\ After(Append(s, c), f) = prevOf[c]
<1>1. CASE s = << >>
    <2>1. Append(s, c) = << c >> /\ c = f
        BY <1>1 DEF After
    <2>2. << c >> # << >> /\ << c >>[1] = c /\ Len(<< c >>) = 1
        OBVIOUS
    <2>3. IsChainPrefix(<< c >>, f)
        BY <2>1, <2>2 DEF IsChainPrefix
    <2>4. After(<< c >>, f) = prevOf[c]
        BY <2>2 DEF After
    <2>5. QED
        BY <2>1, <2>3, <2>4
<1>2. CASE s # << >>
    <2>1. /\ s[1] = f
          /\ \A i \in 1 .. Len(s) - 1 : s[i + 1] = prevOf[s[i]]
          /\ c = prevOf[s[Len(s)]]
        BY <1>2 DEF IsChainPrefix, After
    <2>2. Len(s) \in Nat \ {0}
        BY <1>2
    <2>3. \A i \in 1 .. Len(Append(s, c)) - 1 :
             Append(s, c)[i + 1] = prevOf[Append(s, c)[i]]
        BY <2>1, <2>2
    <2>4. QED
        BY <2>1, <2>2, <2>3 DEF IsChainPrefix, After
<1>3. QED
    BY <1>1, <1>2

THEOREM ChainInvariant == Spec => []IInv
<1>1. Init => IInv
    BY PrevImagesAssumption
    DEF Init, IInv, TypeOK, FrameRef, WalkInv, CompletedWalkIsWholeChain
<1>2. IInv /\ [Next]_vars => IInv'
    <2> SUFFICES ASSUME IInv, [Next]_vars PROVE IInv'
        OBVIOUS
    <2>0. TypeOK'
        BY TypeStep DEF IInv
    <2> USE DEF IInv, image
    <2> DEFINE Done == pc' = "idle" /\ result' \in {"fault", "ok"}
    \* A command that starts a loop satisfies WalkInv with nothing passed.
    <2>1. ASSUME NEW e \in Envs, wamr_exec_env_dump(e) PROVE IInv'
        <3>1. CASE ExecEnvReadable(e)
            <4>1. /\ pc' = "walk" /\ cmd' = EnvDump /\ result' = "none"
                  /\ start' = envCur[e] /\ cur' = envCur[e]
                  /\ walked' = << >> /\ frame_num' = 0 /\ envShown' = << >>
                BY <2>1, <3>1 DEF wamr_exec_env_dump, Begin
            <4>2. (IsChainPrefix(walked, start) /\ cur = After(walked, start))'
                BY <4>1 DEF IsChainPrefix, After
            <4>3. QED
                BY <2>0, <4>1, <4>2
                DEF WalkInv, CompletedWalkIsWholeChain, PrintingWalks, EnvDump,
                    EnvDumpAll, FrameDumpAll
        <3>2. CASE ~ExecEnvReadable(e)
            <4>1. pc' = "idle" /\ result' = "fault"
                BY <2>1, <3>2 DEF wamr_exec_env_dump, Fault
            <4>2. QED
                BY <2>0, <4>1 DEF WalkInv, CompletedWalkIsWholeChain
        <3>3. QED
            BY <3>1, <3>2
    <2>2. ASSUME NEW e \in Envs, wamr_exec_env_dump_all_interp_frame(e)
          PROVE IInv'
        <3>1. CASE ExecEnvReadable(e)
            <4>1. /\ pc' = "walk" /\ cmd' = EnvDumpAll /\ result' = "none"
                  /\ start' = envCur[e] /\ cur' = envCur[e]
                  /\ walked' = << >> /\ shown' = << >>
                BY <2>2, <3>1 DEF wamr_exec_env_dump_all_interp_frame, Begin
            <4>2. (IsChainPrefix(walked, start) /\ cur = After(walked, start))'
                BY <4>1 DEF IsChainPrefix, After
            <4>3. QED
                BY <2>0, <4>1, <4>2
                DEF WalkInv, CompletedWalkIsWholeChain, PrintingWalks, EnvDump,
                    EnvDumpAll, FrameDumpAll
        <3>2. CASE ~ExecEnvReadable(e)
            <4>1. pc' = "idle" /\ result' = "fault"
                BY <2>2, <3>2 DEF wamr_exec_env_dump_all_interp_frame, Fault
            <4>2. QED
                BY <2>0, <4>1 DEF WalkInv, CompletedWalkIsWholeChain
        <3>3. QED
            BY <3>1, <3>2
    <2>3. ASSUME NEW f \in Frames, wamr_interp_frame_dump_all(f) PROVE IInv'
        <4>1. /\ pc' = "walk" /\ cmd' = FrameDumpAll /\ result' = "none"
              /\ start' = f /\ cur' = f
              /\ walked' = << >> /\ shown' = << >>
            BY <2>3 DEF wamr_interp_frame_dump_all, Begin
        <4>2. (IsChainPrefix(walked, start) /\ cur = After(walked, start))'
            BY <4>1 DEF IsChainPrefix, After
        <4>3. QED
            BY <2>0, <4>1, <4>2
            DEF WalkInv, CompletedWalkIsWholeChain, PrintingWalks, EnvDump,
                EnvDumpAll, FrameDumpAll
    \* wamr_interp_frame_dump prints one frame and starts no loop.
    <2>4. ASSUME NEW f \in Frames, wamr_interp_frame_dump(f) PROVE IInv'
        <4>1. pc' = "idle" /\ cmd' = FrameDump
            BY <2>4 DEF wamr_interp_frame_dump, Begin, Fault
        <4>2. QED
            BY <2>0, <4>1
            DEF WalkInv, CompletedWalkIsWholeChain, PrintingWalks, EnvDump,
                EnvDumpAll, FrameDumpAll, FrameDump
    <2>5. CASE get_dynamic_info_step
        <3>0. /\ pc = "walk" /\ cmd = EnvDump /\ cur \in Frames
              /\ IsChainPrefix(walked, start) /\ cur = After(walked, start)
              /\ frame_num = Len(walked) /\ envShown = << >>
              /\ result = "none"
            BY <2>5 DEF get_dynamic_info_step, WalkInv, TypeOK, FrameRef,
                        EnvDump, EnvDumpAll, FrameDumpAll
        <3>1. CASE cur \in frameReadable
            <4>1. /\ walked' = Append(walked, cur) /\ cur' = prevOf[cur]
                  /\ frame_num' = frame_num + 1
                  /\ pc' = pc /\ result' = result /\ cmd' = cmd
                  /\ start' = start /\ envShown' = envShown
                  /\ prevOf' = prevOf
                BY <2>5, <3>1 DEF get_dynamic_info_step, get_prev_frame
            <4>2. /\ IsChainPrefix(walked, start)'
                  /\ After(walked, start)' = cur'
                <5>1. IsChainPrefix(Append(walked, cur), start)
                      /\ After(Append(walked, cur), start) = prevOf[cur]
                    BY <3>0, AppendChain DEF TypeOK, FrameRef
                <5>2. QED
                    BY <4>1, <5>1 DEF IsChainPrefix, After
            <4>3. Len(walked') = frame_num'
                BY <3>0, <4>1 DEF TypeOK
            <4>4. QED
                BY <2>0, <3>0, <4>1, <4>2, <4>3
                DEF WalkInv, CompletedWalkIsWholeChain, PrintingWalks, EnvDump,
                    EnvDumpAll, FrameDumpAll
        <3>2. CASE cur \notin frameReadable
            <4>1. pc' = "idle" /\ result' = "fault"
                BY <2>5, <3>2 DEF get_dynamic_info_step, Fault
            <4>2. QED
                BY <2>0, <4>1 DEF WalkInv, CompletedWalkIsWholeChain
        <3>3. QED
            BY <3>1, <3>2
    <2>6. CASE exec_env_print
        <3>0. /\ pc = "walk" /\ cmd = EnvDump /\ cur = NULL
              /\ IsChainPrefix(walked, start) /\ cur = After(walked, start)
              /\ frame_num = Len(walked) /\ envShown = << >>
            BY <2>6 DEF exec_env_print, WalkInv, EnvDump, EnvDumpAll,
                        FrameDumpAll
        <3>1. /\ envShown' = << frame_num >> /\ pc' = "idle" /\ result' = "ok"
              /\ walked' = walked /\ start' = start /\ cmd' = cmd
              /\ prevOf' = prevOf
            BY <2>6, <3>0 DEF exec_env_print
        <3>2. IsWholeChain(walked, start)'
            BY <3>0, <3>1 DEF IsWholeChain, IsChainPrefix, After
        <3>3. QED
            BY <2>0, <3>0, <3>1, <3>2
            DEF WalkInv, CompletedWalkIsWholeChain, PrintingWalks, EnvDump,
                EnvDumpAll, FrameDumpAll
    <2>7. CASE dump_frame_step
        <3>0. /\ pc = "walk" /\ cmd \in PrintingWalks /\ cur \in Frames
              /\ IsChainPrefix(walked, start) /\ cur = After(walked, start)
              /\ shown = walked /\ result = "none"
            BY <2>7 DEF dump_frame_step, WalkInv, TypeOK, FrameRef
        <3>1. CASE FramePrintable(cur)
            <4>1. /\ walked' = Append(walked, cur) /\ cur' = prevOf[cur]
                  /\ shown' = Append(shown, cur)
                  /\ pc' = pc /\ result' = result /\ cmd' = cmd
                  /\ start' = start /\ prevOf' = prevOf
                BY <2>7, <3>1 DEF dump_frame_step, get_prev_frame
            <4>2. /\ IsChainPrefix(walked, start)'
                  /\ After(walked, start)' = cur'
                <5>1. IsChainPrefix(Append(walked, cur), start)
                      /\ After(Append(walked, cur), start) = prevOf[cur]
                    BY <3>0, AppendChain DEF TypeOK, FrameRef
                <5>2. QED
                    BY <4>1, <5>1 DEF IsChainPrefix, After
            <4>3. shown' = walked'
                BY <3>0, <4>1
            <4>4. QED
                BY <2>0, <3>0, <4>1, <4>2, <4>3
                DEF WalkInv, CompletedWalkIsWholeChain, PrintingWalks, EnvDump,
                    EnvDumpAll, FrameDumpAll
        <3>2. CASE ~FramePrintable(cur)
            <4>1. pc' = "idle" /\ result' = "fault"
                BY <2>7, <3>2 DEF dump_frame_step, Fault
            <4>2. QED
                BY <2>0, <4>1 DEF WalkInv, CompletedWalkIsWholeChain
        <3>3. QED
            BY <3>1, <3>2
    <2>8. CASE dump_frames_done
        <3>0. /\ pc = "walk" /\ cmd \in PrintingWalks /\ cur = NULL
              /\ IsChainPrefix(walked, start) /\ cur = After(walked, start)
              /\ shown = walked
            BY <2>8 DEF dump_frames_done, WalkInv
        <3>1. /\ pc' = "idle" /\ result' = "ok" /\ cmd' = cmd
              /\ walked' = walked /\ shown' = shown /\ start' = start
              /\ prevOf' = prevOf
            BY <2>8 DEF dump_frames_done
        <3>2. IsWholeChain(walked, start)'
            BY <3>0, <3>1 DEF IsWholeChain, IsChainPrefix, After
        <3>3. QED
            BY <2>0, <3>0, <3>1, <3>2
            DEF WalkInv, CompletedWalkIsWholeChain, PrintingWalks, EnvDump,
                EnvDumpAll, FrameDumpAll
    <2>9. CASE UNCHANGED vars
        BY <2>0, <2>9
        DEF vars, session, WalkInv, CompletedWalkIsWholeChain, IsWholeChain,
            IsChainPrefix, After
    <2>10. QED
        BY <2>1, <2>2, <2>3, <2>4, <2>5, <2>6, <2>7, <2>8, <2>9 DEF Next
<1>3. QED
    BY <1>1, <1>2, PTL DEF Spec

\* The main result: a frame command that completes reports exactly the
\* chain from its first frame to the root, for every image.
THEOREM CompletedWalkCorrect == Spec => []CompletedWalkIsWholeChain
BY ChainInvariant, PTL DEF IInv

\* Inside a loop the frames passed are the chain's beginning.
THEOREM WalkFollowsChainHolds == Spec => []WalkFollowsChain
<1>1. IInv => WalkFollowsChain
    BY DEF IInv, WalkInv, WalkFollowsChain
<1>2. QED
    BY <1>1, ChainInvariant, PTL

\* A printing loop step appends the next frame of the chain from the loop's
\* first frame to what the command has printed; no other step of a loop
\* changes what is printed.  The step needs from IInv that a printing loop
\* has printed exactly the frames it passed and that its loop variable is
\* the frame after them.
THEOREM PrintsInChainOrderHolds == Spec => PrintsInChainOrder
<1> DEFINE A == pc = "walk" /\ shown' # shown =>
                    shown' = Append(shown, After(shown, start))
<1>1. IInv /\ [Next]_vars => [A]_vars
    <2> SUFFICES ASSUME IInv, [Next]_vars, pc = "walk", shown' # shown
                 PROVE  shown' = Append(shown, After(shown, start))
        OBVIOUS
    <2>1. CASE dump_frame_step
        <3>1. FramePrintable(cur) /\ shown' = Append(shown, cur)
            BY <2>1 DEF dump_frame_step
        <3>2. cmd \in PrintingWalks /\ shown = walked /\ cur = After(walked, start)
            BY <2>1 DEF dump_frame_step, IInv, WalkInv
        <3>3. QED
            BY <3>1, <3>2
    <2>2. CASE get_dynamic_info_step \/ exec_env_print \/ dump_frames_done
        BY <2>2 DEF get_dynamic_info_step, exec_env_print, dump_frames_done
    <2>3. CASE \/ \E e \in Envs : wamr_exec_env_dump(e)
               \/ \E e \in Envs : wamr_exec_env_dump_all_interp_frame(e)
               \/ \E f \in Frames : wamr_interp_frame_dump_all(f)
               \/ \E f \in Frames : wamr_interp_frame_dump(f)
        BY <2>3 DEF wamr_exec_env_dump, wamr_exec_env_dump_all_interp_frame,
                    wamr_interp_frame_dump_all, wamr_interp_frame_dump, Begin
    <2>4. CASE UNCHANGED vars
        BY <2>4 DEF vars, session
    <2>5. QED
        BY <2>1, <2>2, <2>3, <2>4 DEF Next
<1>2. QED
    BY <1>1, ChainInvariant, PTL DEF Spec, PrintsInChainOrder

=============================================================================
