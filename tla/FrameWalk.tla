----------------------------- MODULE FrameWalk -----------------------------
(***************************************************************************)
(* The call-stack walker of the WAMR gdb scripts: the gdb commands that    *)
(* decode an execution environment (wamr_exec_env_dump), dump every frame  *)
(* of its call chain (wamr_exec_env_dump_all_interp_frame), dump one frame *)
(* (wamr_interp_frame_dump) or a frame and all its callers                 *)
(* (wamr_interp_frame_dump_all).                                           *)
(*                                                                         *)
(* The target process is halted: its memory image is chosen in Init and   *)
(* never changes.  Of that image the model keeps what the walk reads: the  *)
(* prev_frame link of every frame, which frames can be read, which frames  *)
(* can be printed (their WASMFunctionInstance and operand area readable),  *)
(* and each environment's cur_frame.  A gdb session runs one command at a  *)
(* time; a loop iteration of a command is one step.  A read of unreadable  *)
(* memory raises gdb.MemoryError, which no handler of these commands       *)
(* catches: the command ends with result "fault".                          *)
(***************************************************************************)
EXTENDS Naturals, Sequences, FiniteSets

CONSTANTS
    Frames,      \* addresses of WASMInterpFrame records
    Envs,        \* addresses of WASMExecEnv records
    NULL,        \* the null pointer
    PrevImages   \* the prev_frame link functions the image may hold

ASSUME FramesAssumption == NULL \notin Frames /\ NULL \notin Envs
ASSUME PrevImagesAssumption == PrevImages \subseteq [Frames -> Frames \cup {NULL}]

FrameRef == Frames \cup {NULL}

\* The commands of wamr_dbg.py that this module models.
EnvDump      == "wamr_exec_env_dump"
EnvDumpAll   == "wamr_exec_env_dump_all_interp_frame"
FrameDump    == "wamr_interp_frame_dump"
FrameDumpAll == "wamr_interp_frame_dump_all"
Commands == {EnvDump, EnvDumpAll, FrameDump, FrameDumpAll}
\* The commands whose loop prints every frame it passes.
PrintingWalks == {EnvDumpAll, FrameDumpAll}

VARIABLES
    prevOf,         \* frame -> its prev_frame field
    frameReadable,  \* frames whose record can be read
    funcReadable,   \* frames whose function and operand cells can be read
    envCur,         \* env -> its cur_frame field
    envReadable,    \* envs whose record can be read
    cmd,            \* the command running, or the last one run
    pc,             \* "idle" between commands, "walk" inside a frame loop
    start,          \* the frame the loop started from
    cur,            \* the loop variable (cur_frame / wasm_frame)
    walked,         \* the frames the loop has passed, in order
    frame_num,      \* the counter of _get_dynamic_info
    shown,          \* the frames the command has printed
    envShown,       \* the frame_count values the command has printed
    result          \* "none" while running, then "ok" or "fault"

image == <<prevOf, frameReadable, funcReadable, envCur, envReadable>>
session == <<cmd, pc, start, cur, walked, frame_num, shown, envShown, result>>
vars == <<image, session>>

(***************************************************************************)
(* Reads of target memory.                                                 *)
(***************************************************************************)
\* WASMInterpFrame.get_prev_frame: reads prev_frame; null ends the chain.
get_prev_frame(f) == prevOf[f]

\* str(WASMInterpFrame) reads prev_frame, function, ip, the function
\* instance and the operand cells; the frame prints iff all are readable.
FramePrintable(f) == f \in frameReadable /\ f \in funcReadable

\* WASMExecEnv.__init__ reads wasm_stack_size, handle, suspend_flags and
\* cur_frame: the environment decodes iff its record is readable.
ExecEnvReadable(e) == e \in envReadable

(***************************************************************************)
(* The chain a walk follows.                                               *)
(***************************************************************************)
\* s is the beginning of the prev_frame chain that starts at f.
IsChainPrefix(s, f) ==
    \/ s = << >>
    \/ /\ s[1] = f
       /\ \A i \in 1 .. Len(s) - 1 : s[i + 1] = prevOf[s[i]]

\* The frame that follows s on the chain from f.
After(s, f) == IF s = << >> THEN f ELSE prevOf[s[Len(s)]]

\* s is the whole chain from f, ending at a null prev_frame.
IsWholeChain(s, f) == IsChainPrefix(s, f) /\ After(s, f) = NULL

(***************************************************************************)
(* Initial state: any memory image, no command run yet.                    *)
(***************************************************************************)
Init ==
    /\ prevOf \in PrevImages
    /\ frameReadable \in SUBSET Frames
    /\ funcReadable \in SUBSET Frames
    /\ envCur \in [Envs -> FrameRef]
    /\ envReadable \in SUBSET Envs
    /\ cmd = "none"
    /\ pc = "idle"
    /\ start = NULL
    /\ cur = NULL
    /\ walked = << >>
    /\ frame_num = 0
    /\ shown = << >>
    /\ envShown = << >>
    /\ result = "none"

\* A command begins: nothing of the previous command is kept (each
\* command sets what it prints, shown, itself).
Begin(c) ==
    /\ pc = "idle"
    /\ cmd' = c
    /\ walked' = << >>
    /\ frame_num' = 0
    /\ envShown' = << >>

\* The command ends with an uncaught gdb.MemoryError.
Fault ==
    /\ pc' = "idle"
    /\ result' = "fault"

(***************************************************************************)
(* Plausible faults of the code below, each the mutant of one action; the  *)
(* properties must tell them from the code.                                *)
(***************************************************************************)
\* The count loop counts prev_frame links, not frames.
get_dynamic_info_step_counts_links ==
    /\ pc = "walk"
    /\ cmd = EnvDump
    /\ cur # NULL
    /\ frame_num' = frame_num + (IF get_prev_frame(cur) = NULL THEN 0 ELSE 1)
    /\ IF cur \in frameReadable
         THEN /\ walked' = Append(walked, cur)
              /\ cur' = get_prev_frame(cur)
              /\ UNCHANGED <<pc, result>>
         ELSE /\ Fault
              /\ UNCHANGED <<walked, cur>>
    /\ UNCHANGED <<image, cmd, start, shown, envShown>>

\* The environment dump prints the loop variable instead of frame_num.
exec_env_print_shows_cur ==
    /\ pc = "walk"
    /\ cmd = EnvDump
    /\ cur = NULL
    /\ envShown' = Append(envShown, cur)
    /\ pc' = "idle"
    /\ result' = "ok"
    /\ UNCHANGED <<image, cmd, start, cur, walked, frame_num, shown>>

\* The env's frame loop starts at the caller of cur_frame.
wamr_exec_env_dump_all_interp_frame_skips_cur(e) ==
    /\ Begin(EnvDumpAll)
    /\ shown' = << >>
    /\ IF ExecEnvReadable(e) /\ envCur[e] \in frameReadable
         THEN /\ pc' = "walk"
              /\ start' = envCur[e]
              /\ cur' = get_prev_frame(envCur[e])
              /\ result' = "none"
         ELSE /\ Fault
              /\ UNCHANGED <<start, cur>>
    /\ UNCHANGED image

\* The printing loop swallows gdb.MemoryError and tries the frame again.
dump_frame_step_retries ==
    /\ pc = "walk"
    /\ cmd \in PrintingWalks
    /\ cur # NULL
    /\ IF FramePrintable(cur)
         THEN /\ shown' = Append(shown, cur)
              /\ walked' = Append(walked, cur)
              /\ cur' = get_prev_frame(cur)
         ELSE UNCHANGED <<shown, walked, cur>>
    /\ UNCHANGED <<image, cmd, start, frame_num, envShown, pc, result>>

\* The printing loop advances before it prints (the two statements of the
\* loop body swapped).
dump_frame_step_prints_prev ==
    /\ pc = "walk"
    /\ cmd \in PrintingWalks
    /\ cur # NULL
    /\ IF FramePrintable(cur)
         THEN /\ shown' = Append(shown, get_prev_frame(cur))
              /\ walked' = Append(walked, cur)
              /\ cur' = get_prev_frame(cur)
              /\ UNCHANGED <<pc, result>>
         ELSE /\ Fault
              /\ UNCHANGED <<shown, walked, cur>>
    /\ UNCHANGED <<image, cmd, start, frame_num, envShown>>

(***************************************************************************)
(* wamr_exec_env_dump(e): builds WASMExecEnv(e); str() runs the frame      *)
(* count loop of _get_dynamic_info before anything is printed.             *)
(***************************************************************************)
wamr_exec_env_dump(e) ==
    /\ Begin(EnvDump)
    /\ shown' = << >>
    /\ IF ExecEnvReadable(e)
         THEN /\ pc' = "walk"
              /\ start' = envCur[e]
              /\ cur' = envCur[e]
              /\ result' = "none"
         ELSE /\ Fault
              /\ UNCHANGED <<start, cur>>
    /\ UNCHANGED image

\* One iteration of the while loop of _get_dynamic_info.
get_dynamic_info_step ==
    /\ pc = "walk"
    /\ cmd = EnvDump
    /\ cur # NULL
    /\ frame_num' = frame_num + 1
    /\ IF cur \in frameReadable
         THEN /\ walked' = Append(walked, cur)
              /\ cur' = get_prev_frame(cur)
              /\ UNCHANGED <<pc, result>>
         ELSE /\ Fault
              /\ UNCHANGED <<walked, cur>>
    /\ UNCHANGED <<image, cmd, start, shown, envShown>>

\* The loop of _get_dynamic_info has ended: str() returns and gdb prints
\* the environment with its frame_count.
exec_env_print ==
    /\ pc = "walk"
    /\ cmd = EnvDump
    /\ cur = NULL
    /\ envShown' = Append(envShown, frame_num)
    /\ pc' = "idle"
    /\ result' = "ok"
    /\ UNCHANGED <<image, cmd, start, cur, walked, frame_num, shown>>

(***************************************************************************)
(* The frame-printing commands.                                            *)
(***************************************************************************)
\* wamr_exec_env_dump_all_interp_frame(e): the loop starts at cur_frame.
wamr_exec_env_dump_all_interp_frame(e) ==
    /\ Begin(EnvDumpAll)
    /\ shown' = << >>
    /\ IF ExecEnvReadable(e)
         THEN /\ pc' = "walk"
              /\ start' = envCur[e]
              /\ cur' = envCur[e]
              /\ result' = "none"
         ELSE /\ Fault
              /\ UNCHANGED <<start, cur>>
    /\ UNCHANGED image

\* wamr_interp_frame_dump_all(f): WASMInterpFrame(f) reads nothing, so the
\* loop starts at f whatever f holds.
wamr_interp_frame_dump_all(f) ==
    /\ Begin(FrameDumpAll)
    /\ shown' = << >>
    /\ pc' = "walk"
    /\ start' = f
    /\ cur' = f
    /\ result' = "none"
    /\ UNCHANGED image

\* One iteration of `while (wasm_frame): print(wasm_frame);
\* wasm_frame = wasm_frame.get_prev_frame()`.
dump_frame_step ==
    /\ pc = "walk"
    /\ cmd \in PrintingWalks
    /\ cur # NULL
    /\ IF FramePrintable(cur)
         THEN /\ shown' = Append(shown, cur)
              /\ walked' = Append(walked, cur)
              /\ cur' = get_prev_frame(cur)
              /\ UNCHANGED <<pc, result>>
         ELSE /\ Fault
              /\ UNCHANGED <<shown, walked, cur>>
    /\ UNCHANGED <<image, cmd, start, frame_num, envShown>>

\* The printing loop has reached a null prev_frame.
dump_frames_done ==
    /\ pc = "walk"
    /\ cmd \in PrintingWalks
    /\ cur = NULL
    /\ pc' = "idle"
    /\ result' = "ok"
    /\ UNCHANGED <<image, cmd, start, cur, walked, frame_num, shown, envShown>>

\* wamr_interp_frame_dump(f): prints the one frame.
wamr_interp_frame_dump(f) ==
    /\ Begin(FrameDump)
    /\ start' = f
    /\ cur' = NULL
    /\ IF FramePrintable(f)
         THEN /\ shown' = << f >>
              /\ pc' = "idle"
              /\ result' = "ok"
         ELSE /\ Fault
              /\ shown' = << >>
    /\ UNCHANGED image

Next ==
    \/ \E e \in Envs : wamr_exec_env_dump(e)
    \/ \E e \in Envs : wamr_exec_env_dump_all_interp_frame(e)
    \/ \E f \in Frames : wamr_interp_frame_dump_all(f)
    \/ \E f \in Frames : wamr_interp_frame_dump(f)
    \/ get_dynamic_info_step
    \/ exec_env_print
    \/ dump_frame_step
    \/ dump_frames_done

\* The Python code of a command runs to completion once started: its loop
\* steps are weakly fair.  Starting a command is up to the user.
Fairness ==
    /\ WF_vars(get_dynamic_info_step \/ exec_env_print)
    /\ WF_vars(dump_frame_step \/ dump_frames_done)

Spec == Init /\ [][Next]_vars
FairSpec == Spec /\ Fairness

(***************************************************************************)
(* Properties.                                                             *)
(***************************************************************************)
\* Every variable holds a value of its kind.
TypeOK ==
    /\ prevOf \in [Frames -> FrameRef]
    /\ frameReadable \subseteq Frames
    /\ funcReadable \subseteq Frames
    /\ envCur \in [Envs -> FrameRef]
    /\ envReadable \subseteq Envs
    /\ cmd \in Commands \cup {"none"}
    /\ pc \in {"idle", "walk"}
    /\ start \in FrameRef
    /\ cur \in FrameRef
    /\ walked \in Seq(Frames)
    /\ frame_num \in Nat
    /\ shown \in Seq(Frames)
    /\ envShown \in Seq(Nat)
    /\ result \in {"none", "ok", "fault"}

\* Inside the loops of _get_dynamic_info and of the dump-all commands, the
\* frames passed so far are the prev_frame chain from the loop's first
\* frame, in order, and the loop variable is the next frame of that chain.
WalkFollowsChain ==
    pc = "walk" => IsChainPrefix(walked, start) /\ cur = After(walked, start)

\* A frame command that completes has reported exactly the call chain from
\* its first frame to the root (the frame with a null prev_frame): the
\* dump-all commands print those frames in order, wamr_exec_env_dump prints
\* their number as frame_count.
CompletedWalkIsWholeChain ==
    /\ result = "ok" /\ cmd \in PrintingWalks =>
           shown = walked /\ IsWholeChain(walked, start)
    /\ result = "ok" /\ cmd = EnvDump =>
           envShown = << Len(walked) >> /\ IsWholeChain(walked, start)

\* A loop over prev_frame never runs more iterations than there are
\* frames: a chain that revisits a frame is cut off rather than followed
\* (the bounded walk of the spec's design notes).
WalkBounded == Len(walked) <= Cardinality(Frames)

\* Number of frames a command has reported to the user.
FramesReported == IF cmd = EnvDump
                    THEN IF envShown = << >> THEN 0 ELSE envShown[1]
                    ELSE Len(shown)

\* A walk stopped by an unreadable frame still reports the frames it
\* decoded before that frame (the error-handling rule of the spec).
PartialChainReported ==
    result = "fault" /\ Len(walked) > 0 => FramesReported = Len(walked)

\* A step of a frame loop that prints (`print(wasm_frame)` /
\* `print(cur_frame)` in wamr_dbg.py) appends to what the command has
\* printed, and what it appends is the next frame of the prev_frame chain
\* from the loop's first frame: frames come out one at a time, in chain
\* order, and nothing printed is taken back.
PrintsInChainOrder ==
    [][pc = "walk" /\ shown' # shown =>
         shown' = Append(shown, After(shown, start))]_vars

\* Every frame command that starts a loop eventually ends it.
CommandsTerminate == (pc = "walk") ~> (pc = "idle")


=============================================================================
