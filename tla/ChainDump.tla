----------------------------- MODULE ChainDump ------------------------------
(***************************************************************************)
(* What the frame commands of the WAMR gdb scripts promise, with their     *)
(* loops hidden: a command that walks the prev_frame chain either          *)
(* completes, showing the whole chain from its first frame (the frame      *)
(* count of wamr_exec_env_dump), or aborts with a MemoryError, having      *)
(* shown at most a prefix of that chain; wamr_interp_frame_dump shows its  *)
(* one frame or aborts.  FrameWalk implements this specification          *)
(* (FrameWalkRefinement).                                                  *)
(***************************************************************************)
EXTENDS Naturals, Sequences

CONSTANTS Frames, Envs, NULL, PrevImages

VARIABLES
    prevOf, frameReadable, funcReadable, envCur, envReadable,  \* the image
    cmd,       \* the command running, or the last one run
    busy,      \* a walking command has started and not ended
    start,     \* the frame its walk starts from
    decoded,   \* the frames an ended walk decoded, in order
    report,    \* what the ended command showed: frames, or <<frame_count>>
    result     \* "none" while running, then "ok" or "fault"

image == <<prevOf, frameReadable, funcReadable, envCur, envReadable>>
vars == <<image, cmd, busy, start, decoded, report, result>>

FrameRef == Frames \cup {NULL}
EnvDump      == "wamr_exec_env_dump"
EnvDumpAll   == "wamr_exec_env_dump_all_interp_frame"
FrameDump    == "wamr_interp_frame_dump"
FrameDumpAll == "wamr_interp_frame_dump_all"

\* s is the beginning of the prev_frame chain from f, and the whole of it
\* when the frame after s is null.
ChainPrefix(s, f) ==
    s = << >> \/ (s[1] = f /\ \A i \in 1 .. Len(s) - 1 : s[i + 1] = prevOf[s[i]])
NextOf(s, f) == IF s = << >> THEN f ELSE prevOf[s[Len(s)]]
WholeChain(s, f) == ChainPrefix(s, f) /\ NextOf(s, f) = NULL

Init ==
    /\ prevOf \in PrevImages
    /\ frameReadable \in SUBSET Frames
    /\ funcReadable \in SUBSET Frames
    /\ envCur \in [Envs -> FrameRef]
    /\ envReadable \in SUBSET Envs
    /\ cmd = "none" /\ busy = FALSE /\ start = NULL
    /\ decoded = << >> /\ report = << >> /\ result = "none"

\* A walking command starts from an environment's cur_frame or a frame.
Start(c, s) ==
    /\ ~busy
    /\ busy' = TRUE /\ cmd' = c /\ start' = s
    /\ decoded' = << >> /\ report' = << >> /\ result' = "none"
    /\ UNCHANGED image

\* An environment command whose environment cannot be read shows nothing.
Refuse(c) ==
    /\ ~busy
    /\ cmd' = c /\ decoded' = << >> /\ report' = << >> /\ result' = "fault"
    /\ UNCHANGED <<image, busy, start>>

\* wamr_interp_frame_dump(f) shows f, or nothing.
DumpOne(f) ==
    /\ ~busy
    /\ cmd' = FrameDump /\ start' = f /\ decoded' = << >>
    /\ \/ report' = << f >> /\ result' = "ok"
       \/ report' = << >> /\ result' = "fault"
    /\ UNCHANGED <<image, busy>>

\* The walk ends at the null prev_frame: the whole chain is shown.
Complete ==
    /\ busy
    /\ busy' = FALSE /\ result' = "ok"
    /\ WholeChain(decoded', start)
    /\ report' = IF cmd = EnvDump THEN << Len(decoded') >> ELSE decoded'
    /\ UNCHANGED <<image, cmd, start>>

\* The walk meets unreadable memory: a prefix of the chain was decoded,
\* and shown by the printing walks.
Abort ==
    /\ busy
    /\ busy' = FALSE /\ result' = "fault"
    /\ ChainPrefix(decoded', start)
    /\ report' = IF cmd = EnvDump THEN << >> ELSE decoded'
    /\ UNCHANGED <<image, cmd, start>>

Next ==
    \/ \E e \in Envs, c \in {EnvDump, EnvDumpAll} : Start(c, envCur[e])
    \/ \E f \in Frames : Start(FrameDumpAll, f)
    \/ \E c \in {EnvDump, EnvDumpAll} : Refuse(c)
    \/ \E f \in Frames : DumpOne(f)
    \/ Complete
    \/ Abort

Spec == Init /\ [][Next]_vars

=============================================================================
