# Verification of the WAMR gdb scripts

This directory holds TLA+ models of `src/scripts/gdb/`. These are the Python
gdb extensions that decode the memory of a halted WAMR (WebAssembly Micro
Runtime) process. With them are the TLC configurations that check the models,
TLAPS proofs of the walker's invariants, of its refinement of an abstract
specification, and of the frame table's region markers.

## 1. The system

Each gdb command in `wamr_dbg.py` parses its argument (`_get_ref`), builds one
decoder object and prints it. Python builds the object and the string; every
`gdb.Value` field read is a read of target memory. A read of unmapped memory
raises `gdb.MemoryError`.

| part (spec section) | source | what it does |
|---|---|---|
| Bit-field primitives (4.1) | `utils.py` 10-15 | `get_bits`/`get_bit`: mask and shift |
| Heap-unit decoder (4.2) | `utils.py` 18-34, `wamr_objects.py` 10-25 | reads the HMU header word before an object: size, usage type, pinned, marked |
| Runtime-type resolver (4.3) | `wamr_objects.py` 27-50 | tests the object's header word for the externref/anyref sentinels, else dereferences the RTT and looks `type_flag` up in `TYPE_KIND` |
| Defined-type decoder (4.4) | `wamr_types.py` | `create_type` dispatches on the defined type's flag; array/struct/func types print their element type, fields and parameters |
| Heap-object classifier (4.5) | `wamr_objects.py` 52-171 | `create_obj`: bit 0 tags an i31, otherwise HMU + RTT + dispatch; catches `gdb.MemoryError` only |
| Feature-set prober (4.6) | `wamr_exec_env.py` 59-73, 222-264 | interpreter mode and build features from the layout's field names |
| Frame reconstructor (4.7) | `wamr_exec_env.py` 12-57, 88-219 | prints a frame: its fields, function and operand-stack table |
| Call-stack walker (4.8) | `wamr_exec_env.py` 81-86, 269-280; `wamr_dbg.py` 77-91 | follows `prev_frame` from a frame or from an env's `cur_frame` |

How the parts interact:
- `wamr_gc_obj_dump` calls the classifier. The classifier calls the HMU
  decoder, the RTT resolver and `create_type`.
- `wamr_exec_env_dump` builds a `WASMExecEnv`. That runs the prober and
  then, inside `__str__`, the frame-count walk.
- The two dump-all commands print every frame of the walk with the frame
  reconstructor.

Hard behaviours in this code:
- Memory may be unreadable at any cell, and a read can fail halfway through a
  command.
- Memory may hold garbage. The user passes an address that is not an object,
  or the target is corrupted.
- A `prev_frame` chain may be cyclic.
- Reads are lazy. `gdb.Value` fields are fetched when they are converted or
  compared, not when the field is selected. Some reads therefore happen in
  `__str__`, after the `try` of `create_obj` has been left.
- Bit-packed words are decoded by masks and shifts whose constants come from
  the runtime (`constants.py`, which is not in the repository).

What is not in this code: concurrency. gdb runs one Python command at a time,
the target is halted, and nothing is persisted. The model therefore has no
interleavings, crashes or message loss. The hard part is which cells a
command reads, in what order, and what it does when one of them fails.

## 2. Modules

### FrameWalk.tla: the call-stack walker

State:
- The memory image: the `prev_frame` link of every frame (`prevOf`), the
  readable frames, the frames whose function and operand cells are readable,
  each environment's `cur_frame`, and the readable environments. Init
  chooses the image and it never changes, because the target is halted.
- The command in progress: `cmd`, `pc`, the loop variable `cur`, the frames
  passed (`walked`), the `frame_num` counter, and what has been printed
  (`shown`, `envShown`). The command ends with `result` "ok" or "fault".
  "fault" is an uncaught `gdb.MemoryError`.

Actions, one per command start and one per loop iteration:

| action | code |
|---|---|
| `wamr_exec_env_dump(e)` | `wamr_dbg.py` 55-64 with `WASMExecEnv.__init__`, which reads the env record and `cur_frame` |
| `get_dynamic_info_step` | one iteration of the loop of `_get_dynamic_info`, lines 274-276: `frame_num += 1`, then `get_prev_frame` reads `prev_frame` |
| `exec_env_print` | the loop has ended; `__str__` returns and gdb prints, including `frame_count` |
| `wamr_exec_env_dump_all_interp_frame(e)`, `wamr_interp_frame_dump_all(f)` | start the printing loop at `cur_frame` or at `f` |
| `dump_frame_step` | `print(wasm_frame); wasm_frame = wasm_frame.get_prev_frame()` |
| `dump_frames_done` | the printing loop has met a null `prev_frame` |
| `wamr_interp_frame_dump(f)` | prints one frame |

The printing of a frame, `str(WASMInterpFrame)`, is abstracted to one fact:
either every cell it reads is readable, or a `gdb.MemoryError` is raised.

### GCObject.tla: the heap-object decoder

A gdb command is atomic: it is one action from the prompt, and `prompt`
returns to the prompt. The command reads at most six cells:
- the HMU header word;
- the object's header word, which is the RTT reference or a sentinel;
- the RTT's `type_flag`;
- the defined type's `type_flag`;
- the rest of the defined type;
- the object's body word.

Each cell is a word or unreadable (`NoRead`). A command reads each cell at
most once and keeps nothing, so the cells are an input of the command.

The decode is written as operators that follow the code's control flow:
`HMU`, `WASMRtt`, `create_type`, `create_obj`, then `ObjStr`/`TypeStr` for
the reads that `__str__` does lazily. Python exceptions are values
(`MemoryError`, `IndexError`), and a handler is a branch that turns one
into `None`. The code's `if`/`elif` chains are IF/ELSE IF chains, not CASE:
the arms of a TLA+ CASE are not tried in order, so overlapping arms (an RTT
word that is both a sentinel and a pointer, say) would choose any true arm
where Python takes the first. `Pow2[k]` is `1 << k`, a recursive function
rather than `2^k` so that the provers can reason about it. `get_bits` is
`(val \div Pow2[offset]) % Pow2[size]`, the value the mask and shift compute
for a non-negative word. The sentinel tests `x & F == F` are
`HasFlag`, which the model's assumption makes valid because `F` is a single
bit.

The ghost variable `src` records what memory holds:
- an object as the WAMR runtime lays it out (`Encode`);
- a tagged i31 reference `(v << 1) | 1`;
- garbage, meaning every combination of unreadable cells, sentinels, RTT
  pointers and out-of-range flags.

### FrameTable.tla: the operand-stack table of a frame print

It models `WASMInterpFrame._get_conditional_info` (`wamr_exec_env.py`
113-210) for one frame, as the command `wamr_interp_frame_dump`.
- A frame (`Frames`) has a build mode (classic or fast), a GC flag, whether
  the classic inferior call `get_frame_ref` succeeds (`callOK`), its function
  pointer (null, unreadable, or a function with `p` param, `l` local and
  `stack` operand cells, import or not), whether its `frame_ref` and (fast)
  `lp` pointers are null (`refNull`, `lpNull`), the slot `sp` points at,
  `ret_offset`, and how many cells are readable.
- `interp_frame_fields` is the field list `WASMInterpFrame.__init__` reads
  from the debug info. `WASMFunction` and `get_max_stack_cell_num` are the
  function's cell counts. `frame_ref_array` says whether the table has a ref
  column: a non-null `frame_ref` field, or a classic `get_frame_ref` call,
  whose `gdb.error` is swallowed, returning a non-null pointer (the truth
  tests at lines 173, 178 and 186). `lp_array` is the same test of `lp`: a
  fast frame's `lp` is a pointer and may be null, a classic frame's `lp` is
  an array, a `gdb.Value` that is always true.
- `RowMarks(fr, func, i)` are the markers appended to row `i`, with the
  code's tests: `param_end` (`i == p - 1`), `local_end`, `dynamic_space_start`,
  `sp` (`i == int(sp)`, with `int(sp)` the address `LpAddr + CELL_SIZE *
  slot`) and `ret_offset`.
- `get_conditional_info` is no table (`NoTable`) for a null function, for
  `max_cell_num = 0` (line 172) or when neither array is true (line 173);
  otherwise a table with one row of markers per cell, or `NoRead` when a
  cell it reads raises `gdb.MemoryError`. The cell values and
  the other print lines are abstracted away.

### DefinedTypes.tla: struct and function types

It models what `wamr_type_dump` prints for a struct or function type
(`wamr_types.py` 46-165).
- A defined type has a kind, a sequence of value-type codes (the fields, or
  the parameters followed by the results), a `param_count`, and the
  `ref_type_maps` entries (`index`, `type_idx`).
- `Matches(d, i)` is the code's loop over `ref_type_maps`
  (`for j in range(ret_type_count): if ref_type['index'] == i`), written as a
  recursive function over the entries scanned so far.
- `_get_fields_info` appends one typeid for every entry whose index matches
  a reference field (`struct_typeids`). `_get_parameter_types` and
  `_get_result_types` call `_get_reftype_id`, which returns the first
  match's `type_idx`, or `None` if no entry matches.
- `DefinedTypes` enumerates every layout of up to `MaxFields` positions. With
  `SparseMaps` false, every reference position has exactly one entry, as the
  runtime's loader writes them. With it true, any subset of the positions
  has one. `MapsOf(t)` states this directly: sequences of entries with
  strictly increasing indexes whose index set is the reference positions
  (or a subset of them).

### ChainDump.tla and FrameWalkRefinement.tla: what the frame commands promise

`ChainDump` is the abstract specification of the frame commands, with their
loops hidden.
- A command starts (`Start`), and then either completes, having decoded the
  whole `prev_frame` chain from its first frame (`Complete`), or aborts with a
  `MemoryError`, having decoded a prefix of it (`Abort`).
- `wamr_exec_env_dump` reports the number of frames. The other commands
  report the frames themselves.
- `Refuse` (an unreadable env) and `DumpOne` (`wamr_interp_frame_dump`) are
  single steps.

`FrameWalkRefinement` instantiates `ChainDump` with a refinement mapping:
- a walk is busy while `pc = "walk"`;
- the decoded frames are `walked` once the walk has ended;
- the report is `envShown` or `shown`.

A loop iteration is a stutter of `ChainDump`. `AbsSpec` is `ChainDump`'s
specification, checked as a property of `FrameWalk`.

## 3. Runs

| run | result | what it shows |
|---|---|---|
| `framewalk_chain` (`MC_FrameWalk.cfg`) | pass, 161,750 states | 3 frames, 1 env, every acyclic `prev_frame` image and every readability pattern. `WalkFollowsChain`: inside a loop the frames passed are the chain from its start in order, and `cur` is the next. `CompletedWalkIsWholeChain`: a command that ends "ok" printed exactly the chain to the root, or printed its length as `frame_count`. `PrintsInChainOrder` (an action property): a loop step that prints appends the chain's next frame, so frames come out one at a time in chain order. `CommandsTerminate`: every loop ends. |
| `framewalk_cycle` | violation of `WalkBounded` | a frame whose `prev_frame` is itself makes the loops run forever (finding 1) |
| `framewalk_partial` | violation of `PartialChainReported` | an unreadable second frame discards the env dump's whole output (finding 2) |
| `gcobject_decode` (`MC_GCObject.cfg`) | pass, 4,177 states | every object of the 5 kinds, 2 sizes, 4 usage types, both flag bits, 2 lengths and 4 element sizes decodes back to its kind, HMU size and usage type, defined type, array length and element size (`DecodeRoundTrip`) |
| `gcobject_hmuflags` | violation of `HmuFlagsRoundTrip` | the pinned/marked bits are not read back (finding 3) |
| `gcobject_i31` | violation of `I31RoundTrip` | i31 value -8 is printed as 8 (finding 4) |
| `gcobject_exc` | violation of `NoUncaughtException` | a damaged or half-readable object ends the command in a Python exception (finding 5) |
| `frametable` (`MC_FrameTable.cfg`) | pass, 35,433 states | every frame of the classic, fast and fast-GC builds, with 0 to 2 param, local and stack cells, import or not, null `frame_ref` or `lp` or not, every `sp` slot and `ret_offset`, and every readable prefix. `MarkersDelimitRegions`: reading the param end and local end markers gives each row's real region, and dynamic space start marks the first dynamic row, also with zero params or zero locals. |
| `frametable_sp` | violation of `SpMarkerOnSp` | the sp marker is on no row of a classic frame's table (finding 6) |
| `definedtypes` (`MC_DefinedTypes.cfg`) | pass, 743 states | every struct and function type of up to 3 positions, over an i32 and the two reference codes, with 2 type indices. `RefTypeResolved`: every reference field, parameter and result shows exactly its own entry's type index, and other positions show none. |
| `definedtypes_sparse` | violation of `RefTypeResolved` | a reference position with no entry shows nothing or `typeid=None` (finding 7) |
| `framewalk_refinement` (`MC_FrameWalkRefinement.cfg`) | pass, 666,392 states | every `prev_frame` image of 3 frames, cyclic ones included (bounded by `WalkConstraint`). `AbsSpec`: every behaviour of the frame commands is a behaviour of `ChainDump`. |

Bounds, and why they are enough:
- Three frames allow a chain of length 0 to 3, an unreadable frame in every
  position, and every shape of a cycle (a self-loop, a 2-cycle, a 3-cycle, or
  a tail into a cycle).
- One environment is enough because environments never interact: the walker
  reads only the env's own `cur_frame`.
- The HMU word is scaled to 8 bits, with the fields in WAMR's order and the
  same parity of the pin and mark offsets (29 and 28 in the runtime).
- The flags are 2 and 4, and an RTT sits at an address aligned to 8.
- The i31 payload has 4 bits: a negative value occurs, and TLC integers do
  not overflow.
- `TYPE_KIND` is the runtime's list `FUNC, STRUCT, ARRAY`. The garbage flags
  go one past its end.

- In FrameTable, up to 2 cells of each kind give the zero and non-zero
  counts of params, locals and stack, so every marker collision happens (no
  params: no param end; no locals: param end and local end on one row). An
  import has stack cells in its memory, so the import test of
  `get_max_stack_cell_num` matters. `LpAddr = 64` and `CELL_SIZE = 4` put
  `lp` at a real address, as in the target.
- In DefinedTypes, 3 positions allow a non-reference position between two
  reference ones, and a function whose results follow its parameters in the
  one index space. Two type indices tell entries apart.

Fairness: `FairSpec` makes the loop steps weakly fair. Once a command has
started, the Python loop runs to completion unless it raises: nothing else
runs in gdb meanwhile, and the model has no action that interrupts it.
Starting a command is the user's choice, so no fairness applies to it.

Every property of a passing run has a mutant, a plausible bug in one action,
and TLC finds that mutant violating the property. The mutants are listed in
`PROJECT.json`.

## 4. Findings

1. **No cycle guard** (`wamr_exec_env.py:274`, `wamr_dbg.py:80,89`). A
   cyclic `prev_frame` chain hangs `wamr_exec_env_dump` and both dump-all
   commands. Spec 4.8 and 9 ask for a bound.
2. **Partial results lost** (`wamr_exec_env.py:302`). `_get_dynamic_info`
   runs inside `__str__`, so a `MemoryError` at frame k loses the whole
   env dump. Spec 7 says decoded siblings stay valid.
3. **Pinned/marked never decoded** (`utils.py:31,34`).
   `get_bit(HMU_P_OFFSET)` tests the offset constant, not the header.
4. **i31 read unsigned** (`wamr_objects.py:61`). Spec 4.5 and 8 ask for a
   sign-preserving shift.
5. **Exceptions escape `create_obj`** (`wamr_objects.py:36,101,114,132,169`).
   - `TYPE_KIND[type_flag]` raises `IndexError`, which the handler does not
     catch.
   - The body cells and the defined type are read in `__str__`, after the
     handler has been left.

6. **The sp marker is never shown** (`wamr_exec_env.py:203`). The code
   compares the row index with `int(sp)`, the address `sp` holds, which it
   prints with `hex` at line 126. It should compare with sp's slot,
   `(sp - lp) / cell size`. The `ret_offset` test at line 205 compares the
   row with `ret_offset`, a cell offset, so it does mark a slot.
7. **Missing ref type entries** (`wamr_types.py:72,118`). A struct field
   without an entry shows no typeid, and a function position shows
   `typeid=None`. Spec 4.4 asks for one lookup shared by fields and
   positions, with an unknown marker when no entry exists.

## 5. Proofs

### FrameWalkProofs.tla

The proofs hold for every set of frames and environments, every set of
allowed `prev_frame` images, and every readability pattern. The only
assumptions are `FramesAssumption` (`NULL` is no frame and no environment)
and `PrevImagesAssumption` (an image maps frames to frames or `NULL`).

- `TypeCorrect`: `Spec => []TypeOK`, from the lemma `TypeStep`, which shows
  that every action preserves `TypeOK`.
- `ChainInvariant`: `Spec => []IInv`, where `IInv` is `TypeOK /\ WalkInv /\
  CompletedWalkIsWholeChain`. `WalkInv` strengthens `WalkFollowsChain`
  because neither property is inductive alone. While a loop runs, `WalkInv`
  says:
  - the command is a walking one, and `result` is still "none";
  - `walked` is a chain prefix from `start`, and `cur` follows it;
  - for the printing commands, `shown = walked`;
  - for the env dump, `frame_num = Len(walked)` and nothing has been printed.

  With these facts the step that ends a loop (`cur = NULL`) establishes
  `CompletedWalkIsWholeChain`. The lemma `AppendChain` shows that appending
  `cur` keeps the chain prefix.
- `CompletedWalkCorrect` and `WalkFollowsChainHolds` follow from
  `ChainInvariant`.
- `PrintsInChainOrderHolds`: `Spec => PrintsInChainOrder`, the action
  property. From a state of `IInv`, every step of `Next` satisfies it. A
  printing step appends `cur`, which `WalkInv` makes `After(shown, start)`
  because `shown = walked`. Every other loop step leaves `shown` alone, and a
  command start runs only from `idle`.

TLC checked `IInv` as an invariant of the `framewalk_chain` instance before
it was proved.

### FrameWalkRefinementProofs.tla

`Refinement`: `Spec => AbsSpec`, for every instance. The argument:
- `InitRefines`: the initial states map to `ChainDump`'s initial states.
- `StepRefines`: from a state of `IInv`, every step maps to a `ChainDump`
  step or a stutter:
  - starting a loop is `Start`;
  - an unreadable env is `Refuse`;
  - the one-frame dump is `DumpOne`;
  - a loop iteration leaves the mapped state unchanged;
  - the `MemoryError` that ends a loop is `Abort`;
  - reaching `NULL` is `Complete`.
- `IInv` supplies the facts the mapping needs: `walked` is a chain prefix,
  `shown = walked`, and `frame_num = Len(walked)`.

### FrameTableProofs.tla

`MarkersDelimitRegionsHolds`: `Spec => []MarkersDelimitRegions`, for every
`LpAddr`, `CELL_SIZE` and `MaxCount` (`FrameAssumption`). The argument:
- `Inv`: a printed table is `get_conditional_info` of a frame of `Frames`.
  It is inductive as it stands.
- `RowMarkers` and `TableMarkers`: row `j` has `param_end` iff `j = p`,
  `local_end` iff `j = p + l`, and `dynamic_space_start` iff `j = p + l + 1`.
- `MarkedRegions`: over any sequence with exactly those markers, the region
  a reader infers for a row is its real one.
- `TableRegions`: these combine for each kind of function pointer.

The markers are the strings `param_end` and so on rather than the code's
`" <--- param end"`, because the SMT backend fails on string literals that
contain spaces.

`TypeCorrect`: `Spec => []TypeOK`, from `Inv` with the lemmas `TableShape`
(a print is `NoRead` or a table of marker sets) and `RefColumn`.

### GCObjectProofs.tla

The decoder's properties hold for every layout, not just the one the run
instantiates. The assumptions, both in `GCObject.tla`:
- `LayoutAssumption`: the widths and offsets are naturals, the sentinels and
  `WASM_ARRAY_ELEM_SIZE_MASK + 1` are powers of two, object references are
  even, and `NoRead` is no word.
- `WAMRLayoutAssumption`: what `gc_object.h` and `ems_gc_internal.h` fix.
  The size field lies below the mark bit, and the mark bit, pinned bit and
  usage type come in that order. HMU sizes are multiples of 8 that fit the
  size field, and the element-size mask fits below the length shift. The
  two sentinels differ, RTT addresses are aligned past both sentinel bits,
  and every heap kind is in `TYPE_KIND`.

Results:
- `TypeCorrect`: `Spec => []TypeOK`. `TypeOK` is inductive. The lemmas
  `HmuAny`, `RttAny`, `TypeAny`, `ObjAny`, `DumpAny` and `TypeDumpAny` bound
  what each decoder returns on any memory, garbage included.
- `DecodeRoundTripHolds`: `Spec => []DecodeRoundTrip`. The strengthening
  `IInv` says that memory holding an object is `Encode(src, a)` for some RTT
  address `a`, and that `out` is what the last command printed from it.
  The argument:
  - `HmuDecode` shows that `get_bits` of the encoded header returns each
    field. It uses `GetBits`: `lo + Pow2[o] * (v + Pow2[s] * hi)` decodes to
    `v` when `v < Pow2[s]` and `lo < Pow2[o]`, by uniqueness of `\div` and `%`.
  - `RttDecode`, `TypeDecode` and `ArrayDecode` cover the other words.
  - `FlagOfItself` and `FlagClearAligned` give the sentinel tests.
  - `ObjDecode` and `DumpDecode` assemble these.

The `Pow2` lemmas (`Pow2Add`, `Pow2Less`, ...) are proved by induction in
the form of a least counterexample (`NatLeast`, from `WFMin` and
`NatLessThanWellFounded`). The library's induction rules take an operator
parameter, which the backends cannot instantiate. `IInv` was checked by TLC
on the `gcobject_decode` instance (4,177 states) before it was proved.

### DefinedTypesProofs.tla

- `RefTypeResolvedHolds`: under `~SparseMaps`, `Spec => []RefTypeResolved`,
  for every set of value types, type indexes and bound. The sparse case is
  the violation of finding 7, so the theorem assumes what WAMR's loader
  writes. The argument:
  - `ScanDef` gives the recursion equation of the loop in `Matches`.
  - `MatchesUnique` shows, by least-counterexample induction over the
    entries scanned, that strictly increasing indexes make the loop find
    exactly the one entry with index `i`.
  - `DefinedTypeShape` shows that dense maps hold an entry for every
    reference position.
  - `DescriptionResolved` follows each printed position to its entry. A
    struct field shows the single-element list of matches. A function
    position is `params \o results`, and result `k` is looked up at
    `param_count + k - 1` (`ConcatProperties`).
  - The strengthening `IInv` (`out = TypeDescription(type)`, and `type` is
    a runtime type while busy) is inductive. TLC checked it on the
    `definedtypes` instance (743 states).
- `TypeCorrect`: `Spec => []TypeOK`, dense or sparse. `MatchesEntries`
  shows, by the same induction, that the loop collects entries only.

An earlier form of `Matches` used the standard `SelectSeq`, which tlapm
cannot expand. It was replaced by the loop it stands for, which is closer to
the code, and `MapsOf` was restated without `SelectSeq`. Both runs give the
same state counts as before.

### What stays with TLC

- Liveness (`CommandsTerminate`), since TLAPS does not handle `ENABLED` or
  fairness.
- The violations (findings 1 to 7). They are counterexamples, not theorems.
- `MC_FrameWalk`'s `WellFormedChains`. It uses a recursive operator, so it
  is kept out of the proof modules.
- Properties of every `WASM_TYPE_MAP`, `TYPE_KIND` or `HMU_UT_MAP` are proved.
  What the runs add is concrete values: they show that the assumptions are
  satisfiable and that the counterexamples exist.

## 6. Not modelled yet, and the plan

Next steps, in order:
1. **FeatureProbe**: the env probe of `WASMExecEnv.__init__` beside the
   frame probe FrameTable models, and the env and frame probes as functions of a field-name
   set. Property: a frame reached from an env is decoded with the env's mode.
2. Action properties with proofs: for example, that a frame loop only ever
   extends what it has shown.

Not modelled, and why:
- Colours, string layout and `gdb.execute` registration. They change no
  state.
- What the classic-mode inferior call to `get_frame_ref`
  (`wamr_exec_env.py:156`) does to the target. It is the one place a dump
  runs target code, and that is outside the read-only memory model.
  FrameTable models only whether the call yields a ref column.
- The `wamr_operand_stack_get_*` and `wamr_function_dump` commands. Each is
  a single read plus printing.
