# WASMP- in TLA+

A verification development for WASMP-, the header-only C++20 library that emits
WebAssembly modules in a single pass (`src/include/wasmp/`). It holds TLA+
modules for the parts of the library that carry logic, TLC configurations that
check them on small instances, and proofs for TLAPS.

    tlc -config MCControl.cfg MCCalls       # any of the runs below
    tlapm FunctionEmitterProofs.tla         # any of the *Proofs modules

## 1. Inventory

| component | source | state | operations |
|---|---|---|---|
| LEB128 encoders | `leb128.hpp` | none | `PutULEB`, `PutSLEB`, `PutSLEB33`, `SizeULEB`, `SizeSLEB`, raw puts |
| `CodeBuffer` | `code_buffer.hpp` | allocation, end, capacity | `Reserve`, `Ensure`, `CursorEnsure`/`SetEnd`, `Put*`, `Reset`, move |
| common types | `common.hpp`, `common_types.hpp` | none | `BlockType`, `Features`, `ReportError`, `WASMP_ASSERT` |
| instruction table | `instructions.inc` | none | one row per instruction: opcode, immediate shape, stack effect, feature |
| `detail::Validator` | `validator.hpp`, end of `module.hpp` | operand stack, control stack, locals, results | one hook per immediate shape and per control instruction |
| `FunctionEmitter`, `ControlFrame` | `function_emitter.hpp` | code buffer, frame kinds, local runs, validator; a handle: owner, depth, live | instruction methods, `Block`/`Loop`/`If`, branches, `Local`, `Finish`, `Reset`, `SetSignature`; `End`, `Else`, `Detach`, move, destructor |
| `FunctionBody` | `function_emitter.hpp` | two buffers | moved out of `Finish()` into `DefineFunction()` |
| type interner | `Module::FuncType`, `EnsureSlots` | `types_`, `type_slots_` | intern, rehash |
| index spaces, segments, exports, lifecycle | `Module` | `imports_`, `funcs_`, `tables_`, `mems_`, `globals_`, `exports_`, `elem_`, `data_`, `start_`, `phase2_` | imports, declarations, exports, segments, `DefineFunction`, queries |
| `Assemble` | `Module` | none of its own | collects sections, sizes them, writes them in one pass |
| name section | `Module` | `func_names_`, `global_names_`, local names, module name | `SetName`, `SetLocalName`, `SetModuleName`, sorted maps |
| C++ signature traits, WAMR adapter | `host_traits.hpp`, `interop/wamr.hpp` | none | `WasmValType`, `SignatureTraits`, `SigString` |
| wasmtime adapter | `interop/wasmtime.hpp` | C objects it has to delete; closures the store owns | `MakeVal`, `ReadVal`, `TypedCall`, `HostTramp::Call`, `MakeHostFunc`, `FailError`, `FailTrap` |
| tests, examples, tools | `tests/`, `examples/`, `tools/` | none | not modelled |

How they interact. The client declares entities in a `Module`, which interns
signatures and hands out index handles. It constructs a `FunctionEmitter` over
the Module; every instruction call runs, under `policy::Validate`, a validator
hook first (which reads types, globals and tables back from the Module) and then
writes bytes through a raw cursor into the `CodeBuffer`. `Block`, `Loop` and
`If` return `ControlFrame` handles that call back into the emitter when they are
ended or leave scope. `Finish()` moves the code out as a `FunctionBody`,
`DefineFunction()` stores it at its slot, `Assemble()` writes the module. The
adapters derive from one C++ function type the signature in the module, the
description for the runtime and the conversion of every value that passes between
C++ and wasm, in both directions.

What is hard here. The library has no threads, files or messages of its own
(emitters on several threads only read the Module). The difficulties are: two
control stacks (emitter and validator) that must stay equal through every call
order; RAII handles that are moved, abandoned and unwound by exceptions; calls
that fail half-way and a client that catches the error and goes on; the typing
algorithm itself with its unreachable frames; unchecked writes that rely on a
worst-case reservation per instruction; a hash table that is rebuilt while it is
probed; index spaces whose indices shift while bodies that name them are held
back; sizes that are computed apart from the bytes they announce; and calls between
C++ and wasm that fail inside one another. `PROJECT.json` lists them as hazards, each at its line.

What makes each part correct:

- validator: it accepts what the typing rules of WebAssembly allow and refuses
  what they do not; frame heights nest;
- emitter and handles: both control stacks describe the same frames, a live
  handle denotes its frame, branches reach the frame that was meant, no frame
  is popped that is not there or left open in a finished body;
- interner: one index per signature, in first-intern order, through rehashes, and
  every call ends;
- buffers: no write leaves its allocation, every announced size is exact;
- LEB128: decodable, shortest, no longer than the reservation;
- Module: what is assembled resolves, for a reader, to the entities the client
  named, and the validator was told the same;
- adapters: values arrive as the numbers that were sent, everything the runtime
  hands out is deleted, exceptions stay in C++ frames.

## 2. Modules

    ModuleView <- Validator <- Instructions <- FunctionEmitter <- WasmTyping <- MCCalls
                      |                              |               |
               ValidatorProofs  <--------  FunctionEmitterProofs <- WasmTypingProofs
    Interning <- TypeInterner <- MCTypeInterner, TypeInternerProofs
    CodeBuffer <- ModuleBytes <- MCModuleBytes, ModuleBytesProofs
    Leb128 <- MCLeb128, Leb128Proofs
    WasmModule <- MCWasmModule, WasmModuleProofs
    HostTraits <- Interop <- MCInterop, InteropProofs

**ModuleView** is what emission reads of the Module: types, functions, globals,
tables and features, all constants. `thread_stress.cpp` states that contract:
nothing is declared while emitters run.

**Validator** has the validator as a record and each method as an operator from
the record before a call to the record after it. `Fail()` does not return, so
`ok` turns FALSE and the rest of the method leaves the record alone: what is left
is the partly updated object of a failed call, for instance a frame whose type
vectors were moved out by `PopCtrl` before it failed. `FrameAt`, `LabelTypes`,
`CanPop` and `Shrink` stand for `PopVal`, `PopExpect` and `LabelTypes` of the
code; a run of pops is one operator (`PopVals`) that stops at the first operand
that does not fit, with those above it gone.

**Instructions** maps an instruction call to the hook its immediate shape
selects, with the feature gate before it. Rows of the table are parameters. `Rows`
is what the table keeps to: which mnemonics have which shape, that a memory
instruction has an i32 address as its first operand, the effects of the bulk
instructions, and that no row needs memory64 or multi-memory by its tag.

**FunctionEmitter** composes emitter, validator, handles and client. An action
is a whole method: hook, bytes, control stack, and the handle that is returned.
`Emit` stands for the table-generated methods, `PushFrame`, `Br`, `BrIf`,
`BrTable`, `ElseFrame`, `EndFrame`, `LeaveScope` (the destructor), `MoveHandle`,
`MoveAssign`, `Detach`, `Finish`, `Rebind` (`SetSignature` and `Reset`) for the
methods of those names, and `Catch` for a handler of `wasmp::Error`. The body is
a sequence of instructions instead of bytes. `Debug`, `Policy` and `ErrorPolicy`
select the build: assertions, `policy::Validate` or `policy::Trust`, and whether
`ReportError` aborts or throws. A thrown error leaves status `unwinding`, in which
handles leave scope in reverse order and any prefix of them may stay, because
the handler may sit at any scope. Undefined behaviour (a hook over an empty
control stack, `pop_back` of an empty vector, `Else` through a null owner) is the
final status `undefined`. With `AllocFails` every call that writes has one more
outcome (`RunOut`, `RunOutOfLocals`): `realloc()` fails after the hook has run, the
validator keeps the new state, the body and the control stack do not, and the error
goes where the others go. That is the fault model of the emitter.

**WasmTyping** states the typing rules themselves, and not by the algorithm of
the appendix: replaying a body keeps the set of all operand stacks a prefix can
leave, with no heights and no unreachable flags. It is the reference that
`Validator` is compared with. `Replay` and `LocalsOf`, which decodes the runs of
locals for it, are recursive functions. `Departures` names the rules that are
relaxed in the reference because the code is known to relax them (section 5); with
the empty set it is the specification. So a departure takes one rule out of a
comparison and not the instructions it is about. `Acknowledged` says that every
relaxed rule which the calls and the Module at hand touch is named, and that
`Alphabet` has all seven value types. MCControl, MCInstructions and MCRelease meet
it; with `Departures = {}` it is met by any client that does without the five rules.

**Interning** is the abstract interner, a plain list; **TypeInterner** is the
open-addressing table with one action per loop iteration (`FuncType` with
`EnsureSlots`, `Rehash`, `Place`, `Probe`). It instantiates the list with `types`
and `given` as they are, the refinement mapping, and `Interns` says it implements it.

**CodeBuffer** and **ModuleBytes** count bytes: what each immediate shape
reserves (`Room`) and what it can take (`Immediates`), the local declarations of
`Finish()`, the sections of `Assemble()` built apart, sized (`SizeSection`) and
written (`WriteSection`). A section other than code is a size.

**Leb128** has the encoder and size loops over groups of seven bits, one action
per iteration, on ten groups: 64 bits with a tenth group of one significant bit.

**WasmModule** has index spaces, constant expressions, exports, segments, names,
custom sections, bodies and the list of sections that `Assemble()` and
`TryAssemble()` write. An entity has an identity besides its index, which only the
properties read; `Space` is what a reader of the sections would reconstruct.
`refs` holds, member by member, what refers to entities. `EmitBody` is a body
being finished: it keeps what the validator was told of the entities it uses
(`Told`), and the client hands it over with `DefineFunction` after more imports
and declarations, in any order, or again. `Sorted` says of a sort no more than
`std::sort` promises: the elements in an order that the comparison allows, so the
theorems leave open how two names of one index come out.

**HostTraits** has the four readings of a C++ function type as operators: value
types, the string for WAMR, the kinds for wasmtime, and the conversion of values,
with integers of a given width. **Interop** puts them to work: a stack of wasm
frames and closures, `TypedCall` from C++ into wasm, `CallClosure` back
(`HostTramp::Call`), results in both directions, traps and refused calls with
`CopyMessage` and `Fail` (`FailError`, `FailTrap`), `NewFuncType` and `NewClosure`
(`MakeHostFunc`). The runtime and the wasm code are external: a function checks the
kinds of its arguments, may hand them to the imported closure of its type, and
returns its result, another, or traps. `Throw` is an exception that leaves the
adapter: with a closure on the stack there are frames of wasmtime above the next
handler, and crossing them is status `undefined`, unless the client's closures
catch (`careful`).

**MCCalls** and the other MC modules give values to the constants.

*Faulty variants.* An operator marked "a faulty variant" is never used by a
specification. It is one plausible bug in the operator of the same parameters
that follows it, and put in its place it refutes the property named for it in
`PROJECT.json` ("mutants"): so each property is known to depend on the code.

## 3. Runs

| run | instance | what it shows |
|---|---|---|
| MCControl | debug, bodies of up to 5 instructions, frames 2 deep, blocks that leave an i32 or an i64 or take an i32, branches to every live frame, `br_table` with 1 or 2 labels | `AcceptsOnlyTyped` and `RefusesOnlyUntyped`: the validator decides the typing rules. `FramesHaveHandles`: no frame is forgotten |
| MCInstructions | bodies of 3 over locals, globals, functions and tables with every index inside each space and the first outside; memory and bulk instructions, memory64 on, multi-memory, sign extension and atomics off; tail and indirect calls; `drop`, `select`, `return`, `unreachable` | the same verdicts; `LocalsDecode`: runs decode to the locals the validator resolved |
| MCHandles | debug, errors are thrown, any allocation may fail; 2 handles moved, assigned, detached, abandoned and unwound over bodies of 3 | `HeightsNest`, `StacksMirror`, `HandlesDenoteFrames`, `BranchesHitFrames`, `FinishedIsBalanced`, `DefinedUntilError` |
| MCRelease | no assertions, `policy::Validate`, errors are thrown; frames ended out of order, branches to ended frames, reuse | without assertions the validator alone keeps bodies well-typed, and so balanced, until it first objects, and nothing is undefined before it does but an else through a moved-from handle (`DefinedUntilError`); after a caught error no pop of `control_` underflows (`NoUnderflow`), though an `Else` on a block can leave a validator with no frame (status `undefined`) |
| MCTypeInterner | 5 signatures, collisions and wrap-around, 2 slots at first, so two rehashes | `Canonical`, `InternerInv` (the inductive invariant of the proof), `Interns` (refinement), `CallsProgress` (an action property: each step leaves fewer steps), `CallsReturn` (liveness) |
| MCLeb128 | numbers of 1 to 10 groups with the groups at which a carry, a sign or a continuation could go wrong | `ReadsBack`, `Shortest`, `WithinMax`, `SizesAgree` |
| MCModuleBytes | every shape at every length in buffers that grow, 2 bodies, sections of 1, 127, 128 and 16384 bytes | `NoOverrun`, `SizedExactly`, `BodiesDelimited` |
| MCWasmModule | 3 entities of any kind, 2 references, 3 local names, 1 body held back, 4 of these together, debug and release | `RefsResolve`, `QueriesMatchBinary`, `ToldTruth`, `BodiesLand`, `ReadableInOnePass`, `NamesSorted`, `LocalNamesGrouped` |
| MCInterop | integers of 2 and 3 bits (`Half32` and `Half64` are the numbers per sign, 2 and 4), 8 signatures that differ in signs and lengths, 4 frames, one closure, room for 2 value types | `ValuesSurvive`, `ExactCallsAccepted`, `Released`, `ErrorsStayInCpp`, `DescriptionsAgree` |
| VBrTableTypes | `br_table` to labels of types i32 and i64 | a departure: `AcceptsOnlyTyped` fails |
| VThrowingDestructor | errors are thrown, a frame that is ill-typed at its end leaves scope | a departure: `ErrorsAreThrown` fails |
| VLifecycle | debug, tables and functions | a departure: `DeclareOnlyBeforeEmit` fails |

*Bounds.* `MaxCode` bounds a body, `MaxScope` handles in scope, `MaxLocals`
locals and runs, `MaxTargets` the targets of a `br_table` besides the default,
`MaxEntities`, `MaxRefs`, `MaxLocals`, `MaxPending` and `MaxSize` a module,
`MaxRuns`, `MaxBodies` and `MaxOther` the byte counts, `MaxDepth` and `MaxClosures`
the nesting of calls. Five instructions and two frames are the least that hold a
conditional branch out of a nested frame with its operand, or an `if` with an
`else` around code that jumps away; two handles are the least in which one frame is
closed or orphaned under another; four frames of calls are a closure within a
closure. `RunOut` happens only as the first error of a body: what follows a second
error is what follows any. A module of four holds an import, a definition, a body
that uses one of them and a reference, or two functions with the three local names
that show a wrong grouping. In the reference rules a frame after a jump is marked
`any` and has any operands below those it lists, so no stack is lost to a bound.
`Alphabet` holds the operand types, all seven in the runs that pass; `Bot`, the type
of an operand that is several types at once, is in it only in VBrTableTypes, where the
rule for `br_table` is not relaxed and its labels differ. `U32` stands for 2^32 in the wrap-around of `RelDepth`;
16 is above every depth and rel that does not wrap, which is all that is read of it.
`InitialSlots` is 16 in the code and 2 in the run, `InitialCapacity` 64 and 1:
rehashes and growth happen within a few steps; the theorems hold for any value.

*Deadlock* is checked for the interner only: an emitter stops when it aborts,
and the other models stop at their bounds.

*Fairness.* One run assumes any. A call of `FuncType` runs on one thread,
acquires nothing and waits for nothing, so `WF_vars(Step)` says no more than
that a started call is executed. That clients call anything is never assumed.

## 4. Theorems

All hold for every value of the constants that meets the modules' assumptions
(`ModuleAssumption`, `EmitterAssumption`, `RowsAssumption`, `InternerAssumption`,
`CapacityAssumption`, `SizesAssumption`, `NumbersAssumption`, `InteropAssumption`,
`WidthAssumption`, and those of WasmModule). Those say what type a constant has,
with four that say more: `U32 > MaxCode + 1`, true of 2^32, `InitialSlots > 0`, that
the tenth group of a 64-bit number holds one bit, extended, and that the calls are
rows of the table as it is (`Rows`).

**FunctionEmitterProofs**, on `ValidatorProofs`. `TypeCorrect`,
`HeightsAlwaysNest` and `StacksAlwaysMirror` follow from one inductive invariant:
`TypeOK`, `HeightsNest`, `StacksMirror`, and that an error which unwinds has
tainted the body. `HeightsNest` is needed for types: `Shrink` and `Unreachable`
cut the operand stack at a frame's height, which gives a stack only if the height
does not exceed it. `StacksMirror` needs the types of the opening tokens and that
`OnElse` pushes the frame it popped. `ValidatorProofs` shows, hook by hook, that a
call that passes leaves the control stack as it was, or one frame longer or
shorter, and that one that fails still nests. `HandlesAlwaysDenoteFrames` needs more than the property says: that
two live handles never have one depth (`MovedFrom` gives up the source; the
assertion in `FrameEnd` closes only the innermost frame, so no deeper handle
loses its frame). Both hold through exceptions and the unwinding of handles.

`LocalsAlwaysDecode`: the runs are decoded by a recursive function. Instead of an
induction over their length, the invariant `LocalsInv` is about every function that
meets the recursion for the runs there are. `HasDecoding` says that
one exists, `RightDecoding` that the last value of each is what the validator has
and what was counted. `AddLocal` either begins a run or lengthens the last one: a
function for the new runs is one for the old runs, cut or extended by one place, so
both parts carry over a step at a time, and the steps of the program are the
induction. All other calls leave `runs` and `v.locals` alone, which
`ValidatorProofs` shows hook by hook (`CheckLocals` to `BranchLocals`).

The second half of the module is about the body, the frames and the handles. *Bodies*:
`FinishedAlwaysBalanced`
rests on `Counted`: the openings of a body outnumber its ends by the frames in
`control`, at its end, and in no prefix do the ends outnumber them. *Branches*:
`BranchesAlwaysHitFrames` needs that each open frame is where a reader who counts
openings and ends back from the end of the body finds it (`Resolved`), so the label
computed from depths is the label of that place; it is for debug builds whose client
branches to live handles and does not reset under them. *Handles*: `NeverUnderflows`
and `FramesAlwaysHaveHandles` count live handles against frames over one step:
a step that takes a frame away takes a live handle away, and the other way round.
Moving keeps the count because the source gives up what the target gets.
*Defined behaviour*: `AlwaysDefinedUntilError` puts the two kinds of facts together for
every build. While a body is under way and no error was thrown, the validator's stack
is one frame longer than the emitter's (`StacksMirror`) and so never empty when a hook
reads its back. An end takes a frame from the emitter because its handle was live: a
debug build asserts that the frame is there, in a release build the count of live
handles says so (`NoUnderflow`). The destructors that run after `Finish()` meet a
validator with no frame, but then `control_` is empty (`Defined`): so a debug build
stops at an assertion, and in a release build no handle is live. Without a validator a
release build may finish a body with frames open; their handles end them into the
empty buffer and read no empty stack. What remains in a release build is named
by the property: a reset under live handles, and an else through a moved-from handle,
whose `owner_` is null. After the first error all this is lost, as section 5 says; a
call other than `Reset()` on a finished emitter is outside the model.

**WasmTypingProofs**: the validator decides the typing rules, under `Acknowledged`.
`AlwaysAcceptsOnlyTyped` is soundness and `AlwaysRefusesOnlyUntyped` completeness, for
any Module, calls, block types, client and length of the body. The rules keep sets of
stacks, the validator one stack with heights and `Unknown` operands, so the proof says
what the one stands for in terms of the other:

- `Stands(p)` is the set of stacks that operands `p` stand for, any type in the place of
  each `Unknown`. `AfterFacts`: popping and pushing on the stacks is popping and
  pushing on the operands, whatever is `Unknown`.
- `Picture(x)` is the replay that validator `x` stands for: each frame of its control
  stack with the stacks of its own segment of `vals_`. An outer frame counts the
  results of the frame in it as already there, as the rules do.
- `Follows` and `Decides`: a rule applied to the picture yields the picture of what the
  hook leaves, or nothing if the hook fails. This is shown hook by hook
  (`HookDecides` for instructions without a frame, `StartFollows`, `ElseFollows`,
  `EndFollows`, `FunctionEndFollows`, `BrFollows`, `BrIfFollows`, `BrTableFollows`).
  The polymorphic instructions are the hard ones: `OnSelect` pops three operands, one
  of a type that it has just found, where the rules choose a type at once.
- `TypingInv`: until a call was refused, the replay of the code is the picture of the
  validator, with whatever locals are declared later (`PlayedBy`). The locals have to
  be open because the reference types a body with all its declarations, while the
  code may declare some after the first instruction. `AddLocal` only appends
  (`LocalsDecode` is what ties `v.locals` to the runs), so what was typed stays so.

`Replay` is a recursive function of the length. `PlayValues` unfolds it as `Plays`,
`PlayExists` and `PlaySame` show that there is one function that plays a body and one
only, by the least place where two would differ, and `ReplayAppend` is one step of it.

**TypeInternerProofs.** `InternerInv` is inductive: each known type is found by
the probe from its home slot, in `slots` and, as far as the rehash has come, in
`next`; and a probe under way has passed neither a free slot nor its own
signature. `IndicesCanonical` and the step simulation of `TableImplementsList`
follow: a free slot at the end of a probe means the signature is in no slot,
hence in no index, so `Probe` is `Add` or `Lookup` of the list and all
other steps stutter. `Walk`, the set of slots between home and probe around
the end of the table, is what makes wrap-around provable without induction.

`CallsAlwaysProgress` is the termination of `FuncType`, for every hash function and
initial size, with no fairness: `StepsLeft` is a natural number that every step of a
call decreases. It counts, for a probe, the slots between where it stands and its home
(`Unseen`), and for a rehash a whole walk of the new table for each type still to be
carried over, so that the end of an inner loop pays for the next turn of the outer one.
A probe that passed every slot would come back to its home and begin again; that it
cannot is the part of `InternerInv` called `Spare`. An index stands in one slot only
(`Once`), and there are fewer types than slots whenever a table is walked, because
`FitsLoad` is tested before the type is added and the doubled table has room for all; so
by the pigeonhole principle a slot is free (`FreeSlot`), and the walk stops there
(`NotRound`). Without the load rule TLC refutes it (`FitsFull`).

**ModuleBytesProofs.** `StoresStayInside`: with `Room` at least the largest
element of `Immediates` plus an opcode, for each of the fifteen shapes and any
number of `br_table` targets, `Write` never passes the capacity. The shapes are
split into cases with `\A`-facts on the intervals of LEB lengths.
`PrecomputedSizeExact` is by `Predicted`: at each section of the write pass, what
is written equals the total that the size pass had there. `BodiesAnnounced` is
`Delimited`, of the same form as `LocalsInv` above: every function that sums the
prefixes and bodies so far has the size of the section as its last value.

**Leb128Proofs.** `LebInv` says that after n iterations `v` is `Rest(n)`, what n
shifts leave of the number, and that no group written so far could have been the
last (`Begun`). `EndsMeaning` translates the code's test of the shifted value into
what a reader extends, so stopping at the first n with `EndsAt(n)` is both right
(`EncodersReadBack`, by `ReadIff`) and shortest. `AboveIsRest` makes the tests of
the fast path and of `SizeULEB`, before a shift, the test after it. The sample
numbers of the run are not exhaustive; the theorems are for all 2^64.

**WasmModuleProofs.** `Consistent` is inductive; each part is there for another.
`Counted`: the four counters of imports count the imports of their kinds, so that a
definition gets the index at which a reader finds it. `Numbered`: the identity of an
entity is its place in its index space, as long as imports come first (`InOrder`).
`HeldDenote`: a handle that the client was given is in range, and in order denotes
the entity it was made for; it survives later calls because definitions are added
behind. `RefsHeld`, `InitsHeld` and `BodiesHeld`: whatever exports, segments, names,
initializers and bodies, stored or held back, refer to is a handle the client was
given, or what a validator was told of one. `BodiesMatch`: a stored body is in the
slot of the function it was emitted for. `OutCurrent`: what was assembled is what the
state would assemble now. The properties then are about one state: `QueriesAnswered`
compares what the accessors count (`NthImport`) with the selected lists that a reader
has; `ReferencesResolve`, `TellingsTrue` and `BodiesArrive` are `HeldDenote` for the
handles that are written. `OnePassSuffices` and `NamesInFormat` are about the list of
sections with the empty ones left out. `LocalNamesFound` cuts the sorted rows into
intervals of one function each. Loops over lists need induction. The library's
theorem for it takes an operator, but its well-founded relations do not:
`LeastNatural` gets the least element of any set of naturals from them, `Induction`
is stated for a set, and `RecursionExists` and `SelectedSteps` unfold a loop with it.

**InteropProofs.** `Kept` is inductive. Of the stack it says that a wasm frame holds
what `MakeVal` made of arguments of its signature's wasm types, as well as of the
results a closure gave it, and that a closure frame is called by a wasm frame of the
same wasm type (`StackOK`); of the closures, that they are of the client's signatures; of the adapter, that it owns what its place in a call
says (`Holds`). `RoundTrip` is the arithmetic: `Signed` and the unsigned reading
differ from a number by multiples of `2 * Half`, for every `Half`. `Refused` needs
that `MakeVal` picks the kind the traits give (`KindsAgree`). Powers of two are out
of reach of the solvers, which is why the width is given by `Half`.
`DescriptionsAlwaysAgree` reads the string back: no letter is a bracket, so there is
one closing bracket (`StringReads`), with the parameters before and the results
behind it, and each letter is that of one value type (`Letter`).

*Only model-checked:* `CallsReturn`, a liveness property. Every other property of the
passing runs is proved. Liveness under fairness and `ENABLED` are beyond the proof
system as it is used here. `CallsAlwaysProgress` is the part of `CallsReturn` that
can be proved: no call takes infinitely many steps. What TLC adds, on the instance of
MCTypeInterner, is that a call always has a next step (the check for deadlock, since no
other call begins before it returns) and so, under `WF_vars(Step)`, takes it. Recursive definitions are reasoned about as described, by the
steps of the program or by the least natural number at which something fails.
The comparison with the typing rules assumes `Acknowledged`, which the findings and
section 5 show to be necessary: each departure refutes soundness when it is not named.
`policy::Trust` is covered by the
theorems (`Policy` is a constant); the runs use `policy::Validate`, under
which there is more to go wrong.

## 5. Where the code departs from what it says

The three violation runs, with the line each contradicts, are the findings in
`PROJECT.json`. In words:

1. `OnBrTable` compares the arity of the labels but not their types, while
   `validator.hpp:3` promises the algorithm of the specification. `I32Const`,
   `I32Const`, `br_table` inside an i64 block inside an i32 block is accepted.
2. A frame that fails to validate in its destructor terminates the program under
   `WASMP_THROW_ON_ERROR`: the destructor is implicitly `noexcept`.
3. Of the declarations only `DeclareFunction` asserts the phase, while
   `module.hpp:4-6` says that the lifecycle is enforced.

The following also refute a property, with the constants of a run changed as
said. They are kept out of the runs that pass, and listed as hazards.

- *Tail calls* (the departure "tail"): without it MCInstructions refutes
  `AcceptsOnlyTyped`: the callee's results are not compared with the function's.
- *Untyped select of references* ("select") and *ref.is_null of numbers* ("isnull"):
  the rules allow numbers and vectors only for the one, references only for the other.
- *Indirect calls* ("indirect") look at the table's index and not at its element
  type: `CallIndirect` through a table of `ExternRef` is accepted.
- *Labels of a br_table* ("labels") are the first finding above; MCControl relaxes
  the rule and compares all other verdicts.
- *Retry of a failed Finish*: with `ErrorPolicy = "throw"`,
  signature `() -> i32` and the call `I64Const`, `FinishesOnlyTyped` fails: the
  failed `PopCtrl` leaves a function frame without results, and a second
  `Finish()` succeeds.
- *Second else after a caught error*: `OnElse` pops the frame before it objects
  (`validator.hpp:231`). `I32Const`, `If`, `Else`, `Else` in MCHandles, with four
  instructions and `AllocFails = FALSE`, refutes `status # "undefined"`: the refused
  `Else` leaves the handle of a frame that the validator has lost, the handle's end
  pops the function's frame, and the next call finds none. A caught failure to grow the
  buffer in `Finish()` does the same. Before the first error it cannot happen
  (`DefinedUntilError`).
- *Move assignment over a live handle*: `Moves = {"assign"}` in MCControl refutes
  `FramesHaveHandles`: the target's frame is not ended.
- *Branch to a handle that has ended*: `StaleBranches = TRUE` refutes
  `LabelsDenoteTargets`: the label denotes another frame. Nothing asserts
  that the handle is live.
- *Reset with live handles*: `LiveResets = TRUE` refutes the formula of
  `HandlesDenoteFrames` (which excludes that setting): an old handle ends a frame
  of the new body.
- *One reservation*: `[][phase = "write" => out'.capacity = out.capacity]_vars`
  fails in MCModuleBytes: `PutULEB` asks for ten bytes, so the exact reservation
  grows once more when the last section is shorter than that.

- *Arguments of TypedCall*: `wasmtime.hpp:148` calls the argument types
  "compile-time-checked"; only their number is. A call with arguments of other wasm
  types compiles and is refused by the runtime (`TypedCall`, the branch to `failed`).
- *Exceptions through the runtime*: `status # "undefined"` fails in
  MCInterop: a nested `TypedCall` that traps inside a closure throws out of the
  trampoline under `WASMP_THROW_ON_ERROR`.
- *Sixteen parameters*: `status # "overrun"` fails in MCInterop: `FillValtypeVec` has
  room for sixteen value types and no check.

## 6. What is not modelled, and why

- `EmitRaw` (bytes of the client's own, past every check); moving a
  `FunctionEmitter` with live handles; emission before `SetSignature()` and
  between `Finish()` and `Reset()`: the code does not guard against these, and
  what they do is the client's doing. The model does allow handles to leave scope
  after `Finish()`.
- Concurrent emitters: they share nothing but a Module that no one changes, as
  `thread_stress.cpp` states; with that contract a body depends on its own calls
  only, and without it the program has a data race. `ToldTruth` covers declarations
  between the emission and the definition of a body.
- Contents of declarations: limits, values of constant expressions, segment bytes,
  the type section's entries, the bytes of custom sections, the text of names.
- Immediates that the validator does not look at: alignment, lanes, and the
  segment indices of `table.init`, `elem.drop`, `memory.init` and `data.drop`
  (`WasmModule` has those that the client was given). The tables of `table.init`
  and `table.copy` and the existence of a memory are not looked at either, neither by
  the validator nor by the rules of `WasmTyping`, which type these by their row.
- The runtimes: what WAMR does with a signature string, and what wasmtime does
  beyond the checks and calls described in section 2. That a signature of several
  results has no WAMR string and no closure is rejected by the compiler.
- Tests, examples and tools were read for what they expect.

## 7. Plan

Done, in the order of importance: validator and emitter with handles against the
typing rules, with failing allocations and with their proofs, down to the frames
that branches reach; interner with refinement and proofs; byte counts with proofs;
LEB128 with proofs; the whole of the Module's declarations, references, names and
sections, with proofs; the adapters with proofs; and that the validator decides the
typing rules for bodies of any length.

Next, with the model: `EmitRaw`, segment indices in bodies against the segments that
exist, and the memories and tables that `WasmTyping` does not ask for.
