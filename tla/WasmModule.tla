----------------------------- MODULE WasmModule -----------------------------
(***************************************************************************)
(* class Module (module.hpp): index spaces filled by imports and           *)
(* definitions, segments, exports, names and function bodies that refer to *)
(* entities by index, and the sections that Assemble() writes.  The client *)
(* is any program that uses the handles it was given.                      *)
(*                                                                         *)
(* An entity has an identity besides its index: the kind and the number of *)
(* its declaration.  It is not in the code; a reference carries it along   *)
(* as `id' to say which entity the client meant.  Types, limits, names and *)
(* bytes are left out; of a constant expression the reference is kept.     *)
(***************************************************************************)
EXTENDS Integers, Sequences, FiniteSets, SequencesExt

CONSTANTS Kinds,        \* the kinds that clients declare
          MaxEntities,  \* bound: imports and definitions
          MaxRefs,      \* bound: exports, segments, names and custom sections together
          MaxLocals,    \* bound: local names
          MaxPending,   \* bound: bodies that are emitted and not yet defined
          MaxSize       \* bound: all of these together, local names may add one

ExternalKinds == {"Function", "Table", "Memory", "Global"}

ASSUME ModuleAssumption ==
  /\ Kinds \subseteq ExternalKinds
  /\ {MaxEntities, MaxRefs, MaxLocals, MaxPending, MaxSize} \subseteq Nat

VARIABLES
  debug,    \* TRUE unless NDEBUG; does not change
  imports,  \* imports_
  imp,      \* imp_funcs_, imp_tables_, imp_mems_, imp_globals_
  defs,     \* funcs_, tables_, mems_, globals_
  bodies,   \* the bodies in funcs_
  refs,     \* what refers to entities, by member (see Init)
  phase2,   \* phase2_
  held,     \* the handles the client was given
  pending,  \* the finished bodies the client has not handed over yet
  late,     \* history: an import followed a definition of its kind
  status,   \* "open", "aborted", "asserted", "undefined"
  out       \* the sections of the last Assemble()

vars == <<debug, imports, imp, defs, bodies, refs, phase2, held, pending, late,
          status, out>>
declared == <<imports, imp, defs>>

NoBody == [of |-> <<>>, uses |-> {}, told |-> {}]
Handle(kind, idx, id) == [kind |-> kind, idx |-> idx, id |-> id]
HeldOf(kinds) == {h \in held : h.kind \in kinds}

\* exports_, start_, elem_, data_, func_names_ and global_names_, local_names_,
\* module_name_, customs_; start and title are empty or have one element.
NoRefs == [exports |-> <<>>, start |-> <<>>, elem |-> <<>>, data |-> <<>>,
           names |-> <<>>, locals |-> <<>>, title |-> <<>>, customs |-> <<>>]

Init ==
  /\ debug \in BOOLEAN
  /\ imports = <<>> /\ imp = [k \in ExternalKinds |-> 0]
  /\ defs = [k \in ExternalKinds |-> <<>>] /\ bodies = <<>> /\ refs = NoRefs
  /\ phase2 = FALSE /\ held = {} /\ pending = {} /\ late = FALSE
  /\ status = "open" /\ out = <<>>

Stop(s) == status' = s /\ UNCHANGED <<bodies, held, late, declared>>

(***************************************************************************)
(* Declaring.  Imports and definitions of a kind share one index space:    *)
(* the imports, then the definitions.                                      *)
(***************************************************************************)
CountOf(kind) == imp[kind] + Len(defs[kind])
Fresh(kind) == <<kind, CountOf(kind) + 1>>
Entities == Len(imports) +
            Len(defs["Function"]) + Len(defs["Table"]) + Len(defs["Memory"]) + Len(defs["Global"])

References == Len(refs.exports) + Len(refs.start) + Len(refs.elem) + Len(refs.data) +
              Len(refs.names) + Len(refs.title) + Len(refs.customs)
Using == {n \in 1 .. Len(bodies) : bodies[n].uses # {}}
Size == Entities + References + Len(refs.locals) + Cardinality(pending) + Cardinality(Using)
CanDeclare == Entities < MaxEntities /\ Size < MaxSize

\* A faulty variant: the assertion is missing.
ImportAnyTime(kind) ==
  /\ status = "open" /\ CanDeclare
  /\ imports' = Append(imports, [kind |-> kind, id |-> Fresh(kind)])
  /\ held' = held \cup {Handle(kind, imp[kind], Fresh(kind))}
  /\ imp' = [imp EXCEPT ![kind] = @ + 1]
  /\ late' = (late \/ defs[kind] # <<>>)
  /\ out' = <<>> /\ UNCHANGED <<debug, bodies, defs, refs, phase2, pending, status>>

ImportEntity(kind) ==
  /\ status = "open" /\ CanDeclare
  /\ \/ debug /\ defs[kind] # <<>> /\ Stop("asserted")
     \/ /\ debug => defs[kind] = <<>>
        /\ imports' = Append(imports, [kind |-> kind, id |-> Fresh(kind)])
        /\ held' = held \cup {Handle(kind, imp[kind], Fresh(kind))}
        /\ imp' = [imp EXCEPT ![kind] = @ + 1]
        /\ late' = (late \/ defs[kind] # <<>>)
        /\ UNCHANGED <<bodies, defs, status>>
  /\ out' = <<>> /\ UNCHANGED <<debug, refs, phase2, pending>>

\* The constant expressions: a number or null, global.get, ref.func.
Constants == {<<>>} \cup {<<h>> : h \in HeldOf({"Global", "Function"})}

\* A faulty variant: definitions are numbered without the imports.
NextDefinition(kind) == Len(defs[kind])

NextIndex(kind) == imp[kind] + Len(defs[kind])

\* Only DeclareFunction asserts the phase, and only globals have an initializer.
Declare(kind, init) ==
  /\ status = "open" /\ CanDeclare
  /\ \/ debug /\ kind = "Function" /\ phase2 /\ Stop("asserted")
     \/ /\ debug /\ kind = "Function" => ~phase2
        /\ held' = held \cup {Handle(kind, NextIndex(kind), Fresh(kind))}
        /\ defs' = [defs EXCEPT ![kind] = Append(@, [id |-> Fresh(kind), init |-> init])]
        /\ bodies' = IF kind = "Function" THEN Append(bodies, NoBody) ELSE bodies
        /\ UNCHANGED <<imports, imp, late, status>>
  /\ out' = <<>> /\ UNCHANGED <<debug, refs, phase2, pending>>

\* FuncSig, GlobalType, GlobalMut and TableElem look an index up among the
\* imports of its kind or the definitions.
NthImport(kind, n) ==
  LET same == {m \in 1 .. Len(imports) : imports[m].kind = kind}
      m == CHOOSE m \in same : Cardinality({l \in same : l < m}) = n
  IN  imports[m].id

\* A faulty variant: imports of other kinds are not skipped.
LookupAmongAll(kind, i) == IF i < imp[kind] THEN imports[i + 1].id
                                            ELSE defs[kind][i - imp[kind] + 1].id

Lookup(kind, i) == IF i < imp[kind] THEN NthImport(kind, i)
                                    ELSE defs[kind][i - imp[kind] + 1].id

(***************************************************************************)
(* Exports, start, segments and names.  They store raw indices.            *)
(***************************************************************************)
CanRefer ==
  /\ status = "open" /\ out' = <<>>
  /\ UNCHANGED <<debug, declared, bodies, phase2, pending, late, status>>

RefBound == References < MaxRefs /\ Size < MaxSize

Refer(member, x) ==
  /\ CanRefer /\ RefBound
  /\ refs' = [refs EXCEPT ![member] = Append(@, x)]

Export(h) == Refer("exports", h) /\ UNCHANGED held

SetStart(f) ==
  /\ CanRefer /\ RefBound
  /\ refs' = [refs EXCEPT !.start = <<f>>] /\ UNCHANGED held

\* A passive segment has no place and no offset.
Segment(passive, where, offset, funcs) ==
  [passive |-> passive, where |-> where, offset |-> offset, funcs |-> funcs]

ActiveElem(table, offset, funcs) ==
  Refer("elem", Segment(FALSE, table, offset, funcs)) /\ UNCHANGED held

PassiveElem(funcs) ==
  /\ Refer("elem", Segment(TRUE, Handle("Table", 0, <<>>), <<>>, funcs))
  /\ held' = held \cup {Handle("Elem", Len(refs.elem), <<"Elem", Len(refs.elem) + 1>>)}

ActiveData(mem, offset) ==
  Refer("data", Segment(FALSE, mem, offset, <<>>)) /\ UNCHANGED held

PassiveData ==
  /\ Refer("data", Segment(TRUE, Handle("Memory", 0, <<>>), <<>>, <<>>))
  /\ held' = held \cup {Handle("Data", Len(refs.data), <<"Data", Len(refs.data) + 1>>)}

SetName(h) == Refer("names", h) /\ UNCHANGED held

SetLocalName(f, local) ==
  /\ CanRefer /\ UNCHANGED held
  /\ Len(refs.locals) < MaxLocals /\ Size <= MaxSize
  /\ refs' = [refs EXCEPT !.locals = Append(@, [func |-> f, local |-> local])]

SetModuleName ==
  /\ CanRefer /\ RefBound
  /\ refs' = [refs EXCEPT !.title = <<"title">>] /\ UNCHANGED held

CustomSection == Refer("customs", "custom") /\ UNCHANGED held

(***************************************************************************)
(* Emitting.  A body for f uses some entities; the validator asks the      *)
(* Module about each as its instruction is emitted.  The client keeps the  *)
(* body for a while, declares more, and hands it over.                     *)
(***************************************************************************)
Told(uses) == {[about |-> h, id |-> Lookup(h.kind, h.idx)] :
                 h \in {g \in uses : g.kind \in ExternalKinds}}

EmitBody(f, uses) ==
  /\ status = "open" /\ Cardinality(pending) < MaxPending /\ Size < MaxSize
  /\ pending' = pending \cup {[f |-> f, uses |-> uses, told |-> Told(uses)]}
  /\ out' = <<>>
  /\ UNCHANGED <<debug, declared, bodies, refs, phase2, held, late, status>>

\* A faulty variant: the imports are not subtracted.
BodySlotOfIndex(f) == f.idx

BodySlot(f) == f.idx - imp["Function"]

DefineFunction(b) ==
  LET i == BodySlot(b.f)
      legal == i \in 0 .. Len(bodies) - 1
  IN  /\ status = "open" /\ phase2' = TRUE /\ pending' = pending \ {b}
      /\ \/ ~legal /\ Stop(IF debug THEN "asserted" ELSE "undefined")
         \/ /\ legal
            /\ bodies' = [bodies EXCEPT ![i + 1] = [of |-> b.f.id, uses |-> b.uses,
                                                    told |-> b.told]]
            /\ UNCHANGED <<declared, held, late, status>>
      /\ out' = <<>> /\ UNCHANGED <<debug, refs>>

(***************************************************************************)
(* Assembling.                                                             *)
(***************************************************************************)
FindError == \E n \in 1 .. Len(bodies) : bodies[n] = NoBody

HasPassiveData == \E n \in 1 .. Len(refs.data) : refs.data[n].passive

\* Flag 1 is passive; flag 0 leaves out the index 0 of a table or memory.
Encoded(seg) ==
  LET flag == CASE seg.passive -> 1
                [] ~seg.passive /\ seg.where.idx = 0 -> 0
                [] ~seg.passive /\ seg.where.idx # 0 -> 2
  IN  [flag |-> flag, where |-> seg.where, offset |-> seg.offset, funcs |-> seg.funcs]
EncodedAll(segs) == [n \in 1 .. Len(segs) |-> Encoded(segs[n])]

\* The elements of s at the positions in S, in order, as a loop collects them.
\* SelectSeq and SortSeq are built into the tools; Selected and Sorted have
\* definitions to reason about.
Selected(s, S) ==
  LET upTo[n \in 0 .. Len(s)] ==
        IF n = 0 THEN <<>>
        ELSE IF n \in S THEN Append(upTo[n - 1], s[n]) ELSE upTo[n - 1]
  IN  upTo[Len(s)]

\* What std::sort promises: no element comes before an earlier one.
Sorted(s, Before(_, _)) ==
  LET p == CHOOSE p \in Bijection(1 .. Len(s), 1 .. Len(s)) :
             \A i, j \in 1 .. Len(s) : i < j => ~Before(s[p[j]], s[p[i]])
  IN  [n \in 1 .. Len(s) |-> s[p[n]]]

NamesFor(kind) == Selected(refs.names, {n \in 1 .. Len(refs.names) : refs.names[n].kind = kind})

\* A faulty variant: names in the order they were set.
UnsortedNames(kind) == NamesFor(kind)

ByIndex(names) == Sorted(names, LAMBDA a, b : a.idx < b.idx)

NameMap(kind) == ByIndex(NamesFor(kind))

\* A faulty variant: rows in the order of the locals alone.
ByLocal(a, b) == a.local < b.local

ByFunction(a, b) == IF a.func.idx = b.func.idx THEN a.local < b.local
                                               ELSE a.func.idx < b.func.idx

\* One group for each run of equal functions in the sorted rows.
Grouped(rows) ==
  LET starts == Selected([i \in 1 .. Len(rows) |-> i],
                         {i \in 1 .. Len(rows) :
                            i > 1 => rows[i].func.idx # rows[i - 1].func.idx})
      last(n) == IF n = Len(starts) THEN Len(rows) ELSE starts[n + 1] - 1
  IN  [n \in 1 .. Len(starts) |->
         [func |-> rows[starts[n]].func,
          locals |-> [k \in 1 .. last(n) - starts[n] + 1 |-> rows[starts[n] + k - 1].local]]]

ByRow(rows) == Sorted(rows, ByFunction)

LocalNameMap == Grouped(ByRow(refs.locals))

\* Sections and subsections without an entry are left out.
Section(id, items) == [id |-> id, items |-> items]
NotEmpty(s) == Selected(s, {n \in 1 .. Len(s) : s[n].items # <<>>})

NameSection ==
  NotEmpty(<<Section(0, refs.title), Section(1, NameMap("Function")),
             Section(2, LocalNameMap), Section(7, NameMap("Global"))>>)

\* A faulty variant: the data count behind the code.
LateCount(before, count, code, after) == before \o code \o count \o after

Ordered(before, count, code, after) == before \o count \o code \o after

\* The name section and the client's custom sections, all of id 0, have 13 and
\* 14 here.
AllSections ==
  LET before == <<Section(2, imports), Section(3, defs["Function"]),
                  Section(4, defs["Table"]), Section(5, defs["Memory"]),
                  Section(6, defs["Global"]), Section(7, refs.exports),
                  Section(8, refs.start), Section(9, EncodedAll(refs.elem))>>
      count == <<Section(12, IF HasPassiveData THEN <<Len(refs.data)>> ELSE <<>>)>>
      code == <<Section(10, bodies)>>
      after == <<Section(11, EncodedAll(refs.data)), Section(13, NameSection)>>
      customs == [n \in 1 .. Len(refs.customs) |-> Section(14, <<refs.customs[n]>>)]
  IN  Ordered(before, count, code, after) \o customs

Sections == NotEmpty(AllSections)

\* Assemble() reads the Module and leaves it as it is.  With an undefined
\* function Assemble() reports an error, TryAssemble() returns it, and neither
\* writes anything.
Assemble ==
  /\ status = "open"
  /\ \/ ~FindError /\ out' = Sections /\ UNCHANGED status
     \/ FindError /\ out' = <<>> /\ status' \in {"open", "aborted"}
  /\ UNCHANGED <<debug, declared, refs, bodies, phase2, held, pending, late>>

Next ==
  \/ \E kind \in Kinds : ImportEntity(kind)
  \/ \E kind \in Kinds : \E init \in IF kind = "Global" THEN Constants ELSE {<<>>} :
       Declare(kind, init)
  \/ \E h \in HeldOf(ExternalKinds) : Export(h)
  \/ \E f \in HeldOf({"Function"}) : SetStart(f)
  \/ \E funcs \in {<<>>} \cup {<<f>> : f \in HeldOf({"Function"})} :
       \/ PassiveElem(funcs)
       \/ \E t \in HeldOf({"Table"}), offset \in Constants : ActiveElem(t, offset, funcs)
  \/ \E m \in HeldOf({"Memory"}), offset \in Constants : ActiveData(m, offset)
  \/ PassiveData
  \/ \E h \in HeldOf({"Function", "Global"}) : SetName(h)
  \/ \E f \in HeldOf({"Function"}), local \in 0 .. 1 : SetLocalName(f, local)
  \/ SetModuleName
  \/ CustomSection
  \/ \E f \in HeldOf({"Function"}) :
       \E uses \in {{}} \cup {{h} : h \in held} : EmitBody(f, uses)
  \/ \E b \in pending : DefineFunction(b)
  \/ Assemble

Spec == Init /\ [][Next]_vars
-----------------------------------------------------------------------------
(***************************************************************************)
(* What a reader of the sections sees.                                     *)
(***************************************************************************)
ItemsIn(s, id) == IF \E n \in 1 .. Len(s) : s[n].id = id
                  THEN s[CHOOSE n \in 1 .. Len(s) : s[n].id = id].items
                  ELSE <<>>
Items(id) == ItemsIn(out, id)

SectionOf == [Function |-> 3, Table |-> 4, Memory |-> 5, Global |-> 6]

Space(kind) ==
  LET imported == Selected(Items(2), {n \in 1 .. Len(Items(2)) : Items(2)[n].kind = kind})
      all == imported \o Items(SectionOf[kind])
  IN  [n \in 1 .. Len(all) |-> all[n].id]

SpaceOf(kind) ==
  CASE kind \in ExternalKinds -> Space(kind)
    [] kind = "Elem" -> [n \in 1 .. Len(Items(9)) |-> <<"Elem", n>>]
    [] kind = "Data" -> [n \in 1 .. Len(Items(11)) |-> <<"Data", n>>]

Resolves(h) == h.idx < Len(SpaceOf(h.kind)) /\ SpaceOf(h.kind)[h.idx + 1] = h.id

InOrder == debug \/ ~late

\* The items of a subsection of the name section.
NamesOf(id) == ItemsIn(Items(13), id)

Segments == ToSet(Items(9)) \cup ToSet(Items(11))

\* The indices a reader meets outside code: in exports, the start section,
\* constant expressions, segments and names.
Written ==
  ToSet(Items(7)) \cup ToSet(Items(8)) \cup ToSet(NamesOf(1)) \cup ToSet(NamesOf(7)) \cup
  {g.func : g \in ToSet(NamesOf(2))} \cup (UNION {ToSet(d.init) : d \in ToSet(Items(6))}) \cup
  (UNION {ToSet(seg.offset) \cup ToSet(seg.funcs) : seg \in Segments}) \cup
  {seg.where : seg \in {s \in Segments : s.flag = 2}} \cup
  {[seg.where EXCEPT !.idx = 0] : seg \in {s \in Segments : s.flag = 0}}

\* A reader resolves every index in the module, in exports, segments, constant
\* expressions, names and bodies, to the entity whose handle the client passed.
\* A debug build asserts that imports come first; a release build relies on the
\* client for it.
RefsResolve ==
  out # <<>> /\ InOrder =>
    \A h \in Written \cup UNION {b.uses : b \in ToSet(Items(10))} : Resolves(h)

\* What the validator was told of an index when the instruction was emitted is
\* what a reader of the module finds there, whatever was declared between the
\* emission of the body, its definition and the assembly.
ToldTruth ==
  out # <<>> /\ InOrder =>
    \A b \in ToSet(Items(10)) : \A t \in b.told :
      /\ t.about.idx < Len(Space(t.about.kind))
      /\ Space(t.about.kind)[t.about.idx + 1] = t.id

\* What the validator is told of an index is what a reader of the module will
\* find there, in release builds with late imports too.
QueriesMatchBinary ==
  out # <<>> => \A kind \in Kinds :
    /\ Len(Space(kind)) = CountOf(kind)
    /\ \A i \in 0 .. CountOf(kind) - 1 : Space(kind)[i + 1] = Lookup(kind, i)

\* The n-th body belongs to the n-th function, and none is missing: the bodies
\* went to the functions whose handles they came with, in any order, again and
\* again.
BodiesLand ==
  out # <<>> /\ InOrder =>
    /\ Len(Items(10)) = Len(Items(3))
    /\ \A n \in 1 .. Len(Items(10)) : Items(10)[n].of = Items(3)[n].id

\* A one-pass reader knows what it needs: sections come in the order of the
\* WebAssembly specification, names behind them, each at most once but for the
\* client's own, and before any body that names a data segment comes their
\* number.
Rank(id) == CASE id < 10 -> id [] id = 12 -> 10 [] id = 10 -> 11 [] id = 11 -> 12
              [] id > 12 -> id
ReadableInOnePass ==
  /\ \A n \in 1 .. Len(out) - 1 :
       Rank(out[n].id) < Rank(out[n + 1].id) \/ (out[n].id = 14 /\ out[n + 1].id = 14)
  /\ \A b \in ToSet(Items(10)), h \in HeldOf({"Data"}) :
       h \in b.uses => Items(12) = <<Len(Items(11))>>

\* Subsections and name maps are sorted by index, as the format requires,
\* whatever the order in which clients set names.
NamesSorted ==
  /\ \A n \in 1 .. Len(Items(13)) - 1 : Items(13)[n].id < Items(13)[n + 1].id
  /\ \A id \in {1, 7} : \A n \in 1 .. Len(NamesOf(id)) - 1 :
       NamesOf(id)[n].idx <= NamesOf(id)[n + 1].idx

\* The map of local names has each function once, in order, with all the locals
\* that were named in it, in order: grouping neighbours is enough because the
\* rows were sorted by function first.
LocalNamesGrouped ==
  out # <<>> /\ InOrder =>
    LET groups == NamesOf(2)
        named(f) == {n \in 1 .. Len(refs.locals) : refs.locals[n].func = f}
    IN  /\ \A n \in 1 .. Len(groups) - 1 : groups[n].func.idx < groups[n + 1].func.idx
        /\ \A row \in ToSet(refs.locals) : \E g \in ToSet(groups) : g.func = row.func
        /\ \A g \in ToSet(groups) :
             /\ Len(g.locals) = Cardinality(named(g.func))
             /\ \A n \in 1 .. Len(g.locals) - 1 : g.locals[n] <= g.locals[n + 1]

\* "Enforces the three-phase lifecycle (declare -> emit -> assemble) via debug
\* asserts" (module.hpp:4-6): a debug build declares nothing after the first
\* body is defined.
DeclareOnlyBeforeEmit == [][debug /\ phase2 => UNCHANGED declared]_vars
=============================================================================
