------------------------------ MODULE Bytecode ------------------------------
(***************************************************************************)
(* The bytecode compiler of the VM (compiler.rs, local_resolver.rs,        *)
(* free_variables.rs): a syntax tree becomes the code of the program and   *)
(* of its functions.  An instruction is a tuple that starts with its name; *)
(* constants, names, patterns, places and call sites, which the compiler   *)
(* keeps in pools, are operands.  Addresses count from 1.                  *)
(*                                                                         *)
(* The state of a compilation:                                             *)
(*    code      the instructions so far                                    *)
(*    floor     fusion_floor: the instructions up to this one are behind   *)
(*              a jump target and must not be fused with later ones        *)
(*    depth     the run-time scopes open here                              *)
(*    loops     the enclosing loops, innermost last: continue target, open *)
(*              scopes, what the loop keeps on the stack, jumps to patch   *)
(*    bound     runtime_bindings: the names of the open match arms         *)
(*    resolver  <<>> at top level, else <<the function's resolver>>        *)
(*    free      the names the function could not resolve, first seen first *)
(*    fns       the functions compiled so far, of the whole program        *)
(*    bad       why the program does not compile, or ""                    *)
(***************************************************************************)
EXTENDS Syntax

-----------------------------------------------------------------------------
(* Slots *)

\* A resolver: the slot of each visible name, the maps to go back to at the
\* end of each open block, the next slot.  A slot is never given out twice in
\* a function; a parameter named twice keeps one slot.
RECURSIVE ParamSlots(_, _, _)
ParamSlots(params, visible, slots) ==
  IF params = <<>> THEN [visible |-> visible, slots |-> slots]
  ELSE LET n == params[1].name
           known == n \in DOMAIN visible
           slot == IF known THEN visible[n] ELSE 1 + Cardinality(DOMAIN visible)
       IN ParamSlots(Tail(params), [x \in DOMAIN visible \cup {n} |-> IF x = n THEN slot ELSE visible[x]],
                     Append(slots, slot))

\* Mutant: count a parameter named twice as two slots.
NewResolverPerParam(params) ==
  LET p == ParamSlots(params, <<>>, <<>>)
  IN [visible |-> p.visible, outer |-> <<>>, next |-> 1 + Len(params), params |-> p.slots,
      refs |-> {p.slots[i] : i \in {j \in 1..Len(params) : params[j].mode = "ref"}}]

NewResolver(params) ==
  LET p == ParamSlots(params, <<>>, <<>>)
  IN [visible |-> p.visible, outer |-> <<>>, next |-> 1 + Cardinality(DOMAIN p.visible),
      params |-> p.slots,
      refs |-> {p.slots[i] : i \in {j \in 1..Len(params) : params[j].mode = "ref"}}]

InFunction(c) == c.resolver # <<>>

\* declare: a fresh slot, even for a name the block declares a second time.
Declare(c, n) ==
  [c EXCEPT !.resolver[1].visible =
              [x \in DOMAIN @ \cup {n} |-> IF x = n THEN c.resolver[1].next ELSE @[x]],
            !.resolver[1].next = @ + 1]
DeclaredSlot(c) == c.resolver[1].next - 1

OpenBlock(c) == [c EXCEPT !.resolver[1].outer = Append(@, c.resolver[1].visible)]
CloseBlock(c) == [c EXCEPT !.resolver[1].visible = Last(c.resolver[1].outer),
                           !.resolver[1].outer = Front(@)]

HasRuntimeBinding(c, n) == \E i \in 1..Len(c.bound) : n \in c.bound[i]

\* resolve_local_slot: 0 when the name is not a local of the function, or a
\* match arm shadows it.
ResolveLocalSlot(c, n) ==
  IF HasRuntimeBinding(c, n) \/ ~InFunction(c) THEN 0
  ELSE IF n \in DOMAIN c.resolver[1].visible THEN c.resolver[1].visible[n] ELSE 0

\* note_free_var (FreeVariables::record).
NoteFreeVar(c, n) ==
  IF HasRuntimeBinding(c, n) \/ ~InFunction(c) \/ n \in ToSet(c.free) THEN c
  ELSE [c EXCEPT !.free = Append(@, n)]

\* namespace_ref: a name as an operand, <<slot, name>>.
Noted(c, n) == IF ResolveLocalSlot(c, n) = 0 THEN NoteFreeVar(c, n) ELSE c
NameRef(c, n) == <<ResolveLocalSlot(c, n), n>>

-----------------------------------------------------------------------------
(* Emission *)

\* Mutant: fuse across jump targets.
CanFuseTailAcrossTargets(c, k) == Len(c.code) >= k
\* Whether the last k instructions may be fused with the next one.
CanFuseTail(c, k) == Len(c.code) >= k /\ Len(c.code) - k >= c.floor

\* try_peephole: what the incoming instruction makes of the last ones,
\* <<how many it replaces, by what>>.
IsIntConst(ins) == IF ins[1] = "LoadConst" THEN Tag(ins[2]) = "int" ELSE FALSE
Fusion(c, ins) ==
  LET n == Len(c.code)
      a == c.code[n - 1]
      b == c.code[n]
      Pair(locals, local_int) ==
        IF ~CanFuseTail(c, 2) THEN <<0, ins>>
        ELSE IF a[1] # "LoadLocal" THEN <<0, ins>>
        ELSE IF b[1] = "LoadLocal" THEN <<2, <<locals, a[2], b[2]>> >>
        ELSE IF IsIntConst(b) THEN <<2, <<local_int, a[2], b[2][2]>> >>
        ELSE <<0, ins>>
  IN CASE ins[1] = "Binary" /\ ins[2] = "+" -> Pair("AddLocals", "LoadLocalAddInt")
       [] ins[1] = "Binary" /\ ins[2] = "<" -> Pair("LtLocals", "LtLocalInt")
       [] ins[1] = "StoreLocal" ->
            IF ~CanFuseTail(c, 1) THEN <<0, ins>>
            ELSE IF b[1] = "LoadLocalAddInt" THEN
                 IF b[2] = ins[2] THEN <<1, <<"IncLocalInt", b[2], b[3]>> >> ELSE <<0, ins>>
            ELSE <<0, ins>>
       [] OTHER -> <<0, ins>>

Emit(c, ins) ==
  LET f == Fusion(c, ins)
  IN [c EXCEPT !.code = Append(SubSeq(@, 1, Len(@) - f[1]), f[2])]

\* The address of the next instruction, and of the last one emitted.
Here(c) == Len(c.code) + 1
Site(c) == Len(c.code)

Later(a, b) == IF a > b THEN a ELSE b
ProtectJumpTarget(c, target) == [c EXCEPT !.floor = Later(@, target - 1)]
MarkJumpTarget(c) == ProtectJumpTarget(c, Here(c))

\* patch_jump, patch_match_fail: the target is the last operand.
PatchJump(c, site, target) ==
  LET ins == c.code[site]
  IN [ProtectJumpTarget(c, target) EXCEPT !.code[site] = [ins EXCEPT ![Len(ins)] = target]]
RECURSIVE PatchAll(_, _, _)
PatchAll(c, sites, target) ==
  IF sites = <<>> THEN c ELSE PatchAll(PatchJump(c, sites[1], target), Tail(sites), target)

PushRuntimeScope(c) == [Emit(c, <<"PushScope">>) EXCEPT !.depth = @ + 1]
PopRuntimeScope(c) == [Emit(c, <<"PopScope">>) EXCEPT !.depth = @ - 1]
\* emit_runtime_scope_unwind_to: close scopes on the way out of a loop; what
\* follows in the code still has them open.
RECURSIVE EmitScopePops(_, _)
EmitScopePops(c, count) ==
  IF count = 0 THEN c ELSE EmitScopePops(Emit(c, <<"PopScope">>), count - 1)

Reject(c, why) == IF c.bad = "" THEN [c EXCEPT !.bad = why] ELSE c

-----------------------------------------------------------------------------
(* Call sites and places *)

\* add_place_parts: the root and the kinds of the steps; the index values are
\* on the stack at run time.
PlaceRecipe(c, p) ==
  [root |-> NameRef(c, p.root),
   path |-> [i \in 1..Len(p.path) |->
               IF p.path[i].kind = "index" THEN <<"index">> ELSE <<"field", p.path[i].field>>]]
IndexExprs(p) ==
  LET steps == SelectSeq(p.path, LAMBDA step : step.kind = "index")
  IN [i \in 1..Len(steps) |-> steps[i].index]

\* add_call_site: the modes, and a place for every ref argument; one that is
\* not a place has the root <<0, "">>.
RefExprs(args) ==
  LET refs == SelectSeq(args, LAMBDA a : a.mode = "ref")
  IN [i \in 1..Len(refs) |-> DecomposePlace(refs[i].expr)]
RECURSIVE NotedAll(_, _)
NotedAll(c, places) ==
  IF places = <<>> THEN c
  ELSE NotedAll(IF places[1] = NoPlace THEN c ELSE Noted(c, places[1].root), Tail(places))
CallSite(c, args) ==
  [modes |-> [i \in 1..Len(args) |-> args[i].mode],
   targets |-> [i \in 1..Len(RefExprs(args)) |-> PlaceRecipe(c, RefExprs(args)[i])]]

-----------------------------------------------------------------------------
(* Expressions *)

RECURSIVE CompileExpr(_, _), CompileExprs(_, _), CompileBlock(_, _)

CompileExprs(c, exprs) ==
  IF exprs = <<>> THEN c ELSE CompileExprs(CompileExpr(c, exprs[1]), Tail(exprs))

\* Keys are pushed before their values.
RECURSIVE CompileEntries(_, _)
CompileEntries(c, entries) ==
  IF entries = <<>> THEN c
  ELSE CompileEntries(CompileExpr(Emit(c, <<"LoadConst", Str(entries[1][1])>>), entries[1][2]),
                      Tail(entries))

\* The values of the arguments, then the index values of the ref arguments.
CompileArgs(c, args) ==
  LET values == SelectSeq(args, LAMBDA a : a.mode = "value")
      after == CompileExprs(c, [i \in 1..Len(values) |-> values[i].expr])
      Indices(acc, p) == CompileExprs(acc, IndexExprs(p))
  IN FoldLeft(Indices, after, RefExprs(args))

\* The callee is resolved, and the call checked, before any argument.
CompileCall(c, e) ==
  LET noted == NotedAll(c, RefExprs(e.args))
      site == CallSite(noted, e.args)
      n == e.callee.name
      slot == ResolveLocalSlot(noted, n)
      prepared ==
        IF e.callee.kind # "ident"
        THEN Emit(CompileExpr(noted, e.callee), <<"PrepareCallValue", site>>)
        ELSE IF slot # 0
        THEN Emit(Emit(noted, <<"LoadLocal", slot>>), <<"PrepareCallValue", site>>)
        ELSE Emit(NoteFreeVar(noted, n), <<"PrepareCall", n, site>>)
  IN Emit(CompileArgs(prepared, e.args), <<"CallPrepared", site>>)

CompileMethodCall(c, e) ==
  LET site == CallSite(c, e.args)
      p == DecomposePlace(e.object)
      noted == NotedAll(c, RefExprs(e.args))
      root == Noted(noted, p.root)
      prepared ==
        IF p = NoPlace
        THEN Emit(CompileExpr(noted, e.object), <<"PrepareMethodValue", e.method, site>>)
        ELSE IF p.path = <<>>
        THEN Emit(root, <<"PrepareMethodNamed", NameRef(noted, p.root), e.method, site>>)
        ELSE Emit(CompileExprs(root, IndexExprs(p)),
                  <<"PrepareMethodPlace", PlaceRecipe(noted, p), e.method, site>>)
  IN Emit(CompileArgs(prepared, e.args), <<"CallPrepared", site>>)

CompileInterp(c, parts) ==
  LET Note(acc, p) == IF p[1] = "var" THEN Noted(acc, p[2]) ELSE acc
  IN Emit(FoldLeft(Note, c, parts),
          <<"StringInterp", [i \in 1..Len(parts) |->
             IF parts[i][1] = "var" THEN <<"var", NameRef(c, parts[i][2])>> ELSE parts[i]]>>)

CompileIdent(c, n) ==
  LET slot == ResolveLocalSlot(c, n)
  IN IF slot # 0 THEN Emit(c, <<"LoadLocal", slot>>) ELSE Emit(NoteFreeVar(c, n), <<"LoadVar", n>>)

\* `and`, `or`: the left operand stays on the stack as a Bool when it decides.
CompileShortCircuit(c, e, jump) ==
  LET left == Emit(Emit(CompileExpr(c, e.left), <<"TruthyToBool">>), <<jump, 0>>)
      right == Emit(CompileExpr(Emit(left, <<"Pop">>), e.right), <<"TruthyToBool">>)
  IN PatchJump(MarkJumpTarget(right), Site(left), Here(right))

CompileBinary(c, e) ==
  CASE e.op = "and" -> CompileShortCircuit(c, e, "JumpIfFalsePeek")
    [] e.op = "or" -> CompileShortCircuit(c, e, "JumpIfTruePeek")
    [] OTHER -> Emit(CompileExpr(CompileExpr(c, e.left), e.right), <<"Binary", e.op>>)

CompileIfExpr(c, e) ==
  LET test == Emit(CompileExpr(c, e.cond), <<"JumpIfFalse", 0>>)
      then == Emit(CompileExpr(test, e.then), <<"Jump", 0>>)
      else == CompileExpr(PatchJump(MarkJumpTarget(then), Site(test), Here(then)), e.otherwise)
  IN PatchJump(MarkJumpTarget(else), Site(then), Here(else))

\* An arm: test the pattern in a scope of its own, then the guard; go on with
\* the next arm when either fails, the scope closed once on each way.
CompileArm(c, arm) ==
  LET opened == PushRuntimeScope([c EXCEPT !.bound = Append(@, BindingNames(arm.pattern))])
      tested == Emit(Emit(opened, <<"Dup">>), <<"MatchFail", arm.pattern, 0>>)
      guarded == IF arm.guard = <<>> THEN tested
                 ELSE Emit(CompileExpr(tested, arm.guard[1]), <<"JumpIfFalse", 0>>)
      body == CompileExpr(Emit(guarded, <<"Pop">>), arm.body)
      ended == Emit(PopRuntimeScope([body EXCEPT !.bound = c.bound]), <<"Jump", 0>>)
      pad == Emit(Emit(PatchJump(MarkJumpTarget(ended), Site(guarded), Here(ended)), <<"PopScope">>),
                  <<"Jump", 0>>)
      rejected == IF arm.guard = <<>> THEN ended ELSE pad
      failed == Emit(PatchJump(MarkJumpTarget(rejected), Site(tested), Here(rejected)), <<"PopScope">>)
  IN [next |-> IF arm.guard = <<>> THEN failed
               ELSE PatchJump(MarkJumpTarget(failed), Site(pad), Here(failed)),
      exit |-> Site(ended)]

RECURSIVE CompileArms(_, _, _)
CompileArms(c, arms, exits) ==
  IF arms = <<>> THEN [c |-> c, exits |-> exits]
  ELSE LET a == CompileArm(c, arms[1]) IN CompileArms(a.next, Tail(arms), Append(exits, a.exit))

CompileMatch(c, e) ==
  LET arms == CompileArms(CompileExpr(c, e.scrutinee), e.arms, <<>>)
      end == MarkJumpTarget(Emit(Emit(arms.c, <<"Pop">>), <<"MatchExhausted">>))
  IN PatchAll(end, arms.exits, Here(end))

\* compile_function: the body in a compilation of its own; then each of its
\* free variables becomes a capture, from a slot of the function around it or
\* from that function's scopes, of which it is then a free variable too.  The
\* function's index is the length of fns afterwards.
CompileFunction(c, name, params, stmts) ==
  LET resolver == NewResolver(params)
      inner == Emit(CompileBlock([c EXCEPT !.code = <<>>, !.floor = 0, !.depth = 0, !.loops = <<>>,
                                           !.bound = <<>>, !.free = <<>>, !.resolver = <<resolver>>],
                                 stmts),
                    <<"ReturnNone">>)
      slots == [i \in 1..Len(inner.free) |-> ResolveLocalSlot(c, inner.free[i])]
      refCapture == InFunction(c) /\ \E i \in 1..Len(slots) : slots[i] \in c.resolver[1].refs
      def == [name |-> name, params |-> params, code |-> inner.code,
              slots |-> inner.resolver[1].next - 1, paramSlots |-> resolver.params,
              captures |-> [i \in 1..Len(slots) |-> <<slots[i], inner.free[i]>>]]
      \* note_free_var of the names the enclosing function has not as locals.
      Propagate(acc, n) == IF ResolveLocalSlot(c, n) = 0 THEN NoteFreeVar(acc, n) ELSE acc
      back == FoldLeft(Propagate, [c EXCEPT !.fns = Append(inner.fns, def), !.bad = inner.bad],
                       inner.free)
  IN IF refCapture THEN Reject(back, "ref capture") ELSE back

CompileLambda(c, e) ==
  LET f == CompileFunction(c, "<lambda>", e.params, e.body) IN Emit(f, <<"MakeLambda", Len(f.fns)>>)

CompileStruct(c, e) ==
  Emit(CompileEntries(Emit(c, <<"ValidateStruct", e.type, [i \in 1..Len(e.entries) |-> e.entries[i][1]]>>),
                      e.entries),
       <<"ConstructStruct", e.type, Len(e.entries)>>)

CompileEnum(c, e) ==
  LET names == [i \in 1..Len(e.parts) |-> IF e.shape = "fields" THEN e.parts[i][1] ELSE ""]
      checked == Emit(c, <<"ValidateEnum", e.type, e.variant, e.shape, names>>)
  IN Emit(IF e.shape = "fields" THEN CompileEntries(checked, e.parts)
          ELSE CompileExprs(checked, e.parts),
          <<"ConstructEnum", e.type, e.variant, e.shape, Len(e.parts)>>)

CompileExpr(c, e) ==
  CASE e.kind = "lit" -> Emit(c, <<"LoadConst", e.value>>)
    [] e.kind = "interp" -> CompileInterp(c, e.parts)
    [] e.kind = "ident" -> CompileIdent(c, e.name)
    [] e.kind = "binary" -> CompileBinary(c, e)
    [] e.kind = "unary" -> Emit(CompileExpr(c, e.inner), <<"Unary", e.op>>)
    [] e.kind = "call" -> CompileCall(c, e)
    [] e.kind = "method" -> CompileMethodCall(c, e)
    [] e.kind = "index" -> Emit(CompileExpr(CompileExpr(c, e.object), e.index), <<"GetIndex">>)
    [] e.kind = "array" -> Emit(CompileExprs(c, e.items), <<"MakeArray", Len(e.items)>>)
    [] e.kind = "dict" -> Emit(CompileEntries(c, e.entries), <<"MakeDict", Len(e.entries)>>)
    [] e.kind = "if" -> CompileIfExpr(c, e)
    [] e.kind = "field" -> Emit(CompileExpr(c, e.object), <<"FieldGet", e.field>>)
    [] e.kind = "struct" -> CompileStruct(c, e)
    [] e.kind = "enum" -> CompileEnum(c, e)
    [] e.kind = "lambda" -> CompileLambda(c, e)
    [] e.kind = "match" -> CompileMatch(c, e)
    [] e.kind = "try" -> Emit(CompileExpr(c, e.inner), <<"TryUnwrap">>)

-----------------------------------------------------------------------------
(* Statements *)

\* compile_scoped_block: in a function a block is the resolver's business,
\* and opens a run-time scope only for the types it declares.
DeclaresTypes(stmts) == \E i \in 1..Len(stmts) : stmts[i].kind \in {"structdecl", "enumdecl"}
CompileScopedBlock(c, stmts) ==
  IF ~InFunction(c) THEN PopRuntimeScope(CompileBlock(PushRuntimeScope(c), stmts))
  ELSE IF DeclaresTypes(stmts)
  THEN CloseBlock(PopRuntimeScope(CompileBlock(PushRuntimeScope(OpenBlock(c)), stmts)))
  ELSE CloseBlock(CompileBlock(OpenBlock(c), stmts))

CompileLet(c, st) ==
  LET v == CompileExpr(c, st.value)
      d == Declare(v, st.name)
  IN IF InFunction(c) THEN Emit(d, <<"StoreLocal", DeclaredSlot(d)>>)
     ELSE Emit(v, <<"DefineLocal", st.name>>)

EmitStoreVar(c, slot, n) ==
  IF slot # 0 THEN Emit(c, <<"StoreLocal", slot>>) ELSE Emit(NoteFreeVar(c, n), <<"StoreVar", n>>)

\* compile_assign.  The slot is the one the name has before the value is
\* compiled.  An integer literal is added to a local by a load and a store,
\* which may be fused; in general the current value is read after the operand.
CompileAssign(c, st) ==
  LET t == st.target
      slot == ResolveLocalSlot(c, t.name)
      value == CompileExpr(c, st.value)
      p == DecomposePlace(t)
      placed == Noted(c, p.root)
      literal == st.value.kind = "lit" /\ IsIntConst(<<"LoadConst", st.value.value>>)
  IN IF t.kind = "ident"
     THEN IF st.op = "=" THEN EmitStoreVar(value, slot, t.name)
          ELSE IF slot # 0 /\ literal
          THEN EmitStoreVar(Emit(CompileExpr(Emit(c, <<"LoadLocal", slot>>), st.value),
                                 <<"Binary", st.op>>), slot, t.name)
          ELSE Emit(IF slot = 0 THEN NoteFreeVar(value, t.name) ELSE value,
                    <<"CompoundAssign", <<slot, t.name>>, st.op>>)
     ELSE IF p = NoPlace THEN Reject(c, "not a place")
     ELSE Emit(CompileExprs(CompileExpr(placed, st.value), IndexExprs(p)),
               <<"AssignPlace", PlaceRecipe(c, p), st.op>>)

\* compile_if_chain: a branch jumps to the end when something follows it.
RECURSIVE CompileBranches(_, _, _, _)
CompileBranches(c, branches, otherwise, ends) ==
  LET test == Emit(CompileExpr(c, branches[1][1]), <<"JumpIfFalse", 0>>)
      body == CompileScopedBlock(test, branches[1][2])
      skips == Len(branches) > 1 \/ otherwise # <<>>
      done == IF skips THEN Emit(body, <<"Jump", 0>>) ELSE body
      next == PatchJump(MarkJumpTarget(done), Site(test), Here(done))
      last == IF otherwise = <<>> THEN c ELSE CompileScopedBlock(c, otherwise[1])
  IN IF branches = <<>> THEN PatchAll(MarkJumpTarget(last), ends, Here(last))
     ELSE CompileBranches(next, Tail(branches), otherwise, IF skips THEN Append(ends, Site(done)) ELSE ends)

\* What the loops share: the body between the loop's test at `start` (whose
\* exit jump is at `exit`) and the jump back; then the exits are patched.
EnterLoop(c, start, scopes, keeps) ==
  [c EXCEPT !.loops = Append(@, [target |-> start, depth |-> scopes, keeps |-> keeps, breaks |-> <<>>])]
LeaveLoop(c, start, exit) ==
  LET end == MarkJumpTarget(Emit(c, <<"Jump", start>>))
  IN [PatchAll(PatchJump(end, exit, Here(end)), Last(c.loops).breaks, Here(end))
        EXCEPT !.loops = Front(@)]

CompileWhile(c, st) ==
  LET start == MarkJumpTarget(c)
      test == Emit(CompileExpr(start, st.cond), <<"JumpIfFalse", 0>>)
      body == CompileScopedBlock(EnterLoop(test, Here(start), test.depth, ""), st.body)
  IN LeaveLoop(body, Here(start), Site(test))

CompileRepeat(c, st) ==
  LET start == MarkJumpTarget(Emit(CompileExpr(c, st.count), <<"MakeRepeatCount">>))
      test == Emit(start, <<"RepeatNext", 0>>)
      body == CompileScopedBlock(EnterLoop(test, Here(start), test.depth, "repeat"), st.body)
  IN LeaveLoop(body, Here(start), Site(test))

\* The loop variable lives in a slot, or in a scope that every pass opens.
CompileFor(c, st) ==
  LET start == MarkJumpTarget(Emit(CompileExpr(c, st.iterable), <<"MakeIter">>))
      test == Emit(start, <<"IterNext", 0>>)
      local == Declare(OpenBlock(test), st.var)
      bound == IF InFunction(c) THEN Emit(local, <<"StoreLocal", DeclaredSlot(local)>>)
               ELSE Emit(PushRuntimeScope(test), <<"DefineLocal", st.var>>)
      body == CompileBlock(EnterLoop(bound, Here(start), test.depth, "iterator"), st.body)
      closed == IF InFunction(c) THEN CloseBlock(body) ELSE PopRuntimeScope(body)
  IN LeaveLoop(closed, Here(start), Site(test))

CompileBreak(c) ==
  LET loop == Last(c.loops)
      popped == EmitScopePops(c, c.depth - loop.depth)
      kept == IF loop.keeps = "" THEN popped ELSE Emit(popped, <<"PopLoopState", loop.keeps>>)
      jump == Emit(kept, <<"Jump", 0>>)
  IN IF c.loops = <<>> THEN Reject(c, "outside of a loop")
     ELSE [jump EXCEPT !.loops[Len(c.loops)].breaks = Append(@, Site(jump))]

\* Mutant: leave the scopes of the pass open.
CompileContinueInScopes(c) ==
  IF c.loops = <<>> THEN Reject(c, "outside of a loop")
  ELSE Emit(c, <<"Jump", Last(c.loops).target>>)
CompileContinue(c) ==
  IF c.loops = <<>> THEN Reject(c, "outside of a loop")
  ELSE Emit(EmitScopePops(c, c.depth - Last(c.loops).depth), <<"Jump", Last(c.loops).target>>)

CompileReturn(c, st) ==
  IF st.value = <<>> THEN Emit(c, <<"ReturnNone">>)
  ELSE Emit(CompileExpr(c, st.value[1]), <<"Return">>)

CompileStmt(c, st) ==
  LET f == CompileFunction(c, st.name, st.params, st.body)
  IN CASE st.kind = "let" -> CompileLet(c, st)
       [] st.kind = "assign" -> CompileAssign(c, st)
       [] st.kind = "ifs" -> CompileBranches(c, st.branches, st.otherwise, <<>>)
       [] st.kind = "while" -> CompileWhile(c, st)
       [] st.kind = "repeat" -> CompileRepeat(c, st)
       [] st.kind = "for" -> CompileFor(c, st)
       [] st.kind = "fndecl" -> Emit(f, <<"DefineFn", st.name, Len(f.fns)>>)
       [] st.kind = "methoddecl" -> Emit(f, <<"DefineMethod", st.type, st.name, Len(f.fns)>>)
       [] st.kind = "return" -> CompileReturn(c, st)
       [] st.kind = "break" -> CompileBreak(c)
       [] st.kind = "continue" -> CompileContinue(c)
       [] st.kind = "structdecl" -> Emit(c, <<"DefineStruct", st.name, st.fields>>)
       [] st.kind = "enumdecl" -> Emit(c, <<"DefineEnum", st.name, st.variants>>)
       [] st.kind = "expr" -> Emit(CompileExpr(c, st.value), <<"Pop">>)

\* The first statement that does not compile ends the compilation.
CompileBlock(c, stmts) ==
  IF stmts = <<>> \/ c.bad # "" THEN c ELSE CompileBlock(CompileStmt(c, stmts[1]), Tail(stmts))

NewCompiler ==
  [code |-> <<>>, floor |-> 0, depth |-> 0, loops |-> <<>>, bound |-> <<>>, resolver |-> <<>>,
   free |-> <<>>, fns |-> <<>>, bad |-> ""]

\* compile_program: the program's functions and, last, its own code.
CompileProgram(stmts) ==
  LET c == Emit(CompileBlock(NewCompiler, stmts), <<"Halt">>)
  IN [code |-> c.code, fns |-> c.fns, bad |-> c.bad]
=============================================================================
