------------------------------ MODULE Validator ------------------------------
(***************************************************************************)
(* The structural validator (validate.rs) that stands between the compiler *)
(* and the machine: a chunk it refuses does not run.  Pools are operands   *)
(* in Bytecode, so the checks of pool indices are left out, except for the *)
(* functions.                                                              *)
(***************************************************************************)
EXTENDS Bytecode

-----------------------------------------------------------------------------
(* What an instruction refers to *)

TargetOf(ins) ==
  IF ins[1] \in {"IterNext", "RepeatNext", "Jump", "JumpIfFalse", "JumpIfFalsePeek", "JumpIfTruePeek",
                 "MatchFail"}
  THEN {ins[Len(ins)]} ELSE {}

FunctionOf(ins) == IF ins[1] \in {"DefineFn", "MakeLambda", "DefineMethod"} THEN {ins[Len(ins)]} ELSE {}

SiteOf(ins) ==
  IF ins[1] \in {"PrepareCall", "PrepareCallValue", "PrepareMethodValue", "PrepareMethodNamed",
                 "PrepareMethodPlace", "CallPrepared"}
  THEN {ins[Len(ins)]} ELSE {}

\* The names an instruction, its place or its call site resolves: <<slot, name>>.
NamesOf(ins) ==
  (CASE ins[1] \in {"CompoundAssign", "PrepareMethodNamed"} -> {ins[2]}
     [] ins[1] \in {"AssignPlace", "PrepareMethodPlace"} -> {ins[2].root}
     [] ins[1] = "StringInterp" ->
          {ins[2][i][2] : i \in {j \in DOMAIN ins[2] : ins[2][j][1] = "var"}}
     [] OTHER -> {})
  \cup UNION {{site.targets[i].root : i \in DOMAIN site.targets} : site \in SiteOf(ins)}

SlotsOf(ins) ==
  (CASE ins[1] \in {"LoadLocal", "StoreLocal", "IncLocalInt", "LoadLocalAddInt", "LtLocalInt"} -> {ins[2]}
     [] ins[1] \in {"AddLocals", "LtLocals"} -> {ins[2], ins[3]}
     [] OTHER -> {})
  \cup ({ref[1] : ref \in NamesOf(ins)} \ {0})

-----------------------------------------------------------------------------
(* The checks *)

\* Parameters fill a prefix of the slots and every other slot has a store.
DenseSlots(code, slots, paramSlots) ==
  LET stored == {code[i][2] : i \in {j \in DOMAIN code : code[j][1] = "StoreLocal"}}
  IN Cardinality(ToSet(paramSlots) \cup stored) = slots

\* One slot for each name of a parameter list, and only the last is `rest'.
ValidParams(f) ==
  /\ Len(f.paramSlots) = Len(f.params)
  /\ \A i, j \in DOMAIN f.params :
       /\ (f.params[i].name = f.params[j].name) = (f.paramSlots[i] = f.paramSlots[j])
       /\ f.paramSlots[i] \in 1..f.slots
  /\ \A i \in DOMAIN f.params : f.params[i].mode = "rest" => i = Len(f.params)

\* No two `ref' targets of a call start at the same slot.
ValidSite(site) ==
  \A i, j \in DOMAIN site.targets :
    i # j /\ site.targets[i].root[1] # 0 => site.targets[i].root[1] # site.targets[j].root[1]

ValidInstruction(ins, code, slots, script) ==
  /\ TargetOf(ins) \subseteq DOMAIN code
  /\ SlotsOf(ins) \subseteq 1..slots
  /\ \A site \in SiteOf(ins) : ValidSite(site)
  /\ FunctionOf(ins) \subseteq DOMAIN script.fns
  /\ \A id \in FunctionOf(ins) : \A c \in ToSet(script.fns[id].captures) : c[1] \in 0..slots

ValidCode(code, slots, paramSlots, script) ==
  /\ DenseSlots(code, slots, paramSlots)
  /\ \A i \in DOMAIN code : ValidInstruction(code[i], code, slots, script)

\* validate_chunk: the chunk of the program and those nested in it.
ValidateChunk(script) ==
  /\ ValidCode(script.code, 0, <<>>, script)
  /\ \A i \in DOMAIN script.fns :
       LET f == script.fns[i]
       IN ValidParams(f) /\ ValidCode(f.code, f.slots, f.paramSlots, script)

\* CompiledScript::compile.
CompiledScript(stmts) ==
  LET script == CompileProgram(stmts)
  IN [code |-> script.code, fns |-> script.fns, bad |-> script.bad,
      valid |-> script.bad = "" /\ ValidateChunk(script)]
=============================================================================
