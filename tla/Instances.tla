------------------------------- MODULE Instances -------------------------------
(***************************************************************************)
(* Persistent instances and the host that calls them                       *)
(* (nybl/src/instance.rs, ReplSession in nybl/src/evaluator.rs,            *)
(* NyblInstance in nybl-vm/src/vm.rs).                                     *)
(*                                                                         *)
(* An instance runs its top level once, when it is loaded, and then serves *)
(* calls: of a public function by name, of a prepared entry, of a batch of *)
(* argument lists, of a function value.  Each operation borrows a host,    *)
(* which may call other instances in the middle of it; calls of the        *)
(* instance itself are refused.  An operation ends with a value or an      *)
(* error; what it did to the globals stays, what it opened is closed.      *)
(*                                                                         *)
(* A program is abstracted to the statements that matter to an instance:   *)
(* they change a global, take or release memory, call, ask the host, fail, *)
(* return.  `Engine' says who executes them: the tree-walker, the VM, or a *)
(* walker session as the REPL drives it, which has no guard, no account    *)
(* across inputs and no entries.  Memory is counted in values.             *)
(***************************************************************************)
EXTENDS Sums

CONSTANTS Instance,      \* the instances of the embedder
          Engine,        \* [Instance -> {"walker", "vm", "session"}]
          Top,           \* the top level of each instance's program
          Code,          \* the statements of every top level, function and input
          Entries,       \* the functions of the program
          Inputs,        \* what is typed at a session
          MaxSteps,      \* NyblLimits::max_steps
          MaxMemory,     \* NyblLimits::max_memory
          MaxCallDepth,  \* MAX_CALL_DEPTH
          MemoryCadence, \* TICK_MEMCHECK_MASK + 1
          MaxBatch,      \* bound on the argument lists of a batch, for TLC
          MaxRequests    \* bound on the operations the host begins, for TLC

ASSUME EngineAssumption == Engine \in [Instance -> {"walker", "vm", "session"}]
ASSUME LimitAssumption ==
  /\ {MaxSteps, MaxMemory, MaxCallDepth, MaxBatch, MaxRequests} \subseteq Nat
  /\ MemoryCadence \in Nat \ {0}

Statement ==
  [do : {"bump", "keep", "drop", "local", "block", "again", "recurse", "host", "panic"}]
    \cup [do : {"declare"}, name : Entries, public : BOOLEAN]
    \cup [do : {"return"}, units : Nat]

\* A function ends by a return (of nothing, if its text has none) or goes round for
\* ever.  What it declares is not an entry, and only a function can call itself.
ASSUME CodeAssumption ==
  /\ Code \in [DOMAIN Code -> Seq(Statement)]
  /\ Top \in [Instance -> DOMAIN Code] /\ Inputs \cup Entries \subseteq DOMAIN Code
  /\ \A u \in Entries :
       /\ Code[u] # <<>> /\ Last(Code[u]).do \in {"return", "again"}
       /\ \A k \in DOMAIN Code[u] : Code[u][k].do # "declare"
  /\ \A u \in Inputs \cup Range(Top) :
       \A k \in DOMAIN Code[u] : Code[u][k].do # "recurse"

VARIABLES inst,     \* the engine state that each instance retains
          ops,      \* the operations in progress, the innermost last
          held,     \* values of each instance that the host holds
          answer,   \* how the last operation ended, or was refused
          requests  \* operations begun

vars == <<inst, ops, held, answer, requests>>

Errors == {"steps", "memory", "depth", "panic", "arity"}
Refusals == {"busy", "foreign", "missing", "arity", "memory"}

Frame(unit) == [unit |-> unit, pc |-> 1, locals |-> 0, blocks |-> 0]

\* VmState, ReplSession
Fresh(unit) == [loaded |-> FALSE, running |-> FALSE, status |-> "rest", steps |-> 0,
                total |-> 0, kept |-> 0, value |-> 0, abi |-> <<>>, frames |-> <<Frame(unit)>>]

\* An operation: its kind, the entry, the argument lists still to do (TRUE if their
\* number fits), the values of the finished ones; start and replies say how the
\* current one began and what the host answered it.
Operation(r) ==
  [inst |-> r.inst, kind |-> r.kind, unit |-> r.unit, left |-> r.args, values |-> 0,
   start |-> [total |-> 0, kept |-> 0, other |-> 0], replies |-> <<>>, freed |-> 0]

-------------------------------------------------------------------------------
(* The engines: one tick and one statement of the state s.  `other' is what *)
(* the account carries outside of s.                                        *)

Locals(s) == Total([n \in DOMAIN s.frames |-> s.frames[n].locals], DOMAIN s.frames)

\* MemoryAccount::__exceeded
Exceeds(s, other) == s.kept + Locals(s) + s.value + other > MaxMemory

InFrame(s, f) == [s EXCEPT !.frames = Append(Front(@), f)]

\* Mutant: the depth is looked at after the call.
EnteredFirst(s, unit) ==
  IF Len(s.frames) - 1 > MaxCallDepth THEN [s EXCEPT !.status = "depth"]
  ELSE [s EXCEPT !.frames = Append(@, Frame(unit))]

\* Evaluator::call_nybl_fn, Vm::enter_user_fn_args
Entered(s, unit) ==
  IF Len(s.frames) - 1 >= MaxCallDepth THEN [s EXCEPT !.status = "depth"]
  ELSE [s EXCEPT !.frames = Append(@, Frame(unit))]

\* Mutant: a private declaration leaves the earlier public one.
DeclaredOver(abi, name, public) ==
  IF public THEN Append(RemoveFirst(abi, name), name) ELSE abi

\* The ABI keeps the last declaration of a name, if it is public; it has none twice.
Declared(abi, name, public) ==
  IF public THEN Append(RemoveFirst(abi, name), name) ELSE RemoveFirst(abi, name)

\* Vm::do_return at top level: nothing of the program is left to run.
ReturnedTop(s) ==
  LET f == Last(s.frames)
  IN InFrame(s, [f EXCEPT !.pc = Len(Code[f.unit]) + 1, !.blocks = 0])

\* A function returns `units' of new storage.  The walker's call is over when it
\* is back at the bottom; the VM goes on in the root frame.
Returned(e, s, units, other) ==
  LET t == [s EXCEPT !.value = units]
  IN IF Exceeds(t, other) THEN [s EXCEPT !.status = "memory"]
     ELSE IF Len(s.frames) = 1 THEN ReturnedTop(s)
     ELSE IF Len(s.frames) = 2
       THEN [t EXCEPT !.frames = Front(@), !.status = IF e = "vm" THEN "run" ELSE "returned"]
     ELSE [s EXCEPT !.frames = Front(@)]

Performed(e, s, op, other) ==
  LET f == Last(s.frames)
  IN CASE op.do = "bump"    -> [s EXCEPT !.total = @ + 1]
       [] op.do = "keep"    -> [s EXCEPT !.kept = @ + 1]
       [] op.do = "drop"    -> [s EXCEPT !.kept = 0]
       [] op.do = "local"   -> InFrame(s, [f EXCEPT !.locals = @ + 1])
       [] op.do = "block"   -> InFrame(s, [f EXCEPT !.blocks = @ + 1])
       [] op.do = "again"   -> InFrame(s, [f EXCEPT !.pc = 1])
       [] op.do = "recurse" -> Entered(s, f.unit)
       [] op.do = "host"    -> [s EXCEPT !.status = "host"]
       [] op.do = "panic"   -> [s EXCEPT !.status = "panic"]
       [] op.do = "declare" -> [s EXCEPT !.abi = Declared(@, op.name, op.public)]
       [] op.do = "return"  -> Returned(e, s, op.units, other)

\* The walker looks at the account at every tick, the VM at some.
LooksAtMemory(e, s) == e # "vm" \/ s.steps % MemoryCadence = 0

\* Mutant: a tick that does not count.
CountedNot(s) == s

Counted(s) == [s EXCEPT !.steps = @ + 1]

\* tick, then the statement
Executed(e, s, other) ==
  LET f == Last(s.frames)
      t == InFrame(Counted(s), [f EXCEPT !.pc = @ + 1])
  IN IF f.pc > Len(Code[f.unit]) THEN [s EXCEPT !.status = "returned"]
     ELSE IF t.steps > MaxSteps THEN [t EXCEPT !.status = "steps"]
     ELSE IF LooksAtMemory(e, t) /\ Exceeds(t, other) THEN [t EXCEPT !.status = "memory"]
     ELSE Performed(e, t, Code[f.unit][f.pc], other)

-------------------------------------------------------------------------------
(* Operations *)

Current == Last(ops)
\* Mutant: the values that a batch has collected are forgotten.
ValuesHeld(i) == held[i]

Collected(i) == [n \in DOMAIN ops |-> IF ops[n].inst = i THEN ops[n].values ELSE 0]
Values(i) == held[i] + Total(Collected(i), DOMAIN ops)

\* The embedder acts, or the host that an operation is waiting for.
HostsTurn == ops # <<>> => inst[Current.inst].status = "host"

Executing(i) == ops # <<>> /\ Current.inst = i

\* restore_instance_baseline: the bottom frame alone, with nothing open in it.
Bottom(s) == <<[Head(s.frames) EXCEPT !.locals = 0, !.blocks = 0]>>

\* Mutant: only a call that succeeded is cleaned up after.
BaselineIfOk(s) ==
  [s EXCEPT !.frames = IF s.status \in Errors THEN @ ELSE Bottom(s), !.value = 0, !.status = "rest"]

\* What is left of a state when an operation, or a call of a batch, has ended:
\* put_evaluator, and its twin in the VM.
Baseline(s) == [s EXCEPT !.frames = Bottom(s), !.value = 0, !.status = "rest"]

\* OperationGuard
Guarded(s) == [s EXCEPT !.running = TRUE]
Released(s) == [s EXCEPT !.running = FALSE]

\* What a host can ask of an instance: a function by its name, ...
Request(i, kind, unit, owner, args) ==
  [inst |-> i, kind |-> kind, unit |-> unit, owner |-> owner, args |-> args]

OneList == [1..1 -> BOOLEAN]
ArgLists == UNION {[1..n -> BOOLEAN] : n \in 1..MaxBatch}
Loaded == {j \in Instance : inst[j].loaded}

CallRequests(i) == {Request(i, "call", u, i, args) : u \in Entries, args \in OneList}

\* ... an entry that it or another instance has prepared, once or for several
\* argument lists, ...
Prepared(i) ==
  UNION {{<<u, j>> : u \in Range(inst[j].abi)} : j \in {k \in Loaded : Engine[k] = Engine[i]}}

PreparedRequests(i) ==
  {Request(i, "prepared", e[1], e[2], args) : e \in Prepared(i), args \in OneList}

BatchRequests(i) ==
  {Request(i, "batch", e[1], e[2], args) : e \in Prepared(i), args \in ArgLists}

\* ... or a function value that it or another instance has made.
ValueRequests(i) ==
  {Request(i, "value", u, j, args) : u \in Entries, j \in Loaded, args \in OneList}

Requests(i) ==
  IF i \notin Loaded \/ Engine[i] = "session" THEN {}
  ELSE CallRequests(i) \cup PreparedRequests(i) \cup BatchRequests(i) \cup ValueRequests(i)

Busy(r) == inst[r.inst].running
\* validate_prepared_entry, NyblFn::__is_allowed_by
Foreign(r) == r.kind # "call" /\ r.owner # r.inst
NotFound(r) == r.kind = "call" /\ r.unit \notin Range(inst[r.inst].abi)
\* A batch looks at the number of arguments when it comes to them.
BadArity(r) == r.kind # "batch" /\ ~Head(r.args)

\* Mutant: the limit is left to the engine.
RefusalUnlimited(r) ==
  CASE Busy(r) -> "busy"
    [] Foreign(r) -> "foreign"
    [] NotFound(r) -> "missing"
    [] BadArity(r) -> "arity"
    [] OTHER -> "none"

\* The checks of call, call_prepared, call_batch and call_value, in their order.
Refusal(r) ==
  CASE Busy(r) -> "busy"
    [] Foreign(r) -> "foreign"
    [] NotFound(r) -> "missing"
    [] BadArity(r) -> "arity"
    [] Exceeds(inst[r.inst], Values(r.inst)) -> "memory"
    [] OTHER -> "none"

Push(o, s) ==
  /\ ops' = Append(ops, o)
  /\ inst' = [inst EXCEPT ![o.inst] = s]
  /\ answer' = "none"
  /\ requests' = requests + 1
  /\ UNCHANGED held

\* load, from_compiled
Load(i) ==
  /\ HostsTurn /\ requests < MaxRequests
  /\ Engine[i] # "session" /\ ~inst[i].loaded /\ ~\E o \in Range(ops) : o.inst = i
  /\ Push(Operation([inst |-> i, kind |-> "load", unit |-> Top[i], args |-> <<>>]),
          [inst[i] EXCEPT !.status = "run"])

\* ReplSession::eval.  Its borrow of the session, not a flag, keeps it to one.
Eval(i, input) ==
  /\ HostsTurn /\ requests < MaxRequests
  /\ Engine[i] = "session" /\ ~\E o \in Range(ops) : o.inst = i
  /\ LET begun == [inst[i] EXCEPT !.status = "run", !.steps = 0]
     IN Push([Operation([inst |-> i, kind |-> "eval", unit |-> input, args |-> <<>>])
                EXCEPT !.start = [total |-> begun.total, kept |-> 0, other |-> 0]],
             InFrame(begun, [Last(begun.frames) EXCEPT !.unit = input, !.pc = 1]))

Begin(r) ==
  /\ HostsTurn /\ requests < MaxRequests
  /\ Refusal(r) = "none"
  /\ Push(Operation(r), [Guarded(inst[r.inst]) EXCEPT !.status = "next"])

\* Mutant: the guard of the refused operation is dropped as well.
RefuseReleasing(r) ==
  /\ HostsTurn /\ requests < MaxRequests
  /\ Refusal(r) # "none"
  /\ answer' = Refusal(r)
  /\ requests' = requests + 1
  /\ inst' = [inst EXCEPT ![r.inst].running = FALSE]
  /\ UNCHANGED <<ops, held>>

\* A refused operation has not begun: the flag stays with the operation it belongs to.
Refuse(r) ==
  /\ HostsTurn /\ requests < MaxRequests
  /\ Refusal(r) # "none"
  /\ answer' = Refusal(r)
  /\ requests' = requests + 1
  /\ UNCHANGED <<inst, ops, held>>

\* The operation ends and the host has its answer; with "value" also `units' of
\* storage that the instance goes on paying for.
End(i, s, ans, units) ==
  /\ ops' = Front(ops)
  /\ inst' = [inst EXCEPT ![i] = s]
  /\ held' = [held EXCEPT ![i] = @ + units]
  /\ answer' = ans
  /\ UNCHANGED requests

\* An error ends the operation.  The walker has dropped the values of a batch when
\* it looks at the account, the VM has not.
Fails(i, why) ==
  LET back == Released(Baseline(inst[i]))
  IN End(i, IF Current.kind = "load" THEN Fresh(Top[i]) ELSE back,
         IF Exceeds(back, IF Engine[i] = "vm" THEN Values(i) ELSE held[i]) THEN "memory" ELSE why, 0)

\* A call that returned adds a value to its batch.
Collect(i) ==
  /\ ops' = [ops EXCEPT ![Len(ops)] = [Current EXCEPT !.values = @ + inst[i].value]]
  /\ inst' = [inst EXCEPT ![i] = [Baseline(@) EXCEPT !.status = "next"]]
  /\ UNCHANGED <<held, answer, requests>>

\* Mutant: one budget for the whole batch.
StartCallGoingOn(i) ==
  /\ Executing(i) /\ inst[i].status = "next" /\ Current.left # <<>>
  /\ IF Head(Current.left)
     THEN /\ inst' = [inst EXCEPT ![i] = Entered([@ EXCEPT !.status = "run"], Current.unit)]
          /\ ops' = [ops EXCEPT ![Len(ops)] =
                       [Current EXCEPT !.left = Tail(@), !.replies = <<>>, !.freed = 0,
                                       !.start = [total |-> inst[i].total, kept |-> inst[i].kept,
                                                  other |-> Values(i)]]]
          /\ UNCHANGED <<held, answer, requests>>
     ELSE Fails(i, "arity")

\* The next call begins: steps and depth start from nothing.
StartCall(i) ==
  /\ Executing(i) /\ inst[i].status = "next" /\ Current.left # <<>>
  /\ IF Head(Current.left)
     THEN /\ inst' = [inst EXCEPT ![i] = Entered([@ EXCEPT !.status = "run", !.steps = 0], Current.unit)]
          /\ ops' = [ops EXCEPT ![Len(ops)] =
                       [Current EXCEPT !.left = Tail(@), !.replies = <<>>, !.freed = 0,
                                       !.start = [total |-> inst[i].total, kept |-> inst[i].kept,
                                                  other |-> Values(i)]]]
          /\ UNCHANGED <<held, answer, requests>>
     ELSE Fails(i, "arity")

Execute(i) ==
  /\ Executing(i) /\ inst[i].status = "run"
  /\ inst' = [inst EXCEPT ![i] = Executed(Engine[i], @, Values(i))]
  /\ UNCHANGED <<ops, held, answer, requests>>

\* An error leaves the call.
Unwind(i) ==
  /\ Executing(i) /\ inst[i].status \in Errors
  /\ Fails(i, inst[i].status)

\* A call has returned: it is checked against the limit once more.  The VM does so
\* for every call of a batch, the walker when the batch is done.
Return(i) ==
  /\ Executing(i) /\ inst[i].status = "returned"
  /\ LET rest == [Baseline(inst[i]) EXCEPT !.value = inst[i].value]
     IN IF Exceeds(rest, Values(i)) /\ (Current.kind # "batch" \/ Engine[i] = "vm")
        THEN Fails(i, "memory")
        ELSE IF Current.kind = "batch" THEN Collect(i)
        ELSE End(i, [Released(Baseline(inst[i])) EXCEPT !.loaded = TRUE], "value", inst[i].value)

FinishBatch(i) ==
  /\ Executing(i) /\ inst[i].status = "next" /\ Current.left = <<>>
  /\ IF Exceeds(inst[i], Values(i)) THEN Fails(i, "memory")
     ELSE End(i, Released(Baseline(inst[i])), "value", Current.values)

-------------------------------------------------------------------------------
(* The host *)

\* The callback returns to the operation that waits for it.
Reply(fails) ==
  /\ ops # <<>> /\ HostsTurn
  /\ inst' = [inst EXCEPT ![Current.inst].status = IF fails THEN "panic" ELSE "run"]
  /\ ops' = [ops EXCEPT ![Len(ops)] =
               [Current EXCEPT !.replies = Append(@, [fails |-> fails, freed |-> Current.freed]),
                               !.freed = 0]]
  /\ answer' = "none"
  /\ UNCHANGED <<held, requests>>

\* A value goes, and with it what its instance paid.
DropValue(i) ==
  /\ HostsTurn /\ held[i] > 0
  /\ held' = [held EXCEPT ![i] = @ - 1]
  /\ ops' = [n \in DOMAIN ops |-> IF ops[n].inst = i THEN [ops[n] EXCEPT !.freed = @ + 1] ELSE ops[n]]
  /\ answer' = "none"
  /\ UNCHANGED <<inst, requests>>

-------------------------------------------------------------------------------

Init ==
  /\ inst = [i \in Instance |-> [Fresh(Top[i]) EXCEPT !.loaded = Engine[i] = "session"]]
  /\ ops = <<>>
  /\ held = [i \in Instance |-> 0]
  /\ answer = "none"
  /\ requests = 0

\* What the engine of i does without the host.
Step(i) == StartCall(i) \/ Execute(i) \/ Unwind(i) \/ Return(i) \/ FinishBatch(i)

Next ==
  \/ \E i \in Instance : Load(i) \/ DropValue(i) \/ Step(i)
  \/ \E i \in Instance, input \in Inputs : Eval(i, input)
  \/ \E i \in Instance : \E r \in Requests(i) : Begin(r) \/ Refuse(r)
  \/ \E fails \in BOOLEAN : Reply(fails)

\* Engines run until they stop; a host function returns in the end, whatever it
\* does before that.
Fairness ==
  /\ \A i \in Instance : WF_vars(Step(i))
  /\ SF_vars(\E fails \in BOOLEAN : Reply(fails))

Spec == Init /\ [][Next]_vars /\ Fairness

-------------------------------------------------------------------------------
(* Properties *)

Frames ==
  UNION {[unit : {u}, pc : 1..Len(Code[u]) + 1, locals : 0..MaxSteps, blocks : 0..MaxSteps] :
         u \in DOMAIN Code}

\* The states are well formed; an instance never runs beyond its budget of steps or
\* opens more frames than its depth allows, whichever call of a batch it is in.
TypeOK ==
  /\ \A i \in Instance :
       /\ inst[i].status \in {"rest", "next", "run", "host", "returned"} \cup Errors
       /\ inst[i].steps \in 0..MaxSteps + 1
       /\ Range(inst[i].frames) \subseteq Frames /\ Len(inst[i].frames) \in 1..MaxCallDepth + 1
       /\ IsInjective(inst[i].abi) /\ Range(inst[i].abi) \subseteq Entries
       /\ held[i] \in Nat
  /\ answer \in {"none", "value"} \cup Errors \cup Refusals
  /\ requests \in 0..MaxRequests

Guarding == {"call", "prepared", "batch", "value"}

\* The flag of an instance is up exactly while one of its operations is in progress,
\* through refused re-entries, nested operations of other instances and errors; and
\* there is never a second operation of the same instance.
GuardExact ==
  \A i \in Instance :
    LET own == {n \in DOMAIN ops : ops[n].inst = i}
    IN /\ Cardinality(own) <= 1
       /\ inst[i].running <=> \E n \in own : ops[n].kind \in Guarding

\* Between operations nothing of an abandoned call is left in an instance: one frame,
\* no open block, no local, and no statement of the top level that could still run.
AtRest ==
  \A i \in Instance : inst[i].status = "rest" =>
    /\ Len(inst[i].frames) = 1 /\ inst[i].value = 0
    /\ LET f == Head(inst[i].frames)
       IN /\ f.locals = 0 /\ f.blocks = 0
          /\ (inst[i].loaded /\ Engine[i] # "session") => f.pc > Len(Code[f.unit])

\* The last declarations, among the first n statements, that are public.
Public(code, n) ==
  {k \in 1..n : /\ code[k].do = "declare" /\ code[k].public
                /\ \A l \in k + 1..n : code[l].do = "declare" => code[l].name # code[k].name}

\* abi has the names declared at the places at, in their order.
Lists(abi, code, at) ==
  /\ \A m, n \in DOMAIN abi : m < n => at[m] < at[n]
  /\ \A n \in DOMAIN abi : abi[n] = code[at[n]].name

FirstReturn(code) ==
  Min({Len(code)} \cup {k \in DOMAIN code : code[k].do = "return"})

\* The entries of a loaded instance are the functions that are public when its top
\* level ends, in the order of their last declarations.
EntriesAreFinal ==
  \A i \in Instance : (inst[i].loaded /\ Engine[i] # "session") =>
    LET code == Code[Top[i]]
        public == Public(code, FirstReturn(code))
    IN \E at \in [DOMAIN inst[i].abi -> public] :
         Range(at) = public /\ Lists(inst[i].abi, code, at)

\* A host is given values only of an instance that is within its limit with them, be
\* it at the end of a call or of a batch.
ValuesFit ==
  [][\A i \in Instance :
       held'[i] > held[i] => inst'[i].kept + held'[i] <= MaxMemory]_vars

\* No call begins to execute, alone or in a batch, in an instance that is over its
\* limit.
FailFast ==
  [][\A i \in Instance :
       (inst[i].status = "next" /\ inst'[i].status = "run") =>
         ~Exceeds(inst[i], Values(i))]_vars

\* Every operation ends: loops and recursion at their limits, and a batch with them.
OperationsEnd == \A i \in Instance : inst[i].running ~> ~inst[i].running
================================================================================
