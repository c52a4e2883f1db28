------------------------------ MODULE PureValues ------------------------------
(***************************************************************************)
(* What a program may rely on about arrays: they are values.  A variable   *)
(* holds a scalar or a tree of arrays; an operation gives one variable a   *)
(* new value computed from the present ones, and no other variable can     *)
(* tell (docs/content/docs/basics/variables.md, "programs observe the same *)
(* independent values").  There is no sharing, no owner and no account.    *)
(***************************************************************************)
EXTENDS Integers, Sequences, SequencesExt

CONSTANTS Var,      \* the variables of all instances and of the host
          Scalar,   \* values that are not arrays
          MaxItems  \* bound on array literals, for TLC

VARIABLE env        \* env[v]: a scalar, or a sequence of such values

IsArray(x) == x \notin Scalar

Init == env \in [Var -> Scalar]

Bind(v, x) == env' = [env EXCEPT ![v] = x]

\* The values an expression can have without building an array.
Known == Scalar \cup {env[w] : w \in Var}

Read(v, w, i) ==
  /\ IsArray(env[w])
  /\ i \in DOMAIN env[w]
  /\ Bind(v, env[w][i])

Insert(v, i, x) ==
  /\ IsArray(env[v])
  /\ i \in 1..(Len(env[v]) + 1)
  /\ Bind(v, InsertAt(env[v], i, x))

RemoveItem(v, i) ==
  /\ IsArray(env[v])
  /\ i \in DOMAIN env[v]
  /\ Bind(v, RemoveAt(env[v], i))

\* `let w = v.remove(i)`
RemoveInto(v, i, w) ==
  /\ IsArray(env[v])
  /\ i \in DOMAIN env[v]
  /\ env' = [env EXCEPT ![v] = RemoveAt(@, i), ![w] = env[v][i]]

Truncate(v, n) ==
  /\ IsArray(env[v])
  /\ n \in 0..Len(env[v])
  /\ Bind(v, SubSeq(env[v], 1, n))

Turn(v) == IsArray(env[v]) /\ Bind(v, Reverse(env[v]))

Write(v, i, x) ==
  /\ IsArray(env[v])
  /\ i \in DOMAIN env[v]
  /\ Bind(v, [env[v] EXCEPT ![i] = x])

WriteInner(v, i, x) ==
  /\ IsArray(env[v])
  /\ i \in DOMAIN env[v]
  /\ IsArray(env[v][i])
  /\ \E j \in DOMAIN env[v][i] : Bind(v, [env[v] EXCEPT ![i][j] = x])

Next ==
  \E v \in Var :
     \/ \E x \in Known : Bind(v, x)
     \/ \E n \in 0..MaxItems : \E xs \in [1..n -> Known] : Bind(v, xs)
     \/ \E w \in Var :
          IsArray(env[w]) /\ \E i \in DOMAIN env[w] : Read(v, w, i)
     \/ Turn(v)
     \/ /\ IsArray(env[v])
        /\ \E i \in 0..Len(env[v]) :
             \/ RemoveItem(v, i)
             \/ Truncate(v, i)
             \/ \E w \in Var : RemoveInto(v, i, w)
             \/ \E x \in Known :
                  Insert(v, i + 1, x) \/ Write(v, i, x) \/ WriteInner(v, i, x)

Spec == Init /\ [][Next]_env
================================================================================
