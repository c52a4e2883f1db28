----------------------------- MODULE Instances_proof -----------------------------
(* What holds of every instance and every operation, whatever the programs, the   *)
(* host and the limits do.  IInv describes each instance on its own (Good), each  *)
(* operation with the instance it is of (Fits) and how the operations are stacked. *)
EXTENDS Instances, Sums_proof

Statuses == {"rest", "next", "run", "host", "returned"} \cup Errors
Going == {"run", "host"}
Kinds == {"load", "eval"} \cup Guarding

FrameSet == [unit : DOMAIN Code, pc : Nat, locals : Nat, blocks : Nat]
StateSet == [loaded : BOOLEAN, running : BOOLEAN, status : Statuses, steps : Nat, total : Nat,
             kept : Nat, value : Nat, abi : Seq(Entries), frames : Seq(FrameSet)]
OpSet == [inst : Instance, kind : Kinds, unit : DOMAIN Code, left : Seq(BOOLEAN), values : Nat,
          start : [total : Nat, kept : Nat, other : Nat],
          replies : Seq([fails : BOOLEAN, freed : Nat]), freed : Nat]

Typed ==
  /\ inst \in [Instance -> StateSet] /\ ops \in Seq(OpSet) /\ held \in [Instance -> Nat]
  /\ answer \in {"none", "value"} \cup Errors \cup Refusals
  /\ requests \in 0..MaxRequests

-------------------------------------------------------------------------------
(* The state of one instance. *)

\* The frame n of i: at the bottom a top level, above it functions, which never come
\* to their ends while they run.
FrameFits(i, s, n) ==
  LET f == s.frames[n]
  IN /\ f.pc \in 1..Len(Code[f.unit]) + 1
     /\ f.locals <= MaxSteps /\ f.blocks <= MaxSteps
     /\ s.status \in Going => f.locals <= s.steps /\ f.blocks <= s.steps
     /\ IF n > 1 THEN f.unit \in Entries /\ (s.status \in Going => f.pc <= Len(Code[f.unit]))
        ELSE IF Engine[i] = "session" THEN f.unit \in Inputs \cup {Top[i]} ELSE f.unit = Top[i]

Stack(i, s) ==
  /\ Len(s.frames) \in 1..MaxCallDepth + 1
  /\ s.steps <= MaxSteps + 1 /\ (s.status \in Going => s.steps <= MaxSteps)
  /\ \A n \in 1..Len(s.frames) : FrameFits(i, s, n)

\* Nothing of a call is left.
Bare(s) ==
  /\ Len(s.frames) = 1 /\ s.value = 0
  /\ s.frames[1].locals = 0 /\ s.frames[1].blocks = 0

AtEnd(s) == s.frames[1].pc = Len(Code[s.frames[1].unit]) + 1

Listed(abi, code, n) ==
  \E at \in [DOMAIN abi -> Public(code, n)] : Range(at) = Public(code, n) /\ Lists(abi, code, at)

\* A top level that goes round for ever.
Trapped(code, pc) == \E k \in 1..FirstReturn(code) : code[k].do = "again" /\ pc <= k

\* What a top level at pc has declared.
Declares(code, abi, pc) ==
  \/ pc <= FirstReturn(code) /\ Listed(abi, code, pc - 1)
  \/ pc = Len(code) + 1 /\ Listed(abi, code, FirstReturn(code))
  \/ Trapped(code, pc)

Sheds(i, s) ==
  IF s.loaded THEN AtEnd(s) /\ Listed(s.abi, Code[Top[i]], FirstReturn(Code[Top[i]]))
  ELSE /\ s.status = "rest" => s = Fresh(Top[i])
       /\ s.status \in Going \cup {"returned"} => Declares(Code[Top[i]], s.abi, s.frames[1].pc)

Good(i, s) ==
  /\ Stack(i, s)
  /\ IsInjective(s.abi)
  /\ s.status \in {"rest", "next"} => Bare(s)
  /\ IF Engine[i] = "session" THEN s.loaded ELSE Sheds(i, s)

-------------------------------------------------------------------------------
(* An operation in progress and the state of its instance, and what else the     *)
(* account carries.                                                              *)

Opens(o, s) ==
  /\ ~s.running /\ Len(s.frames) = 1 /\ s.value = 0
  /\ s.status # "next" /\ (s.status = "returned" => AtEnd(s))
  /\ IF o.kind = "load" THEN ~s.loaded /\ Engine[o.inst] # "session"
     ELSE Engine[o.inst] = "session"

Calls(o, s, other) ==
  /\ s.running /\ s.loaded /\ Engine[o.inst] # "session" /\ o.unit \in Entries
  /\ s.status = "next" => s.kept + other <= MaxMemory
  /\ Engine[o.inst] = "walker" =>
       /\ s.status \in Going => Len(s.frames) > 1
       /\ s.status = "returned" => s.kept + s.value + other <= MaxMemory

Fits(o, s, other) ==
  /\ s.status # "rest"
  /\ IF o.kind \in Guarding THEN Calls(o, s, other) ELSE Opens(o, s)

IInv ==
  /\ Typed
  /\ \A i \in Instance : Good(i, inst[i])
  /\ \A m, n \in DOMAIN ops : ops[m].inst = ops[n].inst => m = n
  /\ \A n \in DOMAIN ops, i \in Instance : ops[n].inst = i =>
       Fits(ops[n], inst[i], Values(i)) /\ (n < Len(ops) => inst[i].status = "host")
  /\ \A i \in Instance : (\A n \in DOMAIN ops : ops[n].inst # i) =>
       inst[i].status = "rest" /\ ~inst[i].running
-------------------------------------------------------------------------------
(* The declarations of a top level. *)

\* The smallest of a set of numbers.
LEMMA MinIs ==
  ASSUME NEW T \in SUBSET Nat, T # {}
  PROVE  Min(T) \in T /\ \A m \in T : Min(T) <= m
<1>1. PICK n \in T : \A m \in T : n <= m
  BY LeastNumber
<1>2. QED BY <1>1 DEF Min

\* The first return of a top level, or its end.
LEMMA FirstReturnIs ==
  ASSUME NEW code \in Seq(Statement)
  PROVE  /\ FirstReturn(code) \in 0..Len(code)
         /\ FirstReturn(code) = 0 => Len(code) = 0
         /\ \A k \in 1..Len(code) : code[k].do = "return" => FirstReturn(code) <= k
         /\ FirstReturn(code) # Len(code) => code[FirstReturn(code)].do = "return"
         /\ Len(code) \in Nat /\ DOMAIN code = 1..Len(code)
<1> DEFINE T == {Len(code)} \cup {k \in DOMAIN code : code[k].do = "return"}
<1>1. Len(code) \in Nat /\ DOMAIN code = 1..Len(code)
  OBVIOUS
<1>2. T \in SUBSET Nat /\ T # {} /\ \A t \in T : t \in 0..Len(code)
  BY <1>1
<1>3. Min(T) \in T /\ \A m \in T : Min(T) <= m
  BY <1>2, MinIs
<1>4. FirstReturn(code) = Min(T)
  BY DEF FirstReturn
<1>5. QED BY <1>1, <1>2, <1>3, <1>4

\* A list without a name that it may have once.
LEMMA RemoveFirstIs ==
  ASSUME NEW S, NEW s \in Seq(S), NEW e
  PROVE  \/ /\ \A k \in 1..Len(s) : s[k] # e
            /\ RemoveFirst(s, e) = s
         \/ \E k \in 1..Len(s) : s[k] = e /\ RemoveFirst(s, e) = RemoveAt(s, k)
<1>1. CASE \A k \in 1..Len(s) : s[k] # e
  BY <1>1 DEF RemoveFirst
<1>2. CASE \E k \in 1..Len(s) : s[k] = e
  <2> DEFINE I == {k \in 1..Len(s) : s[k] = e}
  <2>1. I \in SUBSET Nat /\ I # {}
    BY <1>2
  <2>2. Min(I) \in I
    BY <2>1, MinIs
  <2>3. SelectInSeq(s, LAMBDA v : v = e) = Min(I)
    BY <2>1 DEF SelectInSeq
  <2>4. RemoveFirst(s, e) = RemoveAt(s, Min(I))
    BY <1>2, <2>3 DEF RemoveFirst
  <2>5. QED BY <2>2, <2>4
<1>3. QED BY <1>1, <1>2

\* A statement that declares nothing leaves what has been declared.
LEMMA PublicSame ==
  ASSUME NEW code \in Seq(Statement), NEW n \in 1..Len(code), code[n].do # "declare"
  PROVE  Public(code, n) = Public(code, n - 1)
<1>1. n \in Nat /\ n >= 1
  OBVIOUS
<1>2. ASSUME NEW k, k \in Public(code, n) PROVE k \in Public(code, n - 1)
  <2>1. k \in 1..n /\ k # n /\ k \in 1..(n - 1)
    BY <1>1, <1>2 DEF Public
  <2>2. \A l \in k + 1..n - 1 : l \in k + 1..n
    BY <1>1, <2>1
  <2>3. QED BY <1>2, <2>1, <2>2 DEF Public
<1>3. ASSUME NEW k, k \in Public(code, n - 1) PROVE k \in Public(code, n)
  <2>1. k \in 1..(n - 1) /\ k \in 1..n
    BY <1>1, <1>3 DEF Public
  <2>2. \A l \in k + 1..n : l \in k + 1..n - 1 \/ l = n
    BY <1>1, <2>1
  <2>3. QED BY <1>3, <2>1, <2>2 DEF Public
<1>4. QED BY <1>2, <1>3

\* A declaration takes the place of an earlier one of the same name.
LEMMA PublicNext ==
  ASSUME NEW code \in Seq(Statement), NEW n \in 1..Len(code), code[n].do = "declare"
  PROVE  Public(code, n) = {k \in Public(code, n - 1) : code[k].name # code[n].name}
                             \cup (IF code[n].public THEN {n} ELSE {})
<1> DEFINE P == {k \in Public(code, n - 1) : code[k].name # code[n].name}
                  \cup (IF code[n].public THEN {n} ELSE {})
<1>1. n \in Nat /\ n >= 1
  OBVIOUS
<1>2. ASSUME NEW k, k \in Public(code, n) PROVE k \in P
  <2>1. k \in 1..n
    BY <1>2 DEF Public
  <2>2. CASE k = n
    BY <1>2, <2>2 DEF Public
  <2>3. CASE k # n
    <3>1. k \in 1..(n - 1) /\ n \in k + 1..n /\ \A l \in k + 1..n - 1 : l \in k + 1..n
      BY <1>1, <2>1, <2>3
    <3>2. QED BY <1>2, <3>1 DEF Public
  <2>4. QED BY <2>2, <2>3
<1>3. ASSUME NEW k, k \in P PROVE k \in Public(code, n)
  <2>1. CASE k \in Public(code, n - 1) /\ code[k].name # code[n].name
    <3>1. k \in 1..(n - 1) /\ k \in 1..n
      BY <1>1, <2>1 DEF Public
    <3>2. \A l \in k + 1..n : l \in k + 1..n - 1 \/ l = n
      BY <1>1, <3>1
    <3>3. QED BY <2>1, <3>1, <3>2 DEF Public
  <2>2. CASE k = n /\ code[n].public
    <3>1. n + 1..n = {}
      BY <1>1
    <3>2. QED BY <1>1, <2>2, <3>1 DEF Public
  <2>3. QED BY <1>3, <2>1, <2>2
<1>4. QED BY <1>2, <1>3

\* Two places whose last declarations count declare different names.
LEMMA PublicNames ==
  ASSUME NEW code, NEW n \in Nat, NEW j \in Public(code, n), NEW k \in Public(code, n),
         code[j].name = code[k].name
  PROVE  j = k
<1>1. j \in 1..n /\ k \in 1..n
  BY DEF Public
<1>2. CASE j < k
  <2>1. k \in j + 1..n
    BY <1>1, <1>2
  <2>2. QED BY <2>1 DEF Public
<1>3. CASE k < j
  <2>1. j \in k + 1..n
    BY <1>1, <1>3
  <2>2. QED BY <2>1 DEF Public
<1>4. QED BY <1>1, <1>2, <1>3

\* A list without the place of x is a list of the places of the other names.
LEMMA ListWithout ==
  ASSUME NEW code, NEW n \in Nat, NEW abi \in Seq(Entries), NEW x,
         Listed(abi, code, n)
  PROVE  LET r == RemoveFirst(abi, x)
             Q == {k \in Public(code, n) : code[k].name # x}
         IN /\ r \in Seq(Entries)
            /\ \E bt \in [DOMAIN r -> Q] : Range(bt) = Q /\ Lists(r, code, bt)
<1> DEFINE r == RemoveFirst(abi, x)
           P == Public(code, n)
           Q == {k \in P : code[k].name # x}
<1>1. PICK at \in [DOMAIN abi -> P] : Range(at) = P /\ Lists(abi, code, at)
  BY DEF Listed
<1>2. Len(abi) \in Nat /\ DOMAIN abi = 1..Len(abi)
  OBVIOUS
<1>3. \A k \in P : k \in Nat
  BY DEF Public
<1>4. /\ \A k, m \in 1..Len(abi) : k < m => at[k] < at[m]
      /\ \A k \in 1..Len(abi) : at[k] \in P /\ abi[k] = code[at[k]].name
  BY <1>1, <1>2 DEF Lists
<1>5. \A p \in P : \E k \in 1..Len(abi) : p = at[k]
  BY <1>1, <1>2 DEF Range
<1>6. CASE (\A k \in 1..Len(abi) : abi[k] # x) /\ r = abi
  <2>1. Q = P
    BY <1>4, <1>5, <1>6
  <2>2. QED BY <1>1, <1>6, <2>1
<1>7. ASSUME NEW i \in 1..Len(abi), abi[i] = x, r = RemoveAt(abi, i)
      PROVE  r \in Seq(Entries) /\ \E bt \in [DOMAIN r -> Q] : Range(bt) = Q /\ Lists(r, code, bt)
  <2> DEFINE L == Len(abi) - 1
             bt == [k \in 1..L |-> IF k < i THEN at[k] ELSE at[k + 1]]
  <2>1. /\ r \in Seq(Entries) /\ Len(r) = L
        /\ \A j \in 1..(i - 1) : r[j] = abi[j]
        /\ \A j \in i..L : r[j] = abi[j + 1]
    BY <1>7, RemoveAtIs
  <2>2. L \in Nat /\ DOMAIN r = 1..L
    BY <1>2, <2>1
  <2>3. \A k \in 1..Len(abi) : k # i => abi[k] # x
    <3> SUFFICES ASSUME NEW k \in 1..Len(abi), k # i, abi[k] = x PROVE FALSE
      OBVIOUS
    <3>1. at[k] = at[i]
      BY <1>4, <1>7, PublicNames
    <3>2. k < i \/ i < k
      BY <1>2
    <3>3. at[k] \in Nat /\ at[i] \in Nat
      BY <1>3, <1>4
    <3>4. QED BY <1>4, <3>1, <3>2, <3>3
  <2>4. ASSUME NEW k \in 1..L
        PROVE  bt[k] \in Q /\ r[k] = code[bt[k]].name
    <3>1. CASE k < i
      <4>1. k \in 1..Len(abi) /\ k \in 1..(i - 1) /\ bt[k] = at[k] /\ k # i
        BY <1>2, <2>2, <3>1
      <4>2. QED BY <4>1, <1>4, <2>1, <2>3
    <3>2. CASE ~(k < i)
      <4>1. k + 1 \in 1..Len(abi) /\ k \in i..L /\ bt[k] = at[k + 1] /\ k + 1 # i
        BY <1>2, <2>2, <3>2
      <4>2. QED BY <4>1, <1>4, <2>1, <2>3
    <3>3. QED BY <3>1, <3>2
  <2>5. ASSUME NEW k \in 1..L, NEW m \in 1..L, k < m
        PROVE  bt[k] < bt[m]
    <3> DEFINE kk == IF k < i THEN k ELSE k + 1
               mm == IF m < i THEN m ELSE m + 1
    <3>1. kk \in 1..Len(abi) /\ mm \in 1..Len(abi) /\ kk < mm
      BY <1>2, <2>2, <2>5
    <3>2. bt[k] = at[kk] /\ bt[m] = at[mm]
      OBVIOUS
    <3>3. QED BY <1>4, <3>1, <3>2
  <2>6. ASSUME NEW p \in Q PROVE \E k \in 1..L : p = bt[k]
    <3>1. PICK k \in 1..Len(abi) : p = at[k]
      BY <1>5
    <3>2. k # i
      BY <1>4, <1>7, <3>1
    <3>3. CASE k < i
      <4>1. k \in 1..L /\ bt[k] = at[k]
        BY <1>2, <3>3
      <4>2. QED BY <3>1, <4>1
    <3>4. CASE ~(k < i)
      <4>1. k - 1 \in 1..L /\ bt[k - 1] = at[k]
        BY <1>2, <3>2, <3>4
      <4>2. QED BY <3>1, <4>1
    <3>5. QED BY <3>3, <3>4
  <2>7. bt \in [DOMAIN r -> Q] /\ Range(bt) = Q
    <3>1. bt \in [1..L -> Q]
      BY <2>4
    <3>2. QED BY <2>2, <2>6, <3>1 DEF Range
  <2>8. Lists(r, code, bt)
    BY <2>2, <2>4, <2>5 DEF Lists
  <2>9. QED BY <2>1, <2>7, <2>8
<1>8. QED BY <1>6, <1>7, RemoveFirstIs

\* What a top level has declared after one more declaration.
LEMMA ListedNext ==
  ASSUME NEW code \in Seq(Statement), NEW n \in 1..Len(code), code[n].do = "declare",
         NEW abi \in Seq(Entries), Listed(abi, code, n - 1)
  PROVE  Listed(Declared(abi, code[n].name, code[n].public), code, n)
<1> DEFINE x == code[n].name
           r == RemoveFirst(abi, x)
           Q == {k \in Public(code, n - 1) : code[k].name # x}
           R == Len(r)
<1>1. n \in Nat /\ n >= 1 /\ n - 1 \in Nat /\ code[n] \in Statement
  OBVIOUS
<1>2. x \in Entries /\ code[n].public \in BOOLEAN
  BY <1>1 DEF Statement
<1>3. r \in Seq(Entries) /\ \E bt \in [DOMAIN r -> Q] : Range(bt) = Q /\ Lists(r, code, bt)
  BY <1>1, ListWithout
<1>4. PICK bt \in [DOMAIN r -> Q] : Range(bt) = Q /\ Lists(r, code, bt)
  BY <1>3
<1>5. Public(code, n) = Q \cup (IF code[n].public THEN {n} ELSE {})
  BY PublicNext
<1>6. CASE ~code[n].public
  <2>1. Declared(abi, x, code[n].public) = r /\ Public(code, n) = Q
    BY <1>5, <1>6 DEF Declared
  <2>2. QED BY <1>4, <2>1 DEF Listed
<1>7. CASE code[n].public
  <2> DEFINE a == Append(r, x)
             ct == [k \in 1..R + 1 |-> IF k = R + 1 THEN n ELSE bt[k]]
  <2>1. Declared(abi, x, code[n].public) = a /\ Public(code, n) = Q \cup {n}
    BY <1>5, <1>7 DEF Declared
  <2>2. R \in Nat /\ DOMAIN r = 1..R /\ DOMAIN a = 1..R + 1
    BY <1>2, <1>3
  <2>3. a[R + 1] = x /\ \A k \in 1..R : a[k] = r[k]
    BY <1>2, <1>3
  <2>4. \A k \in 1..R : bt[k] \in Q /\ r[k] = code[bt[k]].name
    BY <1>4, <2>2 DEF Lists
  <2>5. \A k \in Q : k \in 1..n - 1
    BY DEF Public
  <2>6. ASSUME NEW k \in 1..R + 1, NEW m \in 1..R + 1, k < m PROVE ct[k] < ct[m]
    <3>1. k \in 1..R /\ ct[k] = bt[k]
      BY <2>2, <2>6
    <3>2. CASE m = R + 1
      <4>1. bt[k] \in 1..n - 1
        BY <2>4, <2>5, <3>1
      <4>2. ct[m] = n
        BY <3>2
      <4>3. QED BY <1>1, <3>1, <4>1, <4>2
    <3>3. CASE m # R + 1
      <4>1. m \in 1..R /\ ct[m] = bt[m]
        BY <2>2, <3>3
      <4>2. QED BY <1>4, <2>2, <2>6, <3>1, <4>1 DEF Lists
    <3>4. QED BY <3>2, <3>3
  <2>7. ASSUME NEW k \in 1..R + 1 PROVE ct[k] \in Q \cup {n} /\ a[k] = code[ct[k]].name
    <3>0. R \in Nat
      BY <2>2
    <3> HIDE DEF R
    <3>1. k = R + 1 \/ k \in 1..R
      BY <3>0
    <3>2. CASE k = R + 1
      BY <2>3, <3>2
    <3>3. CASE k \in 1..R
      <4>1. ct[k] = bt[k]
        BY <2>2, <3>3
      <4>2. QED BY <2>3, <2>4, <3>3, <4>1
    <3>4. QED BY <3>1, <3>2, <3>3
  <2>8. ASSUME NEW p \in Q \cup {n} PROVE \E k \in 1..R + 1 : p = ct[k]
    <3>1. CASE p = n
      <4>1. R + 1 \in 1..R + 1 /\ ct[R + 1] = n
        BY <2>2
      <4>2. QED BY <3>1, <4>1
    <3>2. CASE p \in Q
      <4>1. PICK k \in 1..R : p = bt[k]
        BY <1>4, <2>2, <3>2 DEF Range
      <4>2. k \in 1..R + 1 /\ ct[k] = bt[k]
        BY <2>2
      <4>3. QED BY <4>1, <4>2
    <3>3. QED BY <3>1, <3>2
  <2>9. ct \in [1..R + 1 -> Q \cup {n}]
    BY <2>7
  <2> HIDE DEF ct
  <2>10. Range(ct) = Q \cup {n}
    BY <2>8, <2>9 DEF Range
  <2>11. Lists(a, code, ct)
    BY <2>2, <2>6, <2>7 DEF Lists
  <2>12. QED BY <2>1, <2>2, <2>9, <2>10, <2>11 DEF Listed
<1>8. QED BY <1>2, <1>6, <1>7

\* A list of declarations has no name twice.
LEMMA DeclaredIs ==
  ASSUME NEW abi \in Seq(Entries), IsInjective(abi), NEW x \in Entries, NEW public \in BOOLEAN
  PROVE  Declared(abi, x, public) \in Seq(Entries) /\ IsInjective(Declared(abi, x, public))
<1> DEFINE r == RemoveFirst(abi, x)
<1>1. Len(abi) \in Nat /\ DOMAIN abi = 1..Len(abi)
  OBVIOUS
<1>2. \A j, k \in 1..Len(abi) : abi[j] = abi[k] => j = k
  BY <1>1 DEF IsInjective
<1>3. r \in Seq(Entries) /\ IsInjective(r) /\ \A k \in 1..Len(r) : r[k] # x
  <2>1. CASE (\A k \in 1..Len(abi) : abi[k] # x) /\ r = abi
    BY <2>1
  <2>2. ASSUME NEW i \in 1..Len(abi), abi[i] = x, r = RemoveAt(abi, i)
        PROVE  r \in Seq(Entries) /\ IsInjective(r) /\ \A k \in 1..Len(r) : r[k] # x
    <3> DEFINE L == Len(abi) - 1
               at(k) == IF k < i THEN k ELSE k + 1
    <3>1. /\ r \in Seq(Entries) /\ Len(r) = L
          /\ \A j \in 1..(i - 1) : r[j] = abi[j]
          /\ \A j \in i..L : r[j] = abi[j + 1]
      BY <2>2, RemoveAtIs
    <3>2. L \in Nat /\ DOMAIN r = 1..L
      BY <1>1, <3>1
    <3>3. \A k \in 1..L : at(k) \in 1..Len(abi) /\ at(k) # i /\ r[k] = abi[at(k)]
      <4> SUFFICES ASSUME NEW k \in 1..L
                   PROVE  at(k) \in 1..Len(abi) /\ at(k) # i /\ r[k] = abi[at(k)]
        OBVIOUS
      <4>1. CASE k < i
        <5>1. k \in 1..(i - 1) /\ k \in 1..Len(abi)
          BY <1>1, <4>1
        <5>2. QED BY <3>1, <4>1, <5>1
      <4>2. CASE ~(k < i)
        <5>1. k \in i..L /\ k + 1 \in 1..Len(abi) /\ k + 1 # i
          BY <1>1, <4>2
        <5>2. QED BY <3>1, <4>2, <5>1
      <4>3. QED BY <4>1, <4>2
    <3>4. \A j, k \in 1..L : at(j) = at(k) => j = k
      BY <3>2
    <3>5. IsInjective(r)
      BY <1>2, <3>2, <3>3, <3>4 DEF IsInjective
    <3>6. \A k \in 1..L : r[k] # x
      BY <1>2, <2>2, <3>3
    <3>7. QED BY <3>1, <3>5, <3>6
  <2>3. QED BY <2>1, <2>2, RemoveFirstIs
<1>4. CASE ~public
  BY <1>3, <1>4 DEF Declared
<1>5. CASE public
  <2> DEFINE a == Append(r, x)
             R == Len(r)
  <2>1. Declared(abi, x, public) = a
    BY <1>5 DEF Declared
  <2>2. /\ R \in Nat /\ a \in Seq(Entries) /\ DOMAIN a = 1..R + 1 /\ DOMAIN r = 1..R
        /\ a[R + 1] = x /\ \A k \in 1..R : a[k] = r[k]
    BY <1>3
  <2>3. ASSUME NEW j \in 1..R + 1, NEW k \in 1..R + 1, a[j] = a[k]
        PROVE  j = k
    <3>1. (j = R + 1 \/ j \in 1..R) /\ (k = R + 1 \/ k \in 1..R)
      BY <2>2
    <3>2. QED BY <1>3, <2>2, <2>3, <3>1 DEF IsInjective
  <2>4. QED BY <2>1, <2>2, <2>3 DEF IsInjective
<1>6. QED BY <1>4, <1>5

\* One statement of a top level, and what it has declared: a declaration ...
LEMMA DeclareNext ==
  ASSUME NEW code \in Seq(Statement), NEW pc \in 1..Len(code), NEW abi \in Seq(Entries),
         Declares(code, abi, pc), code[pc].do = "declare"
  PROVE  Declares(code, Declared(abi, code[pc].name, code[pc].public), pc + 1)
<1> DEFINE fr == FirstReturn(code)
           b == Declared(abi, code[pc].name, code[pc].public)
<1>1. /\ fr \in 0..Len(code) /\ (fr # Len(code) => code[fr].do = "return")
      /\ Len(code) \in Nat /\ pc \in Nat
  BY FirstReturnIs
<1>2. CASE pc <= fr /\ Listed(abi, code, pc - 1)
  <2>1. Listed(b, code, pc)
    BY <1>2, ListedNext
  <2>2. CASE pc = fr
    <3>1. fr = Len(code)
      BY <1>1, <2>2
    <3>2. pc + 1 = Len(code) + 1 /\ Listed(b, code, fr)
      BY <2>1, <2>2, <3>1
    <3>3. QED BY <3>2 DEF Declares
  <2>3. CASE pc # fr
    <3>1. pc + 1 <= fr /\ (pc + 1) - 1 = pc
      BY <1>1, <1>2, <2>3
    <3>2. QED BY <2>1, <3>1 DEF Declares
  <2>4. QED BY <2>2, <2>3
<1>3. CASE Trapped(code, pc)
  <2>1. PICK k \in 1..fr : code[k].do = "again" /\ pc <= k
    BY <1>3 DEF Trapped
  <2>2. k # pc
    BY <2>1
  <2>3. pc + 1 <= k
    BY <1>1, <2>1, <2>2
  <2>4. QED BY <2>1, <2>3 DEF Trapped, Declares
<1>4. pc # Len(code) + 1
  BY <1>1
<1>5. QED BY <1>2, <1>3, <1>4 DEF Declares

\* ... a statement that declares nothing and goes on to the next ...
LEMMA DeclareOn ==
  ASSUME NEW code \in Seq(Statement), NEW pc \in 1..Len(code), NEW abi \in Seq(Entries),
         Declares(code, abi, pc), code[pc].do \notin {"declare", "return", "again"}
  PROVE  Declares(code, abi, pc + 1)
<1> DEFINE fr == FirstReturn(code)
<1>1. /\ fr \in 0..Len(code) /\ (fr # Len(code) => code[fr].do = "return")
      /\ Len(code) \in Nat /\ pc \in Nat
  BY FirstReturnIs
<1>2. CASE pc <= fr /\ Listed(abi, code, pc - 1)
  <2>1. Listed(abi, code, pc)
    BY <1>2, PublicSame DEF Listed
  <2>2. CASE pc = fr
    <3>1. fr = Len(code)
      BY <1>1, <2>2
    <3>2. pc + 1 = Len(code) + 1 /\ Listed(abi, code, fr)
      BY <2>1, <2>2, <3>1
    <3>3. QED BY <3>2 DEF Declares
  <2>3. CASE pc # fr
    <3>1. pc + 1 <= fr /\ (pc + 1) - 1 = pc
      BY <1>1, <1>2, <2>3
    <3>2. QED BY <2>1, <3>1 DEF Declares
  <2>4. QED BY <2>2, <2>3
<1>3. CASE Trapped(code, pc)
  <2>1. PICK k \in 1..fr : code[k].do = "again" /\ pc <= k
    BY <1>3 DEF Trapped
  <2>2. k # pc
    BY <2>1
  <2>3. pc + 1 <= k
    BY <1>1, <2>1, <2>2
  <2>4. QED BY <2>1, <2>3 DEF Trapped, Declares
<1>4. pc # Len(code) + 1
  BY <1>1
<1>5. QED BY <1>2, <1>3, <1>4 DEF Declares

\* ... a return, after which nothing is left to run, ...
LEMMA DeclareReturn ==
  ASSUME NEW code \in Seq(Statement), NEW pc \in 1..Len(code), NEW abi \in Seq(Entries),
         Declares(code, abi, pc), code[pc].do = "return"
  PROVE  Declares(code, abi, Len(code) + 1)
<1> DEFINE fr == FirstReturn(code)
<1>1. fr \in 0..Len(code) /\ fr <= pc /\ Len(code) \in Nat /\ pc \in Nat
  BY FirstReturnIs
<1>2. CASE pc <= fr /\ Listed(abi, code, pc - 1)
  <2>1. Listed(abi, code, pc) /\ pc = fr
    BY <1>1, <1>2, PublicSame DEF Listed
  <2>2. QED BY <2>1 DEF Declares
<1>3. CASE Trapped(code, pc)
  <2>1. PICK k \in 1..fr : code[k].do = "again" /\ pc <= k
    BY <1>3 DEF Trapped
  <2>2. k = pc
    BY <1>1, <2>1
  <2>3. QED BY <2>1, <2>2
<1>4. pc # Len(code) + 1
  BY <1>1
<1>5. QED BY <1>2, <1>3, <1>4 DEF Declares

\* ... or a jump back to the start, which it never leaves again.
LEMMA DeclareAgain ==
  ASSUME NEW code \in Seq(Statement), NEW pc \in 1..Len(code), NEW abi \in Seq(Entries),
         Declares(code, abi, pc), code[pc].do = "again"
  PROVE  Declares(code, abi, 1)
<1> DEFINE fr == FirstReturn(code)
<1>1. fr \in 0..Len(code) /\ Len(code) \in Nat /\ pc \in Nat
  BY FirstReturnIs
<1>2. CASE pc <= fr
  <2>1. pc \in 1..fr /\ 1 <= pc
    BY <1>1, <1>2
  <2>2. QED BY <2>1 DEF Declares, Trapped
<1>3. CASE Trapped(code, pc)
  <2>1. PICK k \in 1..fr : code[k].do = "again" /\ pc <= k
    BY <1>3 DEF Trapped
  <2>2. 1 <= k
    OBVIOUS
  <2>3. QED BY <2>1, <2>2 DEF Trapped, Declares
<1>4. pc # Len(code) + 1
  BY <1>1
<1>5. QED BY <1>2, <1>3, <1>4 DEF Declares

\* At its end a top level has declared its entries.
LEMMA DeclareEnd ==
  ASSUME NEW code \in Seq(Statement), NEW abi, Declares(code, abi, Len(code) + 1)
  PROVE  Listed(abi, code, FirstReturn(code))
<1> DEFINE fr == FirstReturn(code)
<1>1. fr \in 0..Len(code) /\ Len(code) \in Nat
  BY FirstReturnIs
<1>2. ~Trapped(code, Len(code) + 1) /\ ~(Len(code) + 1 <= fr)
  BY <1>1 DEF Trapped
<1>3. QED BY <1>2 DEF Declares

\* At its start it has declared nothing.
LEMMA DeclareStart ==
  ASSUME NEW code \in Seq(Statement)
  PROVE  Declares(code, <<>>, 1)
<1> DEFINE fr == FirstReturn(code)
<1>1. fr \in 0..Len(code) /\ Len(code) \in Nat
  BY FirstReturnIs
<1>2. Public(code, 0) = {}
  BY DEF Public
<1>3. Listed(<<>>, code, 0)
  <2>1. DOMAIN <<>> = {}
    OBVIOUS
  <2>2. <<>> \in [DOMAIN <<>> -> {}] /\ Range(<<>>) = {}
    BY <2>1 DEF Range
  <2>3. Lists(<<>>, code, <<>>)
    BY <2>1 DEF Lists
  <2>4. QED BY <1>2, <2>2, <2>3 DEF Listed
<1>4. CASE fr = 0
  <2>1. Len(code) = 0
    BY <1>4, FirstReturnIs
  <2>2. QED BY <1>3, <1>4, <2>1 DEF Declares
<1>5. CASE fr # 0
  BY <1>1, <1>3, <1>5 DEF Declares
<1>6. QED BY <1>4, <1>5

-------------------------------------------------------------------------------
(* Sequences, and what the account carries. *)

\* A sequence with its last element replaced, without it, or with one more.
LEMMA LastReplaced ==
  ASSUME NEW S, NEW s \in Seq(S), Len(s) >= 1, NEW e \in S
  PROVE  /\ Append(Front(s), e) \in Seq(S) /\ Len(Append(Front(s), e)) = Len(s)
         /\ Append(Front(s), e)[Len(s)] = e
         /\ \A n \in 1..Len(s) : n # Len(s) => Append(Front(s), e)[n] = s[n]
<1> DEFINE L == Len(s)
           f == SubSeq(s, 1, L - 1)
<1>1. L \in Nat /\ L >= 1 /\ 1 \in 1..L + 1 /\ L - 1 \in 1 - 1..L
  OBVIOUS
<1>2. f \in Seq(S) /\ Len(f) = L - 1 /\ \A n \in 1..L - 1 : f[n] = s[n]
  <2>1. /\ f \in Seq(S) /\ Len(f) = L - 1 - 1 + 1
        /\ \A n \in 1..(L - 1 - 1 + 1) : f[n] = s[1 + n - 1]
    BY <1>1, SubSeqIs
  <2>2. \A n \in 1..L - 1 : 1 + n - 1 = n /\ n \in 1..(L - 1 - 1 + 1)
    BY <1>1
  <2>3. QED BY <1>1, <2>1, <2>2
<1> HIDE DEF f
<1>3. Append(f, e) \in Seq(S) /\ Len(Append(f, e)) = L /\ Append(f, e)[L] = e
      /\ \A n \in 1..L : n # L => Append(f, e)[n] = s[n]
  <2>1. Append(f, e) \in Seq(S) /\ Len(Append(f, e)) = L /\ Append(f, e)[L] = e
    BY <1>1, <1>2
  <2>2. ASSUME NEW n \in 1..L, n # L PROVE Append(f, e)[n] = s[n]
    <3>1. n \in 1..L - 1
      BY <1>1, <2>2
    <3>2. Append(f, e)[n] = f[n]
      BY <1>1, <1>2, <3>1
    <3>3. QED BY <1>2, <3>1, <3>2
  <2>3. QED BY <2>1, <2>2
<1>4. Front(s) = f
  BY DEF Front, f
<1>5. QED BY <1>3, <1>4

\* All but the last of a sequence.
LEMMA FrontIs ==
  ASSUME NEW S, NEW s \in Seq(S), Len(s) >= 1
  PROVE  /\ Front(s) \in Seq(S) /\ Len(Front(s)) = Len(s) - 1
         /\ \A n \in 1..Len(s) - 1 : Front(s)[n] = s[n]
<1> DEFINE L == Len(s)
           f == SubSeq(s, 1, L - 1)
<1>1. L \in Nat /\ L >= 1 /\ 1 \in 1..L + 1 /\ L - 1 \in 1 - 1..L
  OBVIOUS
<1>2. /\ f \in Seq(S) /\ Len(f) = L - 1 - 1 + 1
      /\ \A n \in 1..(L - 1 - 1 + 1) : f[n] = s[1 + n - 1]
  BY <1>1, SubSeqIs
<1>3. \A n \in 1..L - 1 : 1 + n - 1 = n /\ n \in 1..(L - 1 - 1 + 1)
  BY <1>1
<1>4. QED BY <1>1, <1>2, <1>3 DEF Front

\* A sequence and one more.
LEMMA AppendIs ==
  ASSUME NEW S, NEW s \in Seq(S), NEW e \in S
  PROVE  /\ Append(s, e) \in Seq(S) /\ Len(Append(s, e)) = Len(s) + 1
         /\ Append(s, e)[Len(s) + 1] = e
         /\ \A n \in 1..Len(s) : Append(s, e)[n] = s[n]
OBVIOUS

\* What the account carries for a state that has nothing open.
LEMMA LocalsAre ==
  ASSUME NEW s, s.frames \in Seq(FrameSet)
  PROVE  /\ Locals(s) \in Nat
         /\ (\A n \in 1..Len(s.frames) : s.frames[n].locals = 0) => Locals(s) = 0
<1> DEFINE D == 1..Len(s.frames)
           g == [n \in DOMAIN s.frames |-> s.frames[n].locals]
<1>1. DOMAIN s.frames = D /\ IsFiniteSet(D)
  <2>1. Len(s.frames) \in Nat /\ DOMAIN s.frames = D
    OBVIOUS
  <2>2. QED BY <2>1, FS_Interval
<1>2. \A n \in D : g[n] = s.frames[n].locals /\ g[n] \in Nat
  <2>1. \A n \in D : s.frames[n] \in FrameSet
    OBVIOUS
  <2>2. \A n \in D : s.frames[n].locals \in Nat
    BY <2>1 DEF FrameSet
  <2>3. QED BY <1>1, <2>2
<1>3. IsCount(g, D)
  BY <1>2 DEF IsCount
<1>4. Locals(s) = Total(g, D)
  BY <1>1 DEF Locals
<1>5. Total(g, D) \in Nat /\ (Total(g, D) = 0 <=> \A n \in D : g[n] = 0)
  BY <1>1, <1>3, TotalZero
<1> HIDE DEF g
<1>6. QED BY <1>2, <1>4, <1>5

\* A state that has nothing open.
LEMMA BareLocals ==
  ASSUME NEW s, s.frames \in Seq(FrameSet), Bare(s)
  PROVE  Locals(s) = 0
<1>1. \A n \in 1..Len(s.frames) : n = 1
  BY DEF Bare
<1>2. \A n \in 1..Len(s.frames) : s.frames[n].locals = 0
  BY <1>1 DEF Bare
<1>3. QED BY <1>2, LocalsAre

\* The values that batches of i have collected, in the operations p.
Gathered(i, p) == [n \in 1..Len(p) |-> IF p[n].inst = i THEN p[n].values ELSE 0]
Collects(i, p) == Total(Gathered(i, p), 1..Len(p))

\* What the operations p have collected for i is a number, 0 if none is of i.
LEMMA GatheredIs ==
  ASSUME NEW i, NEW p \in Seq(OpSet)
  PROVE  /\ Len(p) \in Nat /\ IsFiniteSet(1..Len(p)) /\ IsCount(Gathered(i, p), 1..Len(p))
         /\ Collects(i, p) \in Nat
         /\ (\A n \in 1..Len(p) : p[n].inst # i) => Collects(i, p) = 0
<1>1. Len(p) \in Nat /\ IsFiniteSet(1..Len(p))
  BY FS_Interval
<1>2. IsCount(Gathered(i, p), 1..Len(p))
  <2>1. \A n \in 1..Len(p) : p[n] \in OpSet
    OBVIOUS
  <2>2. \A n \in 1..Len(p) : p[n].values \in Nat
    BY <2>1 DEF OpSet
  <2>3. QED BY <2>2 DEF IsCount, Gathered
<1>3. Collects(i, p) \in Nat
      /\ (Collects(i, p) = 0 <=> \A n \in 1..Len(p) : Gathered(i, p)[n] = 0)
  BY <1>1, <1>2, TotalZero DEF Collects
<1>4. (\A n \in 1..Len(p) : p[n].inst # i) => \A n \in 1..Len(p) : Gathered(i, p)[n] = 0
  BY DEF Gathered
<1>5. QED BY <1>1, <1>2, <1>3, <1>4

\* q is p with other values in the member k.
Revalues(p, q, k) ==
  /\ p \in Seq(OpSet) /\ q \in Seq(OpSet) /\ Len(p) = Len(q) /\ k \in 1..Len(p)
  /\ \A n \in 1..Len(p) : n # k => q[n].inst = p[n].inst /\ q[n].values = p[n].values
  /\ q[k].inst = p[k].inst

Recollects(i, p, q, k) ==
  IF p[k].inst = i THEN Collects(i, q) = Collects(i, p) - p[k].values + q[k].values
  ELSE Collects(i, q) = Collects(i, p)

\* A list of operations in which one member has other values.
LEMMA CollectsChange ==
  ASSUME NEW i, NEW p, NEW q, NEW k, Revalues(p, q, k)
  PROVE  Recollects(i, p, q, k)
<1> DEFINE D == 1..Len(p)
<1>0. /\ p \in Seq(OpSet) /\ q \in Seq(OpSet) /\ Len(p) = Len(q) /\ k \in D
      /\ \A n \in D : n # k => q[n].inst = p[n].inst /\ q[n].values = p[n].values
      /\ q[k].inst = p[k].inst
  BY DEF Revalues
<1>1. IsFiniteSet(D) /\ IsCount(Gathered(i, p), D) /\ IsCount(Gathered(i, q), D) /\ k \in D
  BY <1>0, GatheredIs
<1>2. \A n \in D \ {k} : Gathered(i, q)[n] = Gathered(i, p)[n]
  BY <1>0 DEF Gathered
<1>3. /\ Total(Gathered(i, q), D) = Total(Gathered(i, p), D) - Gathered(i, p)[k] + Gathered(i, q)[k]
      /\ Total(Gathered(i, p), D) \in Nat
  <2> DEFINE g == Gathered(i, p)
             h == Gathered(i, q)
             x == k
  <2>1. /\ IsFiniteSet(D) /\ IsCount(g, D) /\ IsCount(h, D) /\ x \in D
        /\ \A n \in D \ {x} : h[n] = g[n]
    BY <1>1, <1>2
  <2> HIDE DEF D, g, h, x
  <2>2. Total(h, D) = Total(g, D) - g[x] + h[x] /\ Total(g, D) \in Nat
    BY <2>1, TotalChange
  <2>3. QED BY <2>2 DEF g, h, x
<1>4. /\ Collects(i, p) = Total(Gathered(i, p), D) /\ Collects(i, q) = Total(Gathered(i, q), D)
  BY <1>0 DEF Collects
<1>5. /\ Gathered(i, p)[k] = (IF p[k].inst = i THEN p[k].values ELSE 0)
      /\ Gathered(i, q)[k] = (IF p[k].inst = i THEN q[k].values ELSE 0)
  BY <1>0 DEF Gathered
<1>6. CASE p[k].inst = i
  BY <1>3, <1>4, <1>5, <1>6 DEF Recollects
<1>7. CASE p[k].inst # i
  BY <1>3, <1>4, <1>5, <1>7 DEF Recollects
<1>8. QED BY <1>6, <1>7

\* A list with one operation more at its end.
LEMMA CollectsPush ==
  ASSUME NEW i, NEW p \in Seq(OpSet), NEW o \in OpSet, o.inst # i \/ o.values = 0
  PROVE  Collects(i, Append(p, o)) = Collects(i, p)
<1> DEFINE q == Append(p, o)
           D == 1..Len(p)
           E == 1..Len(q)
           g == Gathered(i, p)
           h == Gathered(i, q)
<1>1. q \in Seq(OpSet) /\ Len(q) = Len(p) + 1 /\ Len(p) \in Nat
      /\ q[Len(p) + 1] = o /\ \A n \in D : q[n] = p[n]
  BY AppendIs
<1>2. IsFiniteSet(D) /\ IsCount(g, D) /\ IsFiniteSet(E) /\ IsCount(h, E)
  BY <1>1, GatheredIs
<1>3. \A n \in D : n \in E /\ h[n] = g[n]
  BY <1>1 DEF Gathered
<1>4. \A n \in E : h[n] # 0 => n \in D /\ g[n] = h[n]
  <2> SUFFICES ASSUME NEW n \in E, h[n] # 0 PROVE n \in D /\ g[n] = h[n]
    OBVIOUS
  <2>1. h[Len(p) + 1] = 0
    BY <1>1 DEF Gathered
  <2>2. n # Len(p) + 1
    BY <2>1
  <2>3. n \in D
    BY <1>1, <2>2
  <2>4. QED BY <1>3, <2>3
<1> HIDE DEF q, g, h, D, E
<1>5. Total(g, D) = Total(h, E)
  BY <1>2, <1>3, <1>4, TotalSame
<1>6. QED BY <1>5 DEF Collects, g, h, q, D, E

\* Values by its two parts.
LEMMA ValuesAre ==
  ASSUME ops \in Seq(OpSet)
  PROVE  \A i : Values(i) = held[i] + Collects(i, ops)
<1>1. DOMAIN ops = 1..Len(ops)
  OBVIOUS
<1>2. QED BY <1>1 DEF Values, Collected, Collects, Gathered

\* What the account carries after a step, from the operations after it.
LEMMA ValuesArePrimed ==
  ASSUME ops' \in Seq(OpSet)
  PROVE  \A i : Values(i)' = held'[i] + Collects(i, ops')
<1>1. DOMAIN ops' = 1..Len(ops')
  OBVIOUS
<1>2. QED BY <1>1 DEF Values, Collected, Collects, Gathered

-------------------------------------------------------------------------------
(* The engines. *)

\* The code of a function, and that of a top level.
LEMMA CodeIs ==
  ASSUME NEW u \in DOMAIN Code
  PROVE  /\ Code[u] \in Seq(Statement) /\ Len(Code[u]) \in Nat /\ DOMAIN Code[u] = 1..Len(Code[u])
         /\ \A k \in 1..Len(Code[u]) : Code[u][k] \in Statement
         /\ u \in Entries =>
              /\ Len(Code[u]) >= 1 /\ Code[u][Len(Code[u])].do \in {"return", "again"}
              /\ \A k \in 1..Len(Code[u]) : Code[u][k].do # "declare"
         /\ (u \in Inputs \/ \E i \in Instance : u = Top[i]) =>
              \A k \in 1..Len(Code[u]) : Code[u][k].do # "recurse"
<1>1. Code[u] \in Seq(Statement)
  BY CodeAssumption
<1>2. Len(Code[u]) \in Nat /\ DOMAIN Code[u] = 1..Len(Code[u])
  BY <1>1
<1>3. \A k \in 1..Len(Code[u]) : Code[u][k] \in Statement
  BY <1>1
<1>4. ASSUME u \in Entries
      PROVE  /\ Len(Code[u]) >= 1 /\ Code[u][Len(Code[u])].do \in {"return", "again"}
             /\ \A k \in 1..Len(Code[u]) : Code[u][k].do # "declare"
  <2>1. Code[u] # <<>> /\ Last(Code[u]).do \in {"return", "again"}
        /\ \A k \in DOMAIN Code[u] : Code[u][k].do # "declare"
    BY <1>4, CodeAssumption
  <2>2. Len(Code[u]) >= 1
    BY <1>1, <2>1
  <2>3. QED BY <1>2, <2>1, <2>2 DEF Last
<1>5. ASSUME u \in Inputs \/ \E i \in Instance : u = Top[i]
      PROVE  \A k \in 1..Len(Code[u]) : Code[u][k].do # "recurse"
  <2>1. u \in Inputs \cup Range(Top)
    BY <1>5, CodeAssumption DEF Range
  <2>2. QED BY <1>2, <2>1, CodeAssumption
<1>6. QED BY <1>1, <1>2, <1>3, <1>4, <1>5

\* What is bounded.
LEMMA Bounds ==
  /\ MaxSteps \in Nat /\ MaxMemory \in Nat /\ MaxCallDepth \in Nat /\ MaxRequests \in Nat
  /\ MaxBatch \in Nat /\ Inputs \cup Entries \subseteq DOMAIN Code
  /\ \A i \in Instance : Top[i] \in DOMAIN Code /\ Engine[i] \in {"walker", "vm", "session"}
BY LimitAssumption, CodeAssumption, EngineAssumption

\* The types of the parts of a state.
LEMMA StateIs ==
  ASSUME NEW s \in StateSet
  PROVE  /\ s.loaded \in BOOLEAN /\ s.running \in BOOLEAN /\ s.status \in Statuses
         /\ s.steps \in Nat /\ s.total \in Nat /\ s.kept \in Nat /\ s.value \in Nat
         /\ s.abi \in Seq(Entries) /\ s.frames \in Seq(FrameSet) /\ Len(s.frames) \in Nat
         /\ DOMAIN s.frames = 1..Len(s.frames)
         /\ \A n \in 1..Len(s.frames) : s.frames[n] \in FrameSet
BY DEF StateSet

\* The parts of a frame.
LEMMA FrameIs ==
  ASSUME NEW f \in FrameSet
  PROVE  f.unit \in DOMAIN Code /\ f.pc \in Nat /\ f.locals \in Nat /\ f.blocks \in Nat
BY DEF FrameSet

\* A state with another last frame.
Replaces(s, t, f) ==
  /\ t.frames \in Seq(FrameSet) /\ Len(t.frames) = Len(s.frames)
  /\ t.frames[Len(s.frames)] = f
  /\ \A n \in 1..Len(s.frames) : n # Len(s.frames) => t.frames[n] = s.frames[n]

\* All of a state but its frames and what `counts' a statement.
Alike(s, t) == t.loaded = s.loaded /\ t.running = s.running

\* Another last frame, and nothing else.
LEMMA InFrameIs ==
  ASSUME NEW s \in StateSet, Len(s.frames) >= 1, NEW f \in FrameSet
  PROVE  /\ InFrame(s, f) \in StateSet /\ Replaces(s, InFrame(s, f), f)
         /\ InFrame(s, f) = [s EXCEPT !.frames = InFrame(s, f).frames]
<1> DEFINE fs == Append(Front(s.frames), f)
<1>1. /\ fs \in Seq(FrameSet) /\ Len(fs) = Len(s.frames) /\ fs[Len(s.frames)] = f
      /\ \A n \in 1..Len(s.frames) : n # Len(s.frames) => fs[n] = s.frames[n]
  BY StateIs, LastReplaced
<1> HIDE DEF fs
<1>2. InFrame(s, f) = [s EXCEPT !.frames = fs]
  BY DEF InFrame, fs
<1>3. InFrame(s, f) \in StateSet /\ InFrame(s, f).frames = fs
  BY <1>1, <1>2 DEF StateSet
<1>4. Replaces(s, InFrame(s, f), f)
  BY <1>1, <1>3 DEF Replaces
<1>5. QED BY <1>2, <1>3, <1>4

\* The frame on top moves on, and the step is counted.
Ticked(s) == InFrame(Counted(s), [Last(s.frames) EXCEPT !.pc = @ + 1])

\* A tick: the steps and the place in the last frame, and nothing else.
LEMMA TickedIs ==
  ASSUME NEW s \in StateSet, Len(s.frames) >= 1
  PROVE  LET t == Ticked(s)
             f == s.frames[Len(s.frames)]
             g == t.frames[Len(s.frames)]
         IN /\ t \in StateSet /\ Replaces(s, t, g)
            /\ g \in FrameSet /\ g.pc = f.pc + 1 /\ g.unit = f.unit
            /\ g.locals = f.locals /\ g.blocks = f.blocks
            /\ t.steps = s.steps + 1 /\ t.loaded = s.loaded /\ t.running = s.running
            /\ t.status = s.status /\ t.total = s.total /\ t.kept = s.kept
            /\ t.value = s.value /\ t.abi = s.abi
<1> DEFINE c == Counted(s)
           f == s.frames[Len(s.frames)]
           g == [f EXCEPT !.pc = @ + 1]
<1>1. /\ c \in StateSet /\ c.frames = s.frames /\ c.steps = s.steps + 1 /\ c.loaded = s.loaded
      /\ c.running = s.running /\ c.status = s.status /\ c.total = s.total
      /\ c.kept = s.kept /\ c.value = s.value /\ c.abi = s.abi
  BY DEF Counted, StateSet
<1>2. f \in FrameSet
  BY StateIs
<1>3. /\ g \in FrameSet /\ g.pc = f.pc + 1 /\ g.unit = f.unit /\ g.locals = f.locals
      /\ g.blocks = f.blocks
  BY <1>2 DEF FrameSet
<1>4. Ticked(s) = InFrame(c, g)
  BY DEF Ticked, Last
<1> HIDE DEF c, g
<1>5. /\ InFrame(c, g) \in StateSet /\ Replaces(c, InFrame(c, g), g)
      /\ InFrame(c, g) = [c EXCEPT !.frames = InFrame(c, g).frames]
  BY <1>1, <1>3, InFrameIs
<1> DEFINE t == InFrame(c, g)
<1>6. /\ t.steps = c.steps /\ t.loaded = c.loaded /\ t.running = c.running
      /\ t.status = c.status /\ t.total = c.total /\ t.kept = c.kept
      /\ t.value = c.value /\ t.abi = c.abi
  BY <1>1, <1>5 DEF StateSet
<1>7. t.frames[Len(s.frames)] = g /\ Replaces(s, t, g)
  BY <1>1, <1>5 DEF Replaces
<1>8. QED BY <1>1, <1>3, <1>4, <1>5, <1>6, <1>7

\* The same, of the frame l.
Ticks(s, t, l) ==
  LET f == s.frames[l]
      g == t.frames[l]
  IN /\ t \in StateSet /\ Replaces(s, t, g)
     /\ g \in FrameSet /\ g.pc = f.pc + 1 /\ g.unit = f.unit
     /\ g.locals = f.locals /\ g.blocks = f.blocks
     /\ t.steps = s.steps + 1 /\ t.loaded = s.loaded /\ t.running = s.running
     /\ t.status = s.status /\ t.total = s.total /\ t.kept = s.kept
     /\ t.value = s.value /\ t.abi = s.abi

\* A tick in the only frame.
LEMMA TopTicked ==
  ASSUME NEW s \in StateSet, Len(s.frames) = 1
  PROVE  Ticks(s, Ticked(s), 1)
<1> DEFINE l == Len(s.frames)
           t == Ticked(s)
<1>1. l = 1 /\ l >= 1
  OBVIOUS
<1>2. Ticks(s, t, l)
  BY <1>1, TickedIs DEF Ticks
<1> HIDE DEF l, t
<1>3. Ticks(s, t, 1)
  BY <1>1, <1>2
<1>4. QED BY <1>3 DEF t

-------------------------------------------------------------------------------
(* One statement of a top level. *)

\* What a statement of a top level, at pc with abi declared so far, makes of s.
TopResult(i, s, t) ==
  LET f == s.frames[1]
      g == t.frames[1]
  IN /\ t \in StateSet /\ Alike(s, t) /\ t.value = 0
     /\ Len(t.frames) = 1 /\ g.unit = f.unit
     /\ g.pc \in 1..Len(Code[f.unit]) + 1
     /\ g.locals <= MaxSteps /\ g.blocks <= MaxSteps
     /\ t.status \in Going \cup Errors
     /\ t.steps <= MaxSteps + 1
     /\ t.status \in Going =>
          /\ g.locals <= t.steps /\ g.blocks <= t.steps /\ t.steps <= MaxSteps
          /\ Engine[i] # "session" => Declares(Code[f.unit], t.abi, g.pc)
     /\ IsInjective(t.abi)

\* A top level that runs at a statement.
TopRuns(i, s) ==
  LET f == s.frames[1]
  IN /\ s \in StateSet /\ s.status = "run" /\ s.value = 0
     /\ Len(s.frames) = 1 /\ f \in FrameSet
     /\ f.pc \in 1..Len(Code[f.unit])
     /\ f.locals <= MaxSteps /\ f.blocks <= MaxSteps
     /\ f.locals <= s.steps /\ f.blocks <= s.steps /\ s.steps <= MaxSteps
     /\ \A k \in 1..Len(Code[f.unit]) : Code[f.unit][k].do # "recurse"
     /\ Engine[i] # "session" => Declares(Code[f.unit], s.abi, f.pc)
     /\ IsInjective(s.abi)

\* The tick, when it stops the program.
LEMMA TopStopped ==
  ASSUME NEW i \in Instance, NEW s, TopRuns(i, s), NEW e \in {"steps", "memory"}
  PROVE  TopResult(i, s, [Ticked(s) EXCEPT !.status = e])
<1> DEFINE t == Ticked(s)
           u == [t EXCEPT !.status = e]
           f == s.frames[1]
           g == t.frames[1]
<1>1. s \in StateSet /\ Len(s.frames) = 1
  BY DEF TopRuns
<1>2. /\ t \in StateSet /\ Replaces(s, t, g)
      /\ g \in FrameSet /\ g.pc = f.pc + 1 /\ g.unit = f.unit
      /\ g.locals = f.locals /\ g.blocks = f.blocks
      /\ t.steps = s.steps + 1 /\ t.loaded = s.loaded /\ t.running = s.running
      /\ t.value = s.value /\ t.abi = s.abi
  BY <1>1, TopTicked DEF Ticks
<1> HIDE DEF t
<1>3. e \in Errors /\ e \notin Going
  BY DEF Errors, Going
<1>4. /\ u \in StateSet /\ u.frames = t.frames /\ u.status = e /\ u.steps = t.steps
      /\ u.loaded = t.loaded /\ u.running = t.running /\ u.value = t.value /\ u.abi = t.abi
  BY <1>2, <1>3 DEF StateSet, Statuses
<1> HIDE DEF u
<1>5. f.unit \in DOMAIN Code /\ f.pc \in Nat /\ s.steps \in Nat
  BY <1>1, StateIs, FrameIs
<1>6. Len(Code[f.unit]) \in Nat
  BY <1>5, CodeIs
<1>7. f.pc + 1 \in 1..Len(Code[f.unit]) + 1 /\ t.steps <= MaxSteps + 1 /\ Len(u.frames) = 1
  BY <1>1, <1>2, <1>4, <1>5, <1>6, Bounds DEF TopRuns, Replaces
<1>8. TopResult(i, s, u)
  BY <1>2, <1>3, <1>4, <1>7 DEF TopRuns, TopResult, Alike
<1>9. QED BY <1>8 DEF u, t

\* One part of a frame, or of a state, is replaced.
LEMMA FrameAt ==
  ASSUME NEW g \in FrameSet, NEW n \in Nat
  PROVE  LET p == [g EXCEPT !.pc = n]
         IN /\ p \in FrameSet /\ p.unit = g.unit /\ p.pc = n
            /\ p.locals = g.locals /\ p.blocks = g.blocks
BY DEF FrameSet

\* A frame that goes to another place with its blocks closed.
LEMMA FrameOut ==
  ASSUME NEW g \in FrameSet, NEW n \in Nat
  PROVE  LET q == [g EXCEPT !.pc = n, !.blocks = 0]
         IN /\ q \in FrameSet /\ q.unit = g.unit /\ q.pc = n
            /\ q.locals = g.locals /\ q.blocks = 0
BY DEF FrameSet

\* A frame with one local, or one block, more.
LEMMA FrameMore ==
  ASSUME NEW g \in FrameSet
  PROVE  LET l == [g EXCEPT !.locals = @ + 1]
             b == [g EXCEPT !.blocks = @ + 1]
         IN /\ l \in FrameSet /\ l.unit = g.unit /\ l.pc = g.pc
            /\ l.locals = g.locals + 1 /\ l.blocks = g.blocks
            /\ b \in FrameSet /\ b.unit = g.unit /\ b.pc = g.pc
            /\ b.locals = g.locals /\ b.blocks = g.blocks + 1
BY DEF FrameSet

\* All of a state but its globals and its status.
Resembles(t, u) ==
  /\ u \in StateSet /\ u.frames = t.frames /\ u.abi = t.abi /\ u.steps = t.steps
  /\ u.value = t.value /\ u.loaded = t.loaded /\ u.running = t.running

\* A change of the globals, of what is kept or of the status leaves the rest as it is.
LEMMA StateWith ==
  ASSUME NEW t \in StateSet
  PROVE  /\ Resembles(t, [t EXCEPT !.total = @ + 1])
         /\ Resembles(t, [t EXCEPT !.kept = @ + 1])
         /\ Resembles(t, [t EXCEPT !.kept = 0])
         /\ \A e \in Statuses : Resembles(t, [t EXCEPT !.status = e])
         /\ [t EXCEPT !.total = @ + 1].status = t.status
         /\ [t EXCEPT !.kept = @ + 1].status = t.status
         /\ [t EXCEPT !.kept = 0].status = t.status
         /\ \A e \in Statuses : [t EXCEPT !.status = e].status = e
         /\ \A e \in Statuses : [t EXCEPT !.status = e].kept = t.kept
<1>1. ASSUME NEW n \in Nat
      PROVE  Resembles(t, [t EXCEPT !.total = n]) /\ [t EXCEPT !.total = n].status = t.status
  BY DEF Resembles, StateSet
<1>2. ASSUME NEW n \in Nat
      PROVE  Resembles(t, [t EXCEPT !.kept = n]) /\ [t EXCEPT !.kept = n].status = t.status
  BY DEF Resembles, StateSet
<1>3. t.total + 1 \in Nat /\ t.kept + 1 \in Nat /\ 0 \in Nat
  BY StateIs
<1>4. ASSUME NEW e \in Statuses
      PROVE  /\ Resembles(t, [t EXCEPT !.status = e])
             /\ [t EXCEPT !.status = e].status = e /\ [t EXCEPT !.status = e].kept = t.kept
  BY DEF Resembles, StateSet
<1>5. Resembles(t, [t EXCEPT !.total = @ + 1]) /\ [t EXCEPT !.total = @ + 1].status = t.status
  BY <1>1, <1>3
<1>6. Resembles(t, [t EXCEPT !.kept = @ + 1]) /\ [t EXCEPT !.kept = @ + 1].status = t.status
  BY <1>2, <1>3
<1>7. Resembles(t, [t EXCEPT !.kept = 0]) /\ [t EXCEPT !.kept = 0].status = t.status
  BY <1>2, <1>3
<1>8. QED BY <1>4, <1>5, <1>6, <1>7

\* The bounds after one more step.
LEMMA OneMore ==
  ASSUME NEW s, NEW f, NEW l, s.steps \in Nat, f.pc \in Nat, f.locals \in Nat, f.blocks \in Nat,
         l \in Nat, f.pc \in 1..l, f.locals <= s.steps, f.blocks <= s.steps
  PROVE  /\ f.pc + 1 \in 1..l + 1 /\ f.locals <= s.steps + 1 /\ f.blocks <= s.steps + 1
         /\ f.locals + 1 <= s.steps + 1 /\ f.blocks + 1 <= s.steps + 1
<1> DEFINE a == s.steps
           b == f.pc
           c == f.locals
           d == f.blocks
<1>1. a \in Nat /\ b \in Nat /\ c \in Nat /\ d \in Nat /\ b \in 1..l /\ c <= a /\ d <= a
  OBVIOUS
<1> HIDE DEF a, b, c, d
<1>2. b + 1 \in 1..l + 1 /\ c <= a + 1 /\ d <= a + 1 /\ c + 1 <= a + 1 /\ d + 1 <= a + 1
  BY <1>1
<1>3. QED BY <1>2 DEF a, b, c, d

\* A statement of a top level leads to u: it is enough to look at a few of its parts.
LEMMA TopLands ==
  ASSUME NEW i \in Instance, NEW s, TopRuns(i, s), s.steps < MaxSteps, NEW u \in StateSet,
         Alike(s, u), u.value = 0, u.steps = s.steps + 1, u.status \in Going \cup Errors,
         Len(u.frames) = 1, u.frames[1].unit = s.frames[1].unit,
         u.frames[1].pc \in 1..Len(Code[s.frames[1].unit]) + 1,
         u.frames[1].locals <= s.steps + 1, u.frames[1].blocks <= s.steps + 1,
         IsInjective(u.abi),
         (u.status \in Going /\ Engine[i] # "session") =>
           Declares(Code[s.frames[1].unit], u.abi, u.frames[1].pc)
  PROVE  TopResult(i, s, u)
<1>1. s.steps \in Nat /\ u.frames[1] \in FrameSet
  BY StateIs DEF TopRuns
<1>2. u.frames[1].locals \in Nat /\ u.frames[1].blocks \in Nat
  BY <1>1, FrameIs
<1>3. /\ u.steps <= MaxSteps /\ u.steps <= MaxSteps + 1
      /\ u.frames[1].locals <= MaxSteps /\ u.frames[1].blocks <= MaxSteps
      /\ u.frames[1].locals <= u.steps /\ u.frames[1].blocks <= u.steps
  BY <1>1, <1>2, Bounds
<1>4. QED BY <1>3 DEF TopResult

\* The statements that change no frame and declare nothing.
LEMMA TopPlain ==
  ASSUME NEW i \in Instance, NEW s, TopRuns(i, s), s.steps < MaxSteps,
         NEW u \in StateSet, NEW t, t = Ticked(s),
         u.frames = t.frames, u.abi = t.abi, u.steps = t.steps, u.value = t.value,
         u.loaded = t.loaded, u.running = t.running, u.status \in Going \cup Errors,
         Code[s.frames[1].unit][s.frames[1].pc].do \notin {"declare", "return", "again"}
  PROVE  TopResult(i, s, u)
<1> DEFINE f == s.frames[1]
           g == t.frames[1]
<1>1. /\ s \in StateSet /\ Len(s.frames) = 1 /\ f \in FrameSet /\ s.value = 0
      /\ f.locals <= s.steps /\ f.blocks <= s.steps /\ IsInjective(s.abi)
      /\ f.pc \in 1..Len(Code[f.unit])
      /\ Engine[i] # "session" => Declares(Code[f.unit], s.abi, f.pc)
  BY DEF TopRuns
<1>2. /\ t \in StateSet /\ Replaces(s, t, g)
      /\ g \in FrameSet /\ g.pc = f.pc + 1 /\ g.unit = f.unit
      /\ g.locals = f.locals /\ g.blocks = f.blocks
      /\ t.steps = s.steps + 1 /\ t.loaded = s.loaded /\ t.running = s.running
      /\ t.value = s.value /\ t.abi = s.abi
  BY <1>1, TopTicked DEF Ticks
<1>3. f.unit \in DOMAIN Code /\ f.pc \in Nat /\ f.locals \in Nat /\ f.blocks \in Nat
      /\ s.steps \in Nat /\ s.abi \in Seq(Entries)
  BY <1>1, FrameIs, StateIs
<1>4. Code[f.unit] \in Seq(Statement) /\ Len(Code[f.unit]) \in Nat
  BY <1>3, CodeIs
<1>5. Engine[i] # "session" => Declares(Code[f.unit], u.abi, f.pc + 1)
  BY <1>1, <1>2, <1>3, <1>4, DeclareOn
<1>6. /\ f.pc + 1 \in 1..Len(Code[f.unit]) + 1 /\ f.locals <= s.steps + 1
      /\ f.blocks <= s.steps + 1
  BY <1>1, <1>3, <1>4, OneMore
<1>8. Len(u.frames) = 1
  BY <1>1, <1>2 DEF Replaces
<1>7. QED BY <1>1, <1>2, <1>5, <1>6, <1>8, TopLands DEF Alike

\* The statements that change the frame and declare nothing.
LEMMA TopFrame ==
  ASSUME NEW i \in Instance, NEW s, TopRuns(i, s), s.steps < MaxSteps,
         NEW t, t = Ticked(s), NEW h \in FrameSet,
         h.unit = s.frames[1].unit, h.pc \in 1..Len(Code[s.frames[1].unit]) + 1,
         h.locals <= s.steps + 1, h.blocks <= s.steps + 1,
         Engine[i] # "session" => Declares(Code[s.frames[1].unit], s.abi, h.pc)
  PROVE  TopResult(i, s, InFrame(t, h))
<1> DEFINE f == s.frames[1]
           g == t.frames[1]
           u == InFrame(t, h)
<1>1. s \in StateSet /\ Len(s.frames) = 1 /\ s.value = 0 /\ s.status = "run" /\ IsInjective(s.abi)
  BY DEF TopRuns
<1>2. /\ t \in StateSet /\ Replaces(s, t, g)
      /\ t.steps = s.steps + 1 /\ t.loaded = s.loaded /\ t.running = s.running
      /\ t.value = s.value /\ t.abi = s.abi /\ t.status = s.status
  BY <1>1, TopTicked DEF Ticks
<1>3. Len(t.frames) = 1
  BY <1>1, <1>2 DEF Replaces
<1>4. /\ u \in StateSet /\ Replaces(t, u, h) /\ u = [t EXCEPT !.frames = u.frames]
  BY <1>2, <1>3, InFrameIs
<1> HIDE DEF u
<1>5. /\ u.steps = t.steps /\ u.loaded = t.loaded /\ u.running = t.running
      /\ u.value = t.value /\ u.abi = t.abi /\ u.status = t.status
  BY <1>2, <1>4 DEF StateSet
<1>6. Len(u.frames) = 1 /\ u.frames[1] = h
  BY <1>3, <1>4 DEF Replaces
<1>7. u.status \in Going
  BY <1>1, <1>2, <1>5 DEF Going
<1>8. TopResult(i, s, u)
  BY <1>1, <1>2, <1>4, <1>5, <1>6, <1>7, TopLands DEF Alike
<1>9. QED BY <1>8 DEF u

\* A statement of a top level.
LEMMA TopPerformed ==
  ASSUME NEW i \in Instance, NEW s, TopRuns(i, s), s.steps < MaxSteps, NEW other \in Nat
  PROVE  TopResult(i, s, Performed(Engine[i], Ticked(s),
                                   Code[s.frames[1].unit][s.frames[1].pc], other))
<1> DEFINE f == s.frames[1]
           t == Ticked(s)
           g == t.frames[1]
           code == Code[f.unit]
           op == code[f.pc]
           u == Performed(Engine[i], t, op, other)
<1>1. /\ s \in StateSet /\ Len(s.frames) = 1 /\ f \in FrameSet /\ s.value = 0 /\ s.status = "run"
      /\ f.locals <= s.steps /\ f.blocks <= s.steps /\ IsInjective(s.abi)
      /\ f.pc \in 1..Len(code) /\ op.do # "recurse"
      /\ Engine[i] # "session" => Declares(code, s.abi, f.pc)
  BY DEF TopRuns
<1>2. /\ t \in StateSet /\ Replaces(s, t, g)
      /\ g \in FrameSet /\ g.pc = f.pc + 1 /\ g.unit = f.unit
      /\ g.locals = f.locals /\ g.blocks = f.blocks
      /\ t.steps = s.steps + 1 /\ t.loaded = s.loaded /\ t.running = s.running
      /\ t.status = s.status /\ t.total = s.total /\ t.kept = s.kept
      /\ t.value = s.value /\ t.abi = s.abi
  BY <1>1, TopTicked DEF Ticks
<1>3. /\ f.unit \in DOMAIN Code /\ f.pc \in Nat /\ f.locals \in Nat /\ f.blocks \in Nat
      /\ s.steps \in Nat /\ s.abi \in Seq(Entries) /\ t.total \in Nat /\ t.kept \in Nat
  BY <1>1, <1>2, FrameIs, StateIs
<1>4. code \in Seq(Statement) /\ Len(code) \in Nat /\ op \in Statement
  BY <1>1, <1>3, CodeIs
<1>5. Last(t.frames) = g /\ Len(t.frames) = 1
  BY <1>1, <1>2 DEF Last, Replaces
<1>6. op.do \in {"bump", "keep", "drop", "local", "block", "again", "host", "panic",
                 "declare", "return"}
  BY <1>1, <1>4 DEF Statement
<1>7. {"run", "host", "panic"} \subseteq Going \cup Errors
      /\ {"run", "host", "panic", "memory"} \subseteq Statuses /\ "memory" \in Errors
      /\ "memory" \notin Going /\ "run" \in Going
  BY DEF Going, Errors, Statuses
<1> HIDE DEF t
<1>8. CASE op.do \in {"bump", "keep", "drop", "host", "panic"}
  <2>1. Resembles(t, u) /\ u.status \in Going \cup Errors
    <3>1. t.status = "run"
      BY <1>1, <1>2
    <3>2. CASE op.do = "bump"
      <4>1. u = [t EXCEPT !.total = @ + 1]
        BY <3>2 DEF Performed
      <4> HIDE DEF u
      <4>2. QED BY <1>2, <1>7, <3>1, <4>1, StateWith
    <3>3. CASE op.do = "keep"
      <4>1. u = [t EXCEPT !.kept = @ + 1]
        BY <3>3 DEF Performed
      <4> HIDE DEF u
      <4>2. QED BY <1>2, <1>7, <3>1, <4>1, StateWith
    <3>4. CASE op.do = "drop"
      <4>1. u = [t EXCEPT !.kept = 0]
        BY <3>4 DEF Performed
      <4> HIDE DEF u
      <4>2. QED BY <1>2, <1>7, <3>1, <4>1, StateWith
    <3>5. CASE op.do = "host"
      <4>1. u = [t EXCEPT !.status = "host"]
        BY <3>5 DEF Performed
      <4> HIDE DEF u
      <4>2. QED BY <1>2, <1>7, <4>1, StateWith
    <3>6. CASE op.do = "panic"
      <4>1. u = [t EXCEPT !.status = "panic"]
        BY <3>6 DEF Performed
      <4> HIDE DEF u
      <4>2. QED BY <1>2, <1>7, <4>1, StateWith
    <3>7. QED BY <1>8, <3>2, <3>3, <3>4, <3>5, <3>6
  <2>2. op.do \notin {"declare", "return", "again"}
    BY <1>8
  <2> HIDE DEF u
  <2>3. TopResult(i, s, u)
    BY <2>1, <2>2, TopPlain DEF t, Resembles
  <2>4. QED BY <2>3 DEF u, t
<1>9. CASE op.do \in {"local", "block", "again"}
  <2>1. ASSUME NEW h, u = InFrame(t, h), h \in FrameSet, h.unit = f.unit,
               h.pc \in 1..Len(code) + 1, h.locals <= s.steps + 1, h.blocks <= s.steps + 1,
               Engine[i] # "session" => Declares(code, s.abi, h.pc)
        PROVE  TopResult(i, s, u)
    BY <2>1, TopFrame DEF t
  <2>2. f.pc + 1 \in 1..Len(code) + 1 /\ f.locals <= s.steps + 1 /\ f.blocks <= s.steps + 1
    BY <1>1, <1>3, <1>4, OneMore
  <2>3. CASE op.do \in {"local", "block"}
    <3>1. Engine[i] # "session" => Declares(code, s.abi, f.pc + 1)
      BY <1>1, <1>3, <1>4, <2>3, DeclareOn
    <3>2. CASE op.do = "local"
      <4> DEFINE h == [g EXCEPT !.locals = @ + 1]
      <4>1. u = InFrame(t, h)
        BY <1>5, <3>2 DEF Performed
      <4>2. /\ h \in FrameSet /\ h.unit = f.unit /\ h.pc = f.pc + 1
            /\ h.locals = f.locals + 1 /\ h.blocks = f.blocks
        BY <1>2, <1>3, FrameMore
      <4>3. h.locals <= s.steps + 1
        BY <1>1, <1>3, <4>2
      <4> HIDE DEF h
      <4>4. QED BY <2>1, <2>2, <3>1, <4>1, <4>2, <4>3 DEF t
    <3>3. CASE op.do = "block"
      <4> DEFINE h == [g EXCEPT !.blocks = @ + 1]
      <4>1. u = InFrame(t, h)
        BY <1>5, <3>3 DEF Performed
      <4>2. /\ h \in FrameSet /\ h.unit = f.unit /\ h.pc = f.pc + 1
            /\ h.blocks = f.blocks + 1 /\ h.locals = f.locals
        BY <1>2, <1>3, FrameMore
      <4>3. h.blocks <= s.steps + 1
        BY <1>1, <1>3, <4>2
      <4> HIDE DEF h
      <4>4. QED BY <2>1, <2>2, <3>1, <4>1, <4>2, <4>3 DEF t
    <3>4. QED BY <2>3, <3>2, <3>3
  <2>4. CASE op.do = "again"
    <3>1. Engine[i] # "session" => Declares(code, s.abi, 1)
      BY <1>1, <1>3, <1>4, <2>4, DeclareAgain
    <3> DEFINE h == [g EXCEPT !.pc = 1]
    <3>2. u = InFrame(t, h)
      BY <1>5, <2>4 DEF Performed
    <3>3. /\ h \in FrameSet /\ h.unit = f.unit /\ h.pc = 1
          /\ h.blocks = f.blocks /\ h.locals = f.locals
      <4> HIDE DEF g, f
      <4>1. 1 \in Nat /\ g \in FrameSet
        BY <1>2
      <4>2. h \in FrameSet /\ h.unit = g.unit /\ h.pc = 1 /\ h.locals = g.locals /\ h.blocks = g.blocks
        BY <4>1, FrameAt
      <4>3. QED BY <1>2, <4>2
    <3>4. h.pc \in 1..Len(code) + 1
      BY <1>4, <3>3
    <3> HIDE DEF h
    <3>5. QED BY <2>1, <2>2, <3>1, <3>2, <3>3, <3>4 DEF t
  <2>5. QED BY <1>9, <2>3, <2>4
<1>10. CASE op.do = "declare"
  <2> DEFINE abi == Declared(t.abi, op.name, op.public)
  <2>1. u = [t EXCEPT !.abi = abi]
    BY <1>10 DEF Performed
  <2>2. op.name \in Entries /\ op.public \in BOOLEAN
    BY <1>4, <1>10 DEF Statement
  <2>3. abi \in Seq(Entries) /\ IsInjective(abi)
    BY <1>1, <1>2, <1>3, <2>2, DeclaredIs
  <2>4. Engine[i] # "session" => Declares(code, abi, f.pc + 1)
    BY <1>1, <1>2, <1>3, <1>4, <1>10, DeclareNext
  <2> HIDE DEF abi
  <2>5. /\ u \in StateSet /\ u.frames = t.frames /\ u.abi = abi /\ u.steps = t.steps
        /\ u.value = t.value /\ u.loaded = t.loaded /\ u.running = t.running
        /\ u.status = t.status
    BY <1>2, <2>1, <2>3 DEF StateSet
  <2>6. f.pc + 1 \in 1..Len(code) + 1 /\ f.locals <= s.steps + 1 /\ f.blocks <= s.steps + 1
    BY <1>1, <1>3, <1>4, OneMore
  <2>7. /\ Alike(s, u) /\ u.value = 0 /\ u.steps = s.steps + 1 /\ u.status \in Going \cup Errors
        /\ Len(u.frames) = 1 /\ u.frames[1] = g /\ IsInjective(u.abi)
        /\ Engine[i] # "session" => Declares(code, u.abi, g.pc)
    BY <1>1, <1>2, <1>5, <1>7, <2>3, <2>4, <2>5 DEF Alike
  <2> HIDE DEF u
  <2>8. TopResult(i, s, u)
    BY <1>2, <2>5, <2>6, <2>7, TopLands
  <2>9. QED BY <2>8 DEF u, t
<1>11. CASE op.do = "return"
  <2>1. u = Returned(Engine[i], t, op.units, other)
    BY <1>11 DEF Performed
  <2>2. CASE u = [t EXCEPT !.status = "memory"]
    <3>1. TopResult(i, s, [t EXCEPT !.status = "memory"])
      BY TopStopped DEF t
    <3>2. QED BY <2>2, <3>1 DEF t
  <2>3. CASE u = ReturnedTop(t)
    <3> DEFINE h == [g EXCEPT !.pc = Len(Code[g.unit]) + 1, !.blocks = 0]
    <3>1. u = InFrame(t, h)
      BY <1>5, <2>3 DEF ReturnedTop
    <3>2. /\ h \in FrameSet /\ h.unit = f.unit /\ h.pc = Len(code) + 1
          /\ h.blocks = 0 /\ h.locals = f.locals
      <4> DEFINE n == Len(code) + 1
      <4>1. n \in Nat
        BY <1>4
      <4>2. h = [g EXCEPT !.pc = n, !.blocks = 0]
        BY <1>2 DEF n
      <4> HIDE DEF n, h
      <4>3. /\ h \in FrameSet /\ h.unit = g.unit /\ h.pc = n /\ h.blocks = 0
            /\ h.locals = g.locals
        BY <1>2, <4>1, <4>2, FrameOut
      <4>4. QED BY <1>2, <4>3 DEF n
    <3>3. Engine[i] # "session" => Declares(code, s.abi, Len(code) + 1)
      BY <1>1, <1>3, <1>4, <1>11, DeclareReturn
    <3>4. h.pc \in 1..Len(code) + 1 /\ h.locals <= s.steps + 1 /\ h.blocks <= s.steps + 1
      <4>1. f.locals <= s.steps + 1 /\ Len(code) + 1 \in 1..Len(code) + 1 /\ 0 <= s.steps + 1
        BY <1>1, <1>3, <1>4
      <4> HIDE DEF h, f
      <4>2. QED BY <3>2, <4>1
    <3> HIDE DEF h, u
    <3>5. TopResult(i, s, InFrame(t, h))
      BY <3>2, <3>3, <3>4, TopFrame DEF t
    <3>6. QED BY <3>1, <3>5 DEF u, t
  <2>4. u = [t EXCEPT !.status = "memory"] \/ u = ReturnedTop(t)
    BY <1>5, <2>1 DEF Returned
  <2>5. QED BY <2>2, <2>3, <2>4
<1>12. QED BY <1>6, <1>8, <1>9, <1>10, <1>11

-------------------------------------------------------------------------------
(* One statement of a function. *)

\* What a statement of a function makes of s.
FunResult(i, s, t, other) ==
  /\ t \in StateSet /\ Alike(s, t) /\ Stack(i, t)
  /\ t.abi = s.abi /\ t.frames[1] = s.frames[1]
  /\ t.status \in Going \cup Errors \cup {"returned"}
  /\ Engine[i] = "walker" =>
       /\ t.status \in Going => Len(t.frames) > 1
       /\ t.status = "returned" => t.kept + t.value + other <= MaxMemory

FunRuns(i, s) == s \in StateSet /\ s.status = "run" /\ Stack(i, s) /\ Len(s.frames) > 1

\* The top frame of a function that runs, and the statement it is at.
LEMMA FunIs ==
  ASSUME NEW i \in Instance, NEW s, FunRuns(i, s)
  PROVE  LET L == Len(s.frames)
             f == s.frames[L]
             code == Code[f.unit]
         IN /\ s \in StateSet /\ L \in Nat /\ L > 1 /\ L <= MaxCallDepth + 1 /\ L \in 1..L
            /\ f \in FrameSet /\ f.unit \in Entries /\ f.unit \in DOMAIN Code
            /\ code \in Seq(Statement) /\ Len(code) \in Nat
            /\ f.pc \in 1..Len(code) /\ code[f.pc] \in Statement /\ code[f.pc].do # "declare"
            /\ f.locals <= s.steps /\ f.blocks <= s.steps
            /\ s.steps \in Nat /\ s.steps <= MaxSteps
            /\ code[f.pc].do \notin {"return", "again"} => f.pc + 1 \in 1..Len(code)
<1> DEFINE L == Len(s.frames)
           f == s.frames[L]
           code == Code[f.unit]
<1>1. s \in StateSet /\ s.status \in Going /\ s.status = "run" /\ Stack(i, s) /\ L > 1
  BY DEF FunRuns, Going
<1>2. L \in Nat /\ L \in 1..L /\ f \in FrameSet /\ s.steps \in Nat
  BY <1>1, StateIs
<1>3. L <= MaxCallDepth + 1 /\ FrameFits(i, s, L) /\ s.steps <= MaxSteps
  BY <1>1, <1>2, Bounds DEF Stack
<1>4. /\ f.unit \in Entries /\ f.pc \in 1..Len(code) + 1 /\ f.pc <= Len(code)
      /\ f.locals <= s.steps /\ f.blocks <= s.steps
  BY <1>1, <1>3 DEF FrameFits
<1>5. f.unit \in DOMAIN Code /\ f.pc \in Nat
  BY <1>2, FrameIs
<1>6. /\ code \in Seq(Statement) /\ Len(code) \in Nat
      /\ code[Len(code)].do \in {"return", "again"}
      /\ \A k \in 1..Len(code) : code[k] \in Statement /\ code[k].do # "declare"
  BY <1>4, <1>5, CodeIs
<1>7. f.pc \in 1..Len(code)
  BY <1>4, <1>5, <1>6
<1>8. code[f.pc].do \notin {"return", "again"} => f.pc + 1 \in 1..Len(code)
  <2> DEFINE p == f.pc
             l == Len(code)
  <2>1. p \in 1..l /\ l \in Nat /\ code[l].do \in {"return", "again"}
    BY <1>6, <1>7
  <2> HIDE DEF p, l, code
  <2>2. code[p].do \notin {"return", "again"} => p # l
    BY <2>1
  <2>3. code[p].do \notin {"return", "again"} => p + 1 \in 1..l
    BY <2>1, <2>2
  <2>4. QED BY <2>3 DEF p, l
<1>9. QED BY <1>1, <1>2, <1>3, <1>4, <1>5, <1>6, <1>7, <1>8

\* A frame below the one that runs.
LEMMA FrameBelow ==
  ASSUME NEW i \in Instance, NEW s, NEW u, NEW n, FrameFits(i, s, n), s.status \in Going,
         s.steps <= u.steps, s.steps \in Nat, u.steps \in Nat, u.frames[n] = s.frames[n],
         s.frames[n] \in FrameSet
  PROVE  FrameFits(i, u, n)
<1> DEFINE f == s.frames[n]
<1>1. f.locals \in Nat /\ f.blocks \in Nat
  BY FrameIs
<1>2. f.locals <= s.steps /\ f.blocks <= s.steps
  BY DEF FrameFits
<1>3. f.locals <= u.steps /\ f.blocks <= u.steps
  BY <1>1, <1>2
<1>4. QED BY <1>3 DEF FrameFits

\* The frame that runs is replaced.
LEMMA StackTop ==
  ASSUME NEW i \in Instance, NEW s, FunRuns(i, s), s.steps < MaxSteps,
         NEW u \in StateSet, NEW h \in FrameSet, Replaces(s, u, h), u.steps = s.steps + 1,
         h.unit = s.frames[Len(s.frames)].unit, h.pc \in 1..Len(Code[h.unit]),
         h.locals <= s.steps + 1, h.blocks <= s.steps + 1
  PROVE  Stack(i, u) /\ u.frames[1] = s.frames[1] /\ Len(u.frames) = Len(s.frames)
<1> DEFINE L == Len(s.frames)
<1>1. /\ s \in StateSet /\ L \in Nat /\ L > 1 /\ L <= MaxCallDepth + 1
      /\ s.steps \in Nat /\ h.unit \in Entries /\ h.unit \in DOMAIN Code
  BY FunIs
<1>2. s.status \in Going /\ Stack(i, s)
  BY DEF FunRuns, Going
<1>3. /\ Len(u.frames) = L /\ u.frames[L] = h
      /\ \A n \in 1..L : n # L => u.frames[n] = s.frames[n]
  BY DEF Replaces
<1>4. \A n \in 1..L : s.frames[n] \in FrameSet /\ FrameFits(i, s, n)
  BY <1>1, <1>2, StateIs DEF Stack
<1>5. u.steps \in Nat /\ s.steps <= u.steps /\ u.steps <= MaxSteps /\ u.steps <= MaxSteps + 1
  BY <1>1, Bounds
<1>6. \A n \in 1..L : n # L => FrameFits(i, u, n)
  BY <1>1, <1>2, <1>3, <1>4, <1>5, FrameBelow
<1>7. FrameFits(i, u, L)
  <2>1. h.locals \in Nat /\ h.blocks \in Nat /\ Len(Code[h.unit]) \in Nat /\ h.pc \in Nat
    BY <1>1, FrameIs, CodeIs
  <2>2. h.locals <= MaxSteps /\ h.blocks <= MaxSteps /\ h.locals <= u.steps /\ h.blocks <= u.steps
    BY <1>1, <1>5, <2>1, Bounds
  <2>3. h.pc \in 1..Len(Code[h.unit]) + 1 /\ h.pc <= Len(Code[h.unit])
    BY <2>1
  <2>4. QED BY <1>1, <1>3, <2>2, <2>3 DEF FrameFits
<1>8. Stack(i, u)
  BY <1>1, <1>3, <1>5, <1>6, <1>7, Bounds DEF Stack
<1>9. QED BY <1>1, <1>3, <1>8

\* The tick, when it stops the program.
LEMMA FunStopped ==
  ASSUME NEW i \in Instance, NEW s, FunRuns(i, s), NEW other \in Nat,
         NEW e \in {"steps", "memory", "depth"}
  PROVE  FunResult(i, s, [Ticked(s) EXCEPT !.status = e], other)
<1> DEFINE t == Ticked(s)
           u == [t EXCEPT !.status = e]
           L == Len(s.frames)
           f == s.frames[L]
           g == t.frames[L]
<1>1. /\ s \in StateSet /\ L \in Nat /\ L > 1 /\ L <= MaxCallDepth + 1
      /\ f \in FrameSet /\ f.unit \in Entries /\ f.unit \in DOMAIN Code
      /\ f.pc \in 1..Len(Code[f.unit]) /\ Len(Code[f.unit]) \in Nat
      /\ f.locals <= s.steps /\ f.blocks <= s.steps
      /\ s.steps \in Nat /\ s.steps <= MaxSteps
  BY FunIs
<1>2. /\ t \in StateSet /\ Replaces(s, t, g)
      /\ g \in FrameSet /\ g.pc = f.pc + 1 /\ g.unit = f.unit
      /\ g.locals = f.locals /\ g.blocks = f.blocks
      /\ t.steps = s.steps + 1 /\ t.loaded = s.loaded /\ t.running = s.running
      /\ t.abi = s.abi
  BY <1>1, TickedIs
<1> HIDE DEF t
<1>3. e \in Errors /\ e \notin Going /\ e # "returned" /\ e \in Statuses
  BY DEF Errors, Going, Statuses
<1>4. Resembles(t, u) /\ u.status = e
  BY <1>2, <1>3, StateWith
<1> HIDE DEF u
<1>5. /\ Len(u.frames) = L /\ u.frames[L] = g /\ \A n \in 1..L : n # L => u.frames[n] = s.frames[n]
      /\ u \in StateSet /\ u.steps = s.steps + 1 /\ u.abi = s.abi /\ u.loaded = s.loaded
      /\ u.running = s.running
  BY <1>2, <1>4 DEF Resembles, Replaces
<1>6. \A n \in 1..L : s.frames[n] \in FrameSet /\ FrameFits(i, s, n)
  BY <1>1, StateIs DEF FunRuns, Stack
<1>7. u.steps \in Nat /\ s.steps <= u.steps /\ u.steps <= MaxSteps + 1
  BY <1>1, <1>5, Bounds
<1>8. \A n \in 1..L : n # L => FrameFits(i, u, n)
  BY <1>1, <1>5, <1>6, <1>7, FrameBelow DEF FunRuns, Going
<1>9. FrameFits(i, u, L)
  <2>1. f.locals \in Nat /\ f.blocks \in Nat /\ f.pc \in Nat
    BY <1>1, FrameIs
  <2>2. f.locals <= MaxSteps /\ f.blocks <= MaxSteps
    BY <1>1, <2>1, Bounds
  <2>3. f.pc + 1 \in 1..Len(Code[f.unit]) + 1
    BY <1>1, OneMore, <2>1
  <2>4. QED BY <1>1, <1>2, <1>3, <1>4, <1>5, <2>2, <2>3 DEF FrameFits
<1>10. Stack(i, u)
  BY <1>1, <1>3, <1>4, <1>5, <1>7, <1>8, <1>9, Bounds DEF Stack
<1>11. FunResult(i, s, u, other)
  BY <1>1, <1>3, <1>4, <1>5, <1>10 DEF FunResult, Alike
<1>12. QED BY <1>11 DEF u, t

\* The statements that change no frame.
LEMMA FunPlain ==
  ASSUME NEW i \in Instance, NEW s, FunRuns(i, s), s.steps < MaxSteps, NEW other \in Nat,
         NEW u \in StateSet, Resembles(Ticked(s), u), u.status \in Going \cup Errors,
         LET f == s.frames[Len(s.frames)] IN Code[f.unit][f.pc].do \notin {"return", "again"}
  PROVE  FunResult(i, s, u, other)
<1> DEFINE t == Ticked(s)
           L == Len(s.frames)
           f == s.frames[L]
           g == t.frames[L]
<1>1. /\ s \in StateSet /\ L \in Nat /\ L > 1
      /\ f \in FrameSet /\ f.pc + 1 \in 1..Len(Code[f.unit]) /\ s.steps \in Nat
      /\ f.locals <= s.steps /\ f.blocks <= s.steps
  BY FunIs
<1>2. /\ t \in StateSet /\ Replaces(s, t, g)
      /\ g \in FrameSet /\ g.pc = f.pc + 1 /\ g.unit = f.unit
      /\ g.locals = f.locals /\ g.blocks = f.blocks
      /\ t.steps = s.steps + 1 /\ t.loaded = s.loaded /\ t.running = s.running
      /\ t.abi = s.abi
  BY <1>1, TickedIs
<1> HIDE DEF t
<1>3. /\ u.frames = t.frames /\ u.abi = t.abi /\ u.steps = t.steps /\ u.loaded = t.loaded
      /\ u.running = t.running
  BY DEF Resembles, t
<1>4. Replaces(s, u, g) /\ u.steps = s.steps + 1
  BY <1>2, <1>3 DEF Replaces
<1>5. f.locals \in Nat /\ f.blocks \in Nat
  BY <1>1, FrameIs
<1>6. f.locals <= s.steps + 1 /\ f.blocks <= s.steps + 1
  BY <1>1, <1>5
<1>7. Stack(i, u) /\ u.frames[1] = s.frames[1] /\ Len(u.frames) = L
  BY <1>1, <1>2, <1>4, <1>6, StackTop
<1>8. "returned" \notin Going \cup Errors
  BY DEF Going, Errors
<1>9. QED BY <1>1, <1>2, <1>3, <1>7, <1>8 DEF FunResult, Alike

\* The statements that change the frame.
LEMMA FunFrame ==
  ASSUME NEW i \in Instance, NEW s, FunRuns(i, s), s.steps < MaxSteps, NEW other \in Nat,
         NEW h \in FrameSet, h.unit = s.frames[Len(s.frames)].unit, h.pc \in 1..Len(Code[h.unit]),
         h.locals <= s.steps + 1, h.blocks <= s.steps + 1
  PROVE  FunResult(i, s, InFrame(Ticked(s), h), other)
<1> DEFINE t == Ticked(s)
           L == Len(s.frames)
           g == t.frames[L]
           u == InFrame(t, h)
<1>1. s \in StateSet /\ L \in Nat /\ L > 1 /\ s.status = "run"
  BY FunIs DEF FunRuns
<1>2. /\ t \in StateSet /\ Replaces(s, t, g)
      /\ t.steps = s.steps + 1 /\ t.loaded = s.loaded /\ t.running = s.running
      /\ t.abi = s.abi /\ t.status = s.status
  BY <1>1, TickedIs
<1>3. Len(t.frames) = L
  BY <1>2 DEF Replaces
<1>4. u \in StateSet /\ Replaces(t, u, h) /\ u = [t EXCEPT !.frames = u.frames]
  BY <1>1, <1>2, <1>3, InFrameIs
<1> HIDE DEF u, t
<1>5. /\ u.steps = t.steps /\ u.loaded = t.loaded /\ u.running = t.running
      /\ u.abi = t.abi /\ u.status = t.status
  BY <1>2, <1>4 DEF StateSet
<1>6. Replaces(s, u, h)
  BY <1>2, <1>3, <1>4 DEF Replaces
<1>7. Stack(i, u) /\ u.frames[1] = s.frames[1] /\ Len(u.frames) = L
  BY <1>2, <1>4, <1>5, <1>6, StackTop
<1>8. u.status \in Going /\ u.status # "returned"
  BY <1>1, <1>2, <1>5 DEF Going
<1>9. FunResult(i, s, u, other)
  BY <1>1, <1>2, <1>4, <1>5, <1>7, <1>8 DEF FunResult, Alike
<1>10. QED BY <1>9 DEF u, t

\* A call: of the function itself, or of the one an operation has asked for.
LEMMA EnteredIs ==
  ASSUME NEW i \in Instance, NEW t \in StateSet, t.status = "run", Stack(i, t),
         NEW unit \in Entries
  PROVE  LET u == Entered(t, unit)
         IN /\ u \in StateSet /\ Alike(t, u) /\ u.abi = t.abi /\ Stack(i, u)
            /\ u.frames[1] = t.frames[1] /\ u.status \in {"run", "depth"}
            /\ u.status = "run" => Len(u.frames) > 1
<1> DEFINE u == Entered(t, unit)
           L == Len(t.frames)
           g == Frame(unit)
<1>1. /\ L \in Nat /\ L \in 1..MaxCallDepth + 1 /\ t.steps \in Nat /\ t.steps <= MaxSteps
      /\ t.frames \in Seq(FrameSet) /\ \A n \in 1..L : FrameFits(i, t, n) /\ t.frames[n] \in FrameSet
  BY StateIs DEF Stack, Going
<1>2. unit \in DOMAIN Code /\ Len(Code[unit]) \in Nat /\ Len(Code[unit]) >= 1
  BY Bounds, CodeIs
<1>3. g \in FrameSet /\ g.unit = unit /\ g.pc = 1 /\ g.locals = 0 /\ g.blocks = 0
  BY <1>2 DEF Frame, FrameSet
<1>4. CASE L - 1 >= MaxCallDepth
  <2>1. u = [t EXCEPT !.status = "depth"]
    BY <1>4 DEF Entered
  <2>2. Resembles(t, u) /\ u.status = "depth"
    <3>1. "depth" \in Statuses
      BY DEF Statuses, Errors
    <3>2. Resembles(t, [t EXCEPT !.status = "depth"]) /\ [t EXCEPT !.status = "depth"].status = "depth"
      BY <3>1, StateWith
    <3> HIDE DEF u
    <3>3. QED BY <2>1, <3>2
  <2> HIDE DEF u
  <2>3. \A n \in 1..L : FrameFits(i, u, n)
    <3>1. \A n \in 1..L : FrameFits(i, t, n) /\ u.frames[n] = t.frames[n]
      BY <1>1, <2>2 DEF Resembles
    <3>2. u.status \notin Going
      BY <2>2 DEF Going
    <3>3. QED BY <3>1, <3>2 DEF FrameFits, Going
  <2>4. Stack(i, u)
    BY <1>1, <2>2, <2>3 DEF Stack, Resembles, Going
  <2>5. /\ u \in StateSet /\ Alike(t, u) /\ u.abi = t.abi /\ Stack(i, u)
        /\ u.frames[1] = t.frames[1] /\ u.status \in {"run", "depth"}
        /\ u.status = "run" => Len(u.frames) > 1
    BY <2>2, <2>4 DEF Resembles, Alike
  <2>6. QED BY <2>5 DEF u
<1>5. CASE ~(L - 1 >= MaxCallDepth)
  <2> DEFINE fs == Append(t.frames, g)
  <2>1. u = [t EXCEPT !.frames = fs]
    BY <1>5 DEF Entered
  <2>2. /\ fs \in Seq(FrameSet) /\ Len(fs) = L + 1 /\ fs[L + 1] = g
        /\ \A n \in 1..L : fs[n] = t.frames[n]
    BY <1>1, <1>3, AppendIs
  <2> HIDE DEF fs
  <2>3. /\ u \in StateSet /\ u.frames = fs /\ u.abi = t.abi /\ u.steps = t.steps
        /\ u.loaded = t.loaded /\ u.running = t.running /\ u.status = t.status
    BY <2>1, <2>2 DEF StateSet
  <2> HIDE DEF u, g
  <2>4. \A n \in 1..L : FrameFits(i, u, n)
    BY <1>1, <2>2, <2>3, FrameBelow DEF Going
  <2>5. FrameFits(i, u, L + 1)
    <3>1. L + 1 > 1 /\ 1 \in 1..Len(Code[unit]) + 1 /\ 0 <= MaxSteps /\ 0 <= t.steps
      BY <1>1, <1>2, Bounds
    <3>2. QED BY <1>2, <1>3, <2>2, <2>3, <3>1 DEF FrameFits
  <2>6. L + 1 \in 1..MaxCallDepth + 1 /\ \A n \in 1..L + 1 : n \in 1..L \/ n = L + 1
    BY <1>1, <1>5, Bounds
  <2>7. Stack(i, u)
    BY <1>1, <2>2, <2>3, <2>4, <2>5, <2>6, Bounds DEF Stack
  <2>8. 1 \in 1..L /\ L + 1 > 1
    BY <1>1
  <2>9. /\ u \in StateSet /\ Alike(t, u) /\ u.abi = t.abi /\ Stack(i, u)
        /\ u.frames[1] = t.frames[1] /\ u.status \in {"run", "depth"}
        /\ u.status = "run" => Len(u.frames) > 1
    BY <2>2, <2>3, <2>7, <2>8 DEF Alike
  <2>10. QED BY <2>9 DEF u
<1>6. QED BY <1>4, <1>5

\* A function calls itself.
LEMMA FunEnters ==
  ASSUME NEW i \in Instance, NEW s, FunRuns(i, s), s.steps < MaxSteps, NEW other \in Nat,
         LET f == s.frames[Len(s.frames)] IN Code[f.unit][f.pc].do = "recurse"
  PROVE  FunResult(i, s, Entered(Ticked(s), s.frames[Len(s.frames)].unit), other)
<1> DEFINE t == Ticked(s)
           L == Len(s.frames)
           f == s.frames[L]
           u == Entered(t, f.unit)
<1>1. s \in StateSet /\ L \in Nat /\ L > 1 /\ f.unit \in Entries /\ s.status = "run"
  BY FunIs DEF FunRuns
<1>2. t \in StateSet /\ t.status = "run"
  BY <1>1, TickedIs
<1>3. Resembles(t, t)
  BY <1>2 DEF Resembles
<1>4. FunResult(i, s, t, other)
  BY <1>2, <1>3, FunPlain DEF Going
<1>5. /\ Alike(s, t) /\ Stack(i, t) /\ t.abi = s.abi /\ t.frames[1] = s.frames[1]
  BY <1>4 DEF FunResult
<1> HIDE DEF t, f
<1>6. /\ u \in StateSet /\ Alike(t, u) /\ u.abi = t.abi /\ Stack(i, u)
      /\ u.frames[1] = t.frames[1] /\ u.status \in {"run", "depth"}
      /\ u.status = "run" => Len(u.frames) > 1
  BY <1>1, <1>2, <1>5, EnteredIs
<1> HIDE DEF u
<1>7. u.status \in Going \cup Errors /\ u.status # "returned"
      /\ (u.status \in Going => u.status = "run")
  BY <1>6 DEF Going, Errors
<1>8. FunResult(i, s, u, other)
  BY <1>5, <1>6, <1>7 DEF FunResult, Alike
<1>9. QED BY <1>8 DEF u, t, f

\* A function returns.
LEMMA FunReturns ==
  ASSUME NEW i \in Instance, NEW s, FunRuns(i, s), s.steps < MaxSteps, NEW other \in Nat,
         NEW units \in Nat
  PROVE  FunResult(i, s, Returned(Engine[i], Ticked(s), units, other), other)
<1> DEFINE t == Ticked(s)
           L == Len(s.frames)
           v == [t EXCEPT !.value = units]
           u == Returned(Engine[i], t, units, other)
<1>1. /\ s \in StateSet /\ L \in Nat /\ L > 1 /\ L <= MaxCallDepth + 1 /\ s.status = "run"
      /\ s.steps \in Nat /\ s.steps + 1 <= MaxSteps /\ s.steps + 1 <= MaxSteps + 1
  BY FunIs, Bounds DEF FunRuns
<1>2. /\ t \in StateSet /\ Replaces(s, t, t.frames[L])
      /\ t.steps = s.steps + 1 /\ t.loaded = s.loaded /\ t.running = s.running
      /\ t.abi = s.abi /\ t.status = s.status
  BY <1>1, TickedIs
<1>3. Len(t.frames) = L /\ t.frames \in Seq(FrameSet)
      /\ \A n \in 1..L : n # L => t.frames[n] = s.frames[n]
  BY <1>2 DEF Replaces
<1>4. CASE u = [t EXCEPT !.status = "memory"]
  <2>1. FunResult(i, s, [t EXCEPT !.status = "memory"], other)
    BY FunStopped
  <2>2. QED BY <1>4, <2>1
<1> HIDE DEF t
<1> DEFINE fs == Front(t.frames)
<1>5. /\ fs \in Seq(FrameSet) /\ Len(fs) = L - 1 /\ \A n \in 1..L - 1 : fs[n] = s.frames[n]
  <2>1. /\ fs \in Seq(FrameSet) /\ Len(fs) = L - 1 /\ \A n \in 1..L - 1 : fs[n] = t.frames[n]
    BY <1>1, <1>3, FrontIs
  <2> HIDE DEF fs
  <2>2. \A n \in 1..L - 1 : n \in 1..L /\ n # L
    BY <1>1
  <2>3. QED BY <1>3, <2>1, <2>2
<1> HIDE DEF fs
  \* What remains of the frames, in a state w.
<1>6. ASSUME NEW w \in StateSet, w.frames = fs, w.steps = s.steps + 1,
             w.status \in Going \cup {"returned"}
      PROVE  Stack(i, w) /\ w.frames[1] = s.frames[1] /\ Len(w.frames) = L - 1
  <2>1. \A n \in 1..L - 1 : n \in 1..L
    BY <1>1
  <2>2. \A n \in 1..L - 1 : FrameFits(i, s, n) /\ s.frames[n] \in FrameSet
    BY <1>1, <2>1, StateIs DEF FunRuns, Stack
  <2>3. s.steps <= s.steps + 1
    BY <1>1
  <2>4. \A n \in 1..L - 1 : FrameFits(i, w, n)
    <3>1. s.status \in Going /\ w.steps \in Nat /\ s.steps <= w.steps
      BY <1>1, <1>6, <2>3 DEF Going
    <3>2. \A n \in 1..L - 1 : w.frames[n] = s.frames[n]
      BY <1>5, <1>6
    <3>3. QED BY <1>1, <2>2, <3>1, <3>2, FrameBelow
  <2>5. L - 1 \in 1..MaxCallDepth + 1 /\ 1 \in 1..L - 1
    BY <1>1, Bounds
  <2>6. Stack(i, w)
    BY <1>1, <1>5, <1>6, <2>4, <2>5 DEF Stack
  <2>7. QED BY <1>5, <1>6, <2>5, <2>6
<1>7. v \in StateSet /\ v.frames = t.frames /\ v.steps = t.steps /\ v.kept = t.kept
      /\ v.value = units /\ v.loaded = t.loaded /\ v.running = t.running /\ v.abi = t.abi
      /\ v.status = t.status
  BY <1>2 DEF StateSet
<1> HIDE DEF v
<1>8. CASE L = 2 /\ ~Exceeds(v, other)
           /\ u = [v EXCEPT !.frames = Front(@), !.status = IF Engine[i] = "vm" THEN "run" ELSE "returned"]
  <2> DEFINE e == IF Engine[i] = "vm" THEN "run" ELSE "returned"
  <2>1. e \in Statuses /\ e \in Going \cup {"returned"} /\ (e \in Going => Engine[i] = "vm")
    BY DEF Statuses, Going
  <2>2. u = [v EXCEPT !.frames = fs, !.status = e]
    BY <1>7, <1>8 DEF fs
  <2> HIDE DEF u, e
  <2>3. /\ u \in StateSet /\ u.frames = fs /\ u.status = e /\ u.steps = v.steps
        /\ u.loaded = v.loaded /\ u.running = v.running /\ u.abi = v.abi
        /\ u.kept = v.kept /\ u.value = v.value
    BY <1>5, <1>7, <2>1, <2>2 DEF StateSet
  <2>4. Stack(i, u) /\ u.frames[1] = s.frames[1]
    BY <1>2, <1>6, <1>7, <2>1, <2>3
  <2>5. v.kept + v.value + other <= MaxMemory
    <3>1. v.kept + Locals(v) + v.value + other <= MaxMemory
      <4> DEFINE a == v.kept + Locals(v) + v.value + other
      <4>1. a \in Nat /\ MaxMemory \in Nat
        BY <1>3, <1>7, LocalsAre, StateIs, Bounds
      <4>2. ~(a > MaxMemory)
        BY <1>8 DEF Exceeds
      <4> HIDE DEF a
      <4>3. a <= MaxMemory
        BY <4>1, <4>2
      <4>4. QED BY <4>3 DEF a
    <3>2. Locals(v) \in Nat /\ v.kept \in Nat /\ v.value \in Nat
      BY <1>3, <1>7, LocalsAre, StateIs
    <3>3. QED BY <3>1, <3>2, Bounds
  <2>6. Alike(s, u) /\ u.abi = s.abi /\ u.kept + u.value + other <= MaxMemory
    BY <1>2, <1>7, <2>3, <2>5 DEF Alike
  <2>7. "walker" # "vm"
    OBVIOUS
  <2>8. FunResult(i, s, u, other)
    BY <2>1, <2>3, <2>4, <2>6, <2>7 DEF FunResult
  <2>9. QED BY <2>8 DEF u, t
<1>9. CASE L > 2 /\ u = [t EXCEPT !.frames = Front(@)]
  <2>1. u = [t EXCEPT !.frames = fs]
    BY <1>9 DEF fs
  <2> HIDE DEF u
  <2>2. /\ u \in StateSet /\ u.frames = fs /\ u.status = t.status /\ u.steps = t.steps
        /\ u.loaded = t.loaded /\ u.running = t.running /\ u.abi = t.abi
    BY <1>2, <1>5, <2>1 DEF StateSet
  <2>3. u.status \in Going /\ u.status # "returned" /\ L - 1 > 1
    BY <1>1, <1>2, <1>9, <2>2 DEF Going
  <2>4. Stack(i, u) /\ u.frames[1] = s.frames[1] /\ Len(u.frames) = L - 1
    BY <1>2, <1>6, <2>2, <2>3
  <2>5. Alike(s, u) /\ u.abi = s.abi
    BY <1>2, <2>2 DEF Alike
  <2>6. FunResult(i, s, u, other)
    BY <2>2, <2>3, <2>4, <2>5 DEF FunResult
  <2>7. QED BY <2>6 DEF u, t
<1>10. \/ u = [t EXCEPT !.status = "memory"]
       \/ /\ L = 2 /\ ~Exceeds(v, other)
          /\ u = [v EXCEPT !.frames = Front(@), !.status = IF Engine[i] = "vm" THEN "run" ELSE "returned"]
       \/ L > 2 /\ u = [t EXCEPT !.frames = Front(@)]
  <2>1. L # 1 /\ (L # 2 => L > 2)
    <3>1. L \in Nat /\ L > 1
      BY <1>1
    <3> HIDE DEF L
    <3>2. QED BY <3>1
  <2>2. u = IF Exceeds(v, other) THEN [t EXCEPT !.status = "memory"]
            ELSE IF L = 1 THEN ReturnedTop(t)
            ELSE IF L = 2
              THEN [v EXCEPT !.frames = Front(@), !.status = IF Engine[i] = "vm" THEN "run" ELSE "returned"]
            ELSE [t EXCEPT !.frames = Front(@)]
    BY <1>3 DEF Returned, v
  <2> HIDE DEF u
  <2>3. QED BY <2>1, <2>2
<1>11. QED BY <1>4, <1>8, <1>9, <1>10 DEF t

\* A statement of a function.
LEMMA FunPerformed ==
  ASSUME NEW i \in Instance, NEW s, FunRuns(i, s), s.steps < MaxSteps, NEW other \in Nat
  PROVE  LET f == s.frames[Len(s.frames)]
         IN FunResult(i, s, Performed(Engine[i], Ticked(s), Code[f.unit][f.pc], other), other)
<1> DEFINE L == Len(s.frames)
           f == s.frames[L]
           t == Ticked(s)
           g == t.frames[L]
           code == Code[f.unit]
           op == code[f.pc]
           u == Performed(Engine[i], t, op, other)
<1>1. /\ s \in StateSet /\ L \in Nat /\ L > 1 /\ f \in FrameSet
      /\ code \in Seq(Statement) /\ Len(code) \in Nat
      /\ f.pc \in 1..Len(code) /\ op \in Statement /\ op.do # "declare"
      /\ f.locals <= s.steps /\ f.blocks <= s.steps /\ s.steps \in Nat
      /\ op.do \notin {"return", "again"} => f.pc + 1 \in 1..Len(code)
  BY FunIs
<1>2. /\ t \in StateSet /\ Replaces(s, t, g)
      /\ g \in FrameSet /\ g.pc = f.pc + 1 /\ g.unit = f.unit
      /\ g.locals = f.locals /\ g.blocks = f.blocks /\ t.status = s.status
  BY <1>1, TickedIs
<1>3. f.locals \in Nat /\ f.blocks \in Nat /\ s.status = "run"
  BY <1>1, FrameIs DEF FunRuns
<1>4. Last(t.frames) = g
  BY <1>2 DEF Last, Replaces
<1>5. op.do \in {"bump", "keep", "drop", "local", "block", "again", "host", "panic",
                 "recurse", "return"}
  BY <1>1 DEF Statement
<1>6. f.locals <= s.steps + 1 /\ f.blocks <= s.steps + 1 /\ f.locals + 1 <= s.steps + 1
      /\ f.blocks + 1 <= s.steps + 1
  BY <1>1, <1>3, OneMore
<1>7. {"run", "host", "panic"} \subseteq Going \cup Errors
      /\ {"run", "host", "panic"} \subseteq Statuses
  BY DEF Going, Errors, Statuses
<1>8. CASE op.do \in {"bump", "keep", "drop", "host", "panic"}
  <2> HIDE DEF t, op
  <2>1. Resembles(t, u) /\ u.status \in Going \cup Errors
    <3>1. t.status = "run"
      BY <1>2, <1>3
    <3>2. CASE op.do = "bump"
      <4>1. u = [t EXCEPT !.total = @ + 1]
        BY <3>2 DEF Performed
      <4>2. Resembles(t, [t EXCEPT !.total = @ + 1]) /\ [t EXCEPT !.total = @ + 1].status = t.status
        BY <1>2, StateWith
      <4> HIDE DEF u
      <4>3. Resembles(t, u) /\ u.status = "run"
        BY <3>1, <4>1, <4>2
      <4>4. QED BY <1>7, <4>3
    <3>3. CASE op.do = "keep"
      <4>1. u = [t EXCEPT !.kept = @ + 1]
        BY <3>3 DEF Performed
      <4>2. Resembles(t, [t EXCEPT !.kept = @ + 1]) /\ [t EXCEPT !.kept = @ + 1].status = t.status
        BY <1>2, StateWith
      <4> HIDE DEF u
      <4>3. Resembles(t, u) /\ u.status = "run"
        BY <3>1, <4>1, <4>2
      <4>4. QED BY <1>7, <4>3
    <3>4. CASE op.do = "drop"
      <4>1. u = [t EXCEPT !.kept = 0]
        BY <3>4 DEF Performed
      <4>2. Resembles(t, [t EXCEPT !.kept = 0]) /\ [t EXCEPT !.kept = 0].status = t.status
        BY <1>2, StateWith
      <4> HIDE DEF u
      <4>3. Resembles(t, u) /\ u.status = "run"
        BY <3>1, <4>1, <4>2
      <4>4. QED BY <1>7, <4>3
    <3>5. CASE op.do = "host"
      <4>1. u = [t EXCEPT !.status = "host"]
        BY <3>5 DEF Performed
      <4> HIDE DEF u
      <4>2. QED BY <1>2, <1>7, <4>1, StateWith
    <3>6. CASE op.do = "panic"
      <4>1. u = [t EXCEPT !.status = "panic"]
        BY <3>6 DEF Performed
      <4> HIDE DEF u
      <4>2. QED BY <1>2, <1>7, <4>1, StateWith
    <3>7. QED BY <1>8, <3>2, <3>3, <3>4, <3>5, <3>6
  <2>2. op.do \notin {"return", "again"}
    BY <1>8
  <2>3. u \in StateSet
    BY <2>1 DEF Resembles
  <2> HIDE DEF u
  <2>4. Code[f.unit][f.pc].do \notin {"return", "again"}
    BY <2>2 DEF op
  <2>5. FunResult(i, s, u, other)
    BY <2>1, <2>3, <2>4, FunPlain DEF t
  <2>6. QED BY <2>5 DEF u, t, op
<1>9. ASSUME NEW h \in FrameSet, u = InFrame(t, h), h.unit = f.unit, h.pc \in 1..Len(code),
             h.locals <= s.steps + 1, h.blocks <= s.steps + 1
      PROVE  FunResult(i, s, u, other)
  <2>1. h.pc \in 1..Len(Code[h.unit])
    BY <1>9
  <2>2. FunResult(i, s, InFrame(t, h), other)
    BY <1>9, <2>1, FunFrame
  <2>3. QED BY <1>9, <2>2
<1>10. CASE op.do = "local"
  <2> HIDE DEF t
  <2> DEFINE h == [g EXCEPT !.locals = @ + 1]
  <2>1. u = InFrame(t, h)
    BY <1>4, <1>10 DEF Performed
  <2>2. /\ h \in FrameSet /\ h.unit = g.unit /\ h.pc = g.pc
        /\ h.locals = g.locals + 1 /\ h.blocks = g.blocks
    BY <1>2, FrameMore
  <2>3. h.unit = f.unit /\ h.pc \in 1..Len(code) /\ h.locals <= s.steps + 1 /\ h.blocks <= s.steps + 1
    BY <1>1, <1>2, <1>6, <1>10, <2>2
  <2> HIDE DEF h
  <2>4. FunResult(i, s, u, other)
    BY <1>9, <2>1, <2>2, <2>3 DEF t
  <2>5. QED BY <2>4 DEF t
<1>11. CASE op.do = "block"
  <2> HIDE DEF t
  <2> DEFINE h == [g EXCEPT !.blocks = @ + 1]
  <2>1. u = InFrame(t, h)
    BY <1>4, <1>11 DEF Performed
  <2>2. /\ h \in FrameSet /\ h.unit = g.unit /\ h.pc = g.pc
        /\ h.locals = g.locals /\ h.blocks = g.blocks + 1
    BY <1>2, FrameMore
  <2>3. h.unit = f.unit /\ h.pc \in 1..Len(code) /\ h.locals <= s.steps + 1 /\ h.blocks <= s.steps + 1
    BY <1>1, <1>2, <1>6, <1>11, <2>2
  <2> HIDE DEF h
  <2>4. FunResult(i, s, u, other)
    BY <1>9, <2>1, <2>2, <2>3 DEF t
  <2>5. QED BY <2>4 DEF t
<1>12. CASE op.do = "again"
  <2> HIDE DEF t
  <2> DEFINE h == [g EXCEPT !.pc = 1]
  <2>1. u = InFrame(t, h)
    BY <1>4, <1>12 DEF Performed
  <2>2. /\ h \in FrameSet /\ h.unit = g.unit /\ h.pc = 1
        /\ h.locals = g.locals /\ h.blocks = g.blocks
    BY <1>2, FrameAt
  <2>3. h.unit = f.unit /\ h.pc \in 1..Len(code) /\ h.locals <= s.steps + 1 /\ h.blocks <= s.steps + 1
    BY <1>1, <1>2, <1>6, <2>2
  <2> HIDE DEF h
  <2>4. FunResult(i, s, u, other)
    BY <1>9, <2>1, <2>2, <2>3 DEF t
  <2>5. QED BY <2>4 DEF t
<1>13. CASE op.do = "recurse"
  <2>1. u = Entered(t, f.unit)
    <3> HIDE DEF t
    <3>1. u = Entered(t, g.unit)
      BY <1>4, <1>13 DEF Performed
    <3>2. QED BY <1>2, <3>1
  <2>2. FunResult(i, s, Entered(t, f.unit), other)
    BY <1>13, FunEnters
  <2>3. QED BY <2>1, <2>2
<1>14. CASE op.do = "return"
  <2>1. u = Returned(Engine[i], t, op.units, other)
    BY <1>14 DEF Performed
  <2>2. op.units \in Nat
    BY <1>1, <1>14 DEF Statement
  <2>3. FunResult(i, s, Returned(Engine[i], t, op.units, other), other)
    BY <2>2, FunReturns
  <2>4. QED BY <2>1, <2>3
<1>15. QED BY <1>5, <1>8, <1>10, <1>11, <1>12, <1>13, <1>14

-------------------------------------------------------------------------------
(* The engines keep what the operations rely on. *)

\* An operation in progress on a state that is as it has to be.
Serves(i, o, s, other) ==
  /\ s \in StateSet /\ Good(i, s) /\ o \in OpSet /\ o.inst = i /\ Fits(o, s, other)

\* What a statement of a function makes is good and fits.
LEMMA FunServes ==
  ASSUME NEW i \in Instance, NEW s, NEW o, NEW other \in Nat, Serves(i, o, s, other),
         s.status = "run", Len(s.frames) > 1, NEW u, FunResult(i, s, u, other)
  PROVE  Serves(i, o, u, other)
<1>1. s \in StateSet /\ Good(i, s) /\ o \in OpSet /\ o.inst = i /\ Fits(o, s, other)
  BY DEF Serves
<1>2. Len(s.frames) # 1
  <2>1. Len(s.frames) \in Nat
    BY <1>1, StateIs
  <2> DEFINE L == Len(s.frames)
  <2>2. L \in Nat /\ L > 1
    BY <2>1
  <2> HIDE DEF L
  <2>3. L # 1
    BY <2>2
  <2>4. QED BY <2>3 DEF L
<1>3. o.kind \in Guarding /\ Calls(o, s, other)
  BY <1>1, <1>2 DEF Fits, Opens
<1>4. s.running /\ s.loaded /\ Engine[i] # "session" /\ o.unit \in Entries
  BY <1>1, <1>3 DEF Calls
<1>5. AtEnd(s) /\ Listed(s.abi, Code[Top[i]], FirstReturn(Code[Top[i]])) /\ IsInjective(s.abi)
  BY <1>1, <1>4 DEF Good, Sheds
<1>6. /\ u \in StateSet /\ u.loaded = s.loaded /\ u.running = s.running /\ Stack(i, u)
      /\ u.abi = s.abi /\ u.frames[1] = s.frames[1]
      /\ u.status \in Going \cup Errors \cup {"returned"}
  BY DEF FunResult, Alike
<1>7. u.status \notin {"rest", "next"}
  BY <1>6 DEF Going, Errors
<1>8. Sheds(i, u)
  BY <1>4, <1>5, <1>6 DEF Sheds, AtEnd
<1>9. Good(i, u)
  BY <1>4, <1>5, <1>6, <1>7, <1>8 DEF Good
<1>10. Calls(o, u, other)
  BY <1>1, <1>4, <1>6, <1>7 DEF Calls, FunResult
<1>11. QED BY <1>1, <1>3, <1>6, <1>7, <1>9, <1>10 DEF Serves, Fits

\* What a statement of a top level makes is good and fits.
LEMMA TopServes ==
  ASSUME NEW i \in Instance, NEW s, NEW o, NEW other \in Nat, Serves(i, o, s, other),
         s.status = "run", Opens(o, s), o.kind \notin Guarding, NEW u, TopResult(i, s, u)
  PROVE  Serves(i, o, u, other)
<1> DEFINE f == s.frames[1]
           g == u.frames[1]
<1>1. s \in StateSet /\ Good(i, s) /\ o \in OpSet /\ o.inst = i /\ Stack(i, s) /\ Len(s.frames) = 1
  BY DEF Serves, Good, Opens
<1>2. /\ u \in StateSet /\ u.loaded = s.loaded /\ u.running = s.running /\ u.value = 0
      /\ Len(u.frames) = 1 /\ g.unit = f.unit /\ g.pc \in 1..Len(Code[f.unit]) + 1
      /\ g.locals <= MaxSteps /\ g.blocks <= MaxSteps /\ u.status \in Going \cup Errors
      /\ u.steps <= MaxSteps + 1
      /\ u.status \in Going =>
           /\ g.locals <= u.steps /\ g.blocks <= u.steps /\ u.steps <= MaxSteps
           /\ Engine[i] # "session" => Declares(Code[f.unit], u.abi, g.pc)
      /\ IsInjective(u.abi)
  BY DEF TopResult, Alike
<1>3. u.status \notin {"rest", "next", "returned"}
  BY <1>2 DEF Going, Errors
<1>4. FrameFits(i, s, 1)
  BY <1>1 DEF Stack
<1>5. /\ IF Engine[i] = "session" THEN f.unit \in Inputs \cup {Top[i]} ELSE f.unit = Top[i]
  BY <1>4 DEF FrameFits
<1>6. FrameFits(i, u, 1)
  BY <1>2, <1>5 DEF FrameFits
<1>7. Stack(i, u)
  <2>1. 1 \in 1..MaxCallDepth + 1 /\ 1..1 = {1}
    BY Bounds
  <2>2. QED BY <1>2, <1>6, <2>1 DEF Stack
<1>8. Good(i, u)
  <2>1. CASE Engine[i] = "session"
    <3>1. s.loaded
      BY <1>1, <2>1 DEF Good
    <3>2. QED BY <1>2, <1>3, <1>7, <2>1, <3>1 DEF Good
  <2>2. CASE Engine[i] # "session"
    <3>1. ~u.loaded
      BY <1>1, <1>2, <2>2 DEF Opens
    <3>2. Sheds(i, u)
      BY <1>2, <1>3, <1>5, <2>2, <3>1 DEF Sheds
    <3>3. QED BY <1>2, <1>3, <1>7, <2>2, <3>2 DEF Good
  <2>3. QED BY <2>1, <2>2
<1>9. Opens(o, u)
  BY <1>1, <1>2, <1>3 DEF Opens
<1>10. QED BY <1>1, <1>2, <1>3, <1>8, <1>9 DEF Serves, Fits

\* The end of a top level.
LEMMA EndServes ==
  ASSUME NEW i \in Instance, NEW s, NEW o, NEW other \in Nat, Serves(i, o, s, other),
         s.status = "run", Len(s.frames) = 1, s.frames[1].pc > Len(Code[s.frames[1].unit])
  PROVE  Serves(i, o, [s EXCEPT !.status = "returned"], other)
<1> DEFINE u == [s EXCEPT !.status = "returned"]
           f == s.frames[1]
<1>1. s \in StateSet /\ Good(i, s) /\ o \in OpSet /\ o.inst = i /\ Fits(o, s, other)
  BY DEF Serves
<1>2. Resembles(s, u) /\ u.status = "returned" /\ u.kept = s.kept
  BY <1>1, StateWith DEF Statuses
<1> HIDE DEF u
<1>3. /\ u \in StateSet /\ u.frames = s.frames /\ u.abi = s.abi /\ u.steps = s.steps
      /\ u.value = s.value /\ u.loaded = s.loaded /\ u.running = s.running
  BY <1>2 DEF Resembles
<1>4. u.status \notin Going /\ u.status \notin {"rest", "next"} /\ s.status \in Going
  BY <1>2 DEF Going
<1>5. Stack(i, s) /\ 1 \in 1..1 /\ FrameFits(i, s, 1)
  BY <1>1 DEF Good, Stack
<1>6. AtEnd(s)
  <2>1. f.pc \in 1..Len(Code[f.unit]) + 1
    BY <1>5 DEF FrameFits
  <2>2. f \in FrameSet
    BY <1>1, StateIs
  <2>3. Len(Code[f.unit]) \in Nat
    BY <2>2, FrameIs, CodeIs
  <2>4. QED BY <2>1, <2>3 DEF AtEnd
<1>7. Stack(i, u)
  <2>1. FrameFits(i, u, 1)
    BY <1>3, <1>4, <1>5 DEF FrameFits
  <2>2. 1..1 = {1}
    OBVIOUS
  <2>3. QED BY <1>3, <1>4, <1>5, <2>1, <2>2 DEF Stack
<1>8. Good(i, u)
  <2>1. Engine[i] # "session" => Sheds(i, u)
    BY <1>1, <1>2, <1>3, <1>4, <1>6 DEF Good, Sheds, AtEnd
  <2>2. QED BY <1>1, <1>3, <1>4, <1>7, <2>1 DEF Good
<1>9. Fits(o, u, other)
  <2>1. CASE o.kind \in Guarding
    <3>1. Calls(o, s, other) /\ Engine[o.inst] # "walker"
      BY <1>1, <1>4, <2>1 DEF Fits, Calls
    <3>2. Calls(o, u, other)
      BY <1>3, <1>4, <3>1 DEF Calls
    <3>3. QED BY <1>4, <2>1, <3>2 DEF Fits
  <2>2. CASE o.kind \notin Guarding
    <3>1. Opens(o, u)
      BY <1>1, <1>3, <1>4, <1>6, <2>2 DEF Fits, Opens, AtEnd
    <3>2. QED BY <1>4, <2>2, <3>1 DEF Fits
  <2>3. QED BY <2>1, <2>2
<1>10. QED BY <1>1, <1>3, <1>8, <1>9 DEF Serves, u

\* One step of an engine.
LEMMA ExecuteServes ==
  ASSUME NEW i \in Instance, NEW s, NEW o, NEW other \in Nat, Serves(i, o, s, other),
         s.status = "run"
  PROVE  Serves(i, o, Executed(Engine[i], s, other), other)
<1> DEFINE L == Len(s.frames)
           f == s.frames[L]
           t == Ticked(s)
           u == Executed(Engine[i], s, other)
<1>1. s \in StateSet /\ Good(i, s) /\ o \in OpSet /\ o.inst = i /\ Fits(o, s, other) /\ Stack(i, s)
  BY DEF Serves, Good
<1>2. L \in Nat /\ L \in 1..MaxCallDepth + 1 /\ s.steps \in Nat /\ f \in FrameSet
  BY <1>1, StateIs DEF Stack
<1>3. L = 1 \/ L > 1
  <2>1. L \in Nat /\ L \in 1..MaxCallDepth + 1 /\ MaxCallDepth \in Nat
    BY <1>2, Bounds
  <2> HIDE DEF L
  <2>2. QED BY <2>1
<1>4. t.steps = s.steps + 1
  BY <1>1, <1>2, TickedIs
<1>5. \/ f.pc > Len(Code[f.unit]) /\ u = [s EXCEPT !.status = "returned"]
      \/ /\ ~(f.pc > Len(Code[f.unit]))
         /\ \/ u = [t EXCEPT !.status = "steps"]
            \/ u = [t EXCEPT !.status = "memory"]
            \/ /\ ~(t.steps > MaxSteps)
               /\ u = Performed(Engine[i], t, Code[f.unit][f.pc], other)
  <2>1. Last(s.frames) = f
    BY DEF Last
  <2>2. t = InFrame(Counted(s), [f EXCEPT !.pc = @ + 1])
    BY <2>1 DEF Ticked
  <2> HIDE DEF t
  <2>3. QED BY <2>1, <2>2 DEF Executed
<1>6. ~(t.steps > MaxSteps) => s.steps < MaxSteps
  BY <1>2, <1>4, Bounds
<1> HIDE DEF u
<1>7. CASE L > 1
  <2>1. FunRuns(i, s)
    BY <1>1, <1>7 DEF FunRuns
  <2>2. f.pc \in 1..Len(Code[f.unit]) /\ Len(Code[f.unit]) \in Nat
    BY <2>1, FunIs
  <2>3. ~(f.pc > Len(Code[f.unit]))
    <3> DEFINE p == f.pc
               l == Len(Code[f.unit])
    <3>1. p \in 1..l /\ l \in Nat
      BY <2>2
    <3> HIDE DEF p, l
    <3>2. ~(p > l)
      BY <3>1
    <3>3. QED BY <3>2 DEF p, l
  <2>4. FunResult(i, s, [t EXCEPT !.status = "steps"], other)
        /\ FunResult(i, s, [t EXCEPT !.status = "memory"], other)
    BY <2>1, FunStopped
  <2>5. s.steps < MaxSteps => FunResult(i, s, Performed(Engine[i], t, Code[f.unit][f.pc], other), other)
    BY <2>1, FunPerformed
  <2>6. FunResult(i, s, u, other)
    BY <1>5, <1>6, <2>3, <2>4, <2>5
  <2>7. Serves(i, o, u, other)
    BY <1>7, <2>6, FunServes
  <2>8. QED BY <2>7 DEF u
<1>8. CASE L = 1 /\ f.pc > Len(Code[f.unit])
  <2>1. Serves(i, o, [s EXCEPT !.status = "returned"], other)
    BY <1>8, EndServes
  <2>2. Serves(i, o, u, other)
    BY <1>5, <1>8, <2>1
  <2>3. QED BY <2>2 DEF u
<1>9. CASE L = 1 /\ ~(f.pc > Len(Code[f.unit]))
  <2>1. f = s.frames[1] /\ FrameFits(i, s, 1) /\ s.status \in Going
    BY <1>1, <1>2, <1>9 DEF Stack, Going
  <2>2. f.pc \in 1..Len(Code[f.unit]) + 1 /\ f.locals <= MaxSteps /\ f.blocks <= MaxSteps
        /\ f.locals <= s.steps /\ f.blocks <= s.steps
        /\ IF Engine[i] = "session" THEN f.unit \in Inputs \cup {Top[i]} ELSE f.unit = Top[i]
    BY <1>9, <2>1 DEF FrameFits
  <2>3. f.unit \in DOMAIN Code /\ f.pc \in Nat
    BY <1>2, FrameIs
  <2>4. Len(Code[f.unit]) \in Nat /\ \A k \in 1..Len(Code[f.unit]) : Code[f.unit][k].do # "recurse"
    BY <2>2, <2>3, CodeIs
  <2>5. f.pc \in 1..Len(Code[f.unit]) /\ f.pc # Len(Code[f.unit]) + 1
    <3> DEFINE p == f.pc
               l == Len(Code[f.unit])
    <3>1. p \in 1..l + 1 /\ l \in Nat /\ ~(p > l)
      BY <1>9, <2>2, <2>4
    <3> HIDE DEF p, l
    <3>2. p \in 1..l /\ p # l + 1
      BY <3>1
    <3>3. QED BY <3>2 DEF p, l
  <2>6. ~AtEnd(s)
    BY <2>1, <2>5 DEF AtEnd
  <2>7. o.kind \notin Guarding /\ Opens(o, s)
    BY <1>1, <2>6 DEF Fits, Calls, Good, Sheds
  <2>8. Engine[i] # "session" => Declares(Code[f.unit], s.abi, f.pc)
    BY <1>1, <2>1, <2>2, <2>6 DEF Good, Sheds
  <2>9. s.value = 0 /\ s.steps <= MaxSteps /\ IsInjective(s.abi)
    BY <1>1, <2>1, <2>7 DEF Opens, Good, Stack
  <2>10. TopRuns(i, s)
    BY <1>1, <1>2, <1>9, <2>1, <2>2, <2>4, <2>5, <2>8, <2>9 DEF TopRuns
  <2>11. TopResult(i, s, [t EXCEPT !.status = "steps"])
         /\ TopResult(i, s, [t EXCEPT !.status = "memory"])
    BY <2>10, TopStopped
  <2>12. s.steps < MaxSteps => TopResult(i, s, Performed(Engine[i], t, Code[f.unit][f.pc], other))
    BY <2>1, <2>10, TopPerformed
  <2>13. TopResult(i, s, u)
    BY <1>5, <1>6, <1>9, <2>11, <2>12
  <2>14. Serves(i, o, u, other)
    BY <2>7, <2>13, TopServes
  <2>15. QED BY <2>14 DEF u
<1>10. QED BY <1>3, <1>7, <1>8, <1>9

-------------------------------------------------------------------------------
(* What a change of one operation, of the one on top, leaves. *)

\* What the invariant says, for every operation by its number.
LEMMA Known ==
  ASSUME IInv
  PROVE  /\ Typed /\ Len(ops) \in Nat /\ DOMAIN ops = 1..Len(ops)
         /\ \A i \in Instance :
              /\ inst[i] \in StateSet /\ Good(i, inst[i]) /\ held[i] \in Nat /\ Values(i) \in Nat
              /\ Values(i) = held[i] + Collects(i, ops) /\ Collects(i, ops) \in Nat
         /\ \A n \in 1..Len(ops) :
              /\ ops[n] \in OpSet /\ ops[n].inst \in Instance
              /\ \A i \in Instance : ops[n].inst = i =>
                   Serves(i, ops[n], inst[i], Values(i)) /\ (n < Len(ops) => inst[i].status = "host")
              /\ \A m \in 1..Len(ops) : ops[m].inst = ops[n].inst => m = n
         /\ \A i \in Instance : (\A n \in 1..Len(ops) : ops[n].inst # i) =>
              inst[i].status = "rest" /\ ~inst[i].running
<1>1. Typed /\ ops \in Seq(OpSet) /\ inst \in [Instance -> StateSet] /\ held \in [Instance -> Nat]
  BY DEF IInv, Typed
<1>2. Len(ops) \in Nat /\ DOMAIN ops = 1..Len(ops)
  BY <1>1
<1>3. ASSUME NEW i \in Instance
      PROVE  /\ inst[i] \in StateSet /\ Good(i, inst[i]) /\ held[i] \in Nat /\ Values(i) \in Nat
             /\ Values(i) = held[i] + Collects(i, ops) /\ Collects(i, ops) \in Nat
  <2>1. inst[i] \in StateSet /\ Good(i, inst[i]) /\ held[i] \in Nat
    BY <1>1 DEF IInv
  <2>2. Collects(i, ops) \in Nat
    BY <1>1, GatheredIs
  <2>3. Values(i) = held[i] + Collects(i, ops)
    BY <1>1, ValuesAre
  <2>4. QED BY <2>1, <2>2, <2>3
<1>4. ASSUME NEW n \in 1..Len(ops)
      PROVE  /\ ops[n] \in OpSet /\ ops[n].inst \in Instance
             /\ \A i \in Instance : ops[n].inst = i =>
                  Serves(i, ops[n], inst[i], Values(i)) /\ (n < Len(ops) => inst[i].status = "host")
             /\ \A m \in 1..Len(ops) : ops[m].inst = ops[n].inst => m = n
  <2>1. ops[n] \in OpSet
    BY <1>1, <1>2
  <2>2. ops[n].inst \in Instance
    BY <2>1 DEF OpSet
  <2>3. /\ \A i \in Instance : ops[n].inst = i =>
             Fits(ops[n], inst[i], Values(i)) /\ (n < Len(ops) => inst[i].status = "host")
        /\ \A m \in 1..Len(ops) : ops[m].inst = ops[n].inst => m = n
    BY <1>2 DEF IInv
  <2>4. QED BY <1>3, <2>1, <2>2, <2>3 DEF Serves
<1>5. \A i \in Instance : (\A n \in 1..Len(ops) : ops[n].inst # i) =>
        inst[i].status = "rest" /\ ~inst[i].running
  BY <1>2 DEF IInv
<1>6. QED BY <1>1, <1>2, <1>3, <1>4, <1>5

\* The same, to be shown of the next state.
LEMMA Shown ==
  ASSUME Typed', Len(ops') \in Nat,
         \A i \in Instance : Good(i, inst'[i]),
         \A n \in 1..Len(ops') :
           /\ \A i \in Instance : ops'[n].inst = i =>
                Serves(i, ops'[n], inst'[i], Values(i)') /\ (n < Len(ops') => inst'[i].status = "host")
           /\ \A m \in 1..Len(ops') : ops'[m].inst = ops'[n].inst => m = n,
         \A i \in Instance : (\A n \in 1..Len(ops') : ops'[n].inst # i) =>
           inst'[i].status = "rest" /\ ~inst'[i].running
  PROVE  IInv'
<1>1. ops' \in Seq(OpSet)
  BY DEF Typed
<1>2. DOMAIN ops' = 1..Len(ops')
  BY <1>1
<1>3. \A n \in DOMAIN ops', i \in Instance : ops'[n].inst = i =>
        Fits(ops'[n], inst'[i], Values(i)') /\ (n < Len(ops') => inst'[i].status = "host")
  BY <1>2 DEF Serves
<1>4. \A m, n \in DOMAIN ops' : ops'[m].inst = ops'[n].inst => m = n
  BY <1>2
<1>5. \A i \in Instance : (\A n \in DOMAIN ops' : ops'[n].inst # i) =>
        inst'[i].status = "rest" /\ ~inst'[i].running
  BY <1>2
<1>6. QED BY <1>3, <1>4, <1>5 DEF IInv

\* The operation on top.
LEMMA OnTop ==
  ASSUME IInv, ops # <<>>
  PROVE  /\ Len(ops) >= 1 /\ Len(ops) \in 1..Len(ops) /\ Current = ops[Len(ops)]
         /\ Current \in OpSet /\ Current.inst \in Instance
         /\ \A i \in Instance : Current.inst = i => Serves(i, Current, inst[i], Values(i))
<1>1. ops \in Seq(OpSet)
  BY DEF IInv, Typed
<1>2. Len(ops) >= 1 /\ Len(ops) \in 1..Len(ops)
  BY <1>1
<1>3. Current = ops[Len(ops)]
  BY DEF Current, Last
<1>4. QED BY <1>2, <1>3, Known

\* The answers.
Answers == {"none", "value"} \cup Errors \cup Refusals

\* The operation on top goes on.
LEMMA TopKeeps ==
  ASSUME IInv, ops # <<>>, NEW o, NEW u, ops' = [ops EXCEPT ![Len(ops)] = o],
         inst' = [inst EXCEPT ![Current.inst] = u], held' = held, answer' \in Answers,
         requests' = requests, o.inst = Current.inst, o \in OpSet,
         Serves(Current.inst, o, u, held[Current.inst] + (Collects(Current.inst, ops)
                                      - Current.values + o.values))
  PROVE  IInv'
<1> DEFINE k == Len(ops)
           i == Current.inst
<1>1. /\ Typed /\ k \in Nat /\ k \in 1..k /\ Current = ops[k] /\ i \in Instance /\ Current \in OpSet
      /\ inst \in [Instance -> StateSet] /\ ops \in Seq(OpSet) /\ held \in [Instance -> Nat]
  BY OnTop, Known DEF Typed
<1>2. /\ ops' \in Seq(OpSet) /\ Len(ops') = k /\ ops'[k] = o
      /\ \A n \in 1..k : n # k => ops'[n] = ops[n]
  BY <1>1
<1>3. u \in StateSet /\ Good(i, u)
  BY DEF Serves
<1>4. inst' \in [Instance -> StateSet] /\ inst'[i] = u /\ \A j \in Instance : j # i => inst'[j] = inst[j]
  BY <1>1, <1>3
<1>5. Typed'
  BY <1>1, <1>2, <1>4 DEF Typed, Answers
<1>6. \A j \in Instance : Good(j, inst'[j])
  BY <1>3, <1>4, Known
<1>7. \A j \in Instance :
        Values(j)' = IF j = i THEN held[i] + (Collects(i, ops) - Current.values + o.values)
                     ELSE Values(j)
  <2>1. \A j \in Instance : Values(j)' = held[j] + Collects(j, ops')
    BY <1>2, ValuesArePrimed
  <2>2. \A j \in Instance : Values(j) = held[j] + Collects(j, ops)
    BY Known
  <2>3. \A n \in 1..k : n # k => ops'[n].inst = ops[n].inst /\ ops'[n].values = ops[n].values
    BY <1>2
  <2>4. ASSUME NEW j \in Instance
        PROVE  Collects(j, ops') = IF j = i THEN Collects(i, ops) - Current.values + o.values
                                   ELSE Collects(j, ops)
    <3> DEFINE q == ops'
               x == k
    <3>1. /\ q \in Seq(OpSet) /\ Len(ops) = Len(q) /\ x \in 1..Len(ops) /\ ops[x] = Current /\ q[x] = o
          /\ \A n \in 1..Len(ops) : n # x => q[n].inst = ops[n].inst /\ q[n].values = ops[n].values
      BY <1>1, <1>2, <2>3
    <3> HIDE DEF q, x
    <3>2. IF ops[x].inst = j THEN Collects(j, q) = Collects(j, ops) - ops[x].values + q[x].values
          ELSE Collects(j, q) = Collects(j, ops)
      <4>1. ops \in Seq(OpSet) /\ q[x].inst = ops[x].inst
        BY <1>1, <3>1
      <4>2. Revalues(ops, q, x)
        BY <3>1, <4>1 DEF Revalues
      <4>3. Recollects(j, ops, q, x)
        BY <4>2, CollectsChange
      <4>4. QED BY <4>3 DEF Recollects
    <3>3. QED BY <3>1, <3>2 DEF q
  <2>5. QED BY <2>1, <2>2, <2>4
<1>8. ASSUME NEW n \in 1..k
      PROVE  /\ \A j \in Instance : ops'[n].inst = j =>
                  Serves(j, ops'[n], inst'[j], Values(j)') /\ (n < k => inst'[j].status = "host")
             /\ \A m \in 1..k : ops'[m].inst = ops'[n].inst => m = n
  <2>1. \A m \in 1..k : ops'[m].inst = ops[m].inst
    BY <1>1, <1>2
  <2>2. \A m \in 1..k : ops'[m].inst = ops'[n].inst => m = n
    <3>1. \A m \in 1..k : ops[m].inst = ops[n].inst => m = n
      BY Known
    <3>2. QED BY <2>1, <3>1
  <2>3. ASSUME NEW j \in Instance, ops'[n].inst = j
        PROVE  Serves(j, ops'[n], inst'[j], Values(j)') /\ (n < k => inst'[j].status = "host")
    <3>1. CASE n = k
      <4>1. ops'[n] = o /\ j = i /\ ~(n < k)
        BY <1>1, <1>2, <2>3, <3>1
      <4>2. Values(j)' = held[i] + (Collects(i, ops) - Current.values + o.values)
        BY <1>7, <4>1
      <4>3. Serves(j, o, u, Values(j)')
        BY <4>1, <4>2
      <4>4. QED BY <1>4, <4>1, <4>3
    <3>2. CASE n # k
      <4>1. ops'[n] = ops[n] /\ ops[n].inst = j /\ j # i
        BY <1>1, <1>2, <2>3, <3>2, Known
      <4>2. inst'[j] = inst[j] /\ Values(j)' = Values(j)
        BY <1>4, <1>7, <4>1
      <4>3. Serves(j, ops[n], inst[j], Values(j)) /\ (n < k => inst[j].status = "host")
        BY <4>1, Known
      <4>4. QED BY <4>1, <4>2, <4>3
    <3>3. QED BY <3>1, <3>2
  <2>4. QED BY <2>2, <2>3
<1>9. ASSUME NEW j \in Instance, \A n \in 1..k : ops'[n].inst # j
      PROVE  inst'[j].status = "rest" /\ ~inst'[j].running
  <2>1. j # i /\ \A n \in 1..k : ops[n].inst # j
    BY <1>1, <1>2, <1>9
  <2>2. QED BY <1>4, <2>1, Known
<1>10. QED BY <1>1, <1>2, <1>5, <1>6, <1>8, <1>9, Shown

\* An operation begins.
LEMMA PushKeeps ==
  ASSUME IInv, HostsTurn, NEW i \in Instance, NEW o \in OpSet, NEW u, o.inst = i, o.values = 0,
         \A n \in 1..Len(ops) : ops[n].inst # i,
         ops' = Append(ops, o), inst' = [inst EXCEPT ![i] = u], held' = held, answer' \in Answers,
         requests' \in 0..MaxRequests, Serves(i, o, u, Values(i))
  PROVE  IInv'
<1> DEFINE k == Len(ops)
<1>1. /\ Typed /\ k \in Nat /\ ops \in Seq(OpSet) /\ inst \in [Instance -> StateSet]
      /\ held \in [Instance -> Nat]
  BY Known DEF Typed
<1>2. /\ ops' \in Seq(OpSet) /\ Len(ops') = k + 1 /\ ops'[k + 1] = o
      /\ \A n \in 1..k : ops'[n] = ops[n]
  BY <1>1, AppendIs
<1>3. u \in StateSet /\ Good(i, u)
  BY DEF Serves
<1>4. inst' \in [Instance -> StateSet] /\ inst'[i] = u /\ \A j \in Instance : j # i => inst'[j] = inst[j]
  BY <1>1, <1>3
<1>5. Typed'
  BY <1>1, <1>2, <1>4 DEF Typed, Answers
<1>6. \A j \in Instance : Good(j, inst'[j])
  BY <1>3, <1>4, Known
<1>7. \A j \in Instance : Values(j)' = Values(j)
  <2>1. \A j \in Instance : Values(j)' = held[j] + Collects(j, ops')
    BY <1>2, ValuesArePrimed
  <2>2. \A j \in Instance : Values(j) = held[j] + Collects(j, ops)
    BY Known
  <2>3. \A j \in Instance : Collects(j, ops') = Collects(j, ops)
    BY <1>1, CollectsPush
  <2>4. QED BY <2>1, <2>2, <2>3
<1>8. \A n \in 1..k : \A j \in Instance : ops[n].inst = j => inst[j].status = "host"
  <2> SUFFICES ASSUME NEW n \in 1..k, NEW j \in Instance, ops[n].inst = j
               PROVE  inst[j].status = "host"
    OBVIOUS
  <2>1. CASE n < k
    BY <2>1, Known
  <2>2. CASE n = k
    <3>1. ops # <<>>
      BY <1>1
    <3>2. Current = ops[k]
      BY <3>1, OnTop
    <3>3. QED BY <2>2, <3>1, <3>2 DEF HostsTurn
  <2>3. n < k \/ n = k
    BY <1>1
  <2>4. QED BY <2>1, <2>2, <2>3
<1>9. ASSUME NEW n \in 1..k + 1
      PROVE  /\ \A j \in Instance : ops'[n].inst = j =>
                  Serves(j, ops'[n], inst'[j], Values(j)') /\ (n < k + 1 => inst'[j].status = "host")
             /\ \A m \in 1..k + 1 : ops'[m].inst = ops'[n].inst => m = n
  <2>1. \A m \in 1..k + 1 : m \in 1..k \/ m = k + 1
    BY <1>1
  <2>2. CASE n = k + 1
    <3>1. \A m \in 1..k + 1 : ops'[m].inst = ops'[n].inst => m = n
      BY <1>2, <2>1, <2>2
    <3>2. Values(i)' = Values(i) /\ ~(n < k + 1)
      BY <1>1, <1>7, <2>2
    <3>3. QED BY <1>2, <1>4, <2>2, <3>1, <3>2
  <2>3. CASE n \in 1..k
    <3>1. ops'[n] = ops[n] /\ ops[n].inst # i
      BY <1>2, <2>3
    <3>2. \A m \in 1..k + 1 : ops'[m].inst = ops'[n].inst => m = n
      <4>1. \A m \in 1..k : ops'[m] = ops[m]
        BY <1>2
      <4>2. \A m \in 1..k : ops'[m].inst = ops'[n].inst => m = n
        BY <2>3, <3>1, <4>1, Known
      <4>3. ops'[k + 1].inst # ops'[n].inst
        BY <1>2, <3>1
      <4>4. QED BY <2>1, <4>2, <4>3
    <3>3. ASSUME NEW j \in Instance, ops'[n].inst = j
          PROVE  Serves(j, ops'[n], inst'[j], Values(j)') /\ inst'[j].status = "host"
      <4>1. j # i /\ ops[n].inst = j
        BY <3>1, <3>3
      <4>2. inst'[j] = inst[j] /\ Values(j)' = Values(j)
        BY <1>4, <1>7, <4>1
      <4>3. Serves(j, ops[n], inst[j], Values(j)) /\ inst[j].status = "host"
        BY <1>8, <2>3, <4>1, Known
      <4>4. QED BY <3>1, <4>2, <4>3
    <3>4. QED BY <3>2, <3>3
  <2>4. QED BY <2>1, <2>2, <2>3
<1>10. ASSUME NEW j \in Instance, \A n \in 1..k + 1 : ops'[n].inst # j
       PROVE  inst'[j].status = "rest" /\ ~inst'[j].running
  <2>1. k + 1 \in 1..k + 1 /\ \A n \in 1..k : n \in 1..k + 1
    BY <1>1
  <2>2. j # i /\ \A n \in 1..k : ops[n].inst # j
    BY <1>2, <1>10, <2>1
  <2>3. QED BY <1>4, <2>2, Known
<1>11. k + 1 \in Nat
  BY <1>1
<1>12. QED BY <1>2, <1>5, <1>6, <1>9, <1>10, <1>11, Shown

\* The operation on top ends.
LEMMA PopKeeps ==
  ASSUME IInv, ops # <<>>, NEW u \in StateSet, NEW units \in Nat,
         ops' = Front(ops), inst' = [inst EXCEPT ![Current.inst] = u],
         held' = [held EXCEPT ![Current.inst] = @ + units], answer' \in Answers,
         requests' = requests, Good(Current.inst, u), u.status = "rest", ~u.running
  PROVE  IInv'
<1> DEFINE k == Len(ops)
           i == Current.inst
<1>1. /\ Typed /\ k \in Nat /\ k >= 1 /\ k \in 1..k /\ Current = ops[k] /\ i \in Instance
      /\ inst \in [Instance -> StateSet] /\ ops \in Seq(OpSet) /\ held \in [Instance -> Nat]
      /\ Current \in OpSet
  BY OnTop, Known DEF Typed
<1>2. /\ ops' \in Seq(OpSet) /\ Len(ops') = k - 1 /\ \A n \in 1..k - 1 : ops'[n] = ops[n]
  BY <1>1, FrontIs
<1>3. inst' \in [Instance -> StateSet] /\ inst'[i] = u /\ \A j \in Instance : j # i => inst'[j] = inst[j]
  BY <1>1
<1>4. held' \in [Instance -> Nat] /\ \A j \in Instance : j # i => held'[j] = held[j]
  BY <1>1
<1>5. Typed'
  BY <1>1, <1>2, <1>3, <1>4 DEF Typed, Answers
<1>6. \A j \in Instance : Good(j, inst'[j])
  BY <1>3, Known
<1>7. k - 1 \in Nat /\ k - 1 < k /\ \A n \in 1..k - 1 : n \in 1..k /\ n # k /\ n < k
  BY <1>1
<1>8. \A j \in Instance : j # i => Values(j)' = Values(j)
  <2>1. \A j \in Instance : Values(j)' = held'[j] + Collects(j, ops')
    BY <1>2, ValuesArePrimed
  <2>2. \A j \in Instance : Values(j) = held[j] + Collects(j, ops)
    BY Known
  <2>3. ops = Append(ops', Current)
    <3>1. /\ Append(ops', Current) \in Seq(OpSet) /\ Len(Append(ops', Current)) = k
          /\ Append(ops', Current)[k] = Current
          /\ \A n \in 1..k - 1 : Append(ops', Current)[n] = ops'[n]
      <4> DEFINE q == ops'
      <4>1. q \in Seq(OpSet) /\ Len(q) = k - 1
        BY <1>2
      <4> HIDE DEF q
      <4>2. /\ Append(q, Current) \in Seq(OpSet) /\ Len(Append(q, Current)) = Len(q) + 1
            /\ Append(q, Current)[Len(q) + 1] = Current
            /\ \A n \in 1..Len(q) : Append(q, Current)[n] = q[n]
        BY <1>1, <4>1, AppendIs
      <4>3. k - 1 + 1 = k
        BY <1>1
      <4>4. QED BY <4>1, <4>2, <4>3 DEF q
    <3>2. \A n \in 1..k : Append(ops', Current)[n] = ops[n]
      <4>1. \A n \in 1..k : n = k \/ n \in 1..k - 1
        BY <1>1
      <4>2. QED BY <1>1, <1>2, <3>1, <4>1
    <3> DEFINE q == Append(ops', Current)
    <3>3. q \in Seq(OpSet) /\ Len(q) = Len(ops) /\ \A n \in 1..Len(ops) : q[n] = ops[n]
      BY <3>1, <3>2
    <3> HIDE DEF q
    <3>4. q = ops
      BY <1>1, <3>3, SeqEqual
    <3>5. QED BY <3>4 DEF q
  <2>4. \A j \in Instance : j # i => Collects(j, ops) = Collects(j, ops')
    <3>1. \A j \in Instance : j # i => Collects(j, Append(ops', Current)) = Collects(j, ops')
      BY <1>1, <1>2, CollectsPush
    <3>2. QED BY <2>3, <3>1
  <2>5. QED BY <1>4, <2>1, <2>2, <2>4
<1>9. ASSUME NEW n \in 1..k - 1
      PROVE  /\ \A j \in Instance : ops'[n].inst = j =>
                  Serves(j, ops'[n], inst'[j], Values(j)') /\ (n < k - 1 => inst'[j].status = "host")
             /\ \A m \in 1..k - 1 : ops'[m].inst = ops'[n].inst => m = n
  <2>1. ops'[n] = ops[n] /\ n \in 1..k /\ n # k /\ n < k
    BY <1>2, <1>7
  <2>2. \A m \in 1..k - 1 : ops'[m].inst = ops'[n].inst => m = n
    BY <1>2, <1>7, <2>1, Known
  <2>3. ops[n].inst # i
    BY <1>1, <2>1, Known
  <2>4. ASSUME NEW j \in Instance, ops'[n].inst = j
        PROVE  Serves(j, ops'[n], inst'[j], Values(j)') /\ inst'[j].status = "host"
    <3>1. inst'[j] = inst[j] /\ Values(j)' = Values(j)
      BY <1>3, <1>8, <2>1, <2>3, <2>4
    <3>2. Serves(j, ops[n], inst[j], Values(j)) /\ inst[j].status = "host"
      BY <2>1, <2>4, Known
    <3>3. QED BY <2>1, <3>1, <3>2
  <2>5. QED BY <2>2, <2>4
<1>10. ASSUME NEW j \in Instance, \A n \in 1..k - 1 : ops'[n].inst # j
       PROVE  inst'[j].status = "rest" /\ ~inst'[j].running
  <2>1. CASE j = i
    BY <1>3, <2>1
  <2>2. CASE j # i
    <3>1. \A n \in 1..k : n = k \/ n \in 1..k - 1
      BY <1>1
    <3>2. \A n \in 1..k : ops[n].inst # j
      BY <1>1, <1>2, <1>10, <2>2, <3>1
    <3>3. QED BY <1>3, <2>2, <3>2, Known
  <2>3. QED BY <2>1, <2>2
<1>11. QED BY <1>2, <1>5, <1>6, <1>7, <1>9, <1>10, Shown

\* Nothing but the answer changes, and what the host holds gets less.
LEMMA LessServes ==
  ASSUME NEW i \in Instance, NEW o, NEW p \in OpSet, NEW s, NEW x \in Nat, NEW y \in Nat, y <= x,
         Serves(i, o, s, x), p.inst = o.inst, p.kind = o.kind, p.unit = o.unit
  PROVE  Serves(i, p, s, y)
<1>1. s \in StateSet /\ Good(i, s) /\ o \in OpSet /\ o.inst = i /\ Fits(o, s, x)
  BY DEF Serves
<1>2. s.kept \in Nat /\ s.value \in Nat
  BY <1>1, StateIs
<1>3. (s.kept + x <= MaxMemory => s.kept + y <= MaxMemory)
      /\ (s.kept + s.value + x <= MaxMemory => s.kept + s.value + y <= MaxMemory)
  <2> DEFINE a == s.kept
             b == s.value
  <2>1. a \in Nat /\ b \in Nat /\ MaxMemory \in Nat
    BY <1>2, Bounds
  <2> HIDE DEF a, b
  <2>2. (a + x <= MaxMemory => a + y <= MaxMemory)
        /\ (a + b + x <= MaxMemory => a + b + y <= MaxMemory)
    BY <2>1
  <2>3. QED BY <2>2 DEF a, b
<1>4. Calls(o, s, x) => Calls(p, s, y)
  BY <1>3 DEF Calls
<1>5. Opens(o, s) => Opens(p, s)
  BY DEF Opens
<1>6. QED BY <1>1, <1>4, <1>5 DEF Serves, Fits

-------------------------------------------------------------------------------
(* States between operations. *)

\* An instance before its top level runs.
LEMMA FreshIs ==
  ASSUME NEW i \in Instance
  PROVE  LET s == Fresh(Top[i])
         IN /\ s \in StateSet /\ Stack(i, s) /\ Bare(s) /\ s.status = "rest" /\ ~s.running /\ ~s.loaded
            /\ s.abi = <<>> /\ IsInjective(s.abi) /\ s.steps = 0
            /\ s.frames[1].unit = Top[i] /\ s.frames[1].pc = 1
<1> DEFINE s == Fresh(Top[i])
           f == Frame(Top[i])
<1>1. Top[i] \in DOMAIN Code /\ Len(Code[Top[i]]) \in Nat
  BY Bounds, CodeIs
<1>2. f \in FrameSet /\ f.unit = Top[i] /\ f.pc = 1 /\ f.locals = 0 /\ f.blocks = 0
  BY <1>1 DEF Frame, FrameSet
<1> HIDE DEF f
<1>3. <<f>> \in Seq(FrameSet) /\ Len(<<f>>) = 1 /\ <<f>>[1] = f /\ <<>> \in Seq(Entries)
  BY <1>2
<1>4. "rest" \in Statuses
  BY DEF Statuses
<1>5. /\ s \in StateSet /\ s.frames = <<f>> /\ s.abi = <<>> /\ s.steps = 0 /\ s.value = 0
      /\ s.status = "rest" /\ s.running = FALSE /\ s.loaded = FALSE
  BY <1>3, <1>4 DEF Fresh, StateSet, f
<1> HIDE DEF s
<1>6. IsInjective(s.abi)
  BY <1>5 DEF IsInjective
<1>7. Bare(s)
  BY <1>2, <1>3, <1>5 DEF Bare
<1>8. FrameFits(i, s, 1)
  <2>1. 1 \in 1..Len(Code[Top[i]]) + 1 /\ 0 <= MaxSteps /\ ~(1 > 1)
    BY <1>1, Bounds
  <2>2. s.status \notin Going
    BY <1>5 DEF Going
  <2>3. QED BY <1>2, <1>3, <1>5, <2>1, <2>2 DEF FrameFits
<1>9. Stack(i, s)
  <2>1. 1 \in 1..MaxCallDepth + 1 /\ 0 <= MaxSteps + 1 /\ 1..1 = {1}
    BY Bounds
  <2>2. s.status \notin Going
    BY <1>5 DEF Going
  <2>3. QED BY <1>3, <1>5, <1>8, <2>1, <2>2 DEF Stack
<1>10. s.frames[1].unit = Top[i] /\ s.frames[1].pc = 1 /\ ~s.running /\ ~s.loaded
  BY <1>2, <1>3, <1>5
<1>11. QED BY <1>5, <1>6, <1>7, <1>9, <1>10 DEF s

\* A state that an operation leaves.
LEMMA BaselineIs ==
  ASSUME NEW i \in Instance, NEW s \in StateSet, Good(i, s)
  PROVE  LET b == Baseline(s)
         IN /\ b \in StateSet /\ Stack(i, b) /\ Bare(b) /\ b.status = "rest" /\ b.value = 0
            /\ b.running = s.running /\ b.loaded = s.loaded /\ b.abi = s.abi /\ b.kept = s.kept
            /\ b.steps = s.steps
            /\ b.frames[1].unit = s.frames[1].unit /\ b.frames[1].pc = s.frames[1].pc
<1> DEFINE b == Baseline(s)
           f == s.frames[1]
           g == [f EXCEPT !.locals = 0, !.blocks = 0]
<1>1. Stack(i, s) /\ Len(s.frames) \in 1..MaxCallDepth + 1 /\ Len(s.frames) \in Nat
      /\ s.steps <= MaxSteps + 1
  BY StateIs DEF Good, Stack
<1>2. 1 \in 1..Len(s.frames)
  BY <1>1, Bounds
<1>3. f \in FrameSet /\ FrameFits(i, s, 1)
  BY <1>1, <1>2, StateIs DEF Stack
<1>4. /\ g \in FrameSet /\ g.unit = f.unit /\ g.pc = f.pc /\ g.locals = 0 /\ g.blocks = 0
  BY <1>3 DEF FrameSet
<1>5. Bottom(s) = <<g>>
  BY DEF Bottom
<1> HIDE DEF g
<1>6. <<g>> \in Seq(FrameSet) /\ Len(<<g>>) = 1 /\ <<g>>[1] = g
  BY <1>4
<1>7. "rest" \in Statuses
  BY DEF Statuses
<1>8. b = [s EXCEPT !.frames = <<g>>, !.value = 0, !.status = "rest"]
  BY <1>5 DEF Baseline
<1> HIDE DEF b
<1>9. /\ b \in StateSet /\ b.frames = <<g>> /\ b.abi = s.abi /\ b.steps = s.steps /\ b.value = 0
      /\ b.status = "rest" /\ b.running = s.running /\ b.loaded = s.loaded /\ b.kept = s.kept
  BY <1>6, <1>7, <1>8 DEF StateSet
<1>10. Bare(b)
  BY <1>4, <1>6, <1>9 DEF Bare
<1>11. b.status \notin Going
  BY <1>9 DEF Going
<1>12. FrameFits(i, b, 1)
  <2>1. 0 <= MaxSteps /\ ~(1 > 1)
    BY Bounds
  <2>2. QED BY <1>3, <1>4, <1>6, <1>9, <1>11, <2>1 DEF FrameFits
<1>13. Stack(i, b)
  <2>1. 1 \in 1..MaxCallDepth + 1 /\ 1..1 = {1}
    BY Bounds
  <2>2. QED BY <1>1, <1>6, <1>9, <1>11, <1>12, <2>1 DEF Stack
<1>14. QED BY <1>4, <1>6, <1>9, <1>10, <1>13 DEF b

\* It can be left with another flag, status or answer to whether it is loaded.
LEMMA BareWith ==
  ASSUME NEW i \in Instance, NEW b \in StateSet, Stack(i, b), Bare(b), IsInjective(b.abi),
         NEW v \in StateSet, v.frames = b.frames, v.steps = b.steps, v.value = b.value, v.abi = b.abi,
         v.status \in {"rest", "next"},
         Engine[i] = "session" => v.loaded,
         Engine[i] # "session" =>
           v.loaded /\ AtEnd(b) /\ Listed(b.abi, Code[Top[i]], FirstReturn(Code[Top[i]]))
  PROVE  Good(i, v)
<1>1. v.status \notin Going
  BY DEF Going
<1>2. \A n \in 1..Len(v.frames) : FrameFits(i, v, n)
  BY <1>1 DEF Stack, FrameFits
<1>3. Stack(i, v)
  BY <1>1, <1>2 DEF Stack
<1>4. Bare(v)
  BY DEF Bare
<1>5. Engine[i] # "session" => Sheds(i, v)
  BY DEF Sheds, AtEnd
<1>6. QED BY <1>3, <1>4, <1>5 DEF Good

\* At first.
LEMMA InitHolds == Init => IInv
<1> SUFFICES ASSUME Init PROVE IInv
  OBVIOUS
<1> DEFINE first(i) == [Fresh(Top[i]) EXCEPT !.loaded = Engine[i] = "session"]
<1>1. ASSUME NEW i \in Instance
      PROVE  /\ first(i) \in StateSet /\ Good(i, first(i)) /\ first(i).status = "rest"
             /\ ~first(i).running
  <2> DEFINE s == Fresh(Top[i])
             e == (Engine[i] = "session")
             u == [s EXCEPT !.loaded = e]
  <2>1. /\ s \in StateSet /\ Stack(i, s) /\ Bare(s) /\ s.status = "rest" /\ ~s.running /\ ~s.loaded
        /\ s.abi = <<>> /\ IsInjective(s.abi)
    BY FreshIs
  <2>2. e \in BOOLEAN
    OBVIOUS
  <2>3. CASE Engine[i] = "session"
    <3> HIDE DEF s
    <3>1. u = [s EXCEPT !.loaded = TRUE]
      BY <2>3
    <3>2. /\ u \in StateSet /\ u.frames = s.frames /\ u.steps = s.steps /\ u.value = s.value
          /\ u.abi = s.abi /\ u.status = s.status /\ u.running = s.running /\ u.loaded
      BY <2>1, <3>1 DEF StateSet
    <3> HIDE DEF u, e
    <3>3. Good(i, u)
      BY <2>1, <2>3, <3>2, BareWith
    <3>4. QED BY <2>1, <3>2, <3>3 DEF u, e, s
  <2>4. CASE Engine[i] # "session"
    <3>1. u = s
      <4> HIDE DEF s
      <4>1. u = [s EXCEPT !.loaded = FALSE] /\ s.loaded = FALSE
        BY <2>1, <2>4 DEF StateSet
      <4>2. QED BY <2>1, <4>1 DEF StateSet
    <3>2. Sheds(i, s)
      BY <2>1 DEF Sheds, Going
    <3>3. Good(i, s)
      BY <2>1, <2>4, <3>2 DEF Good
    <3>4. QED BY <2>1, <3>1, <3>3
  <2>5. QED BY <2>3, <2>4
<1>2. \A i \in Instance : inst[i] = first(i)
  BY DEF Init
<1> HIDE DEF first
<1>3. inst \in [Instance -> StateSet]
  <2>1. inst = [i \in Instance |-> first(i)]
    BY DEF Init, first
  <2>2. QED BY <1>1, <2>1
<1>4. ops = <<>> /\ ops \in Seq(OpSet) /\ DOMAIN ops = {}
  BY DEF Init
<1>5. Typed
  BY <1>3, <1>4, Bounds DEF Init, Typed
<1>6. QED BY <1>1, <1>2, <1>4, <1>5 DEF IInv

-------------------------------------------------------------------------------
(* Operations begin, or are refused. *)

\* A request becomes an operation.
LEMMA OperationIs ==
  ASSUME NEW r, r.inst \in Instance, r.kind \in Kinds, r.unit \in DOMAIN Code,
         r.args \in Seq(BOOLEAN)
  PROVE  LET o == Operation(r)
         IN /\ o \in OpSet /\ o.inst = r.inst /\ o.kind = r.kind /\ o.unit = r.unit /\ o.values = 0
            /\ \A n \in Nat : [o EXCEPT !.start = [total |-> n, kept |-> 0, other |-> 0]] \in OpSet
<1> DEFINE o == Operation(r)
<1>1. o = [inst |-> r.inst, kind |-> r.kind, unit |-> r.unit, left |-> r.args, values |-> 0,
           start |-> [total |-> 0, kept |-> 0, other |-> 0], replies |-> <<>>, freed |-> 0]
  BY DEF Operation
<1>2. <<>> \in Seq([fails : BOOLEAN, freed : Nat])
  OBVIOUS
<1> HIDE DEF o
<1>3. o \in OpSet /\ o.inst = r.inst /\ o.kind = r.kind /\ o.unit = r.unit /\ o.values = 0
  BY <1>1, <1>2 DEF OpSet
<1>4. ASSUME NEW n \in Nat
      PROVE  [o EXCEPT !.start = [total |-> n, kept |-> 0, other |-> 0]] \in OpSet
  <2> DEFINE b == [total |-> n, kept |-> 0, other |-> 0]
  <2>1. b \in [total : Nat, kept : Nat, other : Nat]
    OBVIOUS
  <2> HIDE DEF b
  <2>2. [o EXCEPT !.start = b] \in OpSet
    BY <1>3, <2>1 DEF OpSet
  <2>3. QED BY <2>2 DEF b
<1>5. QED BY <1>3, <1>4 DEF o

\* An instance without an operation rests.
LEMMA Idle ==
  ASSUME IInv, NEW i \in Instance, ~\E o \in Range(ops) : o.inst = i
  PROVE  /\ \A n \in 1..Len(ops) : ops[n].inst # i
         /\ inst[i].status = "rest" /\ ~inst[i].running /\ Bare(inst[i])
<1>1. \A n \in 1..Len(ops) : ops[n].inst # i
  BY Known DEF Range
<1>2. QED BY <1>1, Known DEF Good

\* Loading begins: the top level has not run before, and runs from its first statement.
LEMMA LoadKeeps ==
  ASSUME IInv, NEW i \in Instance, Load(i)
  PROVE  IInv'
<1> DEFINE s == inst[i]
           u == [s EXCEPT !.status = "run"]
           r == [inst |-> i, kind |-> "load", unit |-> Top[i], args |-> <<>>]
           o == Operation(r)
<1>1. /\ HostsTurn /\ requests < MaxRequests /\ Engine[i] # "session" /\ ~s.loaded
      /\ ~\E p \in Range(ops) : p.inst = i
      /\ Push(o, u)
  BY DEF Load
<1>2. /\ \A n \in 1..Len(ops) : ops[n].inst # i
      /\ s.status = "rest" /\ ~s.running /\ Bare(s)
  <2>1. ~\E p \in Range(ops) : p.inst = i
    BY <1>1
  <2>2. QED BY <2>1, Idle
<1>3. s \in StateSet /\ Good(i, s) /\ Values(i) \in Nat
  BY Known
<1>4. s = Fresh(Top[i])
  BY <1>1, <1>2, <1>3 DEF Good, Sheds
<1>5. "load" \in Kinds /\ "load" \notin Guarding /\ <<>> \in Seq(BOOLEAN)
  BY DEF Kinds, Guarding
<1>6. o \in OpSet /\ o.inst = i /\ o.kind = "load" /\ o.values = 0
  <2> HIDE DEF o
  <2>1. r.inst = i /\ r.kind = "load" /\ r.unit = Top[i] /\ r.args = <<>>
    OBVIOUS
  <2> HIDE DEF r
  <2>2. Operation(r) \in OpSet /\ Operation(r).inst = i /\ Operation(r).kind = "load"
        /\ Operation(r).values = 0
    BY <1>5, <2>1, Bounds, OperationIs
  <2>3. QED BY <2>2 DEF o
<1>7. /\ ops' = Append(ops, o) /\ inst' = [inst EXCEPT ![i] = u] /\ answer' = "none"
      /\ requests' = requests + 1 /\ held' = held
  <2>1. Push(o, u) /\ o.inst = i
    BY <1>1, <1>6
  <2> HIDE DEF o, u
  <2>2. QED BY <2>1 DEF Push
<1> HIDE DEF o, r
<1>8. /\ Stack(i, s) /\ Bare(s) /\ s.abi = <<>> /\ IsInjective(s.abi) /\ s.steps = 0
      /\ s.frames[1].unit = Top[i] /\ s.frames[1].pc = 1
  BY <1>4, FreshIs
<1>9. Resembles(s, u) /\ u.status = "run"
  <2>1. "run" \in Statuses
    BY DEF Statuses
  <2>2. QED BY <1>3, <2>1, StateWith
<1> HIDE DEF u
<1>10. /\ u \in StateSet /\ u.frames = s.frames /\ u.abi = s.abi /\ u.steps = s.steps
       /\ u.value = s.value /\ u.loaded = s.loaded /\ u.running = s.running
  BY <1>9 DEF Resembles
<1>11. FrameFits(i, u, 1)
  <2>1. FrameFits(i, s, 1) /\ 1 \in 1..1
    BY <1>8 DEF Stack, Bare
  <2>2. s.frames[1].locals = 0 /\ s.frames[1].blocks = 0
    BY <1>8 DEF Bare
  <2>3. 0 <= 0 /\ ~(1 > 1)
    OBVIOUS
  <2>4. QED BY <1>8, <1>10, <2>1, <2>2, <2>3 DEF FrameFits
<1>12. Stack(i, u)
  <2>1. 1..1 = {1} /\ 0 <= MaxSteps
    BY Bounds
  <2>2. QED BY <1>8, <1>10, <1>11, <2>1 DEF Stack, Bare
<1>13. Declares(Code[Top[i]], <<>>, 1)
  BY Bounds, CodeIs, DeclareStart
<1>14. Good(i, u)
  <2>1. Sheds(i, u)
    BY <1>1, <1>8, <1>9, <1>10, <1>13 DEF Sheds
  <2>2. QED BY <1>1, <1>8, <1>9, <1>10, <1>12, <2>1 DEF Good
<1>15. Serves(i, o, u, Values(i))
  <2>1. Opens(o, u)
    BY <1>1, <1>2, <1>6, <1>8, <1>9, <1>10 DEF Opens, Bare
  <2>2. QED BY <1>5, <1>6, <1>9, <1>10, <1>14, <2>1 DEF Serves, Fits
<1>16. answer' \in Answers /\ requests' \in 0..MaxRequests
  BY <1>1, <1>7, Known, Bounds DEF Answers, Typed
<1>17. QED BY <1>1, <1>2, <1>6, <1>7, <1>15, <1>16, PushKeeps

\* A session begins an input in its bottom frame.
LEMMA EvalKeeps ==
  ASSUME IInv, NEW i \in Instance, NEW input \in Inputs, Eval(i, input)
  PROVE  IInv'
<1> DEFINE s == inst[i]
           b == [s EXCEPT !.status = "run", !.steps = 0]
           h == [Last(b.frames) EXCEPT !.unit = input, !.pc = 1]
           u == InFrame(b, h)
           r == [inst |-> i, kind |-> "eval", unit |-> input, args |-> <<>>]
           o == [Operation(r) EXCEPT !.start = [total |-> b.total, kept |-> 0, other |-> 0]]
<1>1. /\ HostsTurn /\ requests < MaxRequests /\ Engine[i] = "session"
      /\ ~\E p \in Range(ops) : p.inst = i
      /\ Push(o, u)
  BY DEF Eval
<1>2. /\ \A n \in 1..Len(ops) : ops[n].inst # i
      /\ s.status = "rest" /\ ~s.running /\ Bare(s)
  <2>1. ~\E p \in Range(ops) : p.inst = i
    BY <1>1
  <2>2. QED BY <2>1, Idle
<1>3. s \in StateSet /\ Good(i, s) /\ Values(i) \in Nat /\ Stack(i, s) /\ s.loaded
      /\ IsInjective(s.abi)
  BY <1>1, Known DEF Good
<1>4. "eval" \in Kinds /\ "eval" \notin Guarding /\ <<>> \in Seq(BOOLEAN) /\ "eval" # "load"
      /\ "run" \in Statuses /\ "run" \in Going
  BY DEF Kinds, Guarding, Statuses, Going
<1>5. /\ b \in StateSet /\ b.frames = s.frames /\ b.abi = s.abi /\ b.steps = 0 /\ b.status = "run"
      /\ b.value = s.value /\ b.loaded = s.loaded /\ b.running = s.running /\ b.total = s.total
  BY <1>3, <1>4 DEF StateSet
<1>6. input \in DOMAIN Code /\ Len(Code[input]) \in Nat
  BY Bounds, CodeIs
<1>7. o \in OpSet /\ o.inst = i /\ o.kind = "eval" /\ o.values = 0
  <2> HIDE DEF b
  <2> DEFINE q == Operation(r)
             n == b.total
             z == [total |-> n, kept |-> 0, other |-> 0]
  <2>1. r.inst = i /\ r.kind = "eval" /\ r.unit = input /\ r.args = <<>>
    OBVIOUS
  <2>2. n \in Nat
    BY <1>5, StateIs
  <2> HIDE DEF r, n
  <2>3. q \in OpSet /\ q.inst = i /\ q.kind = "eval" /\ q.values = 0
        /\ [q EXCEPT !.start = z] \in OpSet
    BY <1>4, <1>6, <2>1, <2>2, OperationIs
  <2> HIDE DEF q, z
  <2>4. /\ [q EXCEPT !.start = z].inst = i /\ [q EXCEPT !.start = z].kind = "eval"
        /\ [q EXCEPT !.start = z].values = 0
    BY <2>3 DEF OpSet
  <2>5. o = [q EXCEPT !.start = z]
    BY DEF q, z, n
  <2>6. QED BY <2>3, <2>4, <2>5
<1>8. /\ ops' = Append(ops, o) /\ inst' = [inst EXCEPT ![i] = u] /\ answer' = "none"
      /\ requests' = requests + 1 /\ held' = held
  <2>1. Push(o, u) /\ o.inst = i
    BY <1>1, <1>7
  <2> HIDE DEF o, u
  <2>2. QED BY <2>1 DEF Push
<1> HIDE DEF o, r
<1>9. Len(s.frames) = 1 /\ s.value = 0 /\ s.frames[1].locals = 0 /\ s.frames[1].blocks = 0
  BY <1>2 DEF Bare
<1>10. s.frames[1] \in FrameSet /\ Last(b.frames) = s.frames[1] /\ Len(b.frames) >= 1
       /\ Len(b.frames) = 1
  <2>1. 1 \in 1..Len(s.frames)
    BY <1>9
  <2>2. s.frames[1] \in FrameSet
    BY <1>3, <2>1, StateIs
  <2> HIDE DEF b
  <2>3. QED BY <1>5, <1>9, <2>2 DEF Last
<1>11. /\ h \in FrameSet /\ h.unit = input /\ h.pc = 1 /\ h.locals = 0 /\ h.blocks = 0
  <2> HIDE DEF b
  <2> DEFINE f == s.frames[1]
  <2>1. f \in FrameSet /\ f.locals = 0 /\ f.blocks = 0
    BY <1>9, <1>10
  <2>2. h = [f EXCEPT !.unit = input, !.pc = 1]
    BY <1>10
  <2> HIDE DEF f, h
  <2>3. QED BY <1>6, <2>1, <2>2 DEF FrameSet
<1> HIDE DEF h
<1>12. /\ u \in StateSet /\ Replaces(b, u, h) /\ u = [b EXCEPT !.frames = u.frames]
  <2> HIDE DEF b
  <2>1. QED BY <1>5, <1>10, <1>11, InFrameIs
<1> HIDE DEF b, u
<1>13. /\ u.abi = s.abi /\ u.steps = 0 /\ u.status = "run" /\ u.value = 0
       /\ u.loaded /\ u.running = s.running
  BY <1>3, <1>5, <1>9, <1>12 DEF StateSet
<1>14. Len(u.frames) = 1 /\ u.frames[1] = h
  BY <1>10, <1>12 DEF Replaces
<1>15. FrameFits(i, u, 1)
  <2>1. 1 \in 1..Len(Code[input]) + 1 /\ 0 <= MaxSteps /\ 0 <= 0 /\ ~(1 > 1)
    BY <1>6, Bounds
  <2>2. QED BY <1>1, <1>11, <1>13, <1>14, <2>1 DEF FrameFits
<1>16. Stack(i, u)
  <2>1. 1..1 = {1} /\ 0 <= MaxSteps /\ 0 <= MaxSteps + 1 /\ 1 \in 1..MaxCallDepth + 1
    BY Bounds
  <2>2. QED BY <1>13, <1>14, <1>15, <2>1 DEF Stack
<1>17. Good(i, u)
  BY <1>1, <1>3, <1>13, <1>16 DEF Good
<1>18. Serves(i, o, u, Values(i))
  <2>1. Opens(o, u)
    BY <1>1, <1>2, <1>4, <1>7, <1>13, <1>14 DEF Opens
  <2>2. QED BY <1>4, <1>7, <1>12, <1>13, <1>17, <2>1 DEF Serves, Fits
<1>19. answer' \in Answers /\ requests' \in 0..MaxRequests
  BY <1>1, <1>8, Known, Bounds DEF Answers, Typed
<1>20. QED BY <1>1, <1>2, <1>7, <1>8, <1>18, <1>19, PushKeeps

\* What is asked of an instance.
LEMMA RequestIs ==
  ASSUME IInv, NEW i \in Instance, NEW r \in Requests(i)
  PROVE  /\ inst[i].loaded /\ Engine[i] # "session"
         /\ r.inst = i /\ r.kind \in Guarding /\ r.unit \in Entries /\ r.args \in Seq(BOOLEAN)
<1>1. i \in Loaded /\ Engine[i] # "session"
      /\ r \in CallRequests(i) \cup PreparedRequests(i) \cup BatchRequests(i) \cup ValueRequests(i)
  BY DEF Requests
<1>2. inst[i].loaded
  BY <1>1 DEF Loaded
<1>3. OneList \subseteq Seq(BOOLEAN)
  BY DEF OneList
<1>4. {"call", "prepared", "batch", "value"} \subseteq Guarding
  BY DEF Guarding
<1>5. \A e \in Prepared(i) : e[1] \in Entries
  <2> SUFFICES ASSUME NEW j \in Loaded, NEW u \in Range(inst[j].abi) PROVE u \in Entries
    BY DEF Prepared
  <2>1. inst[j] \in StateSet
    BY Known DEF Loaded
  <2>2. inst[j].abi \in Seq(Entries)
    BY <2>1, StateIs
  <2> DEFINE abi == inst[j].abi
  <2>3. abi \in Seq(Entries) /\ u \in Range(abi)
    BY <2>2
  <2> HIDE DEF abi
  <2>4. QED BY <2>3 DEF Range
<1>6. ArgLists \subseteq Seq(BOOLEAN)
  <2> SUFFICES ASSUME NEW n \in 1..MaxBatch, NEW a \in [1..n -> BOOLEAN] PROVE a \in Seq(BOOLEAN)
    BY DEF ArgLists
  <2>1. n \in Nat
    BY Bounds
  <2>2. QED BY <2>1
<1>7. ASSUME NEW kind, NEW unit, NEW owner, NEW args, r = Request(i, kind, unit, owner, args)
      PROVE  r.inst = i /\ r.kind = kind /\ r.unit = unit /\ r.args = args
  BY <1>7 DEF Request
<1>8. CASE r \in CallRequests(i)
  <2>1. PICK u \in Entries, args \in OneList : r = Request(i, "call", u, i, args)
    BY <1>8 DEF CallRequests
  <2>2. QED BY <1>1, <1>2, <1>3, <1>4, <1>7, <2>1
<1>9. CASE r \in PreparedRequests(i)
  <2>1. PICK e \in Prepared(i), args \in OneList : r = Request(i, "prepared", e[1], e[2], args)
    BY <1>9 DEF PreparedRequests
  <2>2. QED BY <1>1, <1>2, <1>3, <1>4, <1>5, <1>7, <2>1
<1>10. CASE r \in BatchRequests(i)
  <2>1. PICK e \in Prepared(i), args \in ArgLists : r = Request(i, "batch", e[1], e[2], args)
    BY <1>10 DEF BatchRequests
  <2>2. QED BY <1>1, <1>2, <1>4, <1>5, <1>6, <1>7, <2>1
<1>11. CASE r \in ValueRequests(i)
  <2>1. PICK u \in Entries, j \in Loaded, args \in OneList : r = Request(i, "value", u, j, args)
    BY <1>11 DEF ValueRequests
  <2>2. QED BY <1>1, <1>2, <1>3, <1>4, <1>7, <2>1
<1>12. QED BY <1>1, <1>8, <1>9, <1>10, <1>11

\* With nothing of a call left, the account has the globals and the values.
LEMMA BareExceeds ==
  ASSUME NEW s \in StateSet, NEW other \in Nat, Len(s.frames) = 1, s.frames[1].locals = 0,
         ~Exceeds(s, other)
  PROVE  s.kept + s.value + other <= MaxMemory
<1>1. Locals(s) = 0
  <2>1. \A n \in 1..Len(s.frames) : s.frames[n].locals = 0
    <3>1. \A n \in 1..1 : n = 1
      OBVIOUS
    <3>2. QED BY <3>1
  <2>2. QED BY <2>1, StateIs, LocalsAre
<1>2. s.kept \in Nat /\ s.value \in Nat
  BY StateIs
<1> DEFINE a == s.kept
           b == s.value
<1>3. a \in Nat /\ b \in Nat /\ MaxMemory \in Nat /\ ~(a + 0 + b + other > MaxMemory)
  BY <1>1, <1>2, Bounds DEF Exceeds
<1> HIDE DEF a, b
<1>4. a + b + other <= MaxMemory
  BY <1>3
<1>5. QED BY <1>4 DEF a, b

\* An operation that is not refused begins: its instance was at rest and is guarded now.
LEMMA BeginKeeps ==
  ASSUME IInv, NEW i \in Instance, NEW r \in Requests(i), Begin(r)
  PROVE  IInv'
<1> DEFINE s == inst[i]
           u == [Guarded(s) EXCEPT !.status = "next"]
           o == Operation(r)
<1>1. /\ HostsTurn /\ requests < MaxRequests /\ Refusal(r) = "none"
      /\ Push(Operation(r), [Guarded(inst[r.inst]) EXCEPT !.status = "next"])
  BY DEF Begin
<1>2. /\ s.loaded /\ Engine[i] # "session"
      /\ r.inst = i /\ r.kind \in Guarding /\ r.unit \in Entries /\ r.args \in Seq(BOOLEAN)
  BY RequestIs
<1>3. s \in StateSet /\ Good(i, s) /\ Values(i) \in Nat /\ Stack(i, s) /\ IsInjective(s.abi)
  BY Known DEF Good
<1>4. ~s.running /\ ~Exceeds(s, Values(i))
  <2>1. ~Busy(r) /\ ~Exceeds(inst[r.inst], Values(r.inst))
    BY <1>1 DEF Refusal
  <2>2. QED BY <1>2, <2>1 DEF Busy
<1>5. \A n \in 1..Len(ops) : ops[n].inst # i
  <2> SUFFICES ASSUME NEW n \in 1..Len(ops), ops[n].inst = i PROVE FALSE
    OBVIOUS
  <2>1. Fits(ops[n], s, Values(i))
    BY Known DEF Serves
  <2>2. QED BY <1>2, <1>4, <2>1 DEF Fits, Calls, Opens
<1>6. s.status = "rest" /\ Bare(s)
  BY <1>3, <1>5, Known DEF Good
<1>7. o \in OpSet /\ o.inst = i /\ o.kind = r.kind /\ o.unit = r.unit /\ o.values = 0
  <2>1. r.kind \in Kinds /\ r.unit \in DOMAIN Code
    BY <1>2, Bounds DEF Kinds
  <2>2. QED BY <1>2, <2>1, OperationIs
<1>8. /\ ops' = Append(ops, o) /\ inst' = [inst EXCEPT ![i] = u] /\ answer' = "none"
      /\ requests' = requests + 1 /\ held' = held
  <2>1. Push(o, u) /\ o.inst = i
    BY <1>1, <1>2, <1>7
  <2> HIDE DEF o, u
  <2>2. QED BY <2>1 DEF Push
<1> HIDE DEF o
<1>9. /\ u \in StateSet /\ u.frames = s.frames /\ u.abi = s.abi /\ u.steps = s.steps
      /\ u.value = s.value /\ u.loaded = s.loaded /\ u.running /\ u.status = "next" /\ u.kept = s.kept
  <2>1. "next" \in Statuses
    BY DEF Statuses
  <2>2. QED BY <1>3, <2>1 DEF Guarded, StateSet
<1> HIDE DEF u
<1>10. AtEnd(s) /\ Listed(s.abi, Code[Top[i]], FirstReturn(Code[Top[i]]))
  BY <1>2, <1>3 DEF Good, Sheds
<1>11. Good(i, u)
  BY <1>2, <1>3, <1>6, <1>9, <1>10, BareWith
<1>12. u.kept + Values(i) <= MaxMemory
  <2>1. s.kept + s.value + Values(i) <= MaxMemory /\ s.value = 0 /\ s.kept \in Nat
    BY <1>3, <1>4, <1>6, BareExceeds, StateIs DEF Bare
  <2>2. s.kept + 0 + Values(i) = s.kept + Values(i)
    BY <1>3, <2>1
  <2>3. QED BY <1>9, <2>1, <2>2
<1>13. Serves(i, o, u, Values(i))
  <2>1. Calls(o, u, Values(i))
    BY <1>2, <1>7, <1>9, <1>12 DEF Calls, Going
  <2>2. QED BY <1>2, <1>7, <1>9, <1>11, <2>1 DEF Serves, Fits
<1>14. answer' \in Answers /\ requests' \in 0..MaxRequests
  <2>1. requests \in Nat /\ requests < MaxRequests /\ MaxRequests \in Nat
    BY <1>1, Known, Bounds DEF Typed
  <2>2. QED BY <1>8, <2>1 DEF Answers
<1>15. QED BY <1>1, <1>5, <1>7, <1>8, <1>13, <1>14, PushKeeps

\* What changes neither the instances nor the operations nor the values.
LEMMA SameKeeps ==
  ASSUME IInv, UNCHANGED <<inst, ops, held>>, answer' \in Answers, requests' \in 0..MaxRequests
  PROVE  IInv'
<1>1. Typed'
  BY DEF IInv, Typed, Answers
<1>2. \A i \in Instance : Values(i)' = Values(i)
  <2>1. ops' = ops /\ ops \in Seq(OpSet) /\ ops' \in Seq(OpSet) /\ held' = held
    BY Known DEF Typed
  <2>2. QED BY <2>1, ValuesAre, ValuesArePrimed
<1>3. Len(ops') \in Nat /\ Len(ops') = Len(ops)
  BY Known
<1>4. \A i \in Instance : Good(i, inst'[i])
  BY Known
<1>5. \A n \in 1..Len(ops') :
        /\ \A i \in Instance : ops'[n].inst = i =>
             Serves(i, ops'[n], inst'[i], Values(i)') /\ (n < Len(ops') => inst'[i].status = "host")
        /\ \A m \in 1..Len(ops') : ops'[m].inst = ops'[n].inst => m = n
  BY <1>2, Known
<1>6. \A i \in Instance : (\A n \in 1..Len(ops') : ops'[n].inst # i) =>
        inst'[i].status = "rest" /\ ~inst'[i].running
  BY Known
<1>7. QED BY <1>1, <1>3, <1>4, <1>5, <1>6, Shown

\* A refusal leaves every instance and every operation as they are.
LEMMA RefuseKeeps ==
  ASSUME IInv, NEW r, Refuse(r)
  PROVE  IInv'
<1>1. requests < MaxRequests /\ Refusal(r) # "none" /\ answer' = Refusal(r)
      /\ requests' = requests + 1 /\ UNCHANGED <<inst, ops, held>>
  BY DEF Refuse
<1>2. Refusal(r) \in Refusals \cup {"none"}
  BY DEF Refusal, Refusals
<1>3. answer' \in Answers /\ requests' \in 0..MaxRequests
  BY <1>1, <1>2, Known, Bounds DEF Answers, Typed
<1>4. QED BY <1>1, <1>3, SameKeeps

-------------------------------------------------------------------------------
(* Operations go on and end. *)

\* The operation of an instance that executes.
LEMMA Running ==
  ASSUME IInv, NEW i \in Instance, Executing(i)
  PROVE  /\ ops # <<>> /\ Current.inst = i /\ Current \in OpSet
         /\ Serves(i, Current, inst[i], Values(i)) /\ Values(i) \in Nat
         /\ inst[i] \in StateSet /\ Good(i, inst[i]) /\ IsInjective(inst[i].abi)
         /\ Fits(Current, inst[i], Values(i))
         /\ held[i] + (Collects(i, ops) - Current.values + Current.values) = Values(i)
         /\ Current.values \in Nat /\ held[i] \in Nat /\ Collects(i, ops) \in Nat
<1>1. ops # <<>> /\ Current.inst = i
  BY DEF Executing
<1>2. Current \in OpSet /\ Serves(i, Current, inst[i], Values(i))
  BY <1>1, OnTop
<1>3. Current.values \in Nat
  BY <1>2 DEF OpSet
<1>4. Values(i) = held[i] + Collects(i, ops) /\ held[i] \in Nat /\ Collects(i, ops) \in Nat
  BY Known
<1>5. QED BY <1>1, <1>2, <1>3, <1>4 DEF Serves, Good

\* What an operation other than a load leaves is good.
LEMMA LeftGood ==
  ASSUME NEW i \in Instance, NEW o, NEW s, NEW other, Serves(i, o, s, other), o.kind # "load"
  PROVE  LET b == Baseline(s)
         IN /\ b \in StateSet /\ Good(i, b) /\ b.status = "rest" /\ b.kept = s.kept
            /\ Released(b) \in StateSet /\ Good(i, Released(b)) /\ Released(b).status = "rest"
            /\ ~Released(b).running /\ Released(b).loaded = s.loaded
            /\ Released(b).kept = s.kept
<1> DEFINE b == Baseline(s)
           v == Released(b)
<1>1. s \in StateSet /\ Good(i, s) /\ o.inst = i /\ Fits(o, s, other)
  BY DEF Serves
<1>2. /\ b \in StateSet /\ Stack(i, b) /\ Bare(b) /\ b.status = "rest" /\ b.value = 0
      /\ b.running = s.running /\ b.loaded = s.loaded /\ b.abi = s.abi /\ b.kept = s.kept
      /\ b.steps = s.steps
      /\ b.frames[1].unit = s.frames[1].unit /\ b.frames[1].pc = s.frames[1].pc
  BY <1>1, BaselineIs
<1> HIDE DEF b
<1>3. /\ v \in StateSet /\ v.frames = b.frames /\ v.steps = b.steps /\ v.value = b.value
      /\ v.abi = b.abi /\ v.status = b.status /\ v.loaded = b.loaded /\ v.running = FALSE
      /\ v.kept = b.kept
  BY <1>2 DEF Released, StateSet
<1> HIDE DEF v
<1>4. s.loaded
  BY <1>1 DEF Fits, Calls, Opens, Good
<1>5. Engine[i] # "session" =>
        AtEnd(s) /\ Listed(s.abi, Code[Top[i]], FirstReturn(Code[Top[i]]))
  BY <1>1, <1>4 DEF Good, Sheds
<1>6. Engine[i] # "session" =>
        AtEnd(b) /\ Listed(b.abi, Code[Top[i]], FirstReturn(Code[Top[i]]))
  BY <1>2, <1>5 DEF AtEnd
<1>7. IsInjective(b.abi)
  BY <1>1, <1>2 DEF Good
<1>8. Good(i, b) /\ Good(i, v)
  BY <1>2, <1>3, <1>4, <1>6, <1>7, BareWith
<1>9. QED BY <1>2, <1>3, <1>8 DEF b, v

\* An error ends an operation: a load starts anew, anything else goes back to the bottom.
LEMMA FailsKeeps ==
  ASSUME IInv, NEW i \in Instance, Executing(i), NEW why \in Errors, Fails(i, why)
  PROVE  IInv'
<1> DEFINE back == Released(Baseline(inst[i]))
           u == IF Current.kind = "load" THEN Fresh(Top[i]) ELSE back
           ans == IF Exceeds(back, IF Engine[i] = "vm" THEN Values(i) ELSE held[i]) THEN "memory" ELSE why
<1>1. End(i, u, ans, 0)
  BY DEF Fails
<1>2. /\ ops # <<>> /\ Current.inst = i /\ Serves(i, Current, inst[i], Values(i))
  BY Running
<1>3. u \in StateSet /\ Good(i, u) /\ u.status = "rest" /\ ~u.running
  <2>1. CASE Current.kind = "load"
    <3> DEFINE s == Fresh(Top[i])
    <3>1. /\ s \in StateSet /\ Stack(i, s) /\ Bare(s) /\ s.status = "rest" /\ ~s.running /\ ~s.loaded
          /\ IsInjective(s.abi)
      BY FreshIs
    <3>2. Engine[i] # "session"
      BY <1>2, <2>1 DEF Serves, Fits, Opens, Guarding
    <3>3. Sheds(i, s)
      BY <3>1 DEF Sheds, Going
    <3>4. Good(i, s)
      BY <3>1, <3>2, <3>3 DEF Good
    <3> HIDE DEF s
    <3>5. u = s
      BY <2>1 DEF s
    <3>6. QED BY <3>1, <3>4, <3>5
  <2>2. CASE Current.kind # "load"
    <3>1. back \in StateSet /\ Good(i, back) /\ back.status = "rest" /\ ~back.running
      BY <1>2, <2>2, LeftGood
    <3> HIDE DEF back
    <3>2. QED BY <2>2, <3>1
  <2>3. QED BY <2>1, <2>2
<1>4. ans \in Answers
  BY DEF Answers, Errors
<1> HIDE DEF u, ans
<1>5. /\ ops' = Front(ops) /\ inst' = [inst EXCEPT ![i] = u]
      /\ held' = [held EXCEPT ![i] = @ + 0] /\ answer' = ans /\ requests' = requests
  BY <1>1 DEF End
<1>6. 0 \in Nat
  OBVIOUS
<1>7. QED BY <1>2, <1>3, <1>4, <1>5, <1>6, PopKeeps

\* An error in the engine ends its operation.
LEMMA UnwindKeeps ==
  ASSUME IInv, NEW i \in Instance, Unwind(i)
  PROVE  IInv'
<1>1. Executing(i) /\ inst[i].status \in Errors /\ Fails(i, inst[i].status)
  BY DEF Unwind
<1>2. QED BY <1>1, FailsKeeps

\* The engine does one statement.
LEMMA ExecuteKeeps ==
  ASSUME IInv, NEW i \in Instance, Execute(i)
  PROVE  IInv'
<1> DEFINE u == Executed(Engine[i], inst[i], Values(i))
<1>1. /\ Executing(i) /\ inst[i].status = "run" /\ inst' = [inst EXCEPT ![i] = u]
      /\ UNCHANGED <<ops, held, answer, requests>>
  BY DEF Execute
<1>2. /\ ops # <<>> /\ Current.inst = i /\ Current \in OpSet /\ Serves(i, Current, inst[i], Values(i))
      /\ Values(i) \in Nat
      /\ held[i] + (Collects(i, ops) - Current.values + Current.values) = Values(i)
  BY <1>1, Running
<1>3. Serves(i, Current, u, Values(i))
  BY <1>1, <1>2, ExecuteServes
<1> HIDE DEF u
<1>4. ops' = [ops EXCEPT ![Len(ops)] = Current]
  <2>1. ops \in Seq(OpSet) /\ Current = ops[Len(ops)]
    BY <1>2, OnTop, Known DEF Typed
  <2>2. ops' = ops
    BY <1>1
  <2>3. QED BY <2>1, <2>2
<1>5. answer' \in Answers
  BY <1>1, Known DEF Typed, Answers
<1>6. Serves(Current.inst, Current, u, held[Current.inst] + (Collects(Current.inst, ops)
                                         - Current.values + Current.values))
  BY <1>2, <1>3
<1>7. QED BY <1>1, <1>2, <1>4, <1>5, <1>6, TopKeeps

\* The next call of an operation begins, or fails on its number of arguments.
LEMMA StartCallKeeps ==
  ASSUME IInv, NEW i \in Instance, StartCall(i)
  PROVE  IInv'
<1> DEFINE s == inst[i]
           t == [s EXCEPT !.status = "run", !.steps = 0]
           u == Entered(t, Current.unit)
           start == [total |-> inst[i].total, kept |-> inst[i].kept, other |-> Values(i)]
           o == [Current EXCEPT !.left = Tail(@), !.replies = <<>>, !.freed = 0, !.start = start]
<1>1. Executing(i) /\ s.status = "next" /\ Current.left # <<>>
      /\ IF Head(Current.left)
         THEN /\ inst' = [inst EXCEPT ![i] = u]
              /\ ops' = [ops EXCEPT ![Len(ops)] = o]
              /\ UNCHANGED <<held, answer, requests>>
         ELSE Fails(i, "arity")
  BY DEF StartCall
<1>2. CASE ~Head(Current.left)
  <2>1. Fails(i, "arity") /\ "arity" \in Errors
    BY <1>1, <1>2 DEF Errors
  <2>2. QED BY <1>1, <2>1, FailsKeeps
<1>3. CASE Head(Current.left)
  <2>1. /\ ops # <<>> /\ Current.inst = i /\ Current \in OpSet
        /\ Values(i) \in Nat /\ s \in StateSet /\ Good(i, s) /\ IsInjective(s.abi)
        /\ Fits(Current, s, Values(i))
        /\ held[i] + (Collects(i, ops) - Current.values + Current.values) = Values(i)
    BY <1>1, Running
  <2>2. Current.kind \in Guarding /\ Calls(Current, s, Values(i))
    BY <1>1, <2>1 DEF Fits, Opens
  <2>3. s.running /\ s.loaded /\ Engine[i] # "session" /\ Current.unit \in Entries
    BY <2>1, <2>2 DEF Calls
  <2>4. Bare(s) /\ Stack(i, s) /\ AtEnd(s)
        /\ Listed(s.abi, Code[Top[i]], FirstReturn(Code[Top[i]]))
    BY <1>1, <2>1, <2>3 DEF Good, Sheds
  <2>5. /\ t \in StateSet /\ t.frames = s.frames /\ t.abi = s.abi /\ t.steps = 0
        /\ t.status = "run" /\ t.loaded = s.loaded /\ t.running = s.running
    <3>1. "run" \in Statuses
      BY DEF Statuses
    <3>2. QED BY <2>1, <3>1 DEF StateSet
  <2> HIDE DEF t
  <2>6. Stack(i, t)
    <3>1. FrameFits(i, s, 1) /\ Len(s.frames) = 1 /\ s.frames[1].locals = 0 /\ s.frames[1].blocks = 0
      <4>1. 1 \in 1..1
        OBVIOUS
      <4>2. QED BY <2>4, <4>1 DEF Stack, Bare
    <3>2. FrameFits(i, t, 1)
      <4>1. 0 <= 0 /\ ~(1 > 1)
        OBVIOUS
      <4>2. QED BY <2>5, <3>1, <4>1 DEF FrameFits
    <3>3. 1 \in 1..MaxCallDepth + 1 /\ 1..1 = {1} /\ 0 <= MaxSteps /\ 0 <= MaxSteps + 1
      BY Bounds
    <3>4. QED BY <2>5, <3>1, <3>2, <3>3 DEF Stack
  <2>7. /\ u \in StateSet /\ Alike(t, u) /\ u.abi = t.abi /\ Stack(i, u)
        /\ u.frames[1] = t.frames[1] /\ u.status \in {"run", "depth"}
        /\ u.status = "run" => Len(u.frames) > 1
    BY <2>3, <2>5, <2>6, EnteredIs
  <2> HIDE DEF u
  <2>8. /\ u.loaded /\ u.running /\ u.abi = s.abi /\ u.frames[1] = s.frames[1]
        /\ u.status \notin {"rest", "next", "returned"}
        /\ u.status \in Going => u.status = "run"
    BY <2>3, <2>5, <2>7 DEF Alike, Going
  <2>9. Good(i, u)
    <3>1. Sheds(i, u)
      BY <2>4, <2>8 DEF Sheds, AtEnd
    <3>2. QED BY <2>1, <2>3, <2>7, <2>8, <3>1 DEF Good
  <2>10. /\ o \in OpSet /\ o.inst = Current.inst /\ o.kind = Current.kind /\ o.unit = Current.unit
         /\ o.values = Current.values
    <3>1. Tail(Current.left) \in Seq(BOOLEAN)
      <4> DEFINE l == Current.left
      <4>1. l \in Seq(BOOLEAN) /\ l # <<>>
        BY <1>1, <2>1 DEF OpSet
      <4> HIDE DEF l
      <4>2. Tail(l) \in Seq(BOOLEAN)
        BY <4>1
      <4>3. QED BY <4>2 DEF l
    <3>2. start \in [total : Nat, kept : Nat, other : Nat]
      BY <2>1, StateIs
    <3>3. <<>> \in Seq([fails : BOOLEAN, freed : Nat])
      OBVIOUS
    <3> DEFINE l == Tail(Current.left)
               c == Current
               e == <<>>
    <3>4. o = [c EXCEPT !.left = l, !.replies = e, !.freed = 0, !.start = start]
      OBVIOUS
    <3>5. c \in OpSet /\ l \in Seq(BOOLEAN) /\ e \in Seq([fails : BOOLEAN, freed : Nat])
      BY <2>1, <3>1, <3>3
    <3> HIDE DEF l, c, start, o, e
    <3>6. o \in OpSet /\ o.inst = c.inst /\ o.kind = c.kind /\ o.unit = c.unit /\ o.values = c.values
      BY <3>2, <3>4, <3>5 DEF OpSet
    <3>7. QED BY <3>6 DEF c
  <2>11. ops' = [ops EXCEPT ![Len(ops)] = o]
    <3> HIDE DEF o
    <3>1. QED BY <1>1, <1>3
  <2> HIDE DEF o
  <2>12. Serves(i, o, u, Values(i))
    <3>1. Calls(o, u, Values(i))
      BY <2>1, <2>3, <2>7, <2>8, <2>10 DEF Calls
    <3>2. QED BY <2>1, <2>2, <2>7, <2>8, <2>9, <2>10, <3>1 DEF Serves, Fits
  <2>13. /\ inst' = [inst EXCEPT ![Current.inst] = u] /\ held' = held /\ answer' \in Answers
         /\ requests' = requests
    BY <1>1, <1>3, <2>1, Known DEF Typed, Answers, u, t
  <2>14. Serves(Current.inst, o, u, held[Current.inst] + (Collects(Current.inst, ops)
                                      - Current.values + o.values))
    BY <2>1, <2>10, <2>12
  <2>15. QED BY <2>1, <2>10, <2>11, <2>13, <2>14, TopKeeps
<1>4. QED BY <1>2, <1>3

\* An operation whose batch has collected other values.
LEMMA WithValues ==
  ASSUME NEW c \in OpSet, NEW n \in Nat
  PROVE  LET o == [c EXCEPT !.values = n]
         IN /\ o \in OpSet /\ o.inst = c.inst /\ o.kind = c.kind /\ o.unit = c.unit
            /\ o.values = n
BY DEF OpSet

\* An operation during which more values have been freed.
LEMMA WithFreed ==
  ASSUME NEW c \in OpSet, NEW n \in Nat
  PROVE  LET o == [c EXCEPT !.freed = n]
         IN /\ o \in OpSet /\ o.inst = c.inst /\ o.kind = c.kind /\ o.unit = c.unit
            /\ o.values = c.values
BY DEF OpSet

\* The value of a call joins those of its batch.
LEMMA CollectKeeps ==
  ASSUME IInv, NEW i \in Instance, Executing(i), inst[i].status = "returned", Collect(i),
         Current.kind = "batch",
         Engine[i] = "vm" => inst[i].kept + inst[i].value + Values(i) <= MaxMemory
  PROVE  IInv'
<1> DEFINE s == inst[i]
           b == Baseline(s)
           u == [b EXCEPT !.status = "next"]
           o == [Current EXCEPT !.values = @ + s.value]
<1>1. /\ ops' = [ops EXCEPT ![Len(ops)] = o]
      /\ inst' = [inst EXCEPT ![i] = u]
      /\ UNCHANGED <<held, answer, requests>>
  BY DEF Collect
<1>2. /\ ops # <<>> /\ Current.inst = i /\ Current \in OpSet
      /\ Values(i) \in Nat /\ s \in StateSet /\ Good(i, s) /\ IsInjective(s.abi)
      /\ Fits(Current, s, Values(i))
      /\ Values(i) = held[i] + Collects(i, ops) /\ Current.values \in Nat /\ held[i] \in Nat
      /\ Collects(i, ops) \in Nat
  BY Running, Known
<1>3. Current.kind \in Guarding /\ Calls(Current, s, Values(i))
  BY <1>2 DEF Fits, Guarding
<1>4. /\ s.running /\ s.loaded /\ Engine[i] # "session" /\ Current.unit \in Entries
      /\ s.kept + s.value + Values(i) <= MaxMemory
  BY <1>2, <1>3, Bounds DEF Calls
<1>5. AtEnd(s) /\ Listed(s.abi, Code[Top[i]], FirstReturn(Code[Top[i]]))
  BY <1>2, <1>4 DEF Good, Sheds
<1>6. /\ b \in StateSet /\ Stack(i, b) /\ Bare(b) /\ b.value = 0
      /\ b.running = s.running /\ b.loaded = s.loaded /\ b.abi = s.abi /\ b.kept = s.kept
      /\ b.frames[1].unit = s.frames[1].unit /\ b.frames[1].pc = s.frames[1].pc
  BY <1>2, BaselineIs
<1> HIDE DEF b
<1>7. Resembles(b, u) /\ u.status = "next" /\ u.kept = b.kept
  <2>1. "next" \in Statuses
    BY DEF Statuses
  <2>2. QED BY <1>6, <2>1, StateWith
<1> HIDE DEF u
<1>8. /\ u \in StateSet /\ u.frames = b.frames /\ u.steps = b.steps /\ u.value = b.value
      /\ u.abi = b.abi /\ u.loaded = b.loaded /\ u.running = b.running
  BY <1>7 DEF Resembles
<1>9. Good(i, u)
  <2>1. AtEnd(b) /\ Listed(b.abi, Code[Top[i]], FirstReturn(Code[Top[i]]))
    BY <1>5, <1>6 DEF AtEnd
  <2>2. QED BY <1>2, <1>4, <1>6, <1>7, <1>8, <2>1, BareWith
<1>10. s.value \in Nat /\ s.kept \in Nat
  BY <1>2, StateIs
<1>11. /\ o \in OpSet /\ o.inst = Current.inst /\ o.kind = Current.kind /\ o.unit = Current.unit
       /\ o.values = Current.values + s.value
  <2> DEFINE c == Current
             v == s.value
  <2>1. c \in OpSet /\ v \in Nat /\ o = [c EXCEPT !.values = @ + v]
    BY <1>2, <1>10
  <2> HIDE DEF c, v, o
  <2>2. c.values + v \in Nat
    BY <1>2, <2>1 DEF c
  <2>3. o \in OpSet /\ o.inst = c.inst /\ o.kind = c.kind /\ o.unit = c.unit /\ o.values = c.values + v
    BY <2>1, <2>2, WithValues
  <2>4. QED BY <2>3 DEF c, v
<1> HIDE DEF o
<1> DEFINE more == held[i] + (Collects(i, ops) - Current.values + o.values)
<1>12. more = Values(i) + s.value /\ more \in Nat /\ s.kept + more <= MaxMemory
  <2> DEFINE x == s.value
             y == Collects(i, ops)
             z == Current.values
             h == held[i]
             e == s.kept
             a == Values(i)
  <2>1. x \in Nat /\ y \in Nat /\ z \in Nat /\ h \in Nat /\ e \in Nat /\ a = h + y
        /\ e + x + a <= MaxMemory /\ o.values = z + x /\ MaxMemory \in Nat
    BY <1>2, <1>4, <1>10, <1>11, Bounds
  <2>2. more = h + (y - z + o.values)
    OBVIOUS
  <2> HIDE DEF x, y, z, h, e, a, more
  <2>3. more = a + x /\ more \in Nat /\ e + more <= MaxMemory
    BY <2>1, <2>2
  <2>4. QED BY <2>3 DEF a, x, e
<1> HIDE DEF more
<1>13. Serves(i, o, u, more)
  <2>1. Calls(o, u, more)
    BY <1>2, <1>4, <1>6, <1>7, <1>8, <1>11, <1>12 DEF Calls, Going
  <2>2. QED BY <1>2, <1>3, <1>7, <1>8, <1>9, <1>11, <2>1 DEF Serves, Fits
<1>14. Serves(Current.inst, o, u, held[Current.inst] + (Collects(Current.inst, ops)
                                      - Current.values + o.values))
  BY <1>2, <1>13 DEF more
<1>15. answer' \in Answers
  BY <1>1, Known DEF Typed, Answers
<1>16. QED BY <1>1, <1>2, <1>11, <1>14, <1>15, TopKeeps

\* What a call that returned leaves, with its value.
LEMMA ReturnedIs ==
  ASSUME NEW i \in Instance, NEW s \in StateSet, Good(i, s), NEW other \in Nat
  PROVE  LET rest == [Baseline(s) EXCEPT !.value = s.value]
         IN ~Exceeds(rest, other) => s.kept + s.value + other <= MaxMemory
<1> DEFINE b == Baseline(s)
           v == s.value
           rest == [b EXCEPT !.value = v]
<1>1. b \in StateSet /\ Bare(b) /\ b.kept = s.kept /\ v \in Nat
  BY BaselineIs, StateIs
<1> HIDE DEF b
<1>2. rest \in StateSet /\ rest.frames = b.frames /\ rest.value = v /\ rest.kept = b.kept
  BY <1>1 DEF StateSet
<1> HIDE DEF rest
<1>3. Len(rest.frames) = 1 /\ rest.frames[1].locals = 0
  BY <1>1, <1>2 DEF Bare
<1>4. ~Exceeds(rest, other) => rest.kept + rest.value + other <= MaxMemory
  BY <1>2, <1>3, BareExceeds
<1>5. ~Exceeds(rest, other) => s.kept + s.value + other <= MaxMemory
  BY <1>1, <1>2, <1>4 DEF v
<1>6. QED BY <1>5 DEF rest, b, v

\* A call that returned ends its operation.
LEMMA EndKeeps ==
  ASSUME IInv, NEW i \in Instance, Executing(i), inst[i].status = "returned",
         End(i, [Released(Baseline(inst[i])) EXCEPT !.loaded = TRUE], "value", inst[i].value)
  PROVE  IInv'
<1> DEFINE s == inst[i]
           b == Baseline(s)
           v == Released(b)
           u == [v EXCEPT !.loaded = TRUE]
<1>1. /\ ops # <<>> /\ Current.inst = i
      /\ s \in StateSet /\ Good(i, s) /\ IsInjective(s.abi) /\ Fits(Current, s, Values(i))
  BY Running
<1>2. /\ b \in StateSet /\ Stack(i, b) /\ Bare(b) /\ b.status = "rest" /\ b.value = 0
      /\ b.running = s.running /\ b.loaded = s.loaded /\ b.abi = s.abi /\ b.kept = s.kept
      /\ b.frames[1].unit = s.frames[1].unit /\ b.frames[1].pc = s.frames[1].pc
  BY <1>1, BaselineIs
<1>3. Engine[i] # "session" =>
        AtEnd(s) /\ Listed(s.abi, Code[Top[i]], FirstReturn(Code[Top[i]]))
  <2>1. CASE Engine[i] = "session"
    BY <2>1
  <2>2. CASE Engine[i] # "session" /\ s.loaded
    BY <1>1, <2>2 DEF Good, Sheds
  <2>3. CASE Engine[i] # "session" /\ ~s.loaded
    <3>1. Opens(Current, s)
      BY <1>1, <2>3 DEF Fits, Calls
    <3>2. AtEnd(s)
      BY <3>1 DEF Opens
    <3>3. Declares(Code[Top[i]], s.abi, s.frames[1].pc)
      BY <1>1, <2>3 DEF Good, Sheds
    <3>4. s.frames[1].unit = Top[i]
      <4>1. 1 \in 1..Len(s.frames)
        BY <3>1 DEF Opens
      <4>2. FrameFits(i, s, 1)
        BY <1>1, <4>1 DEF Good, Stack
      <4>3. ~(1 > 1)
        OBVIOUS
      <4>4. QED BY <2>3, <4>2, <4>3 DEF FrameFits
    <3>5. Declares(Code[Top[i]], s.abi, Len(Code[Top[i]]) + 1)
      BY <3>2, <3>3, <3>4 DEF AtEnd
    <3>6. QED BY <3>2, <3>5, Bounds, CodeIs, DeclareEnd
  <2>4. QED BY <2>1, <2>2, <2>3
<1> HIDE DEF b
<1>4. /\ v \in StateSet /\ v.frames = b.frames /\ v.steps = b.steps /\ v.value = b.value
      /\ v.abi = b.abi /\ v.status = "rest" /\ v.running = FALSE
  BY <1>2 DEF Released, StateSet
<1> HIDE DEF v
<1>5. /\ u \in StateSet /\ u.frames = b.frames /\ u.steps = b.steps /\ u.value = b.value
      /\ u.abi = b.abi /\ u.status = "rest" /\ u.running = FALSE /\ u.loaded = TRUE
  BY <1>4 DEF StateSet
<1>6. End(i, u, "value", s.value)
  BY DEF u, v, b
<1> HIDE DEF u
<1>7. Engine[i] # "session" =>
        AtEnd(b) /\ Listed(b.abi, Code[Top[i]], FirstReturn(Code[Top[i]]))
  BY <1>2, <1>3 DEF AtEnd
<1>8. IsInjective(b.abi) /\ u.loaded
  BY <1>1, <1>2, <1>5
<1>9. Good(i, u)
  BY <1>2, <1>5, <1>7, <1>8, BareWith
<1>10. /\ ops' = Front(ops) /\ inst' = [inst EXCEPT ![i] = u]
       /\ held' = [held EXCEPT ![i] = @ + s.value] /\ answer' = "value" /\ requests' = requests
  BY <1>6 DEF End
<1>11. s.value \in Nat /\ "value" \in Answers /\ ~u.running
  BY <1>1, <1>5, StateIs DEF Answers
<1>12. QED BY <1>1, <1>5, <1>9, <1>10, <1>11, PopKeeps

\* A call has returned: its operation ends or goes on with its batch.
LEMMA ReturnKeeps ==
  ASSUME IInv, NEW i \in Instance, Return(i)
  PROVE  IInv'
<1> DEFINE rest == [Baseline(inst[i]) EXCEPT !.value = inst[i].value]
<1>1. /\ Executing(i) /\ inst[i].status = "returned"
      /\ IF Exceeds(rest, Values(i)) /\ (Current.kind # "batch" \/ Engine[i] = "vm")
         THEN Fails(i, "memory")
         ELSE IF Current.kind = "batch" THEN Collect(i)
         ELSE End(i, [Released(Baseline(inst[i])) EXCEPT !.loaded = TRUE], "value", inst[i].value)
  BY DEF Return
<1>2. CASE Exceeds(rest, Values(i)) /\ (Current.kind # "batch" \/ Engine[i] = "vm")
  <2>1. Fails(i, "memory") /\ "memory" \in Errors
    BY <1>1, <1>2 DEF Errors
  <2>2. QED BY <1>1, <2>1, FailsKeeps
<1>3. CASE ~(Exceeds(rest, Values(i)) /\ (Current.kind # "batch" \/ Engine[i] = "vm"))
           /\ Current.kind = "batch"
  <2>1. Collect(i)
    BY <1>1, <1>3
  <2>2. Engine[i] = "vm" => ~Exceeds(rest, Values(i))
    BY <1>3
  <2>3. inst[i] \in StateSet /\ Good(i, inst[i]) /\ Values(i) \in Nat
    BY Known
  <2>4. ~Exceeds(rest, Values(i)) => inst[i].kept + inst[i].value + Values(i) <= MaxMemory
    BY <2>3, ReturnedIs
  <2> HIDE DEF rest
  <2>5. QED BY <1>1, <1>3, <2>1, <2>2, <2>4, CollectKeeps
<1>4. CASE ~(Exceeds(rest, Values(i)) /\ (Current.kind # "batch" \/ Engine[i] = "vm"))
           /\ Current.kind # "batch"
  BY <1>1, <1>4, EndKeeps
<1>5. QED BY <1>2, <1>3, <1>4

\* A batch ends when it has no argument list left.
LEMMA FinishBatchKeeps ==
  ASSUME IInv, NEW i \in Instance, FinishBatch(i)
  PROVE  IInv'
<1> DEFINE u == Released(Baseline(inst[i]))
<1>1. /\ Executing(i) /\ inst[i].status = "next"
      /\ IF Exceeds(inst[i], Values(i)) THEN Fails(i, "memory")
         ELSE End(i, u, "value", Current.values)
  BY DEF FinishBatch
<1>2. CASE Exceeds(inst[i], Values(i))
  <2>1. Fails(i, "memory") /\ "memory" \in Errors
    BY <1>1, <1>2 DEF Errors
  <2>2. QED BY <1>1, <2>1, FailsKeeps
<1>3. CASE ~Exceeds(inst[i], Values(i))
  <2>1. End(i, u, "value", Current.values)
    BY <1>1, <1>3
  <2>2. /\ ops # <<>> /\ Current.inst = i /\ Current.values \in Nat
        /\ Serves(i, Current, inst[i], Values(i)) /\ Fits(Current, inst[i], Values(i))
    BY <1>1, Running
  <2>3. Current.kind # "load"
    BY <1>1, <2>2 DEF Fits, Opens, Guarding
  <2>4. u \in StateSet /\ Good(i, u) /\ u.status = "rest" /\ ~u.running
    BY <2>2, <2>3, LeftGood
  <2> HIDE DEF u
  <2>5. /\ ops' = Front(ops) /\ inst' = [inst EXCEPT ![i] = u]
        /\ held' = [held EXCEPT ![i] = @ + Current.values] /\ answer' = "value"
        /\ requests' = requests
    BY <2>1 DEF End
  <2>6. "value" \in Answers
    BY DEF Answers
  <2>7. QED BY <2>2, <2>4, <2>5, <2>6, PopKeeps
<1>4. QED BY <1>2, <1>3

\* The host answers.
LEMMA ReplyKeeps ==
  ASSUME IInv, NEW fails \in BOOLEAN, Reply(fails)
  PROVE  IInv'
<1> DEFINE i == Current.inst
           s == inst[i]
           e == IF fails THEN "panic" ELSE "run"
           u == [s EXCEPT !.status = e]
           reply == [fails |-> fails, freed |-> Current.freed]
           o == [Current EXCEPT !.replies = Append(@, reply), !.freed = 0]
<1>1. /\ ops # <<>> /\ HostsTurn /\ inst' = [inst EXCEPT ![i].status = e]
      /\ ops' = [ops EXCEPT ![Len(ops)] = o] /\ answer' = "none"
      /\ UNCHANGED <<held, requests>>
  BY DEF Reply
<1>2. /\ i \in Instance /\ Current \in OpSet /\ Executing(i) /\ s.status = "host"
  BY <1>1, OnTop DEF Executing, HostsTurn
<1>3. /\ s \in StateSet /\ Good(i, s) /\ Fits(Current, s, Values(i)) /\ Values(i) \in Nat
      /\ held[i] + (Collects(i, ops) - Current.values + Current.values) = Values(i)
  BY <1>2, Running
<1>4. e \in Statuses /\ e \in Going \cup Errors /\ e \notin {"rest", "next", "returned"}
      /\ "host" \in Going
  BY DEF Statuses, Going, Errors
<1>5. inst' = [inst EXCEPT ![i] = u]
  <2> HIDE DEF e, i
  <2>1. QED BY <1>1
<1>6. Resembles(s, u) /\ u.status = e /\ u.kept = s.kept
  <2> HIDE DEF e, s
  <2>1. QED BY <1>3, <1>4, StateWith
<1> HIDE DEF e, u
<1>7. /\ u \in StateSet /\ u.frames = s.frames /\ u.abi = s.abi /\ u.steps = s.steps
      /\ u.value = s.value /\ u.loaded = s.loaded /\ u.running = s.running
  BY <1>6 DEF Resembles
<1>8. Stack(i, u)
  <2>1. Stack(i, s) /\ s.status \in Going
    BY <1>2, <1>3, <1>4 DEF Good
  <2>2. \A n \in 1..Len(s.frames) : FrameFits(i, u, n)
    BY <1>7, <2>1 DEF Stack, FrameFits
  <2>3. QED BY <1>7, <2>1, <2>2 DEF Stack
<1>9. Good(i, u)
  <2>1. Engine[i] # "session" => Sheds(i, u)
    BY <1>2, <1>3, <1>4, <1>6, <1>7 DEF Good, Sheds, AtEnd
  <2>2. QED BY <1>3, <1>4, <1>6, <1>7, <1>8, <2>1 DEF Good
<1>10. /\ o \in OpSet /\ o.inst = Current.inst /\ o.kind = Current.kind /\ o.unit = Current.unit
       /\ o.values = Current.values
  <2> DEFINE c == Current
             r == c.replies
             l == Append(r, reply)
  <2>1. c \in OpSet /\ r \in Seq([fails : BOOLEAN, freed : Nat]) /\ c.freed \in Nat
    BY <1>2 DEF OpSet
  <2>2. reply \in [fails : BOOLEAN, freed : Nat]
    BY <2>1
  <2>3. o = [c EXCEPT !.replies = l, !.freed = 0]
    OBVIOUS
  <2> HIDE DEF r, c, reply, o
  <2>4. l \in Seq([fails : BOOLEAN, freed : Nat])
    BY <2>1, <2>2
  <2> HIDE DEF l
  <2>5. o \in OpSet /\ o.inst = c.inst /\ o.kind = c.kind /\ o.unit = c.unit /\ o.values = c.values
    BY <2>1, <2>3, <2>4 DEF OpSet
  <2>6. QED BY <2>5 DEF c
<1> HIDE DEF o
<1>11. Serves(i, o, u, Values(i))
  <2>1. CASE Current.kind \in Guarding
    <3>1. Calls(Current, s, Values(i))
      BY <1>3, <2>1 DEF Fits
    <3>2. Calls(o, u, Values(i))
      BY <1>2, <1>4, <1>6, <1>7, <1>10, <3>1 DEF Calls
    <3>3. QED BY <1>4, <1>6, <1>7, <1>9, <1>10, <2>1, <3>2 DEF Serves, Fits
  <2>2. CASE Current.kind \notin Guarding
    <3>1. Opens(Current, s)
      BY <1>3, <2>2 DEF Fits
    <3>2. Opens(o, u)
      BY <1>4, <1>6, <1>7, <1>10, <3>1 DEF Opens
    <3>3. QED BY <1>4, <1>6, <1>7, <1>9, <1>10, <2>2, <3>2 DEF Serves, Fits
  <2>3. QED BY <2>1, <2>2
<1>12. Serves(Current.inst, o, u, held[Current.inst] + (Collects(Current.inst, ops)
                                      - Current.values + o.values))
  BY <1>3, <1>10, <1>11
<1>13. answer' \in Answers /\ held' = held /\ requests' = requests
  BY <1>1 DEF Answers
<1>14. QED BY <1>1, <1>5, <1>10, <1>12, <1>13, TopKeeps

\* The host drops a value.
LEMMA DropValueKeeps ==
  ASSUME IInv, NEW i \in Instance, DropValue(i)
  PROVE  IInv'
<1>1. /\ held[i] > 0 /\ held' = [held EXCEPT ![i] = @ - 1]
      /\ ops' = [n \in DOMAIN ops |-> IF ops[n].inst = i THEN [ops[n] EXCEPT !.freed = @ + 1] ELSE ops[n]]
      /\ answer' = "none" /\ UNCHANGED <<inst, requests>>
  BY DEF DropValue
<1>2. /\ Typed /\ ops \in Seq(OpSet) /\ Len(ops) \in Nat /\ DOMAIN ops = 1..Len(ops)
      /\ held \in [Instance -> Nat]
  BY Known DEF Typed
<1>3. \A n \in 1..Len(ops) :
        /\ ops'[n] \in OpSet /\ ops'[n].inst = ops[n].inst /\ ops'[n].kind = ops[n].kind
        /\ ops'[n].unit = ops[n].unit /\ ops'[n].values = ops[n].values
  <2> SUFFICES ASSUME NEW n \in 1..Len(ops)
               PROVE  /\ ops'[n] \in OpSet /\ ops'[n].inst = ops[n].inst /\ ops'[n].kind = ops[n].kind
                      /\ ops'[n].unit = ops[n].unit /\ ops'[n].values = ops[n].values
    OBVIOUS
  <2> DEFINE c == ops[n]
             o == [c EXCEPT !.freed = @ + 1]
  <2>1. ops'[n] = IF c.inst = i THEN o ELSE c
    BY <1>1, <1>2
  <2>2. c \in OpSet
    BY Known
  <2> HIDE DEF c
  <2>3. /\ o \in OpSet /\ o.inst = c.inst /\ o.kind = c.kind /\ o.unit = c.unit /\ o.values = c.values
    <3>1. c.freed + 1 \in Nat
      BY <2>2 DEF OpSet
    <3>2. QED BY <2>2, <3>1, WithFreed
  <2> HIDE DEF o
  <2>4. /\ ops'[n] \in OpSet /\ ops'[n].inst = c.inst /\ ops'[n].kind = c.kind
        /\ ops'[n].unit = c.unit /\ ops'[n].values = c.values
    BY <2>1, <2>2, <2>3
  <2>5. QED BY <2>4 DEF c
<1>4. ops' \in Seq(OpSet) /\ Len(ops') = Len(ops)
  <2> DEFINE q == ops'
             l == Len(ops)
  <2>1. \A n \in 1..l : q[n] \in OpSet
    BY <1>3
  <2>2. q = [n \in 1..l |-> q[n]] /\ l \in Nat
    BY <1>1, <1>2
  <2> HIDE DEF q, l
  <2>3. q \in [1..l -> OpSet]
    BY <2>1, <2>2
  <2>4. q \in Seq(OpSet) /\ Len(q) = l
    BY <2>2, <2>3
  <2>5. QED BY <2>4 DEF q, l
<1>5. held' \in [Instance -> Nat] /\ \A j \in Instance : held'[j] <= held[j]
  <2> DEFINE h == held[i]
  <2>1. h \in Nat /\ h > 0
    BY <1>1, <1>2
  <2> HIDE DEF h
  <2>2. h - 1 \in Nat /\ h - 1 <= h
    BY <2>1
  <2>3. held[i] - 1 \in Nat /\ held[i] - 1 <= held[i]
    BY <2>2 DEF h
  <2>4. QED BY <1>1, <1>2, <2>3
<1>6. Typed'
  BY <1>1, <1>2, <1>4, <1>5 DEF Typed
<1>7. \A j \in Instance : Values(j)' \in Nat /\ Values(j)' <= Values(j)
  <2> SUFFICES ASSUME NEW j \in Instance PROVE Values(j)' \in Nat /\ Values(j)' <= Values(j)
    OBVIOUS
  <2>1. Values(j)' = held'[j] + Collects(j, ops')
    BY <1>4, ValuesArePrimed
  <2>2. Values(j) = held[j] + Collects(j, ops) /\ Collects(j, ops) \in Nat
    BY Known
  <2>3. Gathered(j, ops') = Gathered(j, ops)
    <3>1. \A n \in 1..Len(ops) :
            (IF ops'[n].inst = j THEN ops'[n].values ELSE 0) = IF ops[n].inst = j THEN ops[n].values ELSE 0
      BY <1>3
    <3>2. QED BY <1>4, <3>1 DEF Gathered
  <2>4. Collects(j, ops') = Collects(j, ops)
    BY <1>4, <2>3 DEF Collects
  <2>5. held'[j] \in Nat /\ held[j] \in Nat /\ held'[j] <= held[j]
    BY <1>2, <1>5
  <2>6. QED BY <2>1, <2>2, <2>4, <2>5
<1>8. \A j \in Instance : Good(j, inst'[j])
  BY <1>1, Known
<1>9. ASSUME NEW n \in 1..Len(ops')
      PROVE  /\ \A j \in Instance : ops'[n].inst = j =>
                  Serves(j, ops'[n], inst'[j], Values(j)') /\ (n < Len(ops') => inst'[j].status = "host")
             /\ \A m \in 1..Len(ops') : ops'[m].inst = ops'[n].inst => m = n
  <2>1. n \in 1..Len(ops)
    BY <1>4
  <2>2. \A m \in 1..Len(ops') : ops'[m].inst = ops'[n].inst => m = n
    BY <1>3, <1>4, <2>1, Known
  <2>3. ASSUME NEW j \in Instance, ops'[n].inst = j
        PROVE  Serves(j, ops'[n], inst'[j], Values(j)') /\ (n < Len(ops') => inst'[j].status = "host")
    <3>1. ops[n].inst = j
      BY <1>3, <2>1, <2>3
    <3>2. Serves(j, ops[n], inst[j], Values(j)) /\ (n < Len(ops) => inst[j].status = "host")
      BY <2>1, <3>1, Known
    <3>3. Serves(j, ops'[n], inst[j], Values(j)')
      <4> DEFINE p == ops'[n]
                 y == Values(j)'
      <4>1. /\ p \in OpSet /\ p.inst = ops[n].inst /\ p.kind = ops[n].kind /\ p.unit = ops[n].unit
            /\ y \in Nat /\ y <= Values(j) /\ Values(j) \in Nat
        BY <1>3, <1>7, <2>1, Known
      <4> HIDE DEF p, y
      <4>2. Serves(j, p, inst[j], y)
        BY <3>2, <4>1, LessServes
      <4>3. QED BY <4>2 DEF p, y
    <3>4. QED BY <1>1, <1>4, <3>2, <3>3
  <2>4. QED BY <2>2, <2>3
<1>10. ASSUME NEW j \in Instance, \A n \in 1..Len(ops') : ops'[n].inst # j
       PROVE  inst'[j].status = "rest" /\ ~inst'[j].running
  <2>1. \A n \in 1..Len(ops) : ops[n].inst # j
    BY <1>3, <1>4, <1>10
  <2>2. QED BY <1>1, <2>1, Known
<1>11. QED BY <1>2, <1>4, <1>6, <1>8, <1>9, <1>10, Shown

-------------------------------------------------------------------------------

\* Every step keeps the invariant.
LEMMA NextKeeps == IInv /\ [Next]_vars => IInv'
<1> SUFFICES ASSUME IInv, [Next]_vars PROVE IInv'
  OBVIOUS
<1>1. CASE Next
  <2>1. ASSUME NEW i \in Instance, Load(i) \/ DropValue(i) PROVE IInv'
    BY <2>1, LoadKeeps, DropValueKeeps
  <2>2. ASSUME NEW i \in Instance, Step(i) PROVE IInv'
    BY <2>2, StartCallKeeps, ExecuteKeeps, UnwindKeeps, ReturnKeeps, FinishBatchKeeps DEF Step
  <2>3. ASSUME NEW i \in Instance, NEW input \in Inputs, Eval(i, input) PROVE IInv'
    BY <2>3, EvalKeeps
  <2>4. ASSUME NEW i \in Instance, NEW r \in Requests(i), Begin(r) \/ Refuse(r) PROVE IInv'
    BY <2>4, BeginKeeps, RefuseKeeps
  <2>5. ASSUME NEW fails \in BOOLEAN, Reply(fails) PROVE IInv'
    BY <2>5, ReplyKeeps
  <2>6. QED BY <1>1, <2>1, <2>2, <2>3, <2>4, <2>5 DEF Next
<1>2. CASE UNCHANGED vars
  <2>1. UNCHANGED <<inst, ops, held>> /\ answer' \in Answers /\ requests' \in 0..MaxRequests
    BY <1>2, Known DEF vars, Typed, Answers
  <2>2. QED BY <2>1, SameKeeps
<1>3. QED BY <1>1, <1>2

-------------------------------------------------------------------------------
(* What the invariant implies. *)

\* A frame is well formed.
LEMMA FrameFormed ==
  ASSUME NEW f \in FrameSet, f.pc \in 1..Len(Code[f.unit]) + 1, f.locals <= MaxSteps,
         f.blocks <= MaxSteps
  PROVE  f \in Frames
<1>1. /\ f.unit \in DOMAIN Code /\ f.locals \in 0..MaxSteps /\ f.blocks \in 0..MaxSteps
      /\ f = [unit |-> f.unit, pc |-> f.pc, locals |-> f.locals, blocks |-> f.blocks]
  <2>1. f = [unit |-> f.unit, pc |-> f.pc, locals |-> f.locals, blocks |-> f.blocks]
    BY DEF FrameSet
  <2>2. f.unit \in DOMAIN Code /\ f.locals \in Nat /\ f.blocks \in Nat
    BY FrameIs
  <2>3. QED BY <2>1, <2>2, Bounds
<1> DEFINE u == f.unit
           S == [unit : {u}, pc : 1..Len(Code[u]) + 1, locals : 0..MaxSteps, blocks : 0..MaxSteps]
<1>2. f \in S
  BY <1>1
<1>3. u \in DOMAIN Code
  BY <1>1
<1> HIDE DEF u
<1>4. QED BY <1>2, <1>3 DEF Frames

\* The types that the runs check, from those of the invariant.
LEMMA TypesImplied == IInv => TypeOK
<1> SUFFICES ASSUME IInv PROVE TypeOK
  OBVIOUS
<1>1. ASSUME NEW i \in Instance
      PROVE  /\ inst[i].status \in {"rest", "next", "run", "host", "returned"} \cup Errors
             /\ inst[i].steps \in 0..MaxSteps + 1
             /\ Range(inst[i].frames) \subseteq Frames /\ Len(inst[i].frames) \in 1..MaxCallDepth + 1
             /\ IsInjective(inst[i].abi) /\ Range(inst[i].abi) \subseteq Entries
             /\ held[i] \in Nat
  <2> DEFINE s == inst[i]
  <2>1. s \in StateSet /\ Good(i, s) /\ held[i] \in Nat
    BY Known
  <2> HIDE DEF s
  <2>2. Stack(i, s) /\ IsInjective(s.abi)
    BY <2>1 DEF Good
  <2>3. s.status \in {"rest", "next", "run", "host", "returned"} \cup Errors
    BY <2>1, StateIs DEF Statuses
  <2>4. s.steps \in 0..MaxSteps + 1
    <3>1. s.steps \in Nat /\ s.steps <= MaxSteps + 1
      BY <2>1, <2>2, StateIs DEF Stack
    <3>2. QED BY <3>1, Bounds
  <2>5. Range(s.frames) \subseteq Frames
    <3>1. DOMAIN s.frames = 1..Len(s.frames) /\ \A n \in 1..Len(s.frames) : s.frames[n] \in FrameSet
      BY <2>1, StateIs
    <3>2. \A n \in 1..Len(s.frames) : s.frames[n] \in Frames
      BY <2>2, <3>1, FrameFormed DEF Stack, FrameFits
    <3>3. QED BY <3>1, <3>2 DEF Range
  <2>6. Range(s.abi) \subseteq Entries
    <3> DEFINE abi == s.abi
    <3>1. abi \in Seq(Entries)
      BY <2>1, StateIs
    <3> HIDE DEF abi
    <3>2. Range(abi) \subseteq Entries
      BY <3>1 DEF Range
    <3>3. QED BY <3>2 DEF abi
  <2>7. Len(s.frames) \in 1..MaxCallDepth + 1
    BY <2>2 DEF Stack
  <2>8. QED BY <2>1, <2>2, <2>3, <2>4, <2>5, <2>6, <2>7 DEF s
<1>2. answer \in {"none", "value"} \cup Errors \cup Refusals /\ requests \in 0..MaxRequests
  BY Known DEF Typed
<1>3. QED BY <1>1, <1>2 DEF TypeOK

\* One operation per instance at most, and the flag is up during calls and no other time.
LEMMA GuardImplied == IInv => GuardExact
<1> SUFFICES ASSUME IInv, NEW i \in Instance
             PROVE  LET own == {n \in DOMAIN ops : ops[n].inst = i}
                    IN /\ Cardinality(own) <= 1
                       /\ inst[i].running <=> \E n \in own : ops[n].kind \in Guarding
  BY DEF GuardExact
<1> DEFINE own == {n \in DOMAIN ops : ops[n].inst = i}
<1>1. DOMAIN ops = 1..Len(ops)
  BY Known
<1>2. CASE own = {}
  <2>1. Cardinality(own) = 0
    BY <1>2, FS_EmptySet
  <2>2. \A n \in 1..Len(ops) : ops[n].inst # i
    BY <1>1, <1>2
  <2>3. ~inst[i].running
    BY <2>2, Known
  <2>4. QED BY <1>2, <2>1, <2>3
<1>3. CASE own # {}
  <2>1. PICK n \in 1..Len(ops) : ops[n].inst = i
    BY <1>1, <1>3
  <2>2. own = {n}
    BY <1>1, <2>1, Known
  <2>3. Cardinality(own) = 1
    BY <2>2, FS_Singleton
  <2>4. Fits(ops[n], inst[i], Values(i))
    BY <2>1, Known DEF Serves
  <2>5. inst[i].running <=> ops[n].kind \in Guarding
    BY <2>4 DEF Fits, Calls, Opens
  <2>6. QED BY <2>2, <2>3, <2>5
<1>4. QED BY <1>2, <1>3

\* An instance at rest has its bottom frame alone, with nothing open in it.
LEMMA RestImplied == IInv => AtRest
<1> SUFFICES ASSUME IInv, NEW i \in Instance, inst[i].status = "rest"
             PROVE  /\ Len(inst[i].frames) = 1 /\ inst[i].value = 0
                    /\ LET f == Head(inst[i].frames)
                       IN /\ f.locals = 0 /\ f.blocks = 0
                          /\ (inst[i].loaded /\ Engine[i] # "session") => f.pc > Len(Code[f.unit])
  BY DEF AtRest
<1> DEFINE s == inst[i]
           f == s.frames[1]
<1>1. s \in StateSet /\ Good(i, s) /\ Bare(s)
  BY Known DEF Good
<1>2. Head(s.frames) = f /\ Len(s.frames) = 1 /\ s.value = 0 /\ f.locals = 0 /\ f.blocks = 0
  BY <1>1 DEF Bare
<1>3. ASSUME s.loaded, Engine[i] # "session" PROVE f.pc > Len(Code[f.unit])
  <2>1. f.pc = Len(Code[f.unit]) + 1
    BY <1>1, <1>3 DEF Good, Sheds, AtEnd
  <2>2. f \in FrameSet
    <3>1. 1 \in 1..Len(s.frames)
      BY <1>2
    <3>2. QED BY <1>1, <3>1, StateIs
  <2>3. Len(Code[f.unit]) \in Nat
    BY <2>2, FrameIs, CodeIs
  <2> DEFINE l == Len(Code[f.unit])
  <2> HIDE DEF l
  <2>4. l \in Nat /\ f.pc = l + 1
    BY <2>1, <2>3 DEF l
  <2>5. f.pc > l
    BY <2>4
  <2>6. QED BY <2>5 DEF l
<1>4. QED BY <1>2, <1>3

\* The entries of a loaded instance are those its whole top level declares.
LEMMA EntriesImplied == IInv => EntriesAreFinal
<1> SUFFICES ASSUME IInv, NEW i \in Instance, inst[i].loaded, Engine[i] # "session"
             PROVE  LET code == Code[Top[i]]
                        public == Public(code, FirstReturn(code))
                    IN \E at \in [DOMAIN inst[i].abi -> public] :
                         Range(at) = public /\ Lists(inst[i].abi, code, at)
  BY DEF EntriesAreFinal
<1>1. Listed(inst[i].abi, Code[Top[i]], FirstReturn(Code[Top[i]]))
  BY Known DEF Good, Sheds
<1>2. QED BY <1>1 DEF Listed

-------------------------------------------------------------------------------
(* The steps. *)

\* Who waits for the next call of a batch has room for it.
LEMMA NextHasRoom ==
  ASSUME IInv, NEW i \in Instance, inst[i].status = "next"
  PROVE  ~Exceeds(inst[i], Values(i))
<1> DEFINE s == inst[i]
<1>1. s \in StateSet /\ Good(i, s) /\ Values(i) \in Nat /\ Bare(s)
  BY Known DEF Good
<1>2. PICK n \in 1..Len(ops) : ops[n].inst = i
  <2>1. "next" # "rest"
    OBVIOUS
  <2>2. QED BY <2>1, Known
<1>3. Fits(ops[n], s, Values(i))
  BY <1>2, Known DEF Serves
<1>4. s.kept + Values(i) <= MaxMemory
  BY <1>3 DEF Fits, Calls, Opens
<1>5. Locals(s) = 0 /\ s.value = 0 /\ s.kept \in Nat
  BY <1>1, BareLocals, StateIs DEF Bare
<1> DEFINE a == s.kept
           x == Values(i)
<1>6. a \in Nat /\ x \in Nat /\ a + x <= MaxMemory /\ MaxMemory \in Nat
  BY <1>1, <1>4, <1>5, Bounds
<1>7. Exceeds(s, x) <=> a + 0 + 0 + x > MaxMemory
  BY <1>5 DEF Exceeds
<1> HIDE DEF a, x
<1>8. ~(a + 0 + 0 + x > MaxMemory)
  BY <1>6
<1>9. QED BY <1>7, <1>8 DEF x

\* A batch has collected no less than its operation says.
LEMMA CollectsMember ==
  ASSUME NEW i, NEW p \in Seq(OpSet), NEW k \in 1..Len(p), p[k].inst = i
  PROVE  p[k].values <= Collects(i, p)
<1> DEFINE g == Gathered(i, p)
           D == 1..Len(p)
           x == k
<1>1. IsFiniteSet(D) /\ IsCount(g, D) /\ x \in D /\ \A y \in D \ {x} : g[y] = g[y]
  BY GatheredIs
<1>2. g[x] = p[k].values
  BY DEF Gathered
<1> HIDE DEF g, D, x
<1>3. g[x] <= Total(g, D)
  BY <1>1, TotalChange
<1>4. QED BY <1>2, <1>3 DEF Collects, g, D

\* An operation ends with values for which there is room.
LEMMA EndFits ==
  ASSUME IInv, NEW i \in Instance, NEW s \in StateSet, NEW ans, NEW units \in Nat,
         End(i, s, ans, units), s.kept + (held[i] + units) <= MaxMemory,
         NEW j \in Instance, held'[j] > held[j]
  PROVE  inst'[j].kept + held'[j] <= MaxMemory
<1>1. inst' = [inst EXCEPT ![i] = s] /\ held' = [held EXCEPT ![i] = @ + units]
  BY DEF End
<1>2. inst \in [Instance -> StateSet] /\ held \in [Instance -> Nat]
  BY Known DEF Typed
<1>3. j = i
  <2>1. j # i => held'[j] = held[j]
    BY <1>1, <1>2
  <2>2. held[j] \in Nat
    BY <1>2
  <2> DEFINE x == held[j]
             y == held'[j]
  <2>3. x \in Nat /\ y > x
    BY <2>2
  <2> HIDE DEF x, y
  <2>4. y # x
    BY <2>3
  <2>5. QED BY <2>1, <2>4 DEF x, y
<1>4. inst'[i] = s /\ held'[i] = held[i] + units
  BY <1>1, <1>2
<1>5. QED BY <1>3, <1>4

\* What a call that has returned, or a batch, gives.
LEMMA ReturnFits ==
  ASSUME IInv, NEW i \in Instance, Return(i) \/ FinishBatch(i), NEW j \in Instance,
         held'[j] > held[j]
  PROVE  inst'[j].kept + held'[j] <= MaxMemory
<1> DEFINE s == inst[i]
           x == s.kept
           y == s.value
           h == held[i]
           c == Collects(i, ops)
           v == Values(i)
<1>1. Executing(i)
  BY DEF Return, FinishBatch
<1>2. /\ s \in StateSet /\ Good(i, s) /\ Serves(i, Current, s, v)
      /\ Fits(Current, s, v) /\ Current.values \in Nat
      /\ v \in Nat /\ h \in Nat /\ c \in Nat /\ v = h + c /\ x \in Nat /\ y \in Nat
  BY <1>1, Running, Known, StateIs
<1>3. ASSUME NEW why, Fails(i, why) PROVE FALSE
  <2>1. \E u, ans : End(i, u, ans, 0)
    BY <1>3 DEF Fails
  <2>2. held' = [held EXCEPT ![i] = @ + 0]
    BY <2>1 DEF End
  <2>3. held[j] \in Nat /\ held'[j] = held[j]
    BY <2>2, Known DEF Typed
  <2> DEFINE a == held[j]
  <2>4. a \in Nat /\ a > a
    BY <2>3
  <2> HIDE DEF a
  <2>5. QED BY <2>4
<1>4. CASE Return(i)
  <2> DEFINE rest == [Baseline(s) EXCEPT !.value = s.value]
             u == [Released(Baseline(s)) EXCEPT !.loaded = TRUE]
  <2>1. /\ IF Exceeds(rest, v) /\ (Current.kind # "batch" \/ Engine[i] = "vm")
           THEN Fails(i, "memory")
           ELSE IF Current.kind = "batch" THEN Collect(i)
           ELSE End(i, u, "value", y)
    BY <1>4 DEF Return
  <2>2. CASE Collect(i)
    <3>1. held' = held
      BY <2>2 DEF Collect
    <3> DEFINE a == held[j]
    <3>2. a \in Nat /\ a > a
      BY <3>1, Known
    <3> HIDE DEF a
    <3>3. QED BY <3>2
  <2>3. CASE ~Exceeds(rest, v) /\ End(i, u, "value", y)
    <3>1. x + y + v <= MaxMemory
      BY <1>2, <2>3, ReturnedIs
    <3>2. u \in StateSet /\ u.kept = x
      <4> DEFINE b == Baseline(s)
      <4>1. b \in StateSet /\ b.kept = s.kept
        BY <1>2, BaselineIs
      <4> HIDE DEF b
      <4>2. Released(b) \in StateSet /\ Released(b).kept = b.kept
        BY <4>1 DEF Released, StateSet
      <4> DEFINE r == Released(b)
      <4> HIDE DEF r
      <4>3. [r EXCEPT !.loaded = TRUE] \in StateSet /\ [r EXCEPT !.loaded = TRUE].kept = r.kept
        BY <4>2 DEF StateSet, r
      <4>4. QED BY <4>1, <4>2, <4>3 DEF r, b
    <3> HIDE DEF u, rest
    <3>3. x + (h + y) <= MaxMemory
      <4>1. x \in Nat /\ y \in Nat /\ h \in Nat /\ c \in Nat /\ v = h + c /\ MaxMemory \in Nat
        BY <1>2, Bounds
      <4> HIDE DEF x, y, h, c, v
      <4>2. QED BY <3>1, <4>1
    <3>4. u.kept + (held[i] + y) <= MaxMemory
      BY <3>2, <3>3
    <3>5. QED BY <1>2, <2>3, <3>2, <3>4, EndFits
  <2>4. QED BY <1>3, <2>1, <2>2, <2>3
<1>5. CASE FinishBatch(i)
  <2> DEFINE u == Released(Baseline(s))
             z == Current.values
  <2>1. /\ s.status = "next"
        /\ IF Exceeds(s, v) THEN Fails(i, "memory") ELSE End(i, u, "value", z)
    BY <1>5 DEF FinishBatch
  <2>2. CASE ~Exceeds(s, v) /\ End(i, u, "value", z)
    <3>1. Bare(s)
      BY <1>2, <2>1 DEF Good
    <3>2. x + y + v <= MaxMemory
      BY <1>2, <2>2, <3>1, BareExceeds DEF Bare
    <3>3. z <= c
      <4>1. ops \in Seq(OpSet) /\ Len(ops) \in 1..Len(ops) /\ Current = ops[Len(ops)] /\ Current.inst = i
        BY <1>1, Running, OnTop, Known DEF Typed
      <4> DEFINE k == Len(ops)
      <4>2. ops \in Seq(OpSet) /\ k \in 1..Len(ops) /\ Current = ops[k] /\ ops[k].inst = i
        BY <4>1
      <4> HIDE DEF k
      <4>3. ops[k].values <= Collects(i, ops)
        BY <4>2, CollectsMember
      <4>4. QED BY <4>2, <4>3
    <3>4. u \in StateSet /\ u.kept = x
      <4> DEFINE b == Baseline(s)
      <4>1. b \in StateSet /\ b.kept = s.kept
        BY <1>2, BaselineIs
      <4> HIDE DEF b
      <4>2. Released(b) \in StateSet /\ Released(b).kept = b.kept
        BY <4>1 DEF Released, StateSet
      <4>3. QED BY <4>1, <4>2 DEF b
    <3> HIDE DEF u
    <3>5. x + (h + z) <= MaxMemory
      <4>1. /\ x \in Nat /\ y \in Nat /\ h \in Nat /\ c \in Nat /\ z \in Nat /\ v = h + c
            /\ MaxMemory \in Nat
        BY <1>2, Bounds
      <4> HIDE DEF x, y, h, c, v, z
      <4>2. QED BY <3>2, <3>3, <4>1
    <3>6. u.kept + (held[i] + z) <= MaxMemory
      BY <3>4, <3>5
    <3>7. QED BY <1>2, <2>2, <3>4, <3>6, EndFits
  <2>3. QED BY <1>3, <2>1, <2>2
<1>6. QED BY <1>4, <1>5

\* Only then does the host hold more.
LEMMA StepFits ==
  ASSUME IInv, [Next]_vars, NEW j \in Instance, held'[j] > held[j]
  PROVE  inst'[j].kept + held'[j] <= MaxMemory
<1>1. held \in [Instance -> Nat]
  BY Known DEF Typed
<1>2. ASSUME \/ held' = held
             \/ \E i \in Instance : held' = [held EXCEPT ![i] = @ + 0]
             \/ \E i \in Instance : held' = [held EXCEPT ![i] = @ - 1]
      PROVE  FALSE
  <2> DEFINE a == held[j]
             b == held'[j]
  <2>1. a \in Nat /\ b > a /\ (b = a \/ b = a + 0 \/ b = a - 1)
    BY <1>1, <1>2
  <2> HIDE DEF a, b
  <2>2. QED BY <2>1
<1>3. ASSUME NEW i \in Instance, Load(i) \/ DropValue(i) PROVE FALSE
  BY <1>2, <1>3 DEF Load, DropValue, Push
<1>4. ASSUME NEW i \in Instance, StartCall(i) \/ Execute(i) \/ Unwind(i) PROVE FALSE
  <2>1. ASSUME NEW why, Fails(i, why) PROVE FALSE
    <3>1. \E u, ans : End(i, u, ans, 0)
      BY <2>1 DEF Fails
    <3>2. held' = [held EXCEPT ![i] = @ + 0]
      BY <3>1 DEF End
    <3>3. QED BY <1>2, <3>2
  <2>2. CASE StartCall(i)
    BY <1>2, <2>1, <2>2 DEF StartCall
  <2>3. CASE Execute(i)
    BY <1>2, <2>3 DEF Execute
  <2>4. CASE Unwind(i)
    BY <2>1, <2>4 DEF Unwind
  <2>5. QED BY <1>4, <2>2, <2>3, <2>4
<1>5. ASSUME NEW i \in Instance, NEW input \in Inputs, Eval(i, input) PROVE FALSE
  BY <1>2, <1>5 DEF Eval, Push
<1>6. ASSUME NEW r, Begin(r) \/ Refuse(r) PROVE FALSE
  BY <1>2, <1>6 DEF Begin, Refuse, Push
<1>7. ASSUME NEW fails, Reply(fails) PROVE FALSE
  BY <1>2, <1>7 DEF Reply
<1>8. CASE UNCHANGED vars
  BY <1>2, <1>8 DEF vars
<1>9. ASSUME NEW i \in Instance, Return(i) \/ FinishBatch(i)
      PROVE  inst'[j].kept + held'[j] <= MaxMemory
  BY <1>9, ReturnFits
<1>10. QED BY <1>3, <1>4, <1>5, <1>6, <1>7, <1>8, <1>9 DEF Next, Step

-------------------------------------------------------------------------------

\* The inductive invariant holds in every behaviour of the instances.
THEOREM InstancesInvariance == Spec => []IInv
BY InitHolds, NextKeeps, PTL DEF Spec

\* Whatever the programs, the limits and the host: the states of the instances are
\* well formed, and none runs beyond its budget of steps or its depth.
THEOREM InstancesTypes == Spec => []TypeOK
BY InstancesInvariance, TypesImplied, PTL

\* The flag of an instance is up exactly while one of its operations is in progress.
THEOREM GuardAlwaysExact == Spec => []GuardExact
BY InstancesInvariance, GuardImplied, PTL

\* Nothing of an abandoned call is left between operations.
THEOREM RestIsAlwaysClean == Spec => []AtRest
BY InstancesInvariance, RestImplied, PTL

\* The entries of a loaded instance are what its top level declared last.
THEOREM EntriesAreAlwaysFinal == Spec => []EntriesAreFinal
BY InstancesInvariance, EntriesImplied, PTL

\* A host is given values only of an instance that is within its limit with them.
THEOREM ValuesAlwaysFit == Spec => ValuesFit
<1>1. IInv /\ [Next]_vars =>
        [\A i \in Instance : held'[i] > held[i] => inst'[i].kept + held'[i] <= MaxMemory]_vars
  BY StepFits
<1>2. QED BY <1>1, InstancesInvariance, PTL DEF Spec, ValuesFit

\* No call begins to execute in an instance that is over its limit.
THEOREM CallsAlwaysFailFast == Spec => FailFast
<1>1. IInv /\ [Next]_vars =>
        [\A i \in Instance :
           (inst[i].status = "next" /\ inst'[i].status = "run") =>
             ~Exceeds(inst[i], Values(i))]_vars
  BY NextHasRoom
<1>2. QED BY <1>1, InstancesInvariance, PTL DEF Spec, FailFast
===============================================================================
