---------------------------- MODULE StaticChecks -----------------------------
(***************************************************************************)
(* The checks of a program before it runs (check.rs and check/): a `match` *)
(* on an enum that does not name all its variants is warned of, where the  *)
(* type of its patterns is known.  The checker follows the declarations    *)
(* and imports in source order.  It walks with a record:                   *)
(*    path, env   the module, and the frames of the lexical environment    *)
(*    base        the frame under every callable of the module             *)
(*    checking    FALSE when only the module's surface is wanted: then     *)
(*                expressions, callables and declarations are passed over  *)
(*    effects     what the statement may have done to the aliases outside  *)
(*    cache, resolving, tainted  the modules known, the ones being read,   *)
(*                and of those the ones read again: they import in a circle*)
(*    warnings    a set: their order is left out                           *)
(* What imports inside callables add to the cache is not kept: the module  *)
(* is read again, to the same surface unless it leads into a circle.       *)
(***************************************************************************)
EXTENDS Receivers

CONSTANTS ModuleSources, \* the bodies of the modules, by path
          PrivateNames   \* the names that start with an underscore

\* TypeBinding.  An enum is known by its module and name, and its shape.
Known(id, shape) == [kind |-> "known", id |-> id, shape |-> shape]
Ambiguous == [kind |-> "ambiguous"]
Opaque == [kind |-> "opaque"]
EnumShape(variants) ==
  [i \in 1..Len(variants) |->
     IF variants[i][2] = "tuple" THEN <<variants[i][1], "tuple", Len(variants[i][3])>> ELSE variants[i]]

MergePossibleTypes(a, b) ==
  IF a = b THEN a ELSE IF Opaque \in {a, b} THEN Opaque ELSE Ambiguous

\* A module's surface, and a namespace, when it is known.
Surface(types, namespaces, values) ==
  [kind |-> "surface", types |-> types, namespaces |-> namespaces, values |-> values]

\* First definition wins, and last definition wins.
Under(old, new) == old @@ new
Over(old, new) == new @@ old
All(names, binding) == [n \in names |-> binding]
Only(f, names) == [n \in DOMAIN f \cap names |-> f[n]]

-----------------------------------------------------------------------------
(* The lexical environment *)

EmptyFrame == [types |-> <<>>, namespaces |-> <<>>, shadows |-> {}, blockers |-> {}]
NoEffects == [invalidated |-> <<>>, blockers |-> {}]

ShadowInFrame(frame, names) ==
  [frame EXCEPT !.shadows = @ \cup names, !.namespaces = Over(@, All(names, Opaque))]
OnTop(g, Change(_)) == [g EXCEPT !.env[Len(g.env)] = Change(@)]
ShadowNamespace(g, names) == OnTop(g, LAMBDA top : ShadowInFrame(top, names))
BlockFuture(g, names) == OnTop(g, LAMBDA top : [top EXCEPT !.blockers = @ \cup names])
BindType(g, n, binding) == OnTop(g, LAMBDA top : [top EXCEPT !.types = Over(@, All({n}, binding))])

\* The innermost frame in which Holds, and 0 where there is none.
Innermost(env, Holds(_)) ==
  LET found == {i \in 1..Len(env) : Holds(env[i])}
  IN IF found = {} THEN 0 ELSE CHOOSE i \in found : \A j \in found : j <= i

ResolveType(env, n) ==
  LET i == Innermost(env, LAMBDA frame : n \in DOMAIN frame.types)
  IN IF i = 0 THEN Opaque ELSE env[i].types[n]

\* The frame that says what a namespace is, unless a value hides it there.
NamespaceFrame(env, n) ==
  LET i == Innermost(env, LAMBDA frame : n \in frame.shadows \/ n \in DOMAIN frame.namespaces)
  IN IF i # 0 /\ n \in env[i].shadows THEN 0 ELSE i
ResolveNamespaceType(env, namespace, n) ==
  LET i == NamespaceFrame(env, namespace)
      surface == IF i = 0 THEN Opaque ELSE env[i].namespaces[namespace]
  IN IF surface = Opaque \/ n \notin DOMAIN surface.types THEN Opaque ELSE surface.types[n]

InvalidateVisible(g, n) ==
  LET i == NamespaceFrame(g.env, n)
  IN IF i = 0 THEN g ELSE [g EXCEPT !.env[i].namespaces[n] = Opaque]

\* An assignment to an alias: it may be any value from here on.
Invalidate(g, n) ==
  LET i == NamespaceFrame(g.env, n)
  IN IF i = 0 THEN g
     ELSE [InvalidateVisible(g, n) EXCEPT !.effects.invalidated = Over(@, All({n}, i))]

MergeEffects(a, b) ==
  LET names == DOMAIN a.invalidated \cup DOMAIN b.invalidated
      Of(f, n) == IF n \in DOMAIN f THEN {f[n]} ELSE {}
      Outermost(n) == CHOOSE i \in Of(a.invalidated, n) \cup Of(b.invalidated, n) :
                        \A j \in Of(a.invalidated, n) \cup Of(b.invalidated, n) : i <= j
  IN [invalidated |-> [n \in names |-> Outermost(n)], blockers |-> a.blockers \cup b.blockers]

\* Mutant: what a block does to an alias is forgotten at its end.
ForgetInherited(g) == BlockFuture(g, g.effects.blockers)
\* apply_inherited_effects: what the blocks of a statement did to the frames
\* around them may have happened, or not.
ApplyInherited(g) ==
  LET outer == {n \in DOMAIN g.effects.invalidated : g.effects.invalidated[n] <= Len(g.env)}
      done == FoldSet(LAMBDA n, acc : InvalidateVisible(acc, n), g, outer)
  IN [BlockFuture(done, g.effects.blockers) EXCEPT !.effects.invalidated = Only(@, outer)]

-----------------------------------------------------------------------------
(* Imports *)

\* project_surface
Project(surface, items, private) ==
  LET names == DOMAIN surface.types \cup DOMAIN surface.namespaces \cup surface.values
      selected == IF items # <<>> THEN ToSet(items[1])
                  ELSE IF private THEN names ELSE names \ PrivateNames
  IN Surface(Only(surface.types, selected), Only(surface.namespaces, selected), surface.values \cap selected)

\* apply_use_to_frame, on the empty frame it is given.
UseFrame(surface, items, alias) ==
  LET flat == Project(surface, items, FALSE)
      names == IF items = <<>> THEN {} ELSE ToSet(items[1])
  IN IF alias # <<>>
     THEN [EmptyFrame EXCEPT !.namespaces =
             All({alias[1]}, IF surface = Opaque THEN Opaque ELSE Project(surface, items, TRUE))]
     ELSE IF surface = Opaque
     THEN [EmptyFrame EXCEPT !.blockers = names, !.types = All(names, Opaque), !.namespaces = All(names, Opaque)]
     ELSE [ShadowInFrame(EmptyFrame, flat.values) EXCEPT
             !.types = flat.types, !.namespaces = Under(@, flat.namespaces)]

\* Mutant: the last import of a type wins.
BindImportedLast(g, used) ==
  OnTop(g, LAMBDA top : [top EXCEPT !.types = Over(@, used.types), !.namespaces = Over(@, used.namespaces)])
\* bind_imported_type, bind_imported_value_name, bind_imported_namespace: the
\* first definition of a name wins, and an alias that a value blocks is opaque.
BindImported(g, used) ==
  OnTop(g, LAMBDA top :
    LET blocked == top.blockers \cup ((used.shadows \cup used.blockers) \ DOMAIN top.namespaces)
        hidden == DOMAIN used.namespaces \cap (top.shadows \cup blocked)
    IN [top EXCEPT !.types = Under(@, used.types), !.blockers = blocked,
                   !.namespaces = Over(Under(@, used.namespaces), All(hidden, Opaque))])

RECURSIVE ModuleKnowledge(_, _), CheckStmts(_, _), CheckExpr(_, _)

ApplyUse(g, st) ==
  LET read == ModuleKnowledge(g, st.path)
  IN BindImported(read, UseFrame(read.cache[st.path], st.items, st.alias))

-----------------------------------------------------------------------------
(* Matches *)

\* The alternatives of a pattern.
RECURSIVE Alternatives(_)
Alternatives(p) == IF p[1] = "or" THEN UNION {Alternatives(p[2][i]) : i \in 1..Len(p[2])} ELSE {p}
IsCatchAll(p) == \E q \in Alternatives(p) : q[1] \in {"wild", "bind"}
IsVariant(p) == p[1] = "enum" \/ (p[1] = "in" /\ p[3][1] = "enum")
VariantNamed(p) == IF p[1] = "in" THEN p[3][3] ELSE p[3]

PatternType(env, p) ==
  IF p[1] = "in" THEN ResolveNamespaceType(env, p[2], p[3][2]) ELSE ResolveType(env, p[2])

\* Mutant: the first arm's enum is taken for the others', too.
CheckFirstArmOnly(env, e) ==
  LET p == e.arms[1].pattern
      enum == PatternType(env, p)
      covered == {VariantNamed(e.arms[i].pattern) : i \in {j \in 1..Len(e.arms) : IsVariant(e.arms[j].pattern)}}
  IN IF IsVariant(p) /\ enum.kind = "known"
     THEN {[match |-> e, enum |-> enum, missing |-> {enum.shape[i][1] : i \in 1..Len(enum.shape)} \ covered]}
     ELSE {}
\* check_match_exhaustive, gather_variants: all the variants that the arms
\* name are of one known enum, and some of its variants have no arm.
CheckMatchExhaustive(env, e) ==
  LET Leaves(arms) == UNION {Alternatives(arms[i].pattern) : i \in 1..Len(arms)}
      unguarded == SelectSeq(e.arms, LAMBDA arm : arm.guard = <<>>)
      named == {p \in Leaves(e.arms) : IsVariant(p)}
      types == {PatternType(env, p) : p \in named}
      covered == {VariantNamed(p) : p \in {q \in Leaves(unguarded) : IsVariant(q)}}
      proven == /\ \A i \in 1..Len(unguarded) : ~IsCatchAll(unguarded[i].pattern)
                /\ \A p \in Leaves(e.arms) : IsVariant(p) \/ p[1] \in {"wild", "bind"}
                /\ Cardinality(types) = 1
                /\ types \cap {Opaque, Ambiguous} = {}
      enum == CHOOSE t \in types : TRUE
      missing == {enum.shape[i][1] : i \in 1..Len(enum.shape)} \ covered
  IN IF proven /\ missing # {} THEN {[match |-> e, enum |-> enum, missing |-> missing]} ELSE {}

-----------------------------------------------------------------------------
(* The walk *)

\* A block, with a frame of its own: what is left of it are its effects.
CheckChild(g, shadows, body) ==
  LET entered == ShadowNamespace([g EXCEPT !.env = Append(@, EmptyFrame), !.effects = NoEffects], shadows)
      left == CheckStmts(entered, body)
  IN [left EXCEPT !.env = g.env, !.effects = MergeEffects(g.effects, @)]

\* check_callable: only the module's published names are around it.
CheckCallable(g, params, body) ==
  LET entered == [g EXCEPT !.env = <<g.base, EmptyFrame>>, !.effects = NoEffects, !.warnings = {}]
  IN CheckStmts(ShadowNamespace(entered, ParamNames(params)), body).warnings

CheckExpr(g, e) ==
  CASE e.kind = "lambda" -> CheckCallable(g, e.params, e.body)
    [] e.kind = "match" ->
         LET InArm(arm) == ShadowNamespace([g EXCEPT !.env = Append(@, EmptyFrame)], BindingNames(arm.pattern))
             OfArm(arm) == UNION {CheckExpr(InArm(arm), x) : x \in ToSet(arm.guard) \cup {arm.body}}
         IN CheckExpr(g, e.scrutinee) \cup UNION {OfArm(e.arms[i]) : i \in 1..Len(e.arms)}
              \cup CheckMatchExhaustive(g.env, e)
    [] OTHER -> UNION {CheckExpr(g, x) : x \in Inside(e)}

\* The expressions of a statement are checked in the environment before it.
CheckHeads(g, st) ==
  LET target == IF st.kind = "assign" THEN Inside(st.target) ELSE {}
      callable == IF st.kind \in {"fndecl", "methoddecl"} THEN CheckCallable(g, st.params, st.body) ELSE {}
  IN IF ~g.checking THEN g
     ELSE [g EXCEPT !.warnings = @ \cup callable \cup UNION {CheckExpr(g, e) : e \in Heads(st) \cup target}]

\* The blocks of a statement, each from the environment before it.
Nested(g, shadows, blocks) ==
  LET fresh == [g EXCEPT !.effects = NoEffects]
      left == ApplyInherited(FoldLeft(LAMBDA acc, body : CheckChild(acc, shadows, body), fresh, blocks))
  IN [left EXCEPT !.effects = MergeEffects(g.effects, @)]

DeclareStructType(g, n) ==
  IF ResolveType(g.env, n).kind = "known" /\ ResolveType(g.env, n).id = <<g.path, n>> THEN g
  ELSE BindType(g, n, Opaque)

\* check_stmt, and collect_published_namespace_effects.
CheckStmt(before, st) ==
  LET g == CheckHeads(before, st)
  IN CASE st.kind \in {"let", "const"} -> ShadowNamespace(g, {st.name})
       [] st.kind = "assign" /\ st.target.kind = "ident" -> Invalidate(g, st.target.name)
       [] st.kind = "ifs" ->
            Nested(g, {}, [i \in 1..Len(st.branches) |-> st.branches[i][2]] \o st.otherwise)
       [] st.kind \in {"while", "repeat"} -> Nested(g, {}, <<st.body>>)
       [] st.kind = "for" -> Nested(g, {st.var}, <<st.body>>)
       [] st.kind = "fndecl" -> [BlockFuture(g, {st.name}) EXCEPT !.effects.blockers = @ \cup {st.name}]
       [] st.kind = "use" -> ApplyUse(g, st)
       [] st.kind = "enumdecl" /\ g.checking -> BindType(g, st.name, Known(<<g.path, st.name>>, EnumShape(st.variants)))
       [] st.kind = "structdecl" /\ g.checking -> DeclareStructType(g, st.name)
       [] OTHER -> g

CheckStmts(g, stmts) ==
  IF stmts = <<>> THEN g
  ELSE CHOOSE left \in {CheckStmts(h, Tail(stmts)) : h \in {CheckStmt(g, stmts[1])}} : TRUE

-----------------------------------------------------------------------------
(* Modules *)

\* published_frame: what a module's callables and importers see of it.  The
\* types it declares go over the ones it imports, wherever they stand.
PublishedFrame(g, stmts) ==
  LET left == CheckStmts([g EXCEPT !.checking = FALSE, !.env = <<EmptyFrame>>, !.effects = NoEffects], stmts)
      Declared(kind) == {i \in 1..Len(stmts) : stmts[i].kind = kind}
      Enum(i) == Known(<<g.path, stmts[i].name>>, EnumShape(stmts[i].variants))
      Merged(n) ==
        LET possible == {Enum(i) : i \in {j \in Declared("enumdecl") : stmts[j].name = n}}
        IN IF Cardinality(possible) = 1 THEN CHOOSE t \in possible : TRUE ELSE Ambiguous
      enums == [n \in {stmts[i].name : i \in Declared("enumdecl")} |-> Merged(n)]
      structs == All({stmts[i].name : i \in Declared("structdecl")}, Opaque)
  IN [left EXCEPT !.base = [left.env[1] EXCEPT !.types = Over(Over(@, structs), enums)]]

\* module_knowledge: read a module once; one that imports itself is opaque,
\* as are all that were being read then.
ModuleKnowledge(g, path) ==
  LET entered == [g EXCEPT !.resolving = @ \cup {path}, !.path = path]
      read == PublishedFrame(entered, ModuleSources[path])
      values == read.base.shadows \cup read.base.blockers
      names == DOMAIN read.base.namespaces
      surface == Surface(read.base.types, Only(read.base.namespaces, names \ values), values)
      Keep(after, knowledge) ==
        [g EXCEPT !.cache = Over(after.cache, All({path}, knowledge)), !.tainted = after.tainted \ {path}]
  IN IF path \in g.resolving THEN [Keep(g, Opaque) EXCEPT !.tainted = @ \cup g.resolving]
     ELSE IF path \in DOMAIN g.cache THEN g
     ELSE IF path \notin DOMAIN ModuleSources THEN Keep(g, Opaque)
     ELSE Keep(read, IF path \in read.tainted THEN Opaque ELSE surface)

RootPath == <<>>
\* check_root
Warnings(stmts) ==
  LET start == [path |-> RootPath, env |-> <<EmptyFrame>>, base |-> EmptyFrame, checking |-> TRUE,
                effects |-> NoEffects, cache |-> <<>>, resolving |-> {}, tainted |-> {}, warnings |-> {}]
      base == PublishedFrame(start, stmts)
  IN CheckStmts([start EXCEPT !.base = base.base, !.cache = base.cache], stmts).warnings
=============================================================================
