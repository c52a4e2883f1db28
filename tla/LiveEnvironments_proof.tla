------------------------ MODULE LiveEnvironments_proof ------------------------
(***************************************************************************)
(* Proofs about LiveEnvironments for any modules, names, values and nesting.*)
(*                                                                         *)
(* The argument turns on `store`, the map of the one value of each variable:*)
(* parking yields exactly store (ParkedIsStore) and taking an environment  *)
(* back out of it yields it again (ResumeStore), provided a frame that     *)
(* forwards a name has no variable of its own of that name (Unshadowed).   *)
(* One lemma per action keeps the inductive invariant IInv and says what   *)
(* the action does to store and status; the theorems follow.               *)
(***************************************************************************)
EXTENDS LiveEnvironments, SequenceTheorems, TLAPS

\* The module whose variable n frame f holds or would hold.
Own(f, n) == IF f.origins[n] = NoModule THEN f.mod ELSE f.origins[n]

\* The stack is never empty and each of its frames has its type.
LEMMA FrameFacts ==
  ASSUME TypeOK
  PROVE  /\ Len(frames) \in Nat \ {0}
         /\ cur \in Frame
         /\ \A i \in 1..Len(frames) : frames[i] \in Frame
  BY DEF TypeOK, cur

\* Parking the running environment puts every variable where the abstract store
\* has it; the scope shows the variables the running frame owns or forwards.
LEMMA ParkedIsStore ==
  ASSUME TypeOK, OneHome
  PROVE  /\ Parked = store
         /\ store \in [Module -> Env]
         /\ \A n \in Name : Foreign(cur.origins, cur.mod, n) => store[cur.mod][n] = NoValue
         /\ \A n \in Name : scope[n] = store[Owner(n)][n]
<1>1. cur.mod \in Module /\ cur.origins \in Origins
  BY FrameFacts DEF Frame
<1>2. \A p \in Module, n \in Name : store[p][n] = IF Owner(n) = p THEN scope[n] ELSE env[p][n]
  BY DEF store
<1>3. ASSUME NEW p \in Module, NEW n \in Name
      PROVE  Parked[p][n] = store[p][n]
  <2>1. Parked[p][n] =
          IF p = cur.mod THEN IF Foreign(cur.origins, cur.mod, n) THEN NoValue ELSE scope[n]
          ELSE IF cur.origins[n] = p /\ scope[n] # NoValue THEN scope[n] ELSE env[p][n]
    BY DEF Parked, put_live_environment
  <2>2. env[cur.mod][n] = NoValue /\ env[Owner(n)][n] = NoValue
    BY DEF OneHome
  <2>3. CASE p = cur.mod
    BY <1>2, <2>1, <2>2, <2>3 DEF Owner, Foreign
  <2>4. CASE p # cur.mod
    BY <1>2, <2>1, <2>2, <2>4, MarkAssumption DEF Owner
  <2>5. QED BY <2>3, <2>4
<1>4. Parked = [p \in Module |-> [n \in Name |-> Parked[p][n]]]
  BY DEF Parked, put_live_environment
<1>5. store = [p \in Module |-> [n \in Name |-> store[p][n]]]
  BY DEF store
<1>6. store \in [Module -> Env]
  BY <1>2, <1>5 DEF TypeOK, Env
<1>7. \A n \in Name : Owner(n) \in Module
  BY <1>1, MarkAssumption DEF Owner, Origins
<1>8. QED
  <2>1. Parked = store
    BY <1>3, <1>4, <1>5
  <2>2. \A n \in Name : Foreign(cur.origins, cur.mod, n) => store[cur.mod][n] = NoValue
    BY <1>1, <1>2, MarkAssumption DEF Foreign, Owner, OneHome, Origins
  <2>3. \A n \in Name : scope[n] = store[Owner(n)][n]
    BY <1>2, <1>7
  <2>4. QED BY <2>1, <2>2, <2>3, <1>6

\* Taking an environment back out of parked ones changes no variable.
LEMMA ResumeStore ==
  ASSUME NEW e \in [Module -> Env], NEW m \in Module, NEW o \in Origins,
         \A n \in Name : Foreign(o, m, n) => e[m][n] = NoValue,
         env' = TakenEnv(e, m, o), scope' = TakenScope(e, m, o),
         (cur.mod)' = m, (cur.origins)' = o
  PROVE  /\ store' = e
         /\ OneHome'
         /\ env' \in [Module -> Env]
         /\ scope' \in Env
<1> DEFINE own(n) == IF o[n] = NoModule THEN m ELSE o[n]
<1>1. \A n \in Name : own(n) \in Module /\ Owner(n)' = own(n)
  BY MarkAssumption DEF Owner, Origins
<1>2. \A n \in Name : scope'[n] = e[own(n)][n]
  BY MarkAssumption DEF TakenScope, Foreign, Origins
<1>3. \A p \in Module, n \in Name :
        env'[p][n] = IF p = m \/ own(n) = p THEN NoValue ELSE e[p][n]
  BY MarkAssumption DEF TakenEnv, Foreign, Origins
<1>4. scope' \in Env
  <2>1. scope' = [n \in Name |-> scope'[n]]
    BY DEF TakenScope
  <2>2. \A n \in Name : scope'[n] \in Value \cup {NoValue}
    BY <1>1, <1>2 DEF Env
  <2>3. QED BY <2>1, <2>2 DEF Env
<1>5. env' \in [Module -> Env]
  <2>1. env' = [p \in Module |-> [n \in Name |-> env'[p][n]]]
    BY DEF TakenEnv
  <2>2. \A p \in Module, n \in Name : env'[p][n] \in Value \cup {NoValue}
    BY <1>1, <1>3 DEF Env
  <2>3. QED BY <2>1, <2>2 DEF Env
<1>6. OneHome'
  BY <1>1, <1>3 DEF OneHome
<1>7. store' = e
  <2>1. \A p \in Module, n \in Name : store'[p][n] = e[p][n]
    <3> SUFFICES ASSUME NEW p \in Module, NEW n \in Name PROVE store'[p][n] = e[p][n]
      OBVIOUS
    <3>1. store'[p][n] = IF own(n) = p THEN scope'[n] ELSE env'[p][n]
      BY <1>1 DEF store
    <3>2. CASE own(n) = p
      BY <3>1, <3>2, <1>2
    <3>3. CASE own(n) # p
      <4>1. o[n] # NoModule \/ p # m
        BY <3>3
      <4>2. CASE p = m
        BY <3>1, <3>3, <4>1, <4>2, <1>3 DEF Foreign
      <4>3. CASE p # m
        BY <3>1, <3>3, <4>3, <1>3
      <4>4. QED BY <4>2, <4>3
    <3>4. QED BY <3>2, <3>3
  <2>2. store' = [p \in Module |-> [n \in Name |-> store'[p][n]]]
    BY DEF store
  <2>3. e = [p \in Module |-> [n \in Name |-> e[p][n]]]
    BY DEF Env
  <2>4. QED BY <2>1, <2>2, <2>3
<1>8. QED BY <1>4, <1>5, <1>6, <1>7

\* A new frame on top leaves those below as they are.
LEMMA AppendFacts ==
  ASSUME TypeOK, NEW g \in Frame, frames' = Append(frames, g)
  PROVE  /\ frames' \in Seq(Frame)
         /\ Len(frames') = Len(frames) + 1
         /\ Len(frames)' = Len(frames) + 1
         /\ cur' = g
         /\ \A i \in 1..Len(frames) : frames'[i] = frames[i]
         /\ frames'[Len(frames) + 1] = g
  BY DEF TypeOK, cur

\* The frame below the top becomes the running one.
LEMMA PopFacts ==
  ASSUME TypeOK, Len(frames) > 1, frames' = Pop
  PROVE  /\ frames' \in Seq(Frame)
         /\ Len(frames') = Len(frames) - 1
         /\ importer \in Frame
         /\ cur' = importer
         /\ \A i \in 1..(Len(frames) - 1) : frames'[i] = frames[i]
  BY DEF TypeOK, cur, Pop, importer

\* The part of the invariant that speaks of variables, not of places.
Shape ==
  /\ LoadingIsOnStack
  /\ RootAtBottom
  /\ NothingBelowBody
  /\ AbsentIsEmpty
  /\ OriginsAreGood
  /\ ExportsAreGood

\* What each action lemma starts from.
LEMMA Basics ==
  ASSUME IInv
  PROVE  /\ TypeOK /\ OneHome /\ Shape
         /\ cur \in Frame
         /\ Len(frames) \in Nat \ {0}
         /\ \A i \in 1..Len(frames) : frames[i] \in Frame
         /\ Parked = store
         /\ store \in [Module -> Env]
         /\ \A n \in Name : scope[n] = store[Owner(n)][n]
         /\ Unshadowed(cur.mod, cur.origins)
         /\ Anchored(cur.mod, cur.origins)
<1>1. TypeOK /\ OneHome /\ Shape
  BY DEF IInv, Shape
<1>2. cur \in Frame /\ Len(frames) \in Nat \ {0} /\ \A i \in 1..Len(frames) : frames[i] \in Frame
  BY <1>1, FrameFacts
<1>3. Anchored(cur.mod, cur.origins)
  BY <1>1, <1>2 DEF Shape, OriginsAreGood, cur
<1>4. QED
  BY <1>1, <1>2, <1>3, ParkedIsStore DEF Unshadowed

\* What is known of the origins after the running ones are published.
LEMMA PublishedFacts ==
  ASSUME IInv
  PROVE  /\ Published \in [Module -> Origins]
         /\ Published[cur.mod] = cur.origins
         /\ \A m \in Module : Unshadowed(m, Published[m]) /\ Anchored(m, Published[m])
         /\ \A m \in Module \ {Root} : status[m] = "absent" => Published[m] = NoOrigins
         /\ \A i \in 1..Len(frames) : Unshadowed(frames[i].mod, frames[i].origins)
<1>1. Published \in [Module -> Origins] /\ Published[cur.mod] = cur.origins
  BY Basics DEF Published, TypeOK, Frame
<1>2. \A m \in Module : m # cur.mod => Published[m] = liveOrigins[m]
  BY Basics DEF Published, TypeOK, Frame
<1>3. \A m \in Module : Unshadowed(m, Published[m]) /\ Anchored(m, Published[m])
  BY Basics, <1>1, <1>2 DEF Shape, OriginsAreGood
<1>4. \A m \in Module \ {Root} : status[m] = "absent" => Published[m] = NoOrigins
  BY Basics, <1>1, <1>2 DEF Shape, AbsentIsEmpty, cur
<1>5. \A i \in 1..Len(frames) : Unshadowed(frames[i].mod, frames[i].origins)
  BY Basics DEF Shape, OriginsAreGood, cur
<1>6. QED BY <1>1, <1>3, <1>4, <1>5

\* Frame f, whose origins are good, resumes and every variable stays as it is.
LEMMA ResumeFacts ==
  ASSUME IInv, NEW e \in [Module -> Env], NEW f \in [mod : Module, origins : Origins],
         \A n \in Name : Foreign(f.origins, f.mod, n) => e[f.mod][n] = NoValue,
         Resume(e, f), (cur.mod)' = f.mod, (cur.origins)' = f.origins
  PROVE  store' = e /\ OneHome' /\ env' \in [Module -> Env] /\ scope' \in Env
<1>1. f.mod \in Module /\ f.origins \in Origins
  OBVIOUS
<1>2. env' = TakenEnv(e, f.mod, f.origins) /\ scope' = TakenScope(e, f.mod, f.origins)
  BY DEF Resume
<1>3. QED BY <1>1, <1>2, ResumeStore

\* Unshadowed and Anchored with the variables as arguments, to speak of the next state.
UnshadowedIn(so, m, o) == \A n \in Name : Foreign(o, m, n) => so[m][n] = NoValue
AnchoredIn(st, so, m, o) ==
  \A n \in Name : Foreign(o, m, n) => st[o[n]] = "loaded" /\ so[o[n]][n] # NoValue

\* OriginsAreGood in terms of UnshadowedIn and AnchoredIn ...
LEMMA OriginsNow ==
  ASSUME IInv
  PROVE  /\ \A m \in Module : /\ UnshadowedIn(store, m, Published[m])
                              /\ AnchoredIn(status, store, m, Published[m])
         /\ \A i \in 1..Len(frames) :
              /\ UnshadowedIn(store, frames[i].mod, frames[i].origins)
              /\ AnchoredIn(status, store, frames[i].mod, frames[i].origins)
         /\ \A m \in Module : ~(cur.top /\ cur.mod = m) =>
              /\ UnshadowedIn(store, m, liveOrigins[m])
              /\ AnchoredIn(status, store, m, liveOrigins[m])
  BY PublishedFacts, Basics DEF UnshadowedIn, AnchoredIn, Unshadowed, Anchored, Shape, OriginsAreGood

\* ... and what an action lemma has to show of the next state.
LEMMA OriginsNext ==
  ASSUME \A i \in 1..Len(frames') :
           AnchoredIn(status', store', frames'[i].mod, frames'[i].origins),
         \A i \in 1..(Len(frames') - 1) :
           UnshadowedIn(store', frames'[i].mod, frames'[i].origins),
         \A m \in Module : ~(cur'.top /\ cur'.mod = m) =>
           /\ UnshadowedIn(store', m, liveOrigins'[m])
           /\ AnchoredIn(status', store', m, liveOrigins'[m])
  PROVE  OriginsAreGood'
  BY DEF OriginsAreGood, Unshadowed, Anchored, UnshadowedIn, AnchoredIn

-------------------------------------------------------------------------------
(* One lemma per action: the invariant is kept, and the variables change as    *)
(* the abstract store allows.                                                  *)

\* A call into another module, or the same one, moves values only.
LEMMA CallInv ==
  ASSUME IInv, NEW m \in Module, Call(m)
  PROVE  IInv' /\ UNCHANGED <<store, status>>
<1> DEFINE g == [mod |-> m, origins |-> Published[m], top |-> FALSE]
<1>1. g \in Frame
  BY PublishedFacts DEF Frame
<1>2. /\ frames' = Append(frames, g)
      /\ liveOrigins' = Published
      /\ UNCHANGED <<status, exports>>
  BY DEF Call
<1>3. /\ frames' \in Seq(Frame)
      /\ Len(frames') = Len(frames) + 1
      /\ cur' = g
      /\ \A i \in 1..Len(frames) : frames'[i] = frames[i]
      /\ frames'[Len(frames) + 1] = g
  BY <1>1, <1>2, Basics, AppendFacts
<1>4. store' = store /\ OneHome' /\ env' \in [Module -> Env] /\ scope' \in Env
  <2>1. \A n \in Name : Foreign(Published[m], m, n) => store[m][n] = NoValue
    BY PublishedFacts DEF Unshadowed
  <2>2. [mod |-> m, origins |-> Published[m]] \in [mod : Module, origins : Origins]
    BY PublishedFacts
  <2>3. Resume(store, [mod |-> m, origins |-> Published[m]])
    BY Basics DEF Call
  <2>4. QED BY <1>3, <2>1, <2>2, <2>3, Basics, ResumeFacts
<1>5. TypeOK'
  BY <1>2, <1>3, <1>4, Basics, PublishedFacts DEF TypeOK, Call, Frame
<1>6. LoadingIsOnStack'
  BY <1>2, <1>3, Basics DEF Shape, LoadingIsOnStack
<1>7. RootAtBottom' /\ NothingBelowBody'
  BY <1>2, <1>3, Basics DEF Shape, RootAtBottom, NothingBelowBody
<1>8. AbsentIsEmpty'
  BY <1>2, <1>3, <1>4, Basics, PublishedFacts DEF Shape, AbsentIsEmpty
<1>9. OriginsAreGood'
  BY <1>2, <1>3, <1>4, Basics, OriginsNow, OriginsNext
<1>10. ExportsAreGood'
  BY <1>2, <1>4, Basics DEF Shape, ExportsAreGood
<1>11. QED
  BY <1>2, <1>4, <1>5, <1>6, <1>7, <1>8, <1>9, <1>10 DEF IInv

\* A return, or an error on its way out, moves values only.
LEMMA FinishCallInv ==
  ASSUME IInv, FinishCall
  PROVE  IInv' /\ UNCHANGED <<store, status>>
<1>1. Len(frames) > 1
  BY Basics DEF Shape, RootAtBottom, FinishCall, cur
<1>2. /\ frames' = Pop
      /\ liveOrigins' = Published
      /\ UNCHANGED <<status, exports, shared>>
      /\ ~cur.top
  BY DEF FinishCall
<1>3. /\ frames' \in Seq(Frame)
      /\ Len(frames') = Len(frames) - 1
      /\ importer \in Frame
      /\ cur' = importer
      /\ \A i \in 1..(Len(frames) - 1) : frames'[i] = frames[i]
  BY <1>1, <1>2, Basics, PopFacts
<1>4. store' = store /\ OneHome' /\ env' \in [Module -> Env] /\ scope' \in Env
  <2>1. Unshadowed(importer.mod, importer.origins)
    BY <1>1, Basics, PublishedFacts DEF importer
  <2>2. [mod |-> importer.mod, origins |-> importer.origins]
           \in [mod : Module, origins : Origins]
    BY <1>3 DEF Frame
  <2>3. Resume(store, [mod |-> importer.mod, origins |-> importer.origins])
    BY Basics DEF FinishCall, Resume
  <2>4. QED BY <1>3, <2>1, <2>2, <2>3, Basics, ResumeFacts DEF Unshadowed
<1>5. TypeOK'
  BY <1>1, <1>2, <1>3, <1>4, Basics, PublishedFacts DEF TypeOK
<1>6. LoadingIsOnStack'
  <2>1. \A i \in 1..Len(frames) : frames[i].top => i \in 1..Len(frames')
    BY <1>1, <1>2, <1>3, Basics DEF cur
  <2>2. \A i \in 1..Len(frames') : i \in 1..Len(frames) /\ frames'[i] = frames[i]
    BY <1>1, <1>3, Basics
  <2>3. LoadingIsOnStack
    BY Basics DEF Shape
  <2>4. \A p \in Module \ {Root} :
          (\E i \in 1..Len(frames) : frames[i].top /\ frames[i].mod = p)
          <=> (\E i \in 1..Len(frames') : frames'[i].top /\ frames'[i].mod = p)
    BY <2>1, <2>2
  <2>5. QED BY <1>2, <2>2, <2>3, <2>4 DEF LoadingIsOnStack
<1>7. RootAtBottom' /\ NothingBelowBody'
  BY <1>1, <1>2, <1>3, Basics DEF Shape, RootAtBottom, NothingBelowBody
<1>8. AbsentIsEmpty'
  BY <1>1, <1>2, <1>3, <1>4, Basics, PublishedFacts DEF Shape, AbsentIsEmpty
<1>9. OriginsAreGood'
  BY <1>1, <1>2, <1>3, <1>4, Basics, OriginsNow, OriginsNext
<1>10. ExportsAreGood'
  BY <1>2, <1>4, Basics DEF Shape, ExportsAreGood
<1>11. QED
  BY <1>2, <1>4, <1>5, <1>6, <1>7, <1>8, <1>9, <1>10 DEF IInv

\* An import that binds nothing puts everything back.
LEMMA RefusedImportInv ==
  ASSUME IInv, RefusedImport
  PROVE  IInv' /\ UNCHANGED <<store, status>>
<1>1. liveOrigins' = Published /\ UNCHANGED <<frames, status, exports, shared>>
  BY DEF RefusedImport
<1>2. cur' = cur
  BY <1>1 DEF cur
<1>3. store' = store /\ OneHome' /\ env' \in [Module -> Env] /\ scope' \in Env
  <2>1. [mod |-> cur.mod, origins |-> cur.origins] \in [mod : Module, origins : Origins]
    BY Basics DEF Frame
  <2>2. Resume(store, [mod |-> cur.mod, origins |-> cur.origins])
    BY Basics DEF RefusedImport, Resume
  <2>3. QED BY <1>2, <2>1, <2>2, Basics, ResumeFacts DEF Unshadowed
<1>4. TypeOK'
  BY <1>1, <1>3, Basics, PublishedFacts DEF TypeOK
<1>5. LoadingIsOnStack' /\ RootAtBottom' /\ NothingBelowBody'
  BY <1>1, Basics DEF Shape, LoadingIsOnStack, RootAtBottom, NothingBelowBody
<1>6. AbsentIsEmpty'
  BY <1>1, <1>3, Basics, PublishedFacts DEF Shape, AbsentIsEmpty
<1>7. OriginsAreGood'
  BY <1>1, <1>2, <1>3, Basics, OriginsNow, OriginsNext
<1>8. ExportsAreGood'
  BY <1>1, <1>3, Basics DEF Shape, ExportsAreGood
<1>9. QED
  BY <1>1, <1>3, <1>4, <1>5, <1>6, <1>7, <1>8 DEF IInv

\* A body starts with an empty scope; nothing of its module is left over.
LEMMA BeginLoadInv ==
  ASSUME IInv, NEW m \in Module, BeginLoad(m)
  PROVE  /\ IInv'
         /\ store' = store
         /\ m # Root /\ status[m] = "absent" /\ status' = [status EXCEPT ![m] = "loading"]
<1> DEFINE g == [mod |-> m, origins |-> NoOrigins, top |-> TRUE]
<1>1. g \in Frame /\ NoOrigins \in Origins
  BY DEF Frame, NoOrigins, Origins
<1>2. /\ frames' = Append(frames, g)
      /\ liveOrigins' = Published
      /\ m # Root
      /\ status[m] = "absent"
      /\ status' = [status EXCEPT ![m] = "loading"]
      /\ env' = store
      /\ scope' = NoEnv
      /\ UNCHANGED exports
  BY Basics DEF BeginLoad
<1>3. /\ frames' \in Seq(Frame)
      /\ Len(frames') = Len(frames) + 1
      /\ cur' = g
      /\ \A i \in 1..Len(frames) : frames'[i] = frames[i]
      /\ frames'[Len(frames) + 1] = g
  BY <1>1, <1>2, Basics, AppendFacts
<1>4. store[m] = NoEnv /\ \A i \in 1..Len(frames) : frames[i].mod = m => frames[i].origins = NoOrigins
  BY <1>2, Basics DEF Shape, AbsentIsEmpty
<1>5. \A n \in Name : Owner(n)' = m
  BY <1>3 DEF Owner, NoOrigins
<1>6. store' = store
  <2>1. \A p \in Module, n \in Name : store'[p][n] = store[p][n]
    BY <1>2, <1>4, <1>5 DEF store, NoEnv
  <2>2. store' = [p \in Module |-> [n \in Name |-> store'[p][n]]]
    BY DEF store
  <2>3. store = [p \in Module |-> [n \in Name |-> store[p][n]]]
    BY DEF store
  <2>4. QED BY <2>1, <2>2, <2>3
<1>7. OneHome'
  BY <1>2, <1>3, <1>4, <1>5 DEF OneHome, NoEnv
<1>8. TypeOK'
  <2>1. scope' \in Env
    BY <1>2 DEF NoEnv, Env
  <2>2. shared' = shared
    BY DEF BeginLoad
  <2>3. QED BY <1>2, <1>3, <2>1, <2>2, Basics, PublishedFacts DEF TypeOK, Slot
<1>9. LoadingIsOnStack'
  <2>1. LoadingIsOnStack /\ status \in [Module -> Slot]
    BY Basics DEF Shape, TypeOK
  <2>2. \A i \in 1..Len(frames) : frames[i].top => frames[i].mod # m
    BY <1>2, <2>1, Basics DEF LoadingIsOnStack
  <2>3. \A p \in Module \ {Root} : p # m =>
          ((\E i \in 1..Len(frames) : frames[i].top /\ frames[i].mod = p)
          <=> (\E i \in 1..Len(frames') : frames'[i].top /\ frames'[i].mod = p))
    BY <1>3, Basics
  <2>4. \E i \in 1..Len(frames') : frames'[i].top /\ frames'[i].mod = m
    BY <1>3, Basics
  <2>5. \A p \in Module \ {Root} :
       status'[p] = "loading" <=>
         \E i \in 1..Len(frames') : frames'[i].top /\ frames'[i].mod = p
    BY <1>2, <2>1, <2>3, <2>4 DEF LoadingIsOnStack
  <2>6. \A i, j \in 1..Len(frames') :
          frames'[i].top /\ frames'[j].top /\ frames'[i].mod = frames'[j].mod => i = j
    <3>1. \A i \in 1..Len(frames') : i \in 1..Len(frames) \/ i = Len(frames) + 1
      BY <1>3, Basics
    <3>2. \A i \in 1..Len(frames) : frames'[i] = frames[i] /\ (frames'[i].top => frames'[i].mod # m)
      BY <1>3, <2>2
    <3>3. frames'[Len(frames) + 1].mod = m
      BY <1>3
    <3>4. \A i, j \in 1..Len(frames) :
            frames[i].top /\ frames[j].top /\ frames[i].mod = frames[j].mod => i = j
      BY <2>1 DEF LoadingIsOnStack
    <3> HIDE DEF g
    <3>5. QED BY <3>1, <3>2, <3>3, <3>4
  <2>7. QED BY <2>5, <2>6 DEF LoadingIsOnStack
<1>10. RootAtBottom'
  BY <1>2, <1>3, Basics DEF Shape, RootAtBottom, TypeOK
<1>11. NothingBelowBody'
  <2> SUFFICES ASSUME NEW j \in 1..Len(frames'), frames'[j].top,
                      NEW i \in 1..(j - 1), frames'[i].mod = frames'[j].mod
               PROVE  frames'[i].origins = NoOrigins
    BY DEF NothingBelowBody
  <2>1. i \in 1..Len(frames) /\ frames'[i] = frames[i]
    BY <1>3, Basics
  <2>2. CASE j = Len(frames) + 1
    BY <2>1, <2>2, <1>3, <1>4
  <2>3. CASE j \in 1..Len(frames)
    BY <2>1, <2>3, <1>3, Basics DEF Shape, NothingBelowBody
  <2>4. j \in 1..Len(frames) \/ j = Len(frames) + 1
    BY <1>3, Basics
  <2>5. QED BY <2>2, <2>3, <2>4
<1>12. AbsentIsEmpty'
  <2>1. \A p \in Module \ {Root} : status'[p] = "absent" => status[p] = "absent" /\ p # m
    BY <1>2, Basics DEF TypeOK
  <2>2. QED BY <1>2, <1>3, <1>6, <2>1, Basics, PublishedFacts DEF Shape, AbsentIsEmpty
<1>13. \A p \in Module : status[p] = "loaded" => status'[p] = "loaded"
  BY <1>2, Basics DEF TypeOK
<1>14. OriginsAreGood'
  <2>1. \A p \in Module, o \in Origins :
           AnchoredIn(status, store, p, o) => AnchoredIn(status', store', p, o)
    BY <1>6, <1>13, MarkAssumption DEF AnchoredIn, Foreign, Origins
  <2>2. \A i \in 1..Len(frames') :
           AnchoredIn(status', store', frames'[i].mod, frames'[i].origins)
    <3> SUFFICES ASSUME NEW i \in 1..Len(frames')
                 PROVE  AnchoredIn(status', store', frames'[i].mod, frames'[i].origins)
      OBVIOUS
    <3>1. CASE i \in 1..Len(frames)
      BY <3>1, <1>3, <2>1, Basics, OriginsNow DEF Frame
    <3>2. CASE i = Len(frames) + 1
      BY <3>2, <1>3 DEF AnchoredIn, Foreign, NoOrigins
    <3>3. QED BY <1>3, <3>1, <3>2, Basics
  <2>3. \A i \in 1..(Len(frames') - 1) :
           UnshadowedIn(store', frames'[i].mod, frames'[i].origins)
    BY <1>3, <1>6, Basics, OriginsNow
  <2>4. \A p \in Module : /\ UnshadowedIn(store', p, liveOrigins'[p])
                          /\ AnchoredIn(status', store', p, liveOrigins'[p])
    BY <1>2, <1>6, <2>1, PublishedFacts, OriginsNow
  <2>5. QED BY <2>2, <2>3, <2>4, OriginsNext
<1>15. ExportsAreGood'
  <2>1. \A p \in Module : status'[p] = "loaded" => status[p] = "loaded"
    BY <1>2, Basics DEF TypeOK
  <2>2. exports \in [Module -> Origins]
    BY Basics DEF TypeOK
  <2>3. QED BY <1>2, <1>6, <1>13, <2>1, <2>2, Basics, MarkAssumption DEF Shape, ExportsAreGood, Origins
<1>16. QED
  BY <1>2, <1>6, <1>7, <1>8, <1>9, <1>10, <1>11, <1>12, <1>14, <1>15 DEF IInv

\* An assignment writes the one variable that the name stands for.
LEMMA AssignInv ==
  ASSUME IInv, NEW n \in Name, NEW v \in Value, Assign(n, v)
  PROVE  /\ IInv'
         /\ Owner(n) \in Module /\ store[Owner(n)][n] # NoValue
         /\ store' = [store EXCEPT ![Owner(n)][n] = v]
         /\ UNCHANGED status
<1>1. /\ UNCHANGED <<env, liveOrigins, frames, status, exports>>
      /\ scope[n] # NoValue
      /\ scope' = [scope EXCEPT ![n] = v]
  BY DEF Assign
<1>2. cur' = cur /\ \A k \in Name : Owner(k)' = Owner(k)
  BY <1>1 DEF cur, Owner
<1>3. \A k \in Name : Owner(k) \in Module
  BY Basics, MarkAssumption DEF Owner, Frame, Origins
<1>4. scope' \in Env /\ \A k \in Name : scope'[k] = IF k = n THEN v ELSE scope[k]
  BY <1>1, Basics DEF TypeOK, Env
<1>5. store' = [store EXCEPT ![Owner(n)][n] = v]
  <2>1. \A p \in Module, k \in Name :
          store'[p][k] = IF p = Owner(n) /\ k = n THEN v ELSE store[p][k]
    BY <1>1, <1>2, <1>4 DEF store
  <2>2. store' = [p \in Module |-> [k \in Name |-> store'[p][k]]]
    BY DEF store
  <2>3. store \in [Module -> [Name -> Value \cup {NoValue}]]
    BY Basics DEF Env
  <2>4. QED BY <1>3, <2>1, <2>2, <2>3
<1>6. store[Owner(n)][n] # NoValue
  BY <1>1, Basics
<1>7. \A p \in Module, k \in Name : store'[p][k] = NoValue <=> store[p][k] = NoValue
  BY <1>3, <1>5, <1>6, Basics, MarkAssumption DEF Env
<1>8. OneHome'
  BY <1>1, <1>2, Basics DEF OneHome
<1>9. TypeOK'
  <2>1. shared' \subseteq Module
    BY Basics DEF Assign, TypeOK, Frame
  <2>2. QED BY <1>1, <1>4, <2>1, Basics DEF TypeOK
<1>10. LoadingIsOnStack' /\ RootAtBottom' /\ NothingBelowBody'
  BY <1>1, Basics DEF Shape, LoadingIsOnStack, RootAtBottom, NothingBelowBody
<1>11. AbsentIsEmpty'
  <2>1. \A p \in Module : store[p] = NoEnv => store'[p] = NoEnv
    <3> SUFFICES ASSUME NEW p \in Module, store[p] = NoEnv PROVE store'[p] = NoEnv
      OBVIOUS
    <3>1. p # Owner(n)
      BY <1>6 DEF NoEnv
    <3>2. QED BY <1>5, <3>1, Basics
  <2>2. QED BY <1>1, <2>1, Basics DEF Shape, AbsentIsEmpty
<1>12. OriginsAreGood'
  <2>1. \A p \in Module, o \in Origins :
          /\ AnchoredIn(status, store, p, o) => AnchoredIn(status', store', p, o)
          /\ UnshadowedIn(store, p, o) => UnshadowedIn(store', p, o)
    BY <1>1, <1>7, MarkAssumption DEF AnchoredIn, UnshadowedIn, Foreign, Origins
  <2>2. \A i \in 1..Len(frames) : frames[i].mod \in Module /\ frames[i].origins \in Origins
    BY Basics DEF Frame
  <2>3. liveOrigins \in [Module -> Origins]
    BY Basics DEF TypeOK
  <2>4. QED BY <1>1, <1>2, <2>1, <2>2, <2>3, Basics, OriginsNow, OriginsNext
<1>13. ExportsAreGood'
  <2>1. exports \in [Module -> Origins]
    BY Basics DEF TypeOK
  <2>2. QED BY <1>1, <1>7, <2>1, Basics, MarkAssumption DEF Shape, ExportsAreGood, Origins
<1>14. QED
  BY <1>1, <1>3, <1>5, <1>6, <1>8, <1>9, <1>10, <1>11, <1>12, <1>13 DEF IInv

\* A frame with other origins, field by field.
LEMMA FrameExcept ==
  ASSUME NEW f \in Frame, NEW q \in Origins
  PROVE  /\ [f EXCEPT !.origins = q] = [mod |-> f.mod, origins |-> q, top |-> f.top]
         /\ [f EXCEPT !.origins = q] \in Frame
  BY DEF Frame

\* A stack whose last frame has other origins.
LEMMA LastOrigins ==
  ASSUME NEW fs \in Seq(Frame), Len(fs) > 0, NEW q \in Origins,
         frames' = [fs EXCEPT ![Len(fs)].origins = q]
  PROVE  LET f == fs[Len(fs)]
             g == [mod |-> f.mod, origins |-> q, top |-> f.top]
         IN /\ frames' \in Seq(Frame)
            /\ Len(frames') = Len(fs)
            /\ \A i \in 1..(Len(fs) - 1) : frames'[i] = fs[i]
            /\ frames'[Len(fs)] = g
            /\ cur' = g
<1> DEFINE L == Len(fs)
           f == fs[L]
           g == [mod |-> f.mod, origins |-> q, top |-> f.top]
<1>1. L \in 1..L /\ f \in Frame
  OBVIOUS
<1>2. [f EXCEPT !.origins = q] = g /\ g \in Frame
  BY <1>1, FrameExcept
<1>3. frames' = [fs EXCEPT ![L] = g]
  BY <1>2
<1>4. /\ [fs EXCEPT ![L] = g] \in Seq(Frame)
      /\ Len([fs EXCEPT ![L] = g]) = L
      /\ \A i \in 1..L : [fs EXCEPT ![L] = g][i] = IF i = L THEN g ELSE fs[i]
  <2> HIDE DEF g
  <2>1. QED BY <1>1, <1>2, ExceptSeq
<1>5. \A i \in 1..(L - 1) : i \in 1..L /\ i # L
  BY <1>1
<1>6. cur' = frames'[Len(frames')]
  BY DEF cur
<1>7. QED
  <2> HIDE DEF g, L
  <2>1. /\ frames' \in Seq(Frame)
        /\ Len(frames') = L
        /\ \A i \in 1..(L - 1) : frames'[i] = fs[i]
        /\ frames'[L] = g
        /\ cur' = g
    BY <1>1, <1>3, <1>4, <1>5, <1>6
  <2>2. QED BY <2>1 DEF g, L

\* A top-level `let` writes the module's own variable; a forwarded one it replaces
\* goes home.
LEMMA LetInv ==
  ASSUME IInv, NEW n \in Name, NEW v \in Value, Let(n, v)
  PROVE  /\ IInv'
         /\ cur.mod \in Module /\ status[cur.mod] # "loaded"
         /\ store' = [store EXCEPT ![cur.mod][n] = v]
         /\ UNCHANGED status
<1> DEFINE m == cur.mod
           o == cur.origins
           o2 == [o EXCEPT ![n] = m]
           L == Len(frames)
<1>1. /\ cur.top
      /\ scope' = [scope EXCEPT ![n] = v]
      /\ frames' = [frames EXCEPT ![Len(frames)].origins[n] = cur.mod]
      /\ UNCHANGED <<liveOrigins, status, exports, shared>>
  BY DEF Let
<1>2. m \in Module /\ o \in Origins /\ o2 \in Origins
  BY Basics DEF Frame, Origins
<1>3. /\ frames' \in Seq(Frame)
      /\ Len(frames') = L
      /\ \A i \in 1..(L - 1) : frames'[i] = frames[i]
      /\ frames'[L] = [mod |-> m, origins |-> o2, top |-> cur.top]
      /\ cur' = [mod |-> m, origins |-> o2, top |-> cur.top]
  <2>1. frames \in Seq(Frame) /\ L \in 1..L /\ frames[L] = cur
    BY Basics DEF TypeOK, cur
  <2>2. frames' = [frames EXCEPT ![L].origins = o2]
    BY <1>1, <2>1
  <2>3. L > 0
    BY <2>1
  <2>4. QED
    <3> HIDE DEF o2
    <3>1. QED BY <1>2, <2>1, <2>2, <2>3, LastOrigins
<1>4. status[m] # "loaded"
  <2>1. frames[L] = cur /\ L \in 1..L
    BY Basics DEF cur
  <2>2. CASE m = Root
    BY <2>2, Basics DEF Shape, RootAtBottom
  <2>3. CASE m # Root
    BY <1>1, <1>2, <2>1, <2>3, Basics DEF Shape, LoadingIsOnStack
  <2>4. QED BY <2>2, <2>3
<1>5. \A k \in Name : /\ Owner(k) = IF o[k] = NoModule THEN m ELSE o[k]
                      /\ Owner(k)' = IF k = n THEN m ELSE Owner(k)
                      /\ Owner(k) \in Module
  BY <1>2, <1>3, MarkAssumption DEF Owner, Origins
<1>6. scope' \in Env /\ \A k \in Name : scope'[k] = IF k = n THEN v ELSE scope[k]
  BY <1>1, Basics DEF TypeOK, Env
<1>7. /\ env' \in [Module -> Env]
      /\ \A p \in Module, k \in Name :
           env'[p][k] = IF k = n /\ p = Owner(n) /\ p # m THEN scope[n] ELSE env[p][k]
  <2>1. env \in [Module -> [Name -> Value \cup {NoValue}]] /\ scope[n] \in Value \cup {NoValue}
    BY Basics DEF TypeOK, Env
  <2>2. CASE Foreign(o, m, n) /\ scope[n] # NoValue
    <3>1. env' = [env EXCEPT ![o[n]][n] = scope[n]] /\ Owner(n) = o[n] /\ o[n] # m /\ o[n] \in Module
      BY <2>2, <1>5 DEF Let, Foreign
    <3>2. QED BY <2>1, <3>1 DEF Env
  <2>3. CASE ~(Foreign(o, m, n) /\ scope[n] # NoValue)
    <3>1. env' = env
      BY <2>3 DEF Let
    <3>2. Owner(n) # m => scope[n] = NoValue /\ env[Owner(n)][n] = NoValue
      BY <2>3, <1>5, Basics DEF Foreign, OneHome
    <3>3. QED BY <2>1, <3>1, <3>2 DEF Env
  <2>4. QED BY <2>2, <2>3
<1>8. store' = [store EXCEPT ![m][n] = v]
  <2>1. \A p \in Module, k \in Name :
          store'[p][k] = IF p = m /\ k = n THEN v ELSE store[p][k]
    BY <1>2, <1>5, <1>6, <1>7 DEF store
  <2>2. store' = [p \in Module |-> [k \in Name |-> store'[p][k]]]
    BY DEF store
  <2>3. store \in [Module -> [Name -> Value \cup {NoValue}]]
    BY Basics DEF Env
  <2>4. QED BY <1>2, <2>1, <2>2, <2>3
<1>9. \A p \in Module, k \in Name : ~(p = m /\ k = n) => store'[p][k] = store[p][k]
  BY <1>2, <1>8, Basics DEF Env
<1>10. OneHome'
  <2> SUFFICES ASSUME NEW k \in Name
               PROVE  env'[m][k] = NoValue /\ env'[Owner(k)'][k] = NoValue
    BY <1>3 DEF OneHome
  <2>1. env[m][k] = NoValue /\ env[Owner(k)][k] = NoValue
    BY Basics DEF OneHome
  <2>2. QED BY <1>2, <1>5, <1>7, <2>1
<1>11. TypeOK'
  BY <1>1, <1>3, <1>6, <1>7, Basics DEF TypeOK
<1>12. \A i \in 1..L : frames'[i].mod = frames[i].mod /\ frames'[i].top = frames[i].top
  <2>1. frames[L] = cur
    BY <1>1, Basics DEF cur, Frame
  <2>2. frames'[L].mod = frames[L].mod /\ frames'[L].top = frames[L].top
    <3>1. frames'[L].mod = cur.mod /\ frames'[L].top = cur.top
      BY <1>3
    <3>2. QED BY <2>1, <3>1
  <2>3. \A i \in 1..L : i = L \/ i \in 1..(L - 1)
    BY Basics
  <2>4. QED BY <1>3, <2>2, <2>3
<1>13. LoadingIsOnStack' /\ RootAtBottom'
  BY <1>1, <1>3, <1>12, Basics DEF Shape, LoadingIsOnStack, RootAtBottom
<1>14. NothingBelowBody'
  <2> SUFFICES ASSUME NEW j \in 1..L, frames[j].top,
                      NEW i \in 1..(j - 1), frames[i].mod = frames[j].mod
               PROVE  frames'[i].origins = NoOrigins
    BY <1>3, <1>12, Basics DEF NothingBelowBody
  <2>1. i \in 1..(L - 1)
    BY Basics
  <2>2. frames[i].origins = NoOrigins
    BY Basics DEF Shape, NothingBelowBody
  <2>3. QED BY <1>3, <2>1, <2>2
<1>15. AbsentIsEmpty'
  <2>1. m # Root => status[m] # "absent"
    BY <1>1, <1>2, Basics DEF Shape, LoadingIsOnStack, cur
  <2>2. \A p \in Module : p # m => store'[p] = store[p]
    BY <1>2, <1>8, Basics
  <2>3. \A p \in Module \ {Root} : status[p] = "absent" =>
          /\ p # m
          /\ liveOrigins[p] = NoOrigins
          /\ store[p] = NoEnv
          /\ \A i \in 1..L : frames[i].mod = p => frames[i].origins = NoOrigins
    BY <2>1, Basics DEF Shape, AbsentIsEmpty
  <2>4. \A i \in 1..L : frames'[i].mod # m => frames'[i] = frames[i]
    BY <1>3, Basics
  <2>5. QED BY <1>1, <1>3, <1>12, <2>2, <2>3, <2>4 DEF AbsentIsEmpty
<1>16. OriginsAreGood'
  <2>1. \A p \in Module, q \in Origins :
          /\ AnchoredIn(status, store, p, q) => AnchoredIn(status', store', p, q)
          /\ UnshadowedIn(store, p, q) /\ p # m => UnshadowedIn(store', p, q)
    BY <1>1, <1>2, <1>4, <1>9, MarkAssumption DEF AnchoredIn, UnshadowedIn, Foreign, Origins
  <2>2. \A i \in 1..(L - 1) : frames[i].mod = m => frames[i].origins = NoOrigins
    BY <1>1, Basics DEF Shape, NothingBelowBody, cur
  <2>3. \A i \in 1..L : frames[i].mod \in Module /\ frames[i].origins \in Origins
    BY Basics DEF Frame
  <2>4. AnchoredIn(status', store', m, o2)
    <3>1. AnchoredIn(status, store, m, o)
      BY Basics, OriginsNow DEF cur
    <3>2. AnchoredIn(status', store', m, o)
      BY <1>2, <2>1, <3>1
    <3>3. QED BY <1>2, <3>2 DEF AnchoredIn, Foreign, Origins
  <2>5. \A i \in 1..L : AnchoredIn(status', store', frames'[i].mod, frames'[i].origins)
    BY <1>3, <2>1, <2>3, <2>4, Basics, OriginsNow
  <2>6. \A i \in 1..(L - 1) : UnshadowedIn(store', frames'[i].mod, frames'[i].origins)
    <3> SUFFICES ASSUME NEW i \in 1..(L - 1)
                 PROVE  UnshadowedIn(store', frames[i].mod, frames[i].origins)
      BY <1>3
    <3>1. CASE frames[i].mod = m
      BY <3>1, <2>2 DEF UnshadowedIn, Foreign, NoOrigins
    <3>2. CASE frames[i].mod # m
      BY <3>2, <2>1, <2>3, Basics, OriginsNow
    <3>3. QED BY <3>1, <3>2
  <2>7. \A p \in Module : ~(cur'.top /\ cur'.mod = p) =>
           /\ UnshadowedIn(store', p, liveOrigins'[p])
           /\ AnchoredIn(status', store', p, liveOrigins'[p])
    BY <1>1, <1>3, <2>1, Basics, OriginsNow DEF TypeOK
  <2>8. QED BY <1>3, <2>5, <2>6, <2>7, OriginsNext
<1>17. ExportsAreGood'
  <2>1. exports \in [Module -> Origins]
    BY Basics DEF TypeOK
  <2>2. QED BY <1>1, <1>4, <1>9, <2>1, Basics, MarkAssumption DEF Shape, ExportsAreGood, Origins
<1>18. QED
  BY <1>1, <1>2, <1>4, <1>8, <1>10, <1>11, <1>13, <1>14, <1>15, <1>16, <1>17 DEF IInv

\* A body that runs above the bottom of the stack is that of a loading module.
LEMMA RunningBody ==
  ASSUME IInv, cur.top, Len(frames) > 1
  PROVE  /\ cur.mod \in Module \ {Root}
         /\ status[cur.mod] = "loading"
         /\ \A i \in 1..(Len(frames) - 1) :
              /\ frames[i].top => frames[i].mod # cur.mod
              /\ frames[i].mod = cur.mod => frames[i].origins = NoOrigins
<1> DEFINE L == Len(frames)
<1>1. frames[L] = cur /\ L \in 1..L /\ 1 \in 1..(L - 1) /\ \A i \in 1..(L - 1) : i \in 1..L /\ i # L
  BY Basics DEF cur
<1>2. \A i \in 1..(L - 1) : frames[i].top => frames[i].mod # cur.mod
  BY <1>1, Basics DEF Shape, LoadingIsOnStack
<1>3. cur.mod \in Module \ {Root}
  BY <1>1, <1>2, Basics DEF Shape, RootAtBottom, Frame
<1>4. status[cur.mod] = "loading"
  BY <1>1, <1>3, Basics DEF Shape, LoadingIsOnStack
<1>5. \A i \in 1..(L - 1) : frames[i].mod = cur.mod => frames[i].origins = NoOrigins
  BY <1>1, Basics DEF Shape, NothingBelowBody
<1>6. QED BY <1>2, <1>3, <1>4, <1>5

\* The modules whose body runs, once the body on top is gone.
LEMMA BodyGone ==
  ASSUME IInv, cur.top, Len(frames) > 1, NEW fs, NEW s \in Slot,
         s # "loading",
         Len(fs) = Len(frames) - 1,
         \A i \in 1..Len(fs) : fs[i].mod = frames[i].mod /\ fs[i].top = frames[i].top,
         frames' = fs, status' = [status EXCEPT ![cur.mod] = s]
  PROVE  LoadingIsOnStack'
<1> DEFINE L == Len(frames)
<1>1. frames[L] = cur /\ L \in 1..L /\ \A i \in 1..L : i = L \/ i \in 1..Len(fs)
  BY Basics DEF cur
<1>2. \A i \in 1..Len(fs) : i \in 1..L /\ i \in 1..(L - 1)
  BY Basics
<1>3. \A m \in Module \ {Root} :
        status'[m] = "loading" <=> \E i \in 1..Len(frames') : frames'[i].top /\ frames'[i].mod = m
  <2> SUFFICES ASSUME NEW m \in Module \ {Root}
               PROVE  status'[m] = "loading" <=>
                        \E i \in 1..Len(fs) : frames[i].top /\ frames[i].mod = m
    OBVIOUS
  <2>1. CASE m = cur.mod
    BY <2>1, <1>2, RunningBody, Basics DEF TypeOK
  <2>2. CASE m # cur.mod
    <3>1. status'[m] = status[m]
      BY <2>2, Basics DEF TypeOK
    <3>2. status[m] = "loading" <=> \E i \in 1..L : frames[i].top /\ frames[i].mod = m
      BY Basics DEF Shape, LoadingIsOnStack
    <3>3. QED BY <1>1, <1>2, <2>2, <3>1, <3>2
  <2>3. QED BY <2>1, <2>2
<1>4. \A i, j \in 1..Len(frames') :
        frames'[i].top /\ frames'[j].top /\ frames'[i].mod = frames'[j].mod => i = j
  BY <1>2, Basics DEF Shape, LoadingIsOnStack
<1>5. QED BY <1>3, <1>4 DEF LoadingIsOnStack

\* A failed body takes its module's variables with it and nothing else.
LEMMA FailLoadInv ==
  ASSUME IInv, FailLoad
  PROVE  /\ IInv'
         /\ cur.mod \in Module \ {Root} /\ status[cur.mod] = "loading"
         /\ store' = [store EXCEPT ![cur.mod] = NoEnv]
         /\ status' = [status EXCEPT ![cur.mod] = "absent"]
<1> DEFINE m == cur.mod
           L == Len(frames)
           e == [store EXCEPT ![m] = NoEnv]
<1>1. /\ cur.top
      /\ L > 1
      /\ frames' = Pop
      /\ Resume(e, importer)
      /\ liveOrigins' = [liveOrigins EXCEPT ![m] = NoOrigins]
      /\ status' = [status EXCEPT ![m] = "absent"]
      /\ UNCHANGED <<exports, shared>>
  BY Basics DEF FailLoad
<1>2. /\ frames' \in Seq(Frame)
      /\ Len(frames') = L - 1
      /\ importer \in Frame
      /\ cur' = importer
      /\ \A i \in 1..(L - 1) : i \in 1..L /\ frames'[i] = frames[i]
  BY <1>1, Basics, PopFacts
<1>3. /\ m \in Module \ {Root}
      /\ status[m] = "loading"
      /\ \A i \in 1..(L - 1) : /\ frames[i].top => frames[i].mod # m
                               /\ frames[i].mod = m => frames[i].origins = NoOrigins
  BY <1>1, RunningBody
<1>4. /\ NoEnv \in Env /\ e \in [Module -> Env]
      /\ e[m] = NoEnv
      /\ \A p \in Module : p # m => e[p] = store[p]
      /\ \A p \in Module, k \in Name : store[p][k] = NoValue => e[p][k] = NoValue
  <2>1. NoEnv \in Env
    BY DEF NoEnv, Env
  <2>2. QED BY <1>3, <2>1, Basics DEF NoEnv
<1>5. store' = e /\ OneHome' /\ env' \in [Module -> Env] /\ scope' \in Env
  <2> DEFINE f == [mod |-> importer.mod, origins |-> importer.origins]
  <2>1. Unshadowed(importer.mod, importer.origins) /\ importer.mod \in Module
    BY <1>1, <1>2, Basics, PublishedFacts DEF importer, Frame
  <2>2. f \in [mod : Module, origins : Origins]
    BY <1>2 DEF Frame
  <2>3. Resume(e, f)
    BY <1>1 DEF Resume
  <2>4. \A n \in Name : Foreign(f.origins, f.mod, n) => e[f.mod][n] = NoValue
    BY <1>4, <2>1 DEF Unshadowed
  <2>5. QED
    <3> HIDE DEF e
    <3>1. QED BY <1>2, <1>4, <2>2, <2>3, <2>4, ResumeFacts
<1>6. /\ status' \in [Module -> Slot]
      /\ status'[m] = "absent"
      /\ \A p \in Module : p # m => status'[p] = status[p]
      /\ \A p \in Module : status[p] = "loaded" => p # m /\ status'[p] = "loaded"
      /\ \A p \in Module : status'[p] = "loaded" => status[p] = "loaded"
  BY <1>1, <1>3, Basics DEF TypeOK, Slot
<1>7. /\ liveOrigins' \in [Module -> Origins]
      /\ liveOrigins'[m] = NoOrigins
      /\ \A p \in Module : p # m => liveOrigins'[p] = liveOrigins[p]
  <2>1. NoOrigins \in Origins
    BY DEF NoOrigins, Origins
  <2>2. QED BY <1>1, <1>3, <2>1, Basics DEF TypeOK
<1>8. TypeOK'
  BY <1>1, <1>2, <1>5, <1>6, <1>7, Basics DEF TypeOK
<1>9. LoadingIsOnStack'
  BY <1>1, <1>2, BodyGone DEF Slot
<1>10. RootAtBottom' /\ NothingBelowBody'
  <2>1. L - 1 \in Nat /\ L - 1 >= 1 /\ RootAtBottom /\ NothingBelowBody
    BY <1>1, Basics DEF Shape
  <2>2. frames'[1] = frames[1] /\ Root # m /\ status'[Root] = status[Root]
    BY <1>2, <1>3, <1>6, <2>1, RootAssumption
  <2>3. L = Len(frames) /\ \A j \in 1..(L - 1) : \A i \in 1..(j - 1) : i \in 1..(L - 1)
    BY <2>1
  <2> HIDE DEF m, e, L
  <2>4. RootAtBottom'
    BY <2>1, <2>2 DEF RootAtBottom
  <2>5. NothingBelowBody'
    BY <1>2, <2>1, <2>3 DEF NothingBelowBody
  <2>6. QED BY <2>4, <2>5
<1>11. AbsentIsEmpty'
  <2> SUFFICES ASSUME NEW p \in Module \ {Root}, status'[p] = "absent"
               PROVE  /\ liveOrigins'[p] = NoOrigins
                      /\ store'[p] = NoEnv
                      /\ \A i \in 1..(L - 1) : frames[i].mod = p => frames[i].origins = NoOrigins
    BY <1>2 DEF AbsentIsEmpty
  <2>1. CASE p = m
    BY <2>1, <1>3, <1>4, <1>5, <1>7
  <2>2. CASE p # m
    BY <2>2, <1>2, <1>4, <1>5, <1>6, <1>7, Basics DEF Shape, AbsentIsEmpty
  <2>3. QED BY <2>1, <2>2
<1>12. OriginsAreGood'
  <2>1. \A p \in Module, o \in Origins :
          /\ AnchoredIn(status, store, p, o) => AnchoredIn(status', store', p, o)
          /\ UnshadowedIn(store, p, o) => UnshadowedIn(store', p, o)
    BY <1>4, <1>5, <1>6, MarkAssumption DEF AnchoredIn, UnshadowedIn, Foreign, Origins
  <2>2. \A i \in 1..(L - 1) : frames[i].mod \in Module /\ frames[i].origins \in Origins
    BY <1>2, Basics DEF Frame
  <2>3. \A p \in Module : /\ UnshadowedIn(store', p, liveOrigins'[p])
                          /\ AnchoredIn(status', store', p, liveOrigins'[p])
    <3> SUFFICES ASSUME NEW p \in Module
                 PROVE  /\ UnshadowedIn(store', p, liveOrigins'[p])
                        /\ AnchoredIn(status', store', p, liveOrigins'[p])
      OBVIOUS
    <3>1. CASE p = m
      BY <3>1, <1>7 DEF UnshadowedIn, AnchoredIn, Foreign, NoOrigins
    <3>2. CASE p # m
      BY <3>2, <1>7, <2>1, Basics, OriginsNow DEF TypeOK
    <3>3. QED BY <3>1, <3>2
  <2>4. \A i \in 1..Len(frames') :
          /\ AnchoredIn(status', store', frames'[i].mod, frames'[i].origins)
          /\ UnshadowedIn(store', frames'[i].mod, frames'[i].origins)
    BY <1>2, <2>1, <2>2, OriginsNow
  <2>5. \A i \in 1..(Len(frames') - 1) : i \in 1..Len(frames')
    BY <1>2, Basics
  <2>6. QED BY <2>3, <2>4, <2>5, OriginsNext
<1>13. ExportsAreGood'
  <2>1. exports \in [Module -> Origins]
    BY Basics DEF TypeOK
  <2>2. QED BY <1>1, <1>4, <1>5, <1>6, <2>1, Basics, MarkAssumption DEF Shape, ExportsAreGood, Origins
<1>14. QED
  BY <1>1, <1>3, <1>5, <1>8, <1>9, <1>10, <1>11, <1>12, <1>13 DEF IInv

\* What a resuming frame finds in its scope, and what stays parked.
LEMMA TakenFacts ==
  ASSUME NEW st \in [Module -> Env], NEW f \in Frame, NEW n \in Name
  PROVE  /\ Own(f, n) \in Module
         /\ TakenScope(st, f.mod, f.origins)[n] =
              IF Foreign(f.origins, f.mod, n) /\ st[f.origins[n]][n] = NoValue
              THEN st[f.mod][n] ELSE st[Own(f, n)][n]
         /\ \A p \in Module : TakenEnv(st, f.mod, f.origins)[p][n] =
              IF p = f.mod \/ p = Own(f, n) THEN NoValue ELSE st[p][n]
<1>1. f.mod \in Module /\ f.origins \in Origins
  BY DEF Frame
<1>2. Own(f, n) \in Module
  BY <1>1, MarkAssumption DEF Own, Origins
<1>3. TakenScope(st, f.mod, f.origins)[n] =
        IF Foreign(f.origins, f.mod, n) /\ st[f.origins[n]][n] = NoValue
        THEN st[f.mod][n] ELSE st[Own(f, n)][n]
  BY <1>1, MarkAssumption DEF TakenScope, Foreign, Own, Origins
<1>4. \A p \in Module : TakenEnv(st, f.mod, f.origins)[p][n] =
        IF p = f.mod \/ p = Own(f, n) THEN NoValue ELSE st[p][n]
  BY <1>1, MarkAssumption DEF TakenEnv, Foreign, Own, Origins
<1>5. QED BY <1>2, <1>3, <1>4

\* Frame f, the last of the k in fs, has the origins q after an import of x.
Rebound(k, fs, f, x, q) ==
  /\ frames' \in Seq(Frame)
  /\ Len(frames') = k
  /\ \A i \in 1..(k - 1) : frames'[i] = fs[i]
  /\ frames'[k] = [mod |-> f.mod, origins |-> q, top |-> f.top]
  /\ cur' = [mod |-> f.mod, origins |-> q, top |-> f.top]
  /\ \A n \in Name : q[n] = f.origins[n] \/ q[n] = x[n]
  /\ ~f.top => q = f.origins

\* A flat import into frame f, the last of fs, when the variables are st and x
\* says where the exported names live: no value changes, every bound name is
\* forwarded, and f's own variables stay clear of forwarded ones.
LEMMA InjectInv ==
  ASSUME NEW fs \in Seq(Frame), NEW L, L = Len(fs), L > 0, NEW f, f = fs[L],
         NEW st \in [Module -> Env], NEW x \in Origins, NEW wanted \in SUBSET Name,
         UnshadowedIn(st, f.mod, f.origins),
         \A n \in Name : x[n] # NoModule => st[x[n]][n] # NoValue,
         Inject(L, fs, TakenEnv(st, f.mod, f.origins), TakenScope(st, f.mod, f.origins),
                x, wanted)
  PROVE  /\ store' = st /\ OneHome' /\ env' \in [Module -> Env] /\ scope' \in Env
         /\ \E q \in Origins : Rebound(L, fs, f, x, q) /\ UnshadowedIn(st, f.mod, q)
<1> DEFINE e == TakenEnv(st, f.mod, f.origins)
           s == TakenScope(st, f.mod, f.origins)
           new == IF f.top THEN Injected(s, x, wanted) ELSE {}
           move == {n \in new : x[n] # f.mod /\ e[x[n]][n] # NoValue}
           q == [n \in Name |-> IF n \in new THEN x[n] ELSE f.origins[n]]
<1>1. f \in Frame /\ f.mod \in Module /\ f.origins \in Origins
  <2>1. f \in Frame
    OBVIOUS
  <2>2. QED BY <2>1 DEF Frame
<1>2. q \in Origins /\ (~f.top => q = f.origins)
  BY <1>1 DEF Origins
<1>3. /\ frames' = [fs EXCEPT ![L].origins = q]
      /\ scope' = [n \in Name |-> IF n \in move THEN e[x[n]][n]
                                  ELSE IF n \in new THEN Frozen ELSE s[n]]
      /\ env' = [p \in Module |-> [n \in Name |->
                   IF n \in move /\ x[n] = p THEN NoValue ELSE e[p][n]]]
  BY DEF Inject
<1>4. /\ frames' \in Seq(Frame)
      /\ Len(frames') = L
      /\ \A i \in 1..(L - 1) : frames'[i] = fs[i]
      /\ frames'[L] = [mod |-> f.mod, origins |-> q, top |-> f.top]
      /\ cur' = [mod |-> f.mod, origins |-> q, top |-> f.top]
  <2> HIDE DEF q
  <2>1. QED BY <1>2, <1>3, LastOrigins
<1>5. \A n \in Name :
        /\ Own(f, n) \in Module
        /\ s[n] = st[Own(f, n)][n]
        /\ \A p \in Module : e[p][n] = IF p = f.mod \/ p = Own(f, n) THEN NoValue ELSE st[p][n]
        /\ Foreign(f.origins, f.mod, n) => st[f.mod][n] = NoValue
        /\ ~Foreign(f.origins, f.mod, n) => Own(f, n) = f.mod
  <2> SUFFICES ASSUME NEW n \in Name
               PROVE  /\ Own(f, n) \in Module
                      /\ s[n] = st[Own(f, n)][n]
                      /\ \A p \in Module : e[p][n] = IF p = f.mod \/ p = Own(f, n) THEN NoValue
                                                     ELSE st[p][n]
                      /\ Foreign(f.origins, f.mod, n) => st[f.mod][n] = NoValue
                      /\ ~Foreign(f.origins, f.mod, n) => Own(f, n) = f.mod
    OBVIOUS
  <2>1. Foreign(f.origins, f.mod, n) => st[f.mod][n] = NoValue
    BY DEF UnshadowedIn
  <2>2. Foreign(f.origins, f.mod, n) => Own(f, n) = f.origins[n]
    BY DEF Foreign, Own
  <2>3. ~Foreign(f.origins, f.mod, n) => Own(f, n) = f.mod
    BY DEF Foreign, Own
  <2>4. QED BY <1>1, <2>1, <2>2, <2>3, TakenFacts
<1>6. \A n \in new : /\ n \in Name /\ x[n] \in Module /\ x[n] # NoModule /\ s[n] = NoValue
                     /\ st[f.mod][n] = NoValue
                     /\ x[n] # f.mod /\ x[n] # Own(f, n)
                     /\ e[x[n]][n] = st[x[n]][n] /\ st[x[n]][n] # NoValue
  <2> SUFFICES ASSUME NEW n \in new
               PROVE  /\ n \in Name /\ x[n] \in Module /\ x[n] # NoModule /\ s[n] = NoValue
                      /\ st[f.mod][n] = NoValue
                      /\ x[n] # f.mod /\ x[n] # Own(f, n)
                      /\ e[x[n]][n] = st[x[n]][n] /\ st[x[n]][n] # NoValue
    OBVIOUS
  <2>1. n \in Name /\ x[n] # NoModule /\ s[n] = NoValue
    BY DEF Injected
  <2>2. x[n] \in Module /\ st[x[n]][n] # NoValue
    BY <2>1 DEF Origins
  <2>3. st[f.mod][n] = NoValue
    BY <1>5, <2>1
  <2>4. x[n] # f.mod /\ x[n] # Own(f, n)
    BY <1>5, <2>1, <2>2, <2>3
  <2>5. e[x[n]][n] = st[x[n]][n]
    BY <1>5, <2>1, <2>2, <2>4
  <2>6. QED BY <2>1, <2>2, <2>3, <2>4, <2>5
<1>7. move = new
  <2>1. \A n \in new : x[n] # f.mod /\ e[x[n]][n] # NoValue
    BY <1>6
  <2>2. QED
    <3> HIDE DEF new, e
    <3>1. QED BY <2>1
<1>8. \A n \in Name :
        /\ Owner(n)' = IF n \in new THEN x[n] ELSE Own(f, n)
        /\ Owner(n)' \in Module
        /\ scope'[n] = st[Owner(n)'][n]
        /\ \A p \in Module : env'[p][n] = IF p = f.mod \/ p = Owner(n)' THEN NoValue ELSE st[p][n]
  <2> SUFFICES ASSUME NEW n \in Name
               PROVE  /\ Owner(n)' = IF n \in new THEN x[n] ELSE Own(f, n)
                      /\ Owner(n)' \in Module
                      /\ scope'[n] = st[Owner(n)'][n]
                      /\ \A p \in Module :
                           env'[p][n] = IF p = f.mod \/ p = Owner(n)' THEN NoValue ELSE st[p][n]
    OBVIOUS
  <2>1. q[n] = IF n \in new THEN x[n] ELSE f.origins[n]
    OBVIOUS
  <2>2. Owner(n)' = IF q[n] = NoModule THEN f.mod ELSE q[n]
    BY <1>4 DEF Owner
  <2>3. Owner(n)' = IF n \in new THEN x[n] ELSE Own(f, n)
    BY <1>6, <2>1, <2>2 DEF Own
  <2>4. /\ scope'[n] = IF n \in new THEN e[x[n]][n] ELSE s[n]
        /\ \A p \in Module : env'[p][n] = IF n \in new /\ x[n] = p THEN NoValue ELSE e[p][n]
    BY <1>3, <1>7
  <2>5. CASE n \in new
    <3> HIDE DEF e, s, new
    <3>1. QED BY <1>5, <1>6, <2>3, <2>4, <2>5
  <2>6. CASE n \notin new
    <3> HIDE DEF e, s, new
    <3>1. QED BY <1>5, <2>3, <2>4, <2>6
  <2>7. QED BY <2>5, <2>6
<1> HIDE DEF e, s, new, move, q
<1>9. store' = st
  <2>1. \A p \in Module, n \in Name : store'[p][n] = st[p][n]
    <3> SUFFICES ASSUME NEW p \in Module, NEW n \in Name PROVE store'[p][n] = st[p][n]
      OBVIOUS
    <3>1. store'[p][n] = IF Owner(n)' = p THEN scope'[n] ELSE env'[p][n]
      BY DEF store
    <3>2. CASE Owner(n)' = p \/ p # f.mod
      BY <3>1, <3>2, <1>8
    <3>3. CASE Owner(n)' # p /\ p = f.mod
      <4>1. store'[p][n] = NoValue
        BY <3>1, <3>3, <1>8
      <4>2. st[p][n] = NoValue
        BY <3>3, <1>5, <1>6, <1>8
      <4>3. QED BY <4>1, <4>2
    <3>4. QED BY <3>2, <3>3
  <2>2. store' = [p \in Module |-> [n \in Name |-> store'[p][n]]]
    BY DEF store
  <2>3. st = [p \in Module |-> [n \in Name |-> st[p][n]]]
    BY DEF Env
  <2>4. QED BY <2>1, <2>2, <2>3
<1>10. OneHome'
  BY <1>1, <1>4, <1>8 DEF OneHome
<1>11. scope' \in Env
  <2>1. scope' = [n \in Name |-> scope'[n]]
    BY <1>3
  <2>2. \A n \in Name : scope'[n] \in Value \cup {NoValue}
    BY <1>8 DEF Env
  <2>3. QED BY <2>1, <2>2 DEF Env
<1>12. env' \in [Module -> Env]
  <2>1. env' = [p \in Module |-> [n \in Name |-> env'[p][n]]]
    BY <1>3
  <2>2. \A p \in Module, n \in Name : env'[p][n] \in Value \cup {NoValue}
    BY <1>8 DEF Env
  <2>3. QED BY <2>1, <2>2 DEF Env
<1>13. /\ UnshadowedIn(st, f.mod, q)
       /\ \A n \in Name : q[n] = f.origins[n] \/ q[n] = x[n]
  <2>1. \A n \in Name : q[n] = IF n \in new THEN x[n] ELSE f.origins[n]
    BY DEF q
  <2>2. QED BY <1>5, <1>6, <2>1 DEF UnshadowedIn, Foreign
<1>14. Rebound(L, fs, f, x, q)
  BY <1>2, <1>4, <1>13 DEF Rebound
<1>15. QED
  BY <1>2, <1>9, <1>10, <1>11, <1>12, <1>13, <1>14

\* A frame of a module that is not in the cache runs a function, with no origins.
LEMMA AbsentFrames ==
  ASSUME IInv, NEW p \in Module \ {Root}, status[p] = "absent", NEW i \in 1..Len(frames),
         frames[i].mod = p
  PROVE  ~frames[i].top /\ frames[i].origins = NoOrigins
<1>1. frames[i].origins = NoOrigins
  BY Basics DEF Shape, AbsentIsEmpty
<1>2. ~frames[i].top
  BY Basics DEF Shape, LoadingIsOnStack
<1>3. QED BY <1>1, <1>2

\* A flat import of a loaded module moves values only.
LEMMA ImportLoadedInv ==
  ASSUME IInv, NEW m \in Module, NEW wanted \in SUBSET Name, ImportLoaded(m, wanted)
  PROVE  IInv' /\ UNCHANGED <<store, status>>
<1> DEFINE L == Len(frames)
           x == exports[m]
<1>1. /\ status[m] = "loaded"
      /\ Inject(L, frames, TakenEnv(store, cur.mod, cur.origins),
                TakenScope(store, cur.mod, cur.origins), x, wanted)
      /\ liveOrigins' = Published
      /\ UNCHANGED <<status, exports, shared>>
  BY Basics DEF ImportLoaded
<1>2. frames \in Seq(Frame) /\ L \in Nat /\ L > 0 /\ frames[L] = cur /\ L \in 1..L
  BY Basics DEF TypeOK, cur
<1>3. /\ x \in Origins
      /\ \A n \in Name : x[n] # NoModule =>
           status[x[n]] = "loaded" /\ store[x[n]][n] # NoValue
  BY <1>1, Basics DEF TypeOK, Shape, ExportsAreGood
<1>4. UnshadowedIn(store, cur.mod, cur.origins)
  BY <1>2, OriginsNow
<1>5. /\ store' = store /\ OneHome' /\ env' \in [Module -> Env] /\ scope' \in Env
      /\ \E q \in Origins : Rebound(L, frames, cur, x, q) /\ UnshadowedIn(store, cur.mod, q)
  <2>1. /\ frames \in Seq(Frame) /\ L = Len(frames) /\ L > 0 /\ cur = frames[L]
        /\ store \in [Module -> Env] /\ x \in Origins
        /\ UnshadowedIn(store, cur.mod, cur.origins)
        /\ \A n \in Name : x[n] # NoModule => store[x[n]][n] # NoValue
        /\ Inject(L, frames, TakenEnv(store, cur.mod, cur.origins),
                  TakenScope(store, cur.mod, cur.origins), x, wanted)
    BY <1>1, <1>2, <1>3, <1>4, Basics
  <2> HIDE DEF x, L
  <2>2. QED BY <2>1, InjectInv
<1>6. PICK q \in Origins : Rebound(L, frames, cur, x, q) /\ UnshadowedIn(store, cur.mod, q)
  BY <1>5
<1>7. /\ frames' \in Seq(Frame)
      /\ Len(frames') = L
      /\ \A i \in 1..(L - 1) : frames'[i] = frames[i]
      /\ frames'[L] = [mod |-> cur.mod, origins |-> q, top |-> cur.top]
      /\ cur' = frames'[L]
      /\ \A n \in Name : q[n] = cur.origins[n] \/ q[n] = x[n]
      /\ ~cur.top => q = cur.origins
  BY <1>6 DEF Rebound
<1>8. \A i \in 1..L : i = L \/ i \in 1..(L - 1)
  BY <1>2
<1>9. \A i \in 1..L : /\ frames'[i].mod = frames[i].mod /\ frames'[i].top = frames[i].top
  <2>1. frames'[L].mod = frames[L].mod /\ frames'[L].top = frames[L].top
    BY <1>2, <1>7
  <2>2. QED BY <1>7, <1>8, <2>1
<1>10. TypeOK'
  BY <1>1, <1>2, <1>5, <1>6, <1>7, Basics, PublishedFacts DEF TypeOK
<1>11. LoadingIsOnStack' /\ RootAtBottom'
  <2>1. LoadingIsOnStack /\ RootAtBottom /\ 1 \in 1..L
    BY <1>2, Basics DEF Shape
  <2>2. Len(frames') = L /\ L = Len(frames) /\ status' = status
    BY <1>1, <1>7
  <2> HIDE DEF x, L
  <2>3. LoadingIsOnStack'
    BY <1>9, <2>1, <2>2 DEF LoadingIsOnStack
  <2>4. RootAtBottom'
    BY <1>9, <2>1, <2>2 DEF RootAtBottom
  <2>5. QED BY <2>3, <2>4
<1>12. NothingBelowBody'
  <2> SUFFICES ASSUME NEW j \in 1..L, frames[j].top,
                      NEW i \in 1..(j - 1), frames[i].mod = frames[j].mod
               PROVE  frames'[i].origins = NoOrigins
    BY <1>2, <1>5, <1>6, <1>7, <1>9, <1>8 DEF NothingBelowBody
  <2>1. i \in 1..(L - 1)
    BY <1>2
  <2>2. frames[i].origins = NoOrigins
    BY Basics DEF Shape, NothingBelowBody
  <2>3. QED BY <1>5, <1>6, <1>7, <2>1, <2>2
<1>13. AbsentIsEmpty'
  <2> SUFFICES ASSUME NEW p \in Module \ {Root}, status[p] = "absent"
               PROVE  /\ liveOrigins'[p] = NoOrigins
                      /\ store'[p] = NoEnv
                      /\ \A i \in 1..L : frames'[i].mod = p => frames'[i].origins = NoOrigins
    BY <1>1, <1>5, <1>6, <1>7 DEF AbsentIsEmpty
  <2>1. liveOrigins'[p] = NoOrigins /\ store'[p] = NoEnv
    BY <1>1, <1>5, <1>6, <1>7, Basics, PublishedFacts DEF Shape, AbsentIsEmpty
  <2>2. ASSUME NEW i \in 1..L, frames'[i].mod = p
        PROVE  frames'[i].origins = NoOrigins
    <3>1. ~frames[i].top /\ frames[i].origins = NoOrigins
      BY <1>9, <1>8, <2>2, AbsentFrames
    <3>2. frames'[i].origins = frames[i].origins
      BY <1>2, <1>5, <1>6, <1>7, <1>9, <1>8, <3>1
    <3>3. QED BY <3>1, <3>2
  <2>3. QED BY <2>1, <2>2
<1>14. OriginsAreGood'
  <2>1. AnchoredIn(status, store, cur.mod, cur.origins)
    BY <1>2, OriginsNow
  <2>2. AnchoredIn(status, store, cur.mod, q)
    BY <1>3, <1>5, <1>6, <1>7, <2>1 DEF AnchoredIn, Foreign
  <2>3. \A i \in 1..L : AnchoredIn(status, store, frames'[i].mod, frames'[i].origins)
    BY <1>2, <1>5, <1>6, <1>7, <1>9, <1>8, <2>2, OriginsNow
  <2>4. \A i \in 1..(L - 1) : i \in 1..L
    BY <1>2
  <2>5. QED BY <1>1, <1>5, <1>6, <1>7, <2>3, <2>4, OriginsNow, OriginsNext
<1>15. ExportsAreGood'
  BY <1>1, <1>5, <1>6, <1>7, Basics DEF Shape, ExportsAreGood
<1>16. QED
  BY <1>1, <1>5, <1>6, <1>7, <1>10, <1>11, <1>12, <1>13, <1>14, <1>15 DEF IInv

\* A finished body commits its variables; what the import forwards moves only.
LEMMA FinishLoadInv ==
  ASSUME IInv, NEW public \in SUBSET Name, NEW wanted \in SUBSET Name,
         FinishLoad(public, wanted)
  PROVE  /\ IInv'
         /\ cur.mod \in Module \ {Root} /\ status[cur.mod] = "loading"
         /\ store' = store
         /\ status' = [status EXCEPT ![cur.mod] = "loaded"]
<1> DEFINE m == cur.mod
           L == Len(frames)
           x == Surface(public)
<1>1. /\ cur.top
      /\ L > 1
      /\ Inject(L - 1, Pop, TakenEnv(store, importer.mod, importer.origins),
                TakenScope(store, importer.mod, importer.origins), x, wanted)
      /\ liveOrigins' = Published
      /\ status' = [status EXCEPT ![m] = "loaded"]
      /\ exports' = [exports EXCEPT ![m] = x]
      /\ shared' = shared \cup {m}
  BY Basics DEF FinishLoad
<1>2. /\ Pop \in Seq(Frame)
      /\ Len(Pop) = L - 1
      /\ Len(Pop) > 0
      /\ Pop[L - 1] = importer
      /\ importer = frames[L - 1]
      /\ L - 1 \in 1..(L - 1)
      /\ \A i \in 1..(L - 1) : i \in 1..L /\ Pop[i] = frames[i]
  BY <1>1, Basics DEF Pop, TypeOK, importer
<1>3. /\ m \in Module \ {Root}
      /\ status[m] = "loading"
      /\ \A i \in 1..(L - 1) : /\ frames[i].top => frames[i].mod # m
                               /\ frames[i].mod = m => frames[i].origins = NoOrigins
  BY <1>1, RunningBody
<1>4. /\ status' \in [Module -> Slot]
      /\ status'[m] = "loaded"
      /\ \A p \in Module : p # m => status'[p] = status[p]
      /\ \A p \in Module : status[p] = "loaded" => status'[p] = "loaded"
  BY <1>1, <1>3, Basics DEF TypeOK, Slot
<1>5. /\ x \in Origins
      /\ \A n \in Name : x[n] # NoModule =>
           status'[x[n]] = "loaded" /\ store[x[n]][n] # NoValue
  <2>1. cur.origins \in Origins
    BY Basics DEF Frame
  <2>2. x \in Origins
    BY <2>1 DEF Surface, Origins
  <2>3. ASSUME NEW n \in Name, x[n] # NoModule
        PROVE  status'[x[n]] = "loaded" /\ store[x[n]][n] # NoValue
    <3>1. x[n] = cur.origins[n] /\ scope[n] # NoValue
      BY <2>3 DEF Surface
    <3>2. store[x[n]][n] = scope[n]
      BY <2>3, <3>1, Basics DEF Owner
    <3>3. CASE x[n] = m
      BY <1>4, <3>1, <3>2, <3>3
    <3>4. CASE x[n] # m
      <4>1. status[x[n]] = "loaded" /\ x[n] \in Module
        BY <2>1, <2>3, <3>1, <3>4, Basics DEF Anchored, Foreign, Origins
      <4>2. QED BY <1>4, <3>1, <3>2, <4>1
    <3>5. QED BY <3>3, <3>4
  <2>4. QED BY <2>2, <2>3
<1>6. UnshadowedIn(store, importer.mod, importer.origins)
  BY <1>2, OriginsNow
<1>7. /\ store' = store /\ OneHome' /\ env' \in [Module -> Env] /\ scope' \in Env
      /\ \E q \in Origins : Rebound(L - 1, Pop, importer, x, q) /\ UnshadowedIn(store, importer.mod, q)
  <2> DEFINE k == L - 1
  <2>1. /\ k = Len(Pop) /\ k > 0 /\ importer = Pop[k]
        /\ Pop \in Seq(Frame) /\ store \in [Module -> Env] /\ x \in Origins
        /\ UnshadowedIn(store, importer.mod, importer.origins)
        /\ \A n \in Name : x[n] # NoModule => store[x[n]][n] # NoValue
        /\ Inject(k, Pop, TakenEnv(store, importer.mod, importer.origins),
                  TakenScope(store, importer.mod, importer.origins), x, wanted)
    BY <1>1, <1>2, <1>5, <1>6, Basics
  <2> HIDE DEF x, k
  <2>2. /\ store' = store /\ OneHome' /\ env' \in [Module -> Env] /\ scope' \in Env
        /\ \E q \in Origins : Rebound(k, Pop, importer, x, q) /\ UnshadowedIn(store, importer.mod, q)
    BY <2>1, InjectInv
  <2>3. QED BY <2>2 DEF k
<1>8. PICK q \in Origins : Rebound(L - 1, Pop, importer, x, q) /\ UnshadowedIn(store, importer.mod, q)
  BY <1>7
<1>9. /\ frames' \in Seq(Frame)
      /\ Len(frames') = L - 1
      /\ \A i \in 1..(L - 1 - 1) : frames'[i] = Pop[i]
      /\ frames'[L - 1] = [mod |-> importer.mod, origins |-> q, top |-> importer.top]
      /\ cur' = frames'[L - 1]
      /\ \A n \in Name : q[n] = importer.origins[n] \/ q[n] = x[n]
      /\ ~importer.top => q = importer.origins
  BY <1>8 DEF Rebound
<1>10. \A i \in 1..(L - 1) : /\ i \in 1..L
                            /\ (i = L - 1 \/ frames'[i] = frames[i])
                            /\ frames'[i].mod = frames[i].mod /\ frames'[i].top = frames[i].top
  <2>1. frames'[L - 1].mod = frames[L - 1].mod /\ frames'[L - 1].top = frames[L - 1].top
    BY <1>2, <1>7, <1>8, <1>9
  <2>2. \A i \in 1..(L - 1) : i = L - 1 \/ i \in 1..(L - 1 - 1)
    BY <1>1, Basics
  <2>3. QED BY <1>2, <1>7, <1>8, <1>9, <2>1, <2>2
<1>11. exports' \in [Module -> Origins] /\ exports'[m] = x /\ \A p \in Module : p # m => exports'[p] = exports[p]
  BY <1>1, <1>3, <1>5, Basics DEF TypeOK
<1>12. TypeOK'
  BY <1>1, <1>3, <1>4, <1>7, <1>8, <1>9, <1>11, Basics, PublishedFacts DEF TypeOK
<1>13. LoadingIsOnStack'
  BY <1>1, <1>7, <1>8, <1>9, <1>10, BodyGone DEF Slot
<1>14. RootAtBottom'
  <2>1. 1 \in 1..(L - 1)
    BY <1>1, Basics
  <2>2. frames'[1].top /\ frames'[1].mod = Root
    BY <2>1, <1>10, Basics DEF Shape, RootAtBottom
  <2>3. status'[Root] = "absent"
    BY <1>3, <1>4, RootAssumption, Basics DEF Shape, RootAtBottom
  <2>4. QED BY <2>2, <2>3 DEF RootAtBottom
<1>15. NothingBelowBody'
  <2> SUFFICES ASSUME NEW j \in 1..Len(frames'), frames'[j].top,
                      NEW i \in 1..(j - 1), frames'[i].mod = frames'[j].mod
               PROVE  frames'[i].origins = NoOrigins
    BY DEF NothingBelowBody
  <2>1. j \in 1..(L - 1) /\ i \in 1..(L - 1) /\ i # L - 1
    BY <1>1, <1>9, Basics
  <2>2. frames[j].top /\ frames[i].mod = frames[j].mod /\ frames'[i] = frames[i]
    BY <1>10, <2>1
  <2>3. frames[i].origins = NoOrigins
    BY <1>10, <2>1, <2>2, Basics DEF Shape, NothingBelowBody
  <2>4. QED BY <2>2, <2>3
<1>16. AbsentIsEmpty'
  <2> SUFFICES ASSUME NEW p \in Module \ {Root}, status'[p] = "absent"
               PROVE  /\ liveOrigins'[p] = NoOrigins
                      /\ store'[p] = NoEnv
                      /\ \A i \in 1..(L - 1) : frames'[i].mod = p => frames'[i].origins = NoOrigins
    BY <1>7, <1>8, <1>9 DEF AbsentIsEmpty
  <2>1. status[p] = "absent"
    BY <1>4
  <2>2. liveOrigins'[p] = NoOrigins /\ store'[p] = NoEnv
    BY <1>1, <1>7, <1>8, <1>9, <2>1, Basics, PublishedFacts DEF Shape, AbsentIsEmpty
  <2>3. ASSUME NEW i \in 1..(L - 1), frames'[i].mod = p
        PROVE  frames'[i].origins = NoOrigins
    <3>1. ~frames[i].top /\ frames[i].origins = NoOrigins
      BY <1>10, <2>1, <2>3, AbsentFrames
    <3>2. frames'[i].origins = frames[i].origins
      <4>1. CASE i = L - 1
        BY <4>1, <1>2, <1>9, <3>1
      <4>2. CASE i # L - 1
        BY <4>2, <1>10
      <4>3. QED BY <4>1, <4>2
    <3>3. QED BY <3>1, <3>2
  <2>4. QED BY <2>2, <2>3
<1>17. \A p \in Module, o \in Origins :
         AnchoredIn(status, store, p, o) => AnchoredIn(status', store', p, o)
  BY <1>4, <1>7, <1>8, <1>9, MarkAssumption DEF AnchoredIn, Foreign, Origins
<1>18. OriginsAreGood'
  <2>1. \A i \in 1..L : frames[i].mod \in Module /\ frames[i].origins \in Origins
    BY Basics DEF Frame
  <2>2. AnchoredIn(status', store', importer.mod, importer.origins)
    BY <1>2, <1>17, <2>1, OriginsNow
  <2>3. AnchoredIn(status', store', importer.mod, q)
    BY <1>5, <1>7, <1>8, <1>9, <2>2 DEF AnchoredIn, Foreign
  <2>4. \A i \in 1..(L - 1) : AnchoredIn(status', store', frames'[i].mod, frames'[i].origins)
    BY <1>2, <1>7, <1>8, <1>9, <1>10, <1>17, <2>1, <2>3, OriginsNow
  <2>5. \A i \in 1..(L - 1 - 1) : i \in 1..L /\ frames'[i] = frames[i]
    BY <1>1, <1>10, Basics
  <2>6. \A p \in Module : /\ UnshadowedIn(store', p, liveOrigins'[p])
                          /\ AnchoredIn(status', store', p, liveOrigins'[p])
    BY <1>1, <1>7, <1>8, <1>9, <1>17, OriginsNow, PublishedFacts
  <2>7. QED BY <1>7, <1>8, <1>9, <2>4, <2>5, <2>6, OriginsNow, OriginsNext
<1>19. ExportsAreGood'
  <2> SUFFICES ASSUME NEW p \in Module, NEW n \in Name,
                      status'[p] = "loaded", exports'[p][n] # NoModule
               PROVE  /\ status'[exports'[p][n]] = "loaded"
                      /\ store'[exports'[p][n]][n] # NoValue
    BY DEF ExportsAreGood
  <2>1. CASE p = m
    BY <2>1, <1>5, <1>7, <1>8, <1>9, <1>11
  <2>2. CASE p # m
    <3>1. /\ exports[p][n] \in Module
          /\ status[exports[p][n]] = "loaded"
          /\ store[exports[p][n]][n] # NoValue
      BY <2>2, <1>4, <1>11, Basics DEF Shape, ExportsAreGood, TypeOK, Origins
    <3>2. QED BY <2>2, <3>1, <1>4, <1>7, <1>8, <1>9, <1>11
  <2>3. QED BY <2>1, <2>2
<1>20. QED
  BY <1>1, <1>3, <1>7, <1>8, <1>9, <1>12, <1>13, <1>14, <1>15, <1>16, <1>18, <1>19 DEF IInv

\* The initial state.
LEMMA InitInv == Init => IInv
<1> SUFFICES ASSUME Init PROVE IInv
  OBVIOUS
<1> DEFINE g == [mod |-> Root, origins |-> NoOrigins, top |-> TRUE]
<1>1. NoEnv \in Env /\ NoOrigins \in Origins
  BY DEF NoEnv, Env, NoOrigins, Origins
<1>2. /\ frames = <<g>>
      /\ g \in Frame
      /\ env = [m \in Module |-> NoEnv]
      /\ liveOrigins = [m \in Module |-> NoOrigins]
      /\ scope = NoEnv
      /\ status = [m \in Module |-> "absent"]
      /\ exports = [m \in Module |-> NoOrigins]
      /\ shared = {}
  BY <1>1, RootAssumption DEF Init, Frame
<1>3. frames \in Seq(Frame) /\ Len(frames) = 1 /\ frames[1] = g /\ cur = g
  <2> HIDE DEF g
  <2>1. QED BY <1>2 DEF cur
<1>4. TypeOK
  BY <1>1, <1>2, <1>3 DEF TypeOK, Slot
<1>5. \A p \in Module : store[p] = NoEnv
  BY <1>2 DEF store, NoEnv
<1>6. OneHome
  BY <1>2, <1>3, RootAssumption DEF OneHome, Owner, NoEnv, NoOrigins
<1>7. LoadingIsOnStack /\ RootAtBottom /\ NothingBelowBody
  BY <1>2, <1>3, RootAssumption DEF LoadingIsOnStack, RootAtBottom, NothingBelowBody
<1>8. AbsentIsEmpty
  BY <1>2, <1>3, <1>5 DEF AbsentIsEmpty
<1>9. OriginsAreGood
  <2>1. \A p \in Module : Unshadowed(p, NoOrigins) /\ Anchored(p, NoOrigins)
    BY DEF Unshadowed, Anchored, Foreign, NoOrigins
  <2>2. \A i \in 1..Len(frames) : frames[i].mod = Root /\ frames[i].origins = NoOrigins
    BY <1>3
  <2>3. \A i \in 1..(Len(frames) - 1) : i \in 1..Len(frames)
    BY <1>3
  <2>4. QED BY <1>2, <2>1, <2>2, <2>3, RootAssumption DEF OriginsAreGood
<1>10. ExportsAreGood
  BY <1>2 DEF ExportsAreGood, NoOrigins
<1>11. QED
  BY <1>4, <1>6, <1>7, <1>8, <1>9, <1>10 DEF IInv

\* What a step may do to the variables of the abstract store.
StoreKept == UNCHANGED <<store, status>>
StoreWritten ==
  \E m \in Module, n \in Name, v \in Value :
    /\ status[m] # "loaded" \/ store[m][n] # NoValue
    /\ store' = [store EXCEPT ![m][n] = v]
    /\ UNCHANGED status
StoreMoved ==
  \E m \in Module \ {Root} :
    /\ status[m] \in {"absent", "loading"}
    /\ \/ store' = store /\ status' = [status EXCEPT ![m] = "loading"]
       \/ store' = store /\ status' = [status EXCEPT ![m] = "loaded"]
       \/ store' = [store EXCEPT ![m] = NoEnv] /\ status' = [status EXCEPT ![m] = "absent"]
StoreStep == StoreKept \/ StoreWritten \/ StoreMoved

\* Every step.
LEMMA StepInv ==
  ASSUME IInv, [Next]_vars
  PROVE  IInv' /\ StoreStep
<1>1. CASE UNCHANGED vars
  <2>1. UNCHANGED <<env, liveOrigins, scope, frames, status, exports, shared>>
    BY <1>1 DEF vars
  <2>2. store' = store /\ cur' = cur
    BY <2>1 DEF store, Owner, cur
  <2>3. TypeOK' /\ OneHome' /\ LoadingIsOnStack' /\ RootAtBottom' /\ NothingBelowBody'
    BY <2>1, Basics DEF TypeOK, OneHome, Owner, cur, Shape, LoadingIsOnStack, RootAtBottom,
                        NothingBelowBody
  <2>4. AbsentIsEmpty' /\ ExportsAreGood'
    BY <2>1, <2>2, Basics DEF Shape, AbsentIsEmpty, ExportsAreGood
  <2>5. OriginsAreGood'
    BY <2>1, <2>2, Basics DEF Shape, OriginsAreGood, Unshadowed, Anchored
  <2>6. QED BY <2>1, <2>2, <2>3, <2>4, <2>5 DEF IInv, StoreStep, StoreKept
<1>2. ASSUME NEW n \in Name, NEW v \in Value, Let(n, v)
      PROVE  IInv' /\ StoreWritten
  BY <1>2, LetInv DEF StoreWritten
<1>3. ASSUME NEW n \in Name, NEW v \in Value, Assign(n, v)
      PROVE  IInv' /\ StoreWritten
  BY <1>3, AssignInv DEF StoreWritten
<1>4. ASSUME NEW m \in Module, Call(m)
      PROVE  IInv' /\ StoreKept
  BY <1>4, CallInv DEF StoreKept
<1>5. ASSUME NEW m \in Module, BeginLoad(m)
      PROVE  IInv' /\ StoreMoved
  BY <1>5, BeginLoadInv DEF StoreMoved
<1>6. ASSUME NEW m \in Module, NEW wanted \in SUBSET Name, ImportLoaded(m, wanted)
      PROVE  IInv' /\ StoreKept
  BY <1>6, ImportLoadedInv DEF StoreKept
<1>7. ASSUME NEW public \in SUBSET Name, NEW wanted \in SUBSET Name, FinishLoad(public, wanted)
      PROVE  IInv' /\ StoreMoved
  BY <1>7, FinishLoadInv DEF StoreMoved
<1>8. CASE FinishCall
  BY <1>8, FinishCallInv DEF StoreStep, StoreKept
<1>9. CASE RefusedImport
  BY <1>9, RefusedImportInv DEF StoreStep, StoreKept
<1>10. CASE FailLoad
  BY <1>10, FailLoadInv DEF StoreStep, StoreMoved
<1>11. QED
  BY <1>1, <1>2, <1>3, <1>4, <1>5, <1>6, <1>7, <1>8, <1>9, <1>10 DEF Next, StoreStep

\* The inductive invariant holds in every reachable state.
THEOREM Invariance == Spec => []IInv
<1>1. Init => IInv
  BY InitInv
<1>2. IInv /\ [Next]_vars => IInv'
  BY StepInv
<1>3. QED BY <1>1, <1>2, PTL DEF Spec

\* Types are kept, and no snapshot of a load (Frozen) ever gets into a variable.
THEOREM TypesAreKept == Spec => []TypeOK
<1>1. IInv => TypeOK
  BY DEF IInv
<1>2. QED BY <1>1, Invariance, PTL

\* A variable is never in two places at a time, for any number of modules, names
\* and nested activations.
THEOREM OneHomeAlways == Spec => []OneHome
<1>1. IInv => OneHome
  BY DEF IInv
<1>2. QED BY <1>1, Invariance, PTL

\* The cache's Loading markers are exactly the bodies on the stack.
THEOREM MarkersAreExact == Spec => []LoadingIsOnStack
<1>1. IInv => LoadingIsOnStack
  BY DEF IInv
<1>2. QED BY <1>1, Invariance, PTL

\* Where code forwards a name, the name is there.
LEMMA ForwardedIsVisible ==
  ASSUME IInv
  PROVE  ForwardedVisible
BY Basics DEF ForwardedVisible, Foreign, Owner, Anchored

\* A forwarded name is never lost while code that forwards it runs.
THEOREM ForwardedAlwaysVisible == Spec => []ForwardedVisible
<1>1. IInv => ForwardedVisible
  BY ForwardedIsVisible
<1>2. QED BY <1>1, Invariance, PTL

\* A step that does no more is a step of the abstract store, or leaves it alone.
LEMMA StoreStepImplements ==
  ASSUME IInv, StoreStep
  PROVE  [Store!Next]_(Store!vars)
<1> DEFINE C == {m \in Module : status[m] = "loaded"}
<1>1. status \in [Module -> Slot] /\ status[Root] = "absent"
  BY Basics DEF TypeOK, Shape, RootAtBottom
<1>2. CASE UNCHANGED <<store, status>>
  BY <1>2 DEF Store!vars
<1>3. ASSUME NEW m \in Module, NEW n \in Name, NEW v \in Value,
             status[m] # "loaded" \/ store[m][n] # NoValue,
             store' = [store EXCEPT ![m][n] = v], UNCHANGED status
      PROVE  Store!Next
  <2>1. m \notin C \/ store[m][n] # NoValue
    BY <1>3
  <2>2. UNCHANGED C
    BY <1>3
  <2>3. Store!Declare(m, n, v) \/ Store!Write(m, n, v)
    BY <1>3, <2>1, <2>2 DEF Store!Declare, Store!Write
  <2>4. QED BY <2>3 DEF Store!Next
<1>4. ASSUME NEW m \in Module \ {Root}, status[m] \in {"absent", "loading"}
      PROVE  m \in Module \ ({Root} \cup C)
  BY <1>4
<1>5. ASSUME NEW m \in Module \ {Root}, status[m] \in {"absent", "loading"},
             store' = store, status' = [status EXCEPT ![m] = "loading"]
      PROVE  UNCHANGED Store!vars
  <2>1. C' = C
    BY <1>1, <1>5
  <2>2. QED BY <1>5, <2>1 DEF Store!vars
<1>6. ASSUME NEW m \in Module \ {Root}, status[m] \in {"absent", "loading"},
             store' = store, status' = [status EXCEPT ![m] = "loaded"]
      PROVE  Store!Next
  <2>1. C' = C \cup {m}
    BY <1>1, <1>6
  <2>2. Store!Commit(m)
    BY <1>4, <1>6, <2>1 DEF Store!Commit
  <2>3. QED BY <2>2 DEF Store!Next
<1>7. ASSUME NEW m \in Module \ {Root}, status[m] \in {"absent", "loading"},
             store' = [store EXCEPT ![m] = NoEnv], status' = [status EXCEPT ![m] = "absent"]
      PROVE  Store!Next
  <2>1. C' = C
    BY <1>1, <1>7
  <2>2. Store!Discard(m)
    BY <1>4, <1>7, <2>1 DEF Store!Discard, Store!Undeclared, NoEnv
  <2>3. QED BY <2>2 DEF Store!Next
<1>8. QED
  BY <1>2, <1>3, <1>5, <1>6, <1>7 DEF StoreStep, StoreKept, StoreWritten, StoreMoved

\* Nothing is declared or committed at first.
LEMMA StoreInit ==
  ASSUME Init
  PROVE  Store!Init
<1>1. store = [m \in Module |-> Store!Undeclared]
  BY DEF Init, store, NoEnv, Store!Undeclared
<1>2. {m \in Module : status[m] = "loaded"} = {}
  BY DEF Init
<1>3. QED BY <1>1, <1>2 DEF Store!Init

\* The environment moves implement one store of module variables: a step of the
\* evaluator is a declaration, an assignment, a commit or a discard of that
\* store, or leaves it alone.
THEOREM ImplementsStore == Spec => StoreSpec
<1>1. Init => Store!Init
  BY StoreInit
<1>2. IInv /\ [Next]_vars => [Store!Next]_(Store!vars)
  BY StepInv, StoreStepImplements
<1>3. QED BY <1>1, <1>2, Invariance, PTL DEF Spec, StoreSpec, Store!Spec

-------------------------------------------------------------------------------
(* ReadsAreLive needs, beside IInv, that exports and forwarding agree.         *)

\* What is published for module p comes from the frames of p.
LEMMA PublishedFrom ==
  ASSUME IInv, NEW p \in Module
  PROVE  \/ Published[p] = liveOrigins[p]
         \/ \E i \in 1..Len(frames) : frames[i].mod = p /\ Published[p] = frames[i].origins
<1>1. CASE p = cur.mod
  BY <1>1, Basics, PublishedFacts DEF cur
<1>2. CASE p # cur.mod
  BY <1>2, Basics DEF Published, TypeOK
<1>3. QED BY <1>1, <1>2

\* Steps that change no origins of a module that is loaded.
LEMMA AgreeStep ==
  ASSUME IInv, ExportsAgree,
         \A p \in Module : status'[p] = "loaded" =>
           \/ Agrees(p)'
           \/ /\ status[p] = "loaded"
              /\ exports'[p] = exports[p]
              /\ \A k \in Name : store[p][k] = NoValue => store'[p][k] = NoValue
              /\ \/ liveOrigins'[p] = liveOrigins[p]
                 \/ \E i \in 1..Len(frames) :
                      frames[i].mod = p /\ liveOrigins'[p] = frames[i].origins
              /\ \A i \in 1..Len(frames') : frames'[i].mod = p =>
                   \/ frames'[i].origins \in {liveOrigins[p], NoOrigins}
                   \/ \E j \in 1..Len(frames) :
                        frames[j].mod = p /\ frames'[i].origins = frames[j].origins
  PROVE  ExportsAgree'
<1> SUFFICES ASSUME NEW p \in Module, status'[p] = "loaded", ~Agrees(p)'
             PROVE  Agrees(p)'
  BY DEF ExportsAgree
<1>1. /\ status[p] = "loaded" /\ exports'[p] = exports[p]
      /\ \A k \in Name : store[p][k] = NoValue => store'[p][k] = NoValue
  OBVIOUS
<1>2. \A n \in Name : Foreign(exports[p], p, n) =>
        /\ store[p][n] = NoValue
        /\ liveOrigins[p][n] \in {NoModule, p, exports[p][n]}
        /\ \A i \in 1..Len(frames) :
             frames[i].mod = p => frames[i].origins[n] \in {NoModule, p, exports[p][n]}
  BY <1>1 DEF ExportsAgree, Agrees
<1>3. \A n \in Name : NoOrigins[n] = NoModule
  BY DEF NoOrigins
<1>4. \A n \in Name : Foreign(exports'[p], p, n) =>
        /\ store'[p][n] = NoValue
        /\ liveOrigins'[p][n] \in {NoModule, p, exports'[p][n]}
        /\ \A i \in 1..Len(frames') :
             frames'[i].mod = p => frames'[i].origins[n] \in {NoModule, p, exports'[p][n]}
  BY <1>1, <1>2, <1>3
<1>5. QED BY <1>4 DEF Agrees, Foreign

\* Every step keeps exports and forwarding in agreement.
LEMMA AgreeInv ==
  ASSUME IInv, ExportsAgree, [Next]_vars
  PROVE  ExportsAgree'
<1>1. CASE UNCHANGED vars
  <2>1. UNCHANGED <<env, liveOrigins, scope, frames, status, exports, shared>>
    BY <1>1 DEF vars
  <2>2. store' = store
    BY <2>1 DEF store, Owner, cur
  <2>3. QED BY <2>1, <2>2, AgreeStep
<1>2. ASSUME NEW n \in Name, NEW v \in Value, Let(n, v)
      PROVE  ExportsAgree'
  <2>1. /\ status[cur.mod] # "loaded"
        /\ store' = [store EXCEPT ![cur.mod][n] = v]
        /\ cur.mod \in Module
    BY <1>2, LetInv
  <2>2. /\ UNCHANGED <<liveOrigins, status, exports>>
        /\ frames' = [frames EXCEPT ![Len(frames)].origins[n] = cur.mod]
    BY <1>2 DEF Let
  <2>3. /\ Len(frames') = Len(frames)
        /\ \A i \in 1..Len(frames) : frames[i].mod # cur.mod => frames'[i] = frames[i]
        /\ \A i \in 1..Len(frames) : frames'[i].mod = frames[i].mod
    <3>1. \A i \in 1..Len(frames) : i # Len(frames) => frames'[i] = frames[i]
      BY <2>2, Basics DEF TypeOK
    <3>2. frames[Len(frames)] = cur /\ Len(frames) \in 1..Len(frames)
      BY Basics DEF cur
    <3>3. frames'[Len(frames)] = [cur EXCEPT !.origins[n] = cur.mod]
      BY <2>2, <3>2, Basics DEF TypeOK
    <3>4. [cur EXCEPT !.origins[n] = cur.mod].mod = cur.mod
      BY Basics DEF Frame
    <3>5. Len(frames') = Len(frames)
      BY <2>2, Basics DEF TypeOK
    <3>6. QED BY <3>1, <3>2, <3>3, <3>4, <3>5
  <2>4. ASSUME NEW p \in Module, status'[p] = "loaded"
        PROVE  /\ status[p] = "loaded" /\ exports'[p] = exports[p] /\ store'[p] = store[p]
               /\ liveOrigins'[p] = liveOrigins[p]
               /\ \A i \in 1..Len(frames') : frames'[i].mod = p =>
                    i \in 1..Len(frames) /\ frames[i].mod = p /\ frames'[i].origins = frames[i].origins
    <3>1. p # cur.mod /\ status[p] = "loaded"
      BY <2>1, <2>2, <2>4
    <3>2. store'[p] = store[p]
      BY <2>1, <3>1, Basics
    <3>3. ASSUME NEW i \in 1..Len(frames'), frames'[i].mod = p
          PROVE  i \in 1..Len(frames) /\ frames[i].mod = p /\ frames'[i].origins = frames[i].origins
      BY <2>3, <3>1, <3>3
    <3>4. QED BY <2>2, <3>1, <3>2, <3>3
  <2>5. QED BY <2>4, AgreeStep
<1>3. ASSUME NEW n \in Name, NEW v \in Value, Assign(n, v)
      PROVE  ExportsAgree'
  <2>1. /\ Owner(n) \in Module
        /\ store[Owner(n)][n] # NoValue
        /\ store' = [store EXCEPT ![Owner(n)][n] = v]
    BY <1>3, AssignInv
  <2>2. UNCHANGED <<liveOrigins, frames, status, exports>>
    BY <1>3 DEF Assign
  <2>3. \A p \in Module, k \in Name : store[p][k] = NoValue => store'[p][k] = NoValue
    BY <2>1, Basics DEF Env
  <2>4. QED BY <2>2, <2>3, AgreeStep
<1>4. ASSUME NEW m \in Module, Call(m)
      PROVE  ExportsAgree'
  <2>1. store' = store /\ status' = status
    BY <1>4, CallInv
  <2>2. /\ frames' = Append(frames, [mod |-> m, origins |-> Published[m], top |-> FALSE])
        /\ liveOrigins' = Published /\ exports' = exports
    BY <1>4 DEF Call
  <2>3. /\ Len(frames') = Len(frames) + 1
        /\ \A i \in 1..Len(frames) : frames'[i] = frames[i]
        /\ frames'[Len(frames) + 1].mod = m
        /\ frames'[Len(frames) + 1].origins = Published[m]
        /\ \A i \in 1..Len(frames') : i \in 1..Len(frames) \/ i = Len(frames) + 1
    BY <2>2, Basics DEF TypeOK
  <2>4. QED BY <2>1, <2>2, <2>3, PublishedFrom, AgreeStep
<1>5. ASSUME NEW m \in Module, BeginLoad(m)
      PROVE  ExportsAgree'
  <2>1. store' = store /\ status[m] = "absent" /\ status' = [status EXCEPT ![m] = "loading"]
    BY <1>5, BeginLoadInv
  <2>2. /\ frames' = Append(frames, [mod |-> m, origins |-> NoOrigins, top |-> TRUE])
        /\ liveOrigins' = Published /\ exports' = exports
    BY <1>5 DEF BeginLoad
  <2>3. /\ Len(frames') = Len(frames) + 1
        /\ \A i \in 1..Len(frames) : frames'[i] = frames[i]
        /\ frames'[Len(frames) + 1].origins = NoOrigins
        /\ \A i \in 1..Len(frames') : i \in 1..Len(frames) \/ i = Len(frames) + 1
    BY <2>2, Basics DEF TypeOK
  <2>4. \A p \in Module : status'[p] = "loaded" => status[p] = "loaded"
    BY <2>1, Basics DEF TypeOK
  <2>5. QED BY <2>1, <2>2, <2>3, <2>4, PublishedFrom, AgreeStep
<1>6. ASSUME NEW m \in Module, NEW wanted \in SUBSET Name, ImportLoaded(m, wanted)
      PROVE  ExportsAgree'
  <2>1. store' = store /\ status' = status
    BY <1>6, ImportLoadedInv
  <2>2. liveOrigins' = Published /\ exports' = exports
    BY <1>6 DEF ImportLoaded
  <2>3. PICK q : frames' = [frames EXCEPT ![Len(frames)].origins = q]
                 /\ (~cur.top => q = cur.origins)
    <3> DEFINE s == TakenScope(Parked, cur.mod, cur.origins)
               new == IF cur.top THEN Injected(s, exports[m], wanted) ELSE {}
    <3>1. frames' = [frames EXCEPT ![Len(frames)].origins =
             [n \in Name |-> IF n \in new THEN exports[m][n] ELSE cur.origins[n]]]
      BY <1>6 DEF ImportLoaded, Inject, cur
    <3>2. cur.origins = [n \in Name |-> cur.origins[n]]
      BY Basics DEF Frame, Origins
    <3>3. QED BY <3>1, <3>2
  <2>4. /\ Len(frames') = Len(frames)
        /\ \A i \in 1..Len(frames) : i # Len(frames) => frames'[i] = frames[i]
        /\ frames'[Len(frames)].mod = cur.mod
        /\ frames'[Len(frames)].origins = q
        /\ frames[Len(frames)] = cur /\ Len(frames) \in 1..Len(frames)
    BY <2>3, Basics DEF TypeOK, cur, Frame
  <2>5. cur.top => status[cur.mod] # "loaded"
    BY Basics, <2>4 DEF Shape, LoadingIsOnStack, RootAtBottom, Frame
  <2>6. QED BY <2>1, <2>2, <2>3, <2>4, <2>5, PublishedFrom, AgreeStep
<1>7. ASSUME NEW public \in SUBSET Name, NEW wanted \in SUBSET Name, FinishLoad(public, wanted)
      PROVE  ExportsAgree'
  <2> DEFINE m == cur.mod
             L == Len(frames)
             x == Surface(public)
  <2>1. /\ m \in Module \ {Root} /\ status[m] = "loading"
        /\ store' = store
        /\ status' = [status EXCEPT ![m] = "loaded"]
    BY <1>7, FinishLoadInv
  <2>2. /\ cur.top /\ L > 1
        /\ liveOrigins' = Published
        /\ exports' = [exports EXCEPT ![m] = x]
    BY <1>7 DEF FinishLoad
  <2>3. PICK q : frames' = [Pop EXCEPT ![L - 1].origins = q]
                 /\ (~importer.top => q = importer.origins)
    <3> DEFINE s == TakenScope(Parked, importer.mod, importer.origins)
               new == IF importer.top THEN Injected(s, x, wanted) ELSE {}
    <3>1. Pop[L - 1] = importer /\ importer \in Frame
      BY <2>2, Basics DEF Pop, TypeOK, importer
    <3>2. frames' = [Pop EXCEPT ![L - 1].origins =
             [n \in Name |-> IF n \in new THEN x[n] ELSE importer.origins[n]]]
      BY <1>7, <3>1 DEF FinishLoad, Inject
    <3>3. importer.origins = [n \in Name |-> importer.origins[n]]
      BY <3>1 DEF Frame, Origins
    <3>4. QED BY <3>2, <3>3
  <2>4. /\ Len(frames') = L - 1
        /\ \A i \in 1..(L - 1) : i \in 1..L /\ (i # L - 1 => frames'[i] = frames[i])
        /\ L - 1 \in 1..(L - 1)
        /\ frames[L - 1] = importer
    <3>1. Len(Pop) = L - 1 /\ Pop \in Seq(Frame) /\ \A i \in 1..(L - 1) : Pop[i] = frames[i]
      BY <2>2, Basics DEF TypeOK, Pop
    <3>2. frames[L - 1] = importer
      BY DEF importer
    <3>3. Len(frames') = L - 1 /\ \A i \in 1..(L - 1) : i # L - 1 => frames'[i] = Pop[i]
      BY <2>2, <2>3, <3>1
    <3>4. L - 1 \in 1..(L - 1) /\ \A i \in 1..(L - 1) : i \in 1..L
      BY <2>2, Basics
    <3>5. QED BY <3>1, <3>2, <3>3, <3>4
  <2>5. frames'[L - 1].mod = importer.mod /\ frames'[L - 1].origins = q
    <3>1. Pop[L - 1] \in Frame /\ L - 1 \in DOMAIN Pop /\ Pop[L - 1] = importer
      BY <2>2, Basics DEF TypeOK, Pop, importer
    <3>2. frames'[L - 1] = [importer EXCEPT !.origins = q]
      BY <2>3, <3>1
    <3>3. QED BY <3>1, <3>2 DEF Frame
  <2>6. \A i \in 1..(L - 1) :
          /\ frames'[i].mod = frames[i].mod
          /\ ~frames[i].top => frames'[i].origins = frames[i].origins
    BY <2>3, <2>4, <2>5
  <2>7. \A i \in 1..(L - 1) :
          /\ frames[i].mod = m => ~frames[i].top /\ frames[i].origins = NoOrigins
          /\ status[frames[i].mod] = "loaded" => ~frames[i].top
    <3> SUFFICES ASSUME NEW i \in 1..(L - 1)
                 PROVE  /\ frames[i].mod = m => ~frames[i].top /\ frames[i].origins = NoOrigins
                        /\ status[frames[i].mod] = "loaded" => ~frames[i].top
      OBVIOUS
    <3>1. i \in 1..L /\ frames[i].mod \in Module
      BY <2>4, Basics DEF Frame
    <3>2. frames[i].mod = m => ~frames[i].top /\ frames[i].origins = NoOrigins
      BY <2>2, RunningBody
    <3>3. frames[i].top => status[frames[i].mod] # "loaded"
      BY <3>1, Basics DEF Shape, LoadingIsOnStack, RootAtBottom
    <3>4. QED BY <3>2, <3>3
  <2>8. \A p \in Module : p = m => Agrees(p)'
    <3>1. /\ exports'[m] = x /\ liveOrigins'[m] = cur.origins
          /\ \A n \in Name : Foreign(x, m, n) => x[n] = cur.origins[n]
      BY <2>1, <2>2, Basics, PublishedFacts DEF TypeOK, Surface, Foreign
    <3>2. \A n \in Name : Foreign(x, m, n) => store'[m][n] = NoValue
      BY <2>1, <3>1, Basics DEF Unshadowed, Foreign
    <3>3. \A i \in 1..Len(frames') : frames'[i].mod = m => frames'[i].origins = NoOrigins
      BY <2>4, <2>6, <2>7
    <3>4. \A n \in Name : Foreign(exports'[m], m, n) =>
            /\ store'[m][n] = NoValue
            /\ liveOrigins'[m][n] \in {NoModule, m, exports'[m][n]}
            /\ \A i \in 1..Len(frames') :
                 frames'[i].mod = m => frames'[i].origins[n] \in {NoModule, m, exports'[m][n]}
      BY <3>1, <3>2, <3>3 DEF NoOrigins
    <3>5. QED
      <4> SUFFICES ASSUME NEW p \in Module, p = m PROVE Agrees(p)'
        OBVIOUS
      <4>1. \A n \in Name : Foreign(exports'[p], p, n) =>
              /\ store'[p][n] = NoValue
              /\ liveOrigins'[p][n] \in {NoModule, p, exports'[p][n]}
              /\ \A i \in 1..Len(frames') :
                   frames'[i].mod = p => frames'[i].origins[n] \in {NoModule, p, exports'[p][n]}
        BY <3>4
      <4>2. QED BY <4>1 DEF Agrees, Foreign
  <2>9. \A p \in Module : p # m /\ status'[p] = "loaded" =>
          /\ status[p] = "loaded" /\ exports'[p] = exports[p]
          /\ \A i \in 1..Len(frames') : frames'[i].mod = p =>
               i \in 1..L /\ frames[i].mod = p /\ frames'[i].origins = frames[i].origins
    BY <2>1, <2>2, <2>4, <2>6, <2>7, Basics DEF TypeOK
  <2>10. QED BY <2>1, <2>2, <2>8, <2>9, PublishedFrom, AgreeStep
<1>8. CASE FinishCall
  <2>1. store' = store /\ status' = status
    BY <1>8, FinishCallInv
  <2>2. frames' = Pop /\ liveOrigins' = Published /\ exports' = exports
    BY <1>8 DEF FinishCall
  <2>3. \A i \in 1..Len(frames') : i \in 1..Len(frames) /\ frames'[i] = frames[i]
    BY <2>2, Basics DEF Pop, TypeOK
  <2>4. QED BY <2>1, <2>2, <2>3, PublishedFrom, AgreeStep
<1>9. CASE RefusedImport
  <2>1. store' = store /\ status' = status
    BY <1>9, RefusedImportInv
  <2>2. frames' = frames /\ liveOrigins' = Published /\ exports' = exports
    BY <1>9 DEF RefusedImport
  <2>3. QED BY <2>1, <2>2, PublishedFrom, AgreeStep
<1>10. CASE FailLoad
  <2>1. /\ cur.mod \in Module
        /\ store' = [store EXCEPT ![cur.mod] = NoEnv]
        /\ status' = [status EXCEPT ![cur.mod] = "absent"]
    BY <1>10, FailLoadInv
  <2>2. /\ frames' = Pop /\ exports' = exports
        /\ liveOrigins' = [liveOrigins EXCEPT ![cur.mod] = NoOrigins]
    BY <1>10 DEF FailLoad
  <2>3. \A i \in 1..Len(frames') : i \in 1..Len(frames) /\ frames'[i] = frames[i]
    BY <2>2, Basics DEF Pop, TypeOK
  <2>4. \A p \in Module : status'[p] = "loaded" =>
          /\ p # cur.mod /\ status[p] = "loaded"
          /\ store'[p] = store[p] /\ liveOrigins'[p] = liveOrigins[p]
    BY <2>1, <2>2, Basics DEF TypeOK
  <2>5. QED BY <2>2, <2>3, <2>4, AgreeStep
<1>11. QED
  BY <1>1, <1>2, <1>3, <1>4, <1>5, <1>6, <1>7, <1>8, <1>9, <1>10 DEF Next

\* A read through an alias or a local import is a read of the variable itself.
LEMMA AgreedReads ==
  ASSUME IInv, ExportsAgree
  PROVE  ReadsAreLive
<1> SUFFICES ASSUME NEW m \in Module, NEW n \in Name,
                    status[m] = "loaded", exports[m][n] # NoModule
             PROVE  LET value == store[exports[m][n]][n]
                    IN /\ value # NoValue
                       /\ ModuleBinding(m, n) = value
                       /\ LiveOriginValue(exports[m][n], n) = value
  BY DEF ReadsAreLive
<1> DEFINE o == exports[m][n]
           value == store[o][n]
           mine == cur.origins[n]
<1>1. o \in Module /\ status[o] = "loaded" /\ value # NoValue
  BY Basics DEF Shape, ExportsAreGood, TypeOK, Origins
<1>2. value = IF Owner(n) = o THEN scope[n] ELSE env[o][n]
  BY <1>1 DEF store
<1>3. Foreign(cur.origins, cur.mod, n) => store[cur.mod][n] = NoValue
  BY Basics DEF Unshadowed
<1>4. cur.mod = o => Owner(n) = o
  BY <1>1, <1>3 DEF Owner, Foreign
<1>5. mine = o => Owner(n) = o
  BY DEF Owner
<1>6. Owner(n) = o => mine = o \/ cur.mod = o
  BY DEF Owner
<1>7. LiveOriginValue(o, n) = value
  BY <1>1, <1>2, <1>4, <1>5, <1>6 DEF LiveOriginValue
<1>8. m = cur.mod /\ scope[n] # NoValue => Owner(n) = o
  <2> SUFFICES ASSUME m = cur.mod, scope[n] # NoValue
               PROVE  Owner(n) = o
    OBVIOUS
  <2>1. CASE o = m
    BY <2>1, <1>4
  <2>2. CASE o # m
    <3>1. Foreign(exports[m], m, n)
      BY <2>2 DEF Foreign
    <3>2. store[m][n] = NoValue /\ mine \in {NoModule, m, o}
      BY <3>1, Basics DEF ExportsAgree, Agrees, cur
    <3>3. scope[n] = store[Owner(n)][n]
      BY Basics
    <3>4. QED BY <3>2, <3>3 DEF Owner
  <2>3. QED BY <2>1, <2>2
<1>9. ModuleBinding(m, n) = value
  BY <1>1, <1>2, <1>7, <1>8 DEF ModuleBinding
<1>10. QED BY <1>1, <1>7, <1>9

\* `alias.n` and a local import never return a stale copy of an exported
\* variable, however deep calls and loads nest and whatever has failed.
THEOREM ReadsAreAlwaysLive == Spec => []ReadsAreLive
<1>1. Init => ExportsAgree
  BY DEF Init, ExportsAgree
<1>2. IInv /\ ExportsAgree /\ [Next]_vars => ExportsAgree'
  BY AgreeInv
<1>3. IInv /\ ExportsAgree => ReadsAreLive
  BY AgreedReads
<1>4. QED BY <1>1, <1>2, <1>3, Invariance, PTL DEF Spec
================================================================================
