------------------------------ MODULE MCInstances ------------------------------
EXTENDS Instances

CONSTANTS w, v, s

Do(what) == [do |-> what]
Give(units) == [do |-> "return", units |-> units]
Fn(name, public) == [do |-> "declare", name |-> name, public |-> public]

Engines == w :> "walker" @@ v :> "vm" @@ s :> "session"
Programs == w :> "program" @@ v :> "program" @@ s :> "nothing"

\* The program redeclares functions and returns before its end; `hidden' is private
\* in the end.
Statements ==
  "program" :> <<Fn("spend", FALSE), Fn("hidden", TRUE), Do("bump"), Fn("dive", TRUE),
                 Fn("spend", TRUE), Fn("hidden", FALSE), Fn("keep", TRUE), Give(0),
                 Do("bump"), Fn("hidden", TRUE)>> @@
  "nothing" :> <<>> @@
  "spend"   :> <<Do("bump"), Do("local"), Do("host"), Do("bump"), Give(2)>> @@
  "keep"    :> <<Do("keep"), Do("bump"), Give(0)>> @@
  "dive"    :> <<Do("bump"), Do("recurse"), Give(0)>> @@
  "hidden"  :> <<Do("drop"), Do("again")>> @@
  "typed"   :> <<Do("bump"), Do("block"), Do("host"), Do("panic")>>

(* A call on its own: in an instance that has just been loaded but for its globals,  *)
(* with nobody else around.                                                          *)

RECURSIVE RunAlone(_, _, _, _)
RunAlone(e, x, other, replies) ==
  LET t == Executed(e, x, other)
  IN IF t.status = "host" /\ replies # <<>>
       THEN LET r == Head(replies)
                u == [t EXCEPT !.status = IF r.fails THEN "panic" ELSE "run"]
            IN IF r.fails THEN u ELSE RunAlone(e, u, other - r.freed, Tail(replies))
     ELSE IF t.status = "run" THEN RunAlone(e, t, other, replies)
     ELSE t

Alone(i, o) ==
  LET x == [ReturnedTop(Fresh(Top[i])) EXCEPT !.total = o.start.total, !.kept = o.start.kept,
                                              !.status = "run"]
  IN RunAlone(Engine[i], Entered(x, o.unit), o.start.other, o.replies)

\* A call ends as it would on its own, with the same value, error and globals: whatever
\* calls came before it, in its batch or not, and failed or not, and whatever its host
\* did with other instances meanwhile.
AsIfAlone ==
  \A n \in DOMAIN ops :
    LET o == ops[n]
        x == inst[o.inst]
        y == Alone(o.inst, o)
    IN (o.kind \in Guarding /\ x.status \in Errors \cup {"returned"}) =>
         /\ x.status = y.status
         /\ x.total = y.total /\ x.kept = y.kept /\ x.value = y.value
================================================================================
