----------------------------- MODULE ValueStore -----------------------------
(***************************************************************************)
(* What variables promise to a script: lists are values, copied when they  *)
(* are assigned, and a reference makes two places one place from then on.  *)
(*                                                                         *)
(* A place is a variable or an item of a variable's list.  The state is    *)
(* what is read in each variable and which places are the same place;      *)
(* there are no boxes, no counts and no sharing.  A statement announces    *)
(* what it will do to the store and then does it, one effect per step.     *)
(***************************************************************************)
EXTENDS Naturals, Sequences

CONSTANTS Variable, Scalar, Null

VARIABLES todo,           \* the effects announced and not yet seen
          val,            \* what is read in a variable: a scalar or a list
          same            \* the pairs of places that are one place

ValueOf(v, p) == IF p \in Variable THEN v[p] ELSE v[p[1]][p[2]]

IsList(w) == w \notin Scalar \cup {Null}

Items(v, X) == UNION {{<<x, i>> : i \in IF IsList(v[x]) THEN DOMAIN v[x] ELSE {}} : x \in X}

Places(v) == Variable \cup Items(v, Variable)

\* The places that are the place p under the relation r.
Of(r, p) == {pq[2] : pq \in {q \in r : q[1] = p}}

\* Everything that is read when the places S hold w instead of what v says.
Written(v, S, w) ==
    [x \in Variable |->
        IF x \in S THEN w
        ELSE IF IsList(v[x])
             THEN [i \in DOMAIN v[x] |-> IF <<x, i>> \in S THEN w ELSE v[x][i]]
             ELSE v[x]]

\* The store reads v; two places are the same if id says the same of them.
Store(v, id(_)) ==
    \E named \in {{<<p, id(p)>> : p \in Places(v)}} :
        /\ val' = v
        /\ same' = {<<pq[1][1], pq[2][1]>> :
                       pq \in {x \in named \X named : x[1][2] = x[2][2]}}

\* In a store that reads v, where r is the same relation, p receives w, whose
\* items are new places, but for those that Ref gives.
Assign(v, r, p, w, Ref) ==
    \E S \in {Of(r, p)} : \E new \in {Written(v, S, w)} :
        LET X == S \cap Variable
            id(q) == IF q \notin Items(new, X) THEN Of(r, q)
                     ELSE IF q[2] \in DOMAIN Ref THEN Of(r, Ref[q[2]])
                     ELSE X \X {q[2]}
        IN  Store(new, id)

\* p and all that is the same become what q is.
Bind(v, r, p, q) ==
    \E S \in {Of(r, p)} : \E new \in {Written(v, S, ValueOf(v, q))} :
        LET id(o) == IF o \in S THEN Of(r, q)
                     ELSE IF o \in Items(new, S \cap Variable) THEN Of(r, <<q, o[2]>>)
                     ELSE Of(r, o)
        IN  Store(new, id)

Append_(v, r, x, w) ==
    \E X \in {Of(r, x) \cap Variable} : \E new \in {Written(v, X, Append(v[x], w))} :
        LET n == Len(new[x])
            id(q) == IF q \in X \X {n} THEN X \X {n} ELSE Of(r, q)
        IN  Store(new, id)

\* x alone is forgotten.
Forget(v, r, x) ==
    LET id(q) == IF q = x THEN {x} ELSE Of(r, q) \ {x}
    IN  Store([v EXCEPT ![x] = Null], id)

NoRef == [i \in {} |-> Null]

Effect == [op : {"assign", "list", "append"}, x : Variable, w : Scalar \cup {Null}]
     \cup [op : {"forget"}, x : Variable]
     \cup [op : {"copy", "bind", "listOf"}, x : Variable, y : Variable]
     \cup [op : {"copyItem", "bindItem"}, x : Variable, y : Variable, i : Nat]
     \cup [op : {"setItem"}, x : Variable, i : Nat, w : Scalar]

Perform(e, v, r) ==
    \/ e.op = "assign"   /\ Assign(v, r, e.x, e.w, NoRef)
    \/ e.op = "list"     /\ Assign(v, r, e.x, <<e.w>>, NoRef)
    \/ e.op = "listOf"   /\ Assign(v, r, e.x, <<v[e.y]>>, <<e.y>>)
    \/ e.op = "copy"     /\ Assign(v, r, e.x, v[e.y], NoRef)
    \/ e.op = "copyItem" /\ Assign(v, r, e.x, v[e.y][e.i], NoRef)
    \/ e.op = "setItem"  /\ Assign(v, r, <<e.x, e.i>>, e.w, NoRef)
    \/ e.op = "bind"     /\ Bind(v, r, e.x, e.y)
    \/ e.op = "bindItem" /\ Bind(v, r, e.x, <<e.y, e.i>>)
    \/ e.op = "append"   /\ Append_(v, r, e.x, e.w)
    \/ e.op = "forget"   /\ Forget(v, r, e.x)

StoreInit ==
    /\ todo = <<>>
    /\ val = [x \in Variable |-> Null]
    /\ same = {<<x, x>> : x \in Variable}

Announce ==
    /\ todo = <<>>
    /\ todo' \in Seq(Effect)
    /\ UNCHANGED <<val, same>>

Do ==
    /\ todo # <<>>
    /\ todo' = Tail(todo)
    /\ \E e \in {Head(todo)}, v \in {val}, r \in {same} : Perform(e, v, r)

StoreNext == Announce \/ Do

StoreSpec == StoreInit /\ [][StoreNext]_<<todo, val, same>>
=============================================================================
