--------------------------- MODULE DispatchProofs ---------------------------
(* What holds of Dispatch for all classes, closures and bounds. *)
EXTENDS Dispatch, Recursion, SequenceTheorems, FiniteSetTheorems

\* A call is in progress while find_closure or a callee runs.
InCall == pc \in {"find", "cost", "run"} => calls # <<>>

\* get_cost runs on a closure of the function that has as many parameters as there
\* are arguments.
Measuring ==
    pc = "cost" => /\ search.next <= Len(Candidates)
                   /\ arg_count(Considered) = Len(Current.args)

\* The types alone are not inductive: without the loops' bounds, get_cost might
\* read a parameter that is no class.
TypeInv == TypeOK /\ InCall /\ Measuring

\* The assumptions about the constants.
LEMMA Assumptions ==
    /\ Base \in [Class -> Seq(Class)]
    /\ Signature \in [Closure -> Seq(Class)]
    /\ RefFlags \in [Closure -> SUBSET Nat]
    /\ NoClosure \notin Closure
BY BasesEndInClass, SignatureType, RefFlagsType, NoClosureIsNoClosure

\* The number of parameters of a closure is a natural number.
LEMMA ArityType == \A c \in Closure : arg_count(c) \in Nat
BY Assumptions DEF arg_count

\* Replacing the arguments of the call being prepared keeps the types.
LEMMA CallsType ==
    ASSUME NEW s \in Seq(PreparedCall), s # <<>>, NEW a \in Argument
    PROVE  [s EXCEPT ![Len(s)].args = Append(@, a)] \in Seq(PreparedCall)
<1> DEFINE r == s[Len(s)]
<1>1. Len(s) \in 1..Len(s) /\ r \in PreparedCall
  BY LenProperties, ElementOfSeq, EmptySeq
<1>2. r.args \in Seq(Argument)
  BY <1>1 DEF PreparedCall
<1>3. Append(r.args, a) \in Seq(Argument)
  BY <1>2, AppendProperties
<1>4. [r EXCEPT !.args = Append(@, a)] \in PreparedCall
  BY <1>1, <1>3 DEF PreparedCall
<1>5. QED
  BY <1>1, <1>4, ExceptSeq

\* So does setting the closure that runs.
LEMMA SelectType ==
    ASSUME NEW s \in Seq(PreparedCall), s # <<>>, NEW c \in Closure
    PROVE  /\ [s EXCEPT ![Len(s)].closure = c] \in Seq(PreparedCall)
           /\ [s EXCEPT ![Len(s)].closure = c] # <<>>
<1> DEFINE r == s[Len(s)]
<1>1. Len(s) \in 1..Len(s) /\ r \in PreparedCall
  BY LenProperties, ElementOfSeq, EmptySeq
<1>2. [r EXCEPT !.closure = c] \in PreparedCall
  BY <1>1 DEF PreparedCall
<1>3. QED
  BY <1>1, <1>2, ExceptSeq, EmptySeq

\* The call whose arguments are evaluated.
LEMMA CurrentType ==
    ASSUME TypeOK, calls # <<>>
    PROVE  Current \in PreparedCall /\ Candidates \in Seq(Closure)
<1>1. Current \in PreparedCall
  BY ElementOfSeq, EmptySeq DEF TypeOK, Current, Last
<1>2. QED
  BY <1>1 DEF TypeOK, PreparedCall, Candidates

\* What the loop of find_closure assigns keeps the types of its locals.
LEMMA LocalsType ==
    ASSUME NEW s \in Locals
    PROVE  /\ \A n \in Nat \ {0} : [s EXCEPT !.next = n] \in Locals
           /\ \A n \in Nat \ {0}, m \in Nat : [s EXCEPT !.arg = n, !.sum = m] \in Locals
           /\ \A n \in Nat \ {0}, m \in Nat, c \in Closure, b \in BOOLEAN :
                [s EXCEPT !.next = n, !.cost = m, !.candidate = c, !.conflict = b] \in Locals
BY Zenon DEF Locals

\* The value of NoSearch is one of its locals' values.
LEMMA NoSearchType == NoSearch \in Locals
BY DEF NoSearch, Locals, NoMatch

\* The distance of an argument that matches is a natural number.
LEMMA DistanceType ==
    ASSUME NEW a \in Argument, NEW class \in Class, Matches(a, class)
    PROVE  get_distance(a, class) \in Nat
<1>1. CASE a.class = Null
  BY <1>1 DEF get_distance
<1>2. CASE a.class # Null
  <2>1. a.class \in Class
    BY <1>2 DEF Argument
  <2>2. depth(a.class) \in Nat /\ depth(class) \in Nat
    BY <2>1, Assumptions DEF depth
  <2>3. depth(class) <= depth(a.class)
    BY <1>2 DEF Matches, inherits
  <2>4. QED
    BY <1>2, <2>2, <2>3 DEF get_distance
<1>3. QED
  BY <1>1, <1>2

\* Dropping the closure that has been added keeps the types.
LEMMA MergeRestType ==
    ASSUME TypeOK, merge.rest # <<>>, MergeRest
    PROVE  merge' \in [into : Func \cup {Null}, rest : Seq(Closure)]
<1>1. merge.rest \in Seq(Closure)
  BY DEF TypeOK
<1>2. Tail(merge.rest) \in Seq(Closure)
  BY <1>1, HeadTailProperties
<1>3. QED
  BY <1>2 DEF TypeOK, MergeRest

\* Insert puts c at position i: the closures before it stay where they are, the
\* others move by one position.
LEMMA InsertType ==
    ASSUME NEW s \in Seq(Closure), NEW c \in Closure, NEW i \in 1..Len(s) + 1
    PROVE  /\ Insert(s, c, i) \in Seq(Closure)
           /\ Len(Insert(s, c, i)) = Len(s) + 1
           /\ DOMAIN Insert(s, c, i) = 1..Len(s) + 1
           /\ \A j \in 1..Len(s) + 1 :
                 Insert(s, c, i)[j] = IF j < i THEN s[j] ELSE IF j = i THEN c ELSE s[j - 1]
<1> DEFINE before == SubSeq(s, 1, i - 1)
           after == SubSeq(s, i, Len(s))
<1>1. Len(s) \in Nat /\ \A j \in 1..Len(s) : s[j] \in Closure
  BY LenProperties, ElementOfSeq
<1>2. /\ before \in Seq(Closure) /\ Len(before) = i - 1
      /\ \A j \in 1..i - 1 : before[j] = s[j]
  BY <1>1, SubSeqProperties
<1>3. /\ after \in Seq(Closure) /\ Len(after) = Len(s) - i + 1
      /\ \A j \in 1..Len(s) - i + 1 : after[j] = s[i + j - 1]
  BY <1>1, SubSeqProperties
<1>4. <<c>> \in Seq(Closure) /\ Len(<<c>>) = 1 /\ <<c>>[1] = c
  OBVIOUS
<1>5. /\ before \o <<c>> \in Seq(Closure)
      /\ Len(before \o <<c>>) = i
      /\ \A j \in 1..i : (before \o <<c>>)[j] = IF j < i THEN s[j] ELSE c
  <2> HIDE DEF before
  <2>1. QED
    BY <1>2, <1>4, ConcatProperties
<1>6. /\ before \o <<c>> \o after \in Seq(Closure)
      /\ Len(before \o <<c>> \o after) = Len(s) + 1
      /\ DOMAIN (before \o <<c>> \o after) = 1..Len(s) + 1
      /\ \A j \in 1..Len(s) + 1 : (before \o <<c>> \o after)[j] =
            IF j <= i THEN (before \o <<c>>)[j] ELSE after[j - i]
  <2> HIDE DEF before, after
  <2> DEFINE all == before \o <<c>> \o after
  <2>1. /\ all \in Seq(Closure) /\ Len(all) = Len(s) + 1
        /\ \A j \in 1..Len(s) + 1 : all[j] =
              IF j <= i THEN (before \o <<c>>)[j] ELSE after[j - i]
    BY <1>1, <1>3, <1>5, ConcatProperties
  <2>2. DOMAIN all = 1..Len(s) + 1
    <3> HIDE DEF all
    <3>1. QED
      BY <2>1, LenProperties
  <2>3. QED
    BY <2>1, <2>2
<1>7. Insert(s, c, i) = before \o <<c>> \o after
  BY DEF Insert
<1>8. ASSUME NEW j \in 1..Len(s) + 1
      PROVE  (before \o <<c>> \o after)[j] =
                IF j < i THEN s[j] ELSE IF j = i THEN c ELSE s[j - 1]
  <2> HIDE DEF before, after
  <2>1. CASE j <= i
    <3>1. j \in 1..i
      BY <2>1
    <3>2. (before \o <<c>>)[j] = IF j < i THEN s[j] ELSE c
      BY <3>1, <1>5
    <3>3. (before \o <<c>> \o after)[j] = (before \o <<c>>)[j]
      BY <2>1, <1>6
    <3>4. ~(j < i) => j = i
      BY <1>1, <2>1
    <3>5. QED
      BY <3>2, <3>3, <3>4
  <2>2. CASE j > i
    <3>1. j - i \in 1..Len(s) - i + 1 /\ i + (j - i) - 1 = j - 1
      BY <2>2, <1>1
    <3>2. after[j - i] = s[i + (j - i) - 1]
      BY <3>1, <1>3
    <3>3. QED
      BY <3>1, <3>2, <2>2, <1>1, <1>6
  <2>3. j <= i \/ j > i
    BY <1>1
  <2>4. QED
    BY <2>1, <2>2, <2>3
<1>9. QED
  <2> HIDE DEF before, after
  <2>1. QED
    BY <1>6, <1>7, <1>8

\* A step keeps the types.
LEMMA TypeStep ==
    ASSUME TypeInv, [Next]_vars
    PROVE  TypeOK'
<1> USE Assumptions DEF TypeInv
<1>1. ASSUME NEW f \in Func, NEW c \in Closure, Define(f, c)
      PROVE  TypeOK'
  BY <1>1 DEF TypeOK, Define, function
<1>2. ASSUME NEW f \in Func, NEW g \in Func, Assign(f, g)
      PROVE  TypeOK'
  BY <1>2 DEF TypeOK, Assign, function
<1>3. ASSUME NEW f \in Func, NEW c \in Closure, AddKnown(f, c)
      PROVE  TypeOK'
  BY <1>3, MergeRestType DEF TypeOK, AddKnown, Adding, function
<1>4. ASSUME NEW f \in Func, NEW c \in Closure, AddRefused(f, c)
      PROVE  TypeOK'
  BY <1>4 DEF TypeOK, AddRefused, Adding, NoMerge, Throw, function
<1>5. ASSUME NEW f \in Func, NEW c \in Closure, AddClosure(f, c)
      PROVE  TypeOK'
  <2>1. closures' \in [Func -> Seq(Closure)]
    <3>1. PICK i \in 1..Len(closures[f]) + 1 :
                closures' = [closures EXCEPT ![f] = Insert(@, c, i)]
      BY <1>5 DEF AddClosure
    <3>2. Insert(closures[f], c, i) \in Seq(Closure)
      BY InsertType DEF TypeOK
    <3>3. QED
      BY <3>1, <3>2 DEF TypeOK
  <2>2. ref_flags' \in [Func -> SUBSET Nat] /\ max_argc' \in [Func -> Nat]
    <3>1. RefFlags[c] \in SUBSET Nat /\ arg_count(c) \in Nat
      BY ArityType
    <3>2. CASE arg_count(c) > max_argc[f]
      <4>1. /\ ref_flags' = [ref_flags EXCEPT ![f] = RefFlags[c]]
            /\ max_argc' = [max_argc EXCEPT ![f] = arg_count(c)]
        BY <1>5, <3>2 DEF AddClosure
      <4>2. ref_flags \in [Func -> SUBSET Nat] /\ max_argc \in [Func -> Nat]
        BY DEF TypeOK
      <4>3. QED
        BY <3>1, <4>1, <4>2
    <3>3. CASE ~(arg_count(c) > max_argc[f])
      BY <1>5, <3>3 DEF TypeOK, AddClosure
    <3>4. QED
      BY <3>2, <3>3
  <2>3. merge' \in [into : Func \cup {Null}, rest : Seq(Closure)]
    BY <1>5, MergeRestType DEF AddClosure, Adding
  <2>4. QED
    BY <1>5, <2>1, <2>2, <2>3 DEF TypeOK, AddClosure, Adding
<1>6. CASE Merged
  BY <1>6 DEF TypeOK, Merged, NoMerge, function
<1>7. ASSUME NEW f \in Func, Precall(f)
      PROVE  TypeOK'
  BY <1>7 DEF TypeOK, Precall, PreparedCall, function
<1>8. ASSUME NEW class \in Class, PushVariable(class)
      PROVE  TypeOK'
  <2> DEFINE flag == Len(Current.args) + 1 \in frame_flags
             a == [class |-> class, is_var |-> TRUE, by_ref |-> flag]
  <2>0. flag \in BOOLEAN
    OBVIOUS
  <2>1. a \in Argument
    <3> HIDE DEF flag
    <3>1. QED
      BY <2>0 DEF Argument
  <2>a. calls' \in Seq(PreparedCall)
    <3>1. calls # <<>> /\ calls' = [calls EXCEPT ![Len(calls)].args = Append(@, a)]
      BY <1>8 DEF PushVariable, PushArgument, CanTakeArgument
    <3> HIDE DEF a
    <3>2. QED
      BY <3>1, <2>1, CallsType DEF TypeOK
  <2>2. QED
    BY <1>8, <2>a DEF TypeOK, PushVariable, function
<1>9. ASSUME NEW class \in Class, Return(class)
      PROVE  TypeOK'
  <2> DEFINE outer == SubSeq(calls, 1, Len(calls) - 1)
  <2>1. outer \in Seq(PreparedCall)
    BY DEF TypeOK
  <2>2. Temporary(class) \in Argument
    BY DEF Temporary, Argument
  <2>3. calls' \in Seq(PreparedCall)
    BY <1>9, <2>1, <2>2, CallsType DEF Return
  <2>4. QED
    BY <1>9, <2>3 DEF TypeOK, Return, function
<1>10. CASE PushNull
  <2>1. calls' \in Seq(PreparedCall)
    BY <1>10, CallsType
    DEF TypeOK, PushNull, PushArgument, CanTakeArgument, Temporary, Argument
  <2>2. QED
    BY <1>10, <2>1 DEF TypeOK, PushNull, function
<1>11. CASE Call
  BY <1>11, NoSearchType DEF TypeOK, Call, function
<1>12. CASE SkipShorter \/ Mismatch
  <2>1. search' = [search EXCEPT !.next = search.next + 1]
    BY <1>12 DEF SkipShorter, Mismatch
  <2>2. search.next + 1 \in Nat \ {0}
    BY DEF TypeOK, Locals
  <2>3. search' \in Locals
    BY <2>1, <2>2, LocalsType DEF TypeOK
  <2>4. QED
    BY <1>12, <2>3 DEF TypeOK, SkipShorter, Mismatch, function
<1>13. CASE Measure
  <2>1. search' \in Locals
    <3>1. search' = [search EXCEPT !.arg = 1, !.sum = 0]
      BY <1>13 DEF Measure
    <3>2. search \in Locals /\ 1 \in Nat \ {0} /\ 0 \in Nat
      BY DEF TypeOK
    <3>3. QED
      BY <3>1, <3>2, LocalsType
  <2>2. QED
    BY <1>13, <2>1 DEF TypeOK, Measure, function
<1>a. CASE AddDistance
  <2>1. CurrentArg \in Argument /\ CurrentParam \in Class
    <3>1. /\ Current \in PreparedCall /\ Candidates \in Seq(Closure)
          /\ search.arg \in 1..Len(Current.args) /\ search.next \in 1..Len(Candidates)
          /\ arg_count(Considered) = Len(Current.args)
      BY <1>a, CurrentType DEF AddDistance, InCall, Measuring, TypeOK, Locals
    <3>2. Current.args \in Seq(Argument) /\ Considered \in Closure
      BY <3>1, ElementOfSeq DEF PreparedCall, Considered
    <3>3. Signature[Considered] \in Seq(Class) /\ Len(Signature[Considered]) = Len(Current.args)
      BY <3>1, <3>2 DEF arg_count
    <3>4. QED
      BY <3>1, <3>2, <3>3, ElementOfSeq DEF CurrentArg, CurrentParam
  <2>2. get_distance(CurrentArg, CurrentParam) \in Nat
    BY <1>a, <2>1, DistanceType DEF AddDistance
  <2> DEFINE n == search.arg + 1
             m == search.sum + get_distance(CurrentArg, CurrentParam)
  <2>3. n \in Nat \ {0} /\ m \in Nat
    BY <2>2 DEF TypeOK, Locals
  <2>4. search' = [search EXCEPT !.arg = n, !.sum = m]
    BY <1>a DEF AddDistance
  <2>5. search' \in Locals
    <3> HIDE DEF n, m
    <3>1. QED
      BY <2>3, <2>4, LocalsType DEF TypeOK
  <2>6. QED
    BY <1>a, <2>5 DEF TypeOK, AddDistance, function
<1>d. CASE Compare
  <2> DEFINE n == search.next + 1
             tie == search.sum = search.cost
  <2>1. n \in Nat \ {0} /\ search.sum \in Nat /\ tie \in BOOLEAN
    BY DEF TypeOK, Locals
  <2>2. Considered \in Closure
    <3>1. Candidates \in Seq(Closure) /\ search.next \in 1..Len(Candidates)
      BY <1>d, CurrentType DEF Compare, InCall, Measuring, TypeOK, Locals
    <3>2. QED
      BY <3>1, ElementOfSeq DEF Considered
  <2>3. \/ search' = [search EXCEPT !.next = n, !.cost = search.sum,
                                   !.candidate = Considered, !.conflict = tie]
        \/ search' = [search EXCEPT !.next = n]
    BY <1>d DEF Compare
  <2> HIDE DEF n, tie
  <2>4. search' \in Locals
    <3>1. search \in Locals
      BY DEF TypeOK
    <3>2. [search EXCEPT !.next = n, !.cost = search.sum,
                         !.candidate = Considered, !.conflict = tie] \in Locals
      BY <2>1, <2>2, <3>1, LocalsType
    <3>3. [search EXCEPT !.next = n] \in Locals
      BY <2>1, <3>1, LocalsType
    <3>4. QED
      BY <2>3, <3>2, <3>3
  <2>5. QED
    BY <1>d, <2>4 DEF TypeOK, Compare, function
<1>e. CASE FindAmbiguous
  BY <1>e DEF TypeOK, FindAmbiguous, Throw, function
<1>14. CASE FindNone
  BY <1>14 DEF TypeOK, FindNone, Throw, function
<1>15. CASE FindOne
  <2>1. search.candidate \in Closure
    BY <1>15 DEF FindOne, Found, TypeOK, Locals
  <2>2. calls' \in Seq(PreparedCall)
    BY <1>15, <2>1, SelectType DEF FindOne, InCall, TypeOK
  <2>3. QED
    BY <1>15, <2>2, NoSearchType DEF TypeOK, FindOne, function
<1>16. CASE Recover
  BY <1>16, NoSearchType DEF TypeOK, Recover, function
<1>17. CASE UNCHANGED vars
  BY <1>17 DEF TypeOK, vars
<1>18. QED
  BY <1>1, <1>2, <1>3, <1>4, <1>5, <1>6, <1>7, <1>8, <1>9, <1>10, <1>11, <1>12, <1>a, <1>d, <1>e,
     <1>13, <1>14, <1>15, <1>16, <1>17 DEF Next

\* A step of a loop stays in the loop's bounds.
LEMMA LoopStep ==
    ASSUME TypeInv, [Next]_vars
    PROVE  InCall' /\ Measuring'
<1> USE DEF TypeInv
<1>1. CASE Measure
  <2>1. /\ pc = "find" /\ pc' = "cost" /\ ~SearchEnds
        /\ arg_count(Considered) = Len(Current.args)
        /\ search' = [search EXCEPT !.arg = 1, !.sum = 0]
        /\ UNCHANGED <<closures, calls>>
    BY <1>1 DEF Measure, function
  <2>2. search'.next = search.next
    BY <2>1 DEF TypeOK, Locals
  <2>3. QED
    BY <2>1, <2>2 DEF SearchEnds, InCall, Measuring, Considered, Candidates, Current
<1>2. CASE AddDistance
  <2>1. /\ pc = "cost" /\ pc' = "cost" /\ UNCHANGED <<closures, calls>>
        /\ search' = [search EXCEPT !.arg = @ + 1, !.sum = @ + get_distance(CurrentArg, CurrentParam)]
    BY <1>2 DEF AddDistance, function
  <2>2. search'.next = search.next
    BY <2>1 DEF TypeOK, Locals
  <2>3. QED
    BY <2>1, <2>2 DEF InCall, Measuring, Considered, Candidates, Current
<1>3. CASE Call
  BY <1>3 DEF Call, InCall, Measuring
<1>4. CASE SkipShorter \/ Mismatch \/ Compare
  BY <1>4 DEF SkipShorter, Mismatch, Compare, InCall, Measuring
<1>5. CASE FindOne
  <2>1. search.candidate \in Closure /\ calls # <<>>
    BY <1>5 DEF FindOne, Found, TypeOK, Locals, InCall
  <2>2. calls' # <<>>
    BY <1>5, <2>1, SelectType DEF FindOne, TypeOK
  <2>3. QED
    BY <1>5, <2>2 DEF FindOne, InCall, Measuring
<1>6. CASE Merged
  BY <1>6 DEF Merged, InCall, Measuring
<1>7. CASE FindNone \/ FindAmbiguous \/ Recover \/ PushNull
           \/ (\E class \in Class : PushVariable(class) \/ Return(class))
           \/ (\E f \in Func : Precall(f))
  BY <1>7 DEF FindNone, FindAmbiguous, Throw, Recover, PushNull, PushVariable, Return, Precall,
              InCall, Measuring
<1>8. CASE \/ \E f, g \in Func : Assign(f, g)
           \/ \E f \in Func, c \in Closure : \/ Define(f, c) \/ AddKnown(f, c)
                                             \/ AddRefused(f, c) \/ AddClosure(f, c)
  BY <1>8 DEF Assign, Define, AddKnown, AddRefused, AddClosure, Adding, Throw, InCall, Measuring
<1>9. CASE UNCHANGED vars
  BY <1>9 DEF vars, InCall, Measuring, Considered, Candidates, Current
<1>10. QED
  BY <1>1, <1>2, <1>3, <1>4, <1>5, <1>6, <1>7, <1>8, <1>9 DEF Next

\* The types, with the bounds of the loops of find_closure and get_cost.
THEOREM TypeInvariance == Spec => []TypeInv
<1>1. Init => TypeInv
  BY NoSearchType DEF Init, TypeInv, TypeOK, InCall, Measuring, NoMerge
<1>2. TypeInv /\ [Next]_vars => TypeInv'
  BY TypeStep, LoopStep DEF TypeInv
<1>3. QED
  BY <1>1, <1>2, PTL DEF Spec

\* Type correctness of functions, prepared calls and the locals of find_closure.
THEOREM TypeCorrect == Spec => []TypeOK
<1>1. TypeInv => TypeOK
  BY DEF TypeInv
<1>2. QED
  BY <1>1, TypeInvariance, PTL

------------------------------------------------------------------------------
(* The overloads of a function. *)

Overloads == SortedByArity /\ SignaturesDistinct /\ ReferenceConsistent

\* Inserting at the insertion point keeps a sorted sequence sorted.
LEMMA InsertSorted ==
    ASSUME NEW s \in Seq(Closure), NEW c \in Closure, NEW i \in 1..Len(s) + 1,
           IsInsertionPoint(s, c, i),
           \A j, k \in 1..Len(s) : j <= k => arg_count(s[j]) <= arg_count(s[k]),
           NEW j \in 1..Len(s) + 1, NEW k \in 1..Len(s) + 1, j <= k
    PROVE  arg_count(Insert(s, c, i)[j]) <= arg_count(Insert(s, c, i)[k])
<1> DEFINE t == Insert(s, c, i)
<1>1. Len(s) \in Nat /\ \A n \in 1..Len(s) : s[n] \in Closure /\ arg_count(s[n]) \in Nat
  BY LenProperties, ElementOfSeq, ArityType
<1>2. arg_count(c) \in Nat
  BY ArityType
<1>3. \A n \in 1..Len(s) + 1 : t[n] = IF n < i THEN s[n] ELSE IF n = i THEN c ELSE s[n - 1]
  BY InsertType
<1>4. \A n \in 1..i - 1 : n \in 1..Len(s) /\ arg_count(s[n]) <= arg_count(c)
  BY <1>1 DEF IsInsertionPoint
<1>5. \A n \in i..Len(s) : n \in 1..Len(s) /\ arg_count(c) <= arg_count(s[n])
  <2>1. SUFFICES ASSUME NEW n \in i..Len(s)
                 PROVE  n \in 1..Len(s) /\ arg_count(c) <= arg_count(s[n])
    OBVIOUS
  <2>2. /\ i \in 1..Len(s) /\ n \in 1..Len(s) /\ arg_count(c) < arg_count(s[i])
    BY <1>1 DEF IsInsertionPoint
  <2>3. arg_count(s[i]) <= arg_count(s[n])
    BY <2>2
  <2>4. arg_count(s[i]) \in Nat /\ arg_count(s[n]) \in Nat
    BY <1>1, <2>2
  <2>5. QED
    BY <1>2, <2>2, <2>3, <2>4
<1> HIDE DEF t
<1>6. CASE k < i
  <2>1. /\ j \in 1..Len(s) /\ k \in 1..Len(s) /\ t[j] = s[j] /\ t[k] = s[k]
    BY <1>1, <1>3, <1>6
  <2>2. QED
    BY <2>1 DEF t
<1>7. CASE j < i /\ k = i
  BY <1>1, <1>3, <1>4, <1>7 DEF t
<1>8. CASE j < i /\ k > i
  <2>1. t[j] = s[j] /\ t[k] = s[k - 1] /\ k - 1 \in 1..Len(s) /\ j \in 1..Len(s) /\ j <= k - 1
    BY <1>1, <1>3, <1>8
  <2>2. QED
    BY <2>1 DEF t
<1>9. CASE j = i /\ k = i
  BY <1>2, <1>3, <1>9 DEF t
<1>10. CASE j = i /\ k > i
  <2>1. t[j] = c /\ t[k] = s[k - 1] /\ k - 1 \in i..Len(s)
    BY <1>1, <1>3, <1>10
  <2>2. QED
    BY <1>5, <2>1 DEF t
<1>11. CASE j > i
  <2>1. /\ t[j] = s[j - 1] /\ t[k] = s[k - 1] /\ j - 1 \in 1..Len(s) /\ k - 1 \in 1..Len(s)
        /\ j - 1 <= k - 1
    BY <1>1, <1>3, <1>11
  <2>2. QED
    BY <2>1 DEF t
<1>12. QED
  BY <1>1, <1>6, <1>7, <1>8, <1>9, <1>10, <1>11

\* The elements of a sequence after an insertion, and how often they occur.
LEMMA InsertElements ==
    ASSUME NEW s \in Seq(Closure), NEW c \in Closure, NEW i \in 1..Len(s) + 1,
           \A n \in 1..Len(s) : Signature[s[n]] # Signature[c],
           \A j, k \in 1..Len(s) : Signature[s[j]] = Signature[s[k]] => j = k,
           NEW j \in 1..Len(s) + 1, NEW k \in 1..Len(s) + 1,
           Signature[Insert(s, c, i)[j]] = Signature[Insert(s, c, i)[k]]
    PROVE  j = k
<1> DEFINE t == Insert(s, c, i)
<1>1. Len(s) \in Nat
  BY LenProperties
<1>2. \A n \in 1..Len(s) + 1 : t[n] = IF n < i THEN s[n] ELSE IF n = i THEN c ELSE s[n - 1]
  BY InsertType
<1> DEFINE old(n) == IF n < i THEN n ELSE n - 1
<1>3. \A n \in 1..Len(s) + 1 : n # i => old(n) \in 1..Len(s) /\ t[n] = s[old(n)]
  BY <1>1, <1>2
<1>4. t[i] = c
  BY <1>2
<1>5. Signature[t[j]] = Signature[t[k]]
  OBVIOUS
<1> HIDE DEF t
<1>6. CASE j = i /\ k # i
  BY <1>3, <1>4, <1>5, <1>6
<1>7. CASE j # i /\ k = i
  BY <1>3, <1>4, <1>5, <1>7
<1>8. CASE j # i /\ k # i
  <2>1. /\ old(j) \in 1..Len(s) /\ old(k) \in 1..Len(s)
        /\ t[j] = s[old(j)] /\ t[k] = s[old(k)]
    BY <1>3, <1>8
  <2>3. Signature[s[old(j)]] = Signature[s[old(k)]]
    BY <1>5, <2>1
  <2>4. old(j) = old(k)
    <3> HIDE DEF old
    <3>1. QED
      BY <2>1, <2>3
  <2>5. QED
    BY <1>1, <1>8, <2>4
<1>9. QED
  BY <1>6, <1>7, <1>8

\* add_closure keeps the closures of a function sorted, distinct and consistent.
LEMMA AddClosureStep ==
    ASSUME TypeInv, Overloads, NEW f \in Func, NEW c \in Closure, AddClosure(f, c)
    PROVE  Overloads'
<1> DEFINE s == closures[f]
<1>1. PICK i \in 1..Len(s) + 1 : /\ IsInsertionPoint(s, c, i)
                                 /\ closures' = [closures EXCEPT ![f] = Insert(@, c, i)]
  BY DEF AddClosure
<1> DEFINE t == Insert(s, c, i)
<1>2. s \in Seq(Closure) /\ Len(s) \in Nat /\ DOMAIN s = 1..Len(s)
  <2>1. s \in Seq(Closure)
    BY DEF TypeInv, TypeOK
  <2>2. QED
    BY <2>1, LenProperties
<1>3. /\ t \in Seq(Closure) /\ DOMAIN t = 1..Len(s) + 1
      /\ \A j \in 1..Len(s) + 1 : t[j] = IF j < i THEN s[j] ELSE IF j = i THEN c ELSE s[j - 1]
  <2> HIDE DEF s
  <2>1. Insert(s, c, i) \in Seq(Closure) /\ DOMAIN Insert(s, c, i) = 1..Len(s) + 1
        /\ \A j \in 1..Len(s) + 1 :
             Insert(s, c, i)[j] = IF j < i THEN s[j] ELSE IF j = i THEN c ELSE s[j - 1]
    BY <1>2, InsertType
  <2> HIDE DEF t
  <2>2. t = Insert(s, c, i)
    BY DEF t
  <2>3. QED
    BY <2>1, <2>2
<1>4. closures'[f] = t /\ \A g \in Func \ {f} : closures'[g] = closures[g]
  BY <1>1 DEF TypeInv, TypeOK
<1>5. SortedByArity'
  <2>1. \A j, k \in 1..Len(s) : j <= k => arg_count(s[j]) <= arg_count(s[k])
    BY <1>2 DEF Overloads, SortedByArity
  <2>2. \A j, k \in DOMAIN t : j <= k => arg_count(t[j]) <= arg_count(t[k])
    <3> HIDE DEF s
    <3>1. QED
      BY <1>1, <1>2, <1>3, <2>1, InsertSorted
  <2>3. QED
    <3> HIDE DEF t
    <3>1. QED
      BY <1>4, <2>2 DEF Overloads, SortedByArity
<1>6. SignaturesDistinct'
  <2>1. \A j, k \in 1..Len(s) : Signature[s[j]] = Signature[s[k]] => j = k
    BY <1>2 DEF Overloads, SignaturesDistinct
  <2>2. \A n \in 1..Len(s) : Signature[s[n]] # Signature[c]
    BY <1>2 DEF AddClosure, Overrides, Elements
  <2>3. ASSUME NEW j \in DOMAIN t, NEW k \in DOMAIN t, Signature[t[j]] = Signature[t[k]]
        PROVE  j = k
    <3>1. j \in 1..Len(s) + 1 /\ k \in 1..Len(s) + 1
      BY <1>3
    <3> HIDE DEF s
    <3>2. QED
      BY <1>2, <2>1, <2>2, <2>3, <3>1, InsertElements
  <2>4. QED
    <3> HIDE DEF t
    <3>1. QED
      BY <1>4, <2>3 DEF Overloads, SignaturesDistinct
<1>7. ReferenceConsistent'
  <2>1. /\ max_argc \in [Func -> Nat] /\ ref_flags \in [Func -> SUBSET Nat]
        /\ arg_count(c) \in Nat
    BY ArityType DEF TypeInv, TypeOK
  <2>2. Consistent(f, c)
    BY DEF AddClosure
  <2>3. IF arg_count(c) > max_argc[f]
        THEN /\ ref_flags' = [ref_flags EXCEPT ![f] = RefFlags[c]]
             /\ max_argc' = [max_argc EXCEPT ![f] = arg_count(c)]
        ELSE UNCHANGED <<ref_flags, max_argc>>
    BY DEF AddClosure
  <2>4. \A g \in Func \ {f} : ref_flags'[g] = ref_flags[g] /\ max_argc'[g] = max_argc[g]
    BY <2>1, <2>3
  <2>5. /\ arg_count(c) <= max_argc'[f] /\ max_argc[f] <= max_argc'[f]
        /\ \A n \in 1..arg_count(c) : n \in RefFlags[c] <=> n \in ref_flags'[f]
    <3>1. CASE arg_count(c) > max_argc[f]
      BY <2>1, <2>3, <3>1
    <3>2. CASE ~(arg_count(c) > max_argc[f])
      <4>1. ref_flags' = ref_flags /\ max_argc' = max_argc /\ arg_count(c) <= max_argc[f]
        BY <2>1, <2>3, <3>2
      <4>2. QED
        BY <2>1, <2>2, <4>1 DEF Consistent
    <3>3. QED
      BY <3>1, <3>2
  <2>6. \A n \in 1..max_argc[f] : n \in ref_flags[f] <=> n \in ref_flags'[f]
    <3>1. CASE arg_count(c) > max_argc[f]
      <4>1. \A n \in 1..max_argc[f] : n \in 1..arg_count(c) /\ n <= max_argc[f]
        BY <2>1, <3>1
      <4>2. QED
        BY <2>2, <2>5, <4>1 DEF Consistent
    <3>2. CASE ~(arg_count(c) > max_argc[f])
      BY <2>3, <3>2
    <3>3. QED
      BY <3>1, <3>2
  <2>7. ASSUME NEW d \in Closure, d \in Elements(s)
        PROVE  /\ arg_count(d) <= max_argc'[f]
               /\ \A n \in 1..arg_count(d) : n \in RefFlags[d] <=> n \in ref_flags'[f]
    <3>1. /\ arg_count(d) \in Nat /\ arg_count(d) <= max_argc[f]
          /\ \A n \in 1..arg_count(d) : n \in RefFlags[d] <=> n \in ref_flags[f]
      BY <2>7, ArityType DEF Overloads, ReferenceConsistent, Elements
    <3>2. max_argc'[f] \in Nat
      BY <2>1, <2>3
    <3>3. \A n \in 1..arg_count(d) : n \in 1..max_argc[f]
      BY <2>1, <3>1
    <3>4. QED
      BY <2>1, <2>5, <2>6, <3>1, <3>2, <3>3
  <2>8. \A n \in DOMAIN t : t[n] = c \/ (t[n] \in Closure /\ t[n] \in Elements(s))
    <3>1. SUFFICES ASSUME NEW n \in 1..Len(s) + 1, n # i
                   PROVE  t[n] \in Closure /\ t[n] \in Elements(s)
      BY <1>3
    <3>2. PICK m \in 1..Len(s) : t[n] = s[m]
      <4>1. CASE n < i
        BY <1>2, <1>3, <4>1
      <4>2. CASE n > i
        <5>1. n - 1 \in 1..Len(s) /\ t[n] = s[n - 1]
          BY <1>2, <1>3, <4>2
        <5>2. QED
          BY <5>1
      <4>3. QED
        BY <1>2, <3>1, <4>1, <4>2
    <3>3. QED
      BY <1>2, <3>2, ElementOfSeq DEF Elements
  <2>9. \A n \in DOMAIN t :
           /\ arg_count(t[n]) <= max_argc'[f]
           /\ \A m \in 1..arg_count(t[n]) : m \in RefFlags[t[n]] <=> m \in ref_flags'[f]
    <3> HIDE DEF t, s
    <3>1. QED
      BY <2>5, <2>7, <2>8
  <2>10. QED
    <3> HIDE DEF t
    <3>1. QED
      BY <1>4, <2>4, <2>9 DEF Overloads, ReferenceConsistent
<1>8. QED
  BY <1>5, <1>6, <1>7 DEF Overloads

\* Every other step leaves the functions alone.
LEMMA OverloadsStep ==
    ASSUME TypeInv, Overloads, [Next]_vars
    PROVE  Overloads'
<1>1. CASE \E f \in Func, c \in Closure : AddClosure(f, c)
  BY <1>1, AddClosureStep
<1>2. CASE UNCHANGED function
  BY <1>2 DEF function, Overloads, SortedByArity, SignaturesDistinct, ReferenceConsistent
<1>3. UNCHANGED function \/ \E f \in Func, c \in Closure : AddClosure(f, c)
  BY DEF Next, vars, function, Define, AddKnown, AddRefused, Assign, Merged, Precall, PushVariable,
         Return, PushNull, Call, SkipShorter, Measure, AddDistance, Mismatch, Compare,
         FindAmbiguous, FindNone, FindOne, Recover
<1>4. QED
  BY <1>1, <1>2, <1>3

\* The closures of each function stay sorted, distinct and consistent.
THEOREM OverloadsInvariance == Spec => []Overloads
<1>1. Init => Overloads
  BY DEF Init, Overloads, SortedByArity, SignaturesDistinct, ReferenceConsistent
<1>2. TypeInv /\ Overloads /\ [Next]_vars => Overloads'
  BY OverloadsStep
<1>3. QED
  BY <1>1, <1>2, TypeInvariance, PTL DEF Spec

\* However definitions and assignments follow each other, find_closure may stop at the
\* first closure that has more parameters than there are arguments.
THEOREM Sorted == Spec => []SortedByArity
<1>1. Overloads => SortedByArity
  BY DEF Overloads
<1>2. QED
  BY <1>1, OverloadsInvariance, PTL

\* No two closures of a function have the same signature.
THEOREM Distinct == Spec => []SignaturesDistinct
<1>1. Overloads => SignaturesDistinct
  BY DEF Overloads
<1>2. QED
  BY <1>1, OverloadsInvariance, PTL

\* All closures of a function take their arguments by value and by reference as its
\* flags say, also after a merge that an error has ended halfway.
THEOREM Consistency == Spec => []ReferenceConsistent
<1>1. Overloads => ReferenceConsistent
  BY DEF Overloads
<1>2. QED
  BY <1>1, OverloadsInvariance, PTL

------------------------------------------------------------------------------
(* How variables are passed. *)

\* Every variable among args is passed as flags say.
PassedBy(args, flags) == \A i \in DOMAIN args : args[i].is_var => (args[i].by_ref <=> i \in flags)

\* As long as no argument is the result of a call, the flags in the frame are those
\* of the function called: nothing else has been executed since Precall.
Prepared ==
    calls # <<>> /\ pc \in {"evaluate", "find", "cost"} /\ Plain(Current.args) =>
       /\ frame_flags = ref_flags[Current.func]
       /\ PassedBy(Current.args, ref_flags[Current.func])

\* The best closure so far is one of the function's, with the right arity.
Eligible ==
    pc \in {"find", "cost"} /\ search.candidate # NoClosure =>
       /\ search.candidate \in Elements(Candidates)
       /\ arg_count(search.candidate) = Len(Current.args)

\* While the callee runs, also through the definitions it executes, which may change
\* the flags of the function.
Selected ==
    calls # <<>> /\ pc \in {"run", "merge"} /\ Plain(Current.args) =>
       PassedBy(Current.args, RefFlags[Current.closure])

PassInv == Prepared /\ Eligible /\ Selected

\* The last of the calls: the effect of an assignment to one of its fields.
LEMMA LastCall ==
    ASSUME TypeOK, calls # <<>>
    PROVE  /\ Len(calls) \in Nat \ {0} /\ Current = calls[Len(calls)]
           /\ Current \in PreparedCall
           /\ DOMAIN Current.args = 1..Len(Current.args)
           /\ Len(Current.args) \in Nat
           /\ \A r : LET s == [calls EXCEPT ![Len(calls)] = r]
                     IN  Len(s) = Len(calls) /\ s # <<>> /\ Last(s) = r
<1>1. calls \in Seq(PreparedCall)
  BY DEF TypeOK
<1>2. Len(calls) \in Nat \ {0} /\ DOMAIN calls = 1..Len(calls)
  BY <1>1, EmptySeq, LenProperties
<1>3. Current = calls[Len(calls)] /\ Current \in PreparedCall
  BY <1>1, <1>2, ElementOfSeq DEF Current, Last
<1>4. Current.args \in Seq(Argument)
  BY <1>3 DEF PreparedCall
<1>5. ASSUME NEW r
      PROVE  LET s == [calls EXCEPT ![Len(calls)] = r]
             IN  Len(s) = Len(calls) /\ s # <<>> /\ Last(s) = r
  <2> DEFINE s == [calls EXCEPT ![Len(calls)] = r]
  <2>1. DOMAIN s = 1..Len(calls) /\ s[Len(calls)] = r
    BY <1>2
  <2>2. Len(s) = Len(calls)
    BY <1>1, <1>2
  <2>3. s # <<>>
    BY <1>2, <2>2
  <2>4. QED
    BY <2>1, <2>2, <2>3 DEF Last
<1>6. QED
  BY <1>2, <1>3, <1>4, <1>5, LenProperties

\* Evaluating one more argument by the flags keeps the arguments passed by them.
LEMMA PushStep ==
    ASSUME TypeOK, PassInv, pc = "evaluate", calls # <<>>, NEW a \in Argument,
           a.is_var => (a.by_ref <=> Len(Current.args) + 1 \in frame_flags),
           PushArgument(a), UNCHANGED <<function, pc, frame_flags, search>>
    PROVE  PassInv'
<1> DEFINE r == Current
           args == Append(r.args, a)
<1>1. /\ r = calls[Len(calls)] /\ r \in PreparedCall
      /\ DOMAIN r.args = 1..Len(r.args) /\ Len(r.args) \in Nat
  BY LastCall
<1>2. /\ Len(args) = Len(r.args) + 1 /\ DOMAIN args = 1..Len(r.args) + 1
      /\ \A i \in 1..Len(r.args) : args[i] = r.args[i]
      /\ args[Len(r.args) + 1] = a
  <2>1. r.args \in Seq(Argument)
    BY <1>1 DEF PreparedCall
  <2>2. QED
    BY <2>1, AppendProperties, LenProperties
<1>3. [r EXCEPT !.args = args].args = args /\ [r EXCEPT !.args = args].func = r.func
  BY <1>1 DEF PreparedCall
<1>4. calls' = [calls EXCEPT ![Len(calls)] = [r EXCEPT !.args = args]]
  BY <1>1 DEF PushArgument
<1>5. calls' # <<>> /\ Current' = [r EXCEPT !.args = args]
  BY <1>4, LastCall DEF Current
<1>6. Current'.args = args /\ Current'.func = r.func
  BY <1>3, <1>5
<1>7. Plain(args) => PassedBy(args, frame_flags) /\ frame_flags = ref_flags[r.func]
  <2> HIDE DEF args
  <2>1. Plain(args) => Plain(r.args)
    BY <1>1, <1>2 DEF Plain
  <2>2. Plain(args) => PassedBy(r.args, frame_flags) /\ frame_flags = ref_flags[r.func]
    BY <2>1 DEF PassInv, Prepared
  <2>3. QED
    BY <1>1, <1>2, <2>2 DEF PassedBy
<1>8. QED
  <2> HIDE DEF args, r
  <2>1. QED
    BY <1>5, <1>6, <1>7 DEF PassInv, Prepared, Eligible, Selected, function

\* FindOne selects a closure that takes the arguments as they were passed.
LEMMA SelectStep ==
    ASSUME TypeInv, Overloads, PassInv, FindOne
    PROVE  PassInv'
<1> DEFINE r == Current
           c == search.candidate
<1>1. calls # <<>> /\ c \in Closure /\ pc = "find" /\ c # NoClosure
  BY DEF FindOne, Found, TypeInv, InCall, TypeOK, Locals
<1>2. /\ r = calls[Len(calls)] /\ r \in PreparedCall
      /\ DOMAIN r.args = 1..Len(r.args)
  BY <1>1, LastCall DEF TypeInv
<1>3. c \in Elements(closures[r.func]) /\ arg_count(c) = Len(r.args)
  BY <1>1 DEF PassInv, Eligible, Candidates
<1>4. \A n \in 1..arg_count(c) : n \in RefFlags[c] <=> n \in ref_flags[r.func]
  <2>1. r.func \in Func
    BY <1>2 DEF PreparedCall
  <2>2. QED
    BY <1>3, <2>1 DEF Overloads, ReferenceConsistent, Elements
<1>5. Plain(r.args) => PassedBy(r.args, ref_flags[r.func])
  BY <1>1 DEF PassInv, Prepared
<1>6. Plain(r.args) => PassedBy(r.args, RefFlags[c])
  BY <1>2, <1>3, <1>4, <1>5 DEF PassedBy
<1>7. [r EXCEPT !.closure = c].args = r.args /\ [r EXCEPT !.closure = c].closure = c
  BY <1>2 DEF PreparedCall
<1>8. calls' = [calls EXCEPT ![Len(calls)] = [r EXCEPT !.closure = c]]
  BY <1>2 DEF FindOne
<1>9. Current' = [r EXCEPT !.closure = c]
  BY <1>1, <1>8, LastCall DEF Current, TypeInv
<1>10. Current'.args = r.args /\ Current'.closure = c
  BY <1>7, <1>9
<1>11. pc' = "run"
  BY DEF FindOne
<1>12. QED
  <2> HIDE DEF r, c
  <2>1. QED
    BY <1>6, <1>10, <1>11 DEF PassInv, Prepared, Eligible, Selected

\* The result of a call, when it becomes an argument, is one.
LEMMA ReturnStep ==
    ASSUME TypeInv, PassInv, NEW class \in Class, Return(class)
    PROVE  PassInv'
<1> DEFINE n == Len(calls) - 1
           outer == SubSeq(calls, 1, n)
           result == Temporary(class)
<1>1. calls # <<>> /\ calls \in Seq(PreparedCall) /\ Len(calls) \in Nat \ {0}
  <2>1. TypeOK /\ calls # <<>>
    BY DEF Return, TypeInv, InCall
  <2>2. QED
    BY <2>1, LastCall DEF TypeOK
<1>2. /\ outer \in Seq(PreparedCall) /\ Len(outer) = n /\ n \in Nat
      /\ n > 0 => outer[n] \in PreparedCall
  <2>1. n \in Nat /\ n <= Len(calls) /\ \A k \in 1..Len(calls) : calls[k] \in PreparedCall
    BY <1>1, ElementOfSeq
  <2> HIDE DEF n
  <2>2. outer \in Seq(PreparedCall) /\ Len(outer) = n
    BY <1>1, <2>1, SubSeqProperties
  <2>3. n > 0 => n \in 1..Len(outer)
    BY <2>1, <2>2
  <2>4. QED
    BY <2>1, <2>2, <2>3, ElementOfSeq
<1>3. pc' = "evaluate"
  BY DEF Return
<1>4. CASE outer = <<>>
  <2>1. calls' = <<>>
    BY <1>4 DEF Return
  <2>2. QED
    BY <1>3, <2>1 DEF PassInv, Prepared, Eligible, Selected
<1>5. CASE outer # <<>>
  <2> DEFINE r == outer[Len(outer)]
             args == Append(r.args, result)
  <2>1. Len(outer) \in Nat \ {0}
    BY <1>2, <1>5, EmptySeq
  <2>2. r \in PreparedCall /\ r.args \in Seq(Argument)
    BY <1>2, <2>1 DEF PreparedCall
  <2>3. calls' = [outer EXCEPT ![Len(outer)] = [r EXCEPT !.args = args]]
    BY <1>5 DEF Return
  <2>4. Len(calls') = Len(outer) /\ calls'[Len(outer)] = [r EXCEPT !.args = args]
    <3> HIDE DEF args, r, outer
    <3>1. QED
      BY <1>2, <2>1, <2>3
  <2>5. Current'.args = args
    BY <2>2, <2>4 DEF Current, Last, PreparedCall
  <2>6. ~Plain(args)
    <3>1. result \in Argument /\ ~result.is_var /\ result.class # Null
      BY NullIsNoClass DEF Temporary, Argument
    <3>2. Len(r.args) + 1 \in DOMAIN args /\ args[Len(r.args) + 1] = result
      <4> HIDE DEF r, result
      <4>1. /\ Len(r.args) \in Nat /\ args \in Seq(Argument) /\ Len(args) = Len(r.args) + 1
            /\ args[Len(r.args) + 1] = result
        BY <2>2, <3>1, AppendProperties, LenProperties
      <4>2. QED
        BY <4>1, LenProperties
    <3>3. QED
      BY <3>1, <3>2 DEF Plain
  <2>7. QED
    BY <1>3, <2>5, <2>6 DEF PassInv, Prepared, Eligible, Selected
<1>6. QED
  BY <1>4, <1>5

\* Every step keeps the invariant.
LEMMA PassStep ==
    ASSUME TypeInv, Overloads, PassInv, [Next]_vars
    PROVE  PassInv'
<1> USE DEF PassInv
<1>1. ASSUME NEW f \in Func, Precall(f)
      PROVE  PassInv'
  <2> DEFINE r == [func |-> f, args |-> <<>>, closure |-> NoClosure]
  <2>1. /\ calls' = Append(calls, r) /\ frame_flags' = ref_flags[f]
        /\ pc' = "evaluate" /\ ref_flags' = ref_flags
    BY <1>1 DEF Precall, function
  <2>2. r \in PreparedCall
    BY DEF PreparedCall
  <2>3. Len(calls') = Len(calls) + 1 /\ calls'[Len(calls')] = r
    <3> HIDE DEF r
    <3>1. calls \in Seq(PreparedCall)
      BY DEF TypeInv, TypeOK
    <3>2. Len(calls') = Len(calls) + 1 /\ calls'[Len(calls) + 1] = r
      BY <2>1, <2>2, <3>1, AppendProperties
    <3>3. QED
      BY <3>2
  <2>4. Current'.func = f /\ Current'.args = <<>>
    BY <2>3 DEF Current, Last
  <2>5. PassedBy(Current'.args, ref_flags'[f])
    BY <2>4 DEF PassedBy
  <2>6. QED
    BY <1>1, <2>1, <2>4, <2>5 DEF Prepared, Eligible, Selected
<1>2. ASSUME NEW class \in Class, PushVariable(class)
      PROVE  PassInv'
  <2> DEFINE flag == Len(Current.args) + 1 \in frame_flags
             a == [class |-> class, is_var |-> TRUE, by_ref |-> flag]
  <2>1. a \in Argument
    <3>1. flag \in BOOLEAN
      OBVIOUS
    <3> HIDE DEF flag
    <3>2. QED
      BY <3>1 DEF Argument
  <2>2. a.is_var => (a.by_ref <=> Len(Current.args) + 1 \in frame_flags)
    OBVIOUS
  <2>3. PushArgument(a) /\ pc = "evaluate" /\ calls # <<>>
    BY <1>2 DEF PushVariable, CanTakeArgument
  <2>4. UNCHANGED <<function, pc, frame_flags, search>>
    BY <1>2 DEF PushVariable
  <2> HIDE DEF a
  <2>5. QED
    BY <2>1, <2>2, <2>3, <2>4, PushStep DEF TypeInv
<1>3. CASE PushNull
  <2>1. Temporary(Null) \in Argument /\ ~Temporary(Null).is_var
    BY DEF Temporary, Argument
  <2>2. QED
    BY <1>3, <2>1, PushStep DEF PushNull, CanTakeArgument, TypeInv
<1>4. CASE Call
  <2>1. search' = NoSearch /\ pc = "evaluate" /\ pc' = "find"
    BY <1>4 DEF Call
  <2>2. UNCHANGED <<closures, ref_flags, calls, frame_flags>>
    BY <1>4 DEF Call, function
  <2>3. QED
    BY <2>1, <2>2 DEF Prepared, Eligible, Selected, NoSearch, Current
<1>5. CASE SkipShorter \/ Measure \/ AddDistance \/ Mismatch
  <2>1. search'.candidate = search.candidate
    BY <1>5 DEF SkipShorter, Measure, AddDistance, Mismatch, TypeInv, TypeOK, Locals
  <2>2. UNCHANGED <<closures, ref_flags, calls, frame_flags>>
    BY <1>5 DEF SkipShorter, Measure, AddDistance, Mismatch, function
  <2>3. pc \in {"find", "cost"} /\ pc' \in {"find", "cost"}
    BY <1>5 DEF SkipShorter, Measure, AddDistance, Mismatch
  <2>4. QED
    BY <2>1, <2>2, <2>3 DEF Prepared, Eligible, Selected, Current, Candidates
<1>6. CASE Compare
  <2>1. UNCHANGED <<closures, ref_flags, calls, frame_flags>>
    BY <1>6 DEF Compare, function
  <2>2. pc = "cost" /\ pc' = "find"
    BY <1>6 DEF Compare
  <2>3. search'.candidate \in {search.candidate, Considered}
    BY <1>6 DEF Compare, TypeInv, TypeOK, Locals
  <2>4. Considered \in Elements(Candidates) /\ arg_count(Considered) = Len(Current.args)
    <3>1. Candidates \in Seq(Closure)
      BY <2>2, CurrentType DEF TypeInv, InCall
    <3>2. search.next \in DOMAIN Candidates
      BY <2>2, <3>1, LenProperties DEF TypeInv, Measuring, TypeOK, Locals
    <3>3. QED
      BY <2>2, <3>2 DEF TypeInv, Measuring, Considered, Elements
  <2>5. QED
    BY <2>1, <2>2, <2>3, <2>4 DEF Prepared, Eligible, Selected, Current, Candidates
<1>7. CASE FindOne
  BY <1>7, SelectStep
<1>8. CASE FindNone \/ FindAmbiguous
  BY <1>8 DEF FindNone, FindAmbiguous, Throw, Prepared, Eligible, Selected
<1>9. ASSUME NEW class \in Class, Return(class)
      PROVE  PassInv'
  BY <1>9, ReturnStep
<1>10. CASE Recover
  <2>1. calls' = <<>> /\ pc' = "evaluate"
    BY <1>10 DEF Recover
  <2>2. QED
    BY <2>1, EmptySeq DEF Prepared, Eligible, Selected
<1>11. ASSUME /\ calls' = calls
              /\ calls = <<>> \/ pc \in {"run", "merge"}
              /\ pc' \in {"run", "merge", "error"} \/ (calls = <<>> /\ pc' = "evaluate")
       PROVE  PassInv'
  BY <1>11 DEF Prepared, Eligible, Selected, Current
<1>12. CASE Merged
  BY <1>12, <1>11 DEF Merged
<1>13. ASSUME NEW f \in Func, NEW c \in Closure,
              Define(f, c) \/ AddKnown(f, c) \/ AddRefused(f, c) \/ AddClosure(f, c)
       PROVE  PassInv'
  <2>1. CASE Define(f, c)
    BY <2>1, <1>11 DEF Define, AtStatement
  <2>2. CASE AddKnown(f, c)
    BY <2>2, <1>11 DEF AddKnown, Adding
  <2>3. CASE AddRefused(f, c)
    BY <2>3, <1>11 DEF AddRefused, Adding, Throw
  <2>4. CASE AddClosure(f, c)
    BY <2>4, <1>11 DEF AddClosure, Adding
  <2>5. QED
    BY <1>13, <2>1, <2>2, <2>3, <2>4
<1>14. ASSUME NEW f \in Func, NEW g \in Func, Assign(f, g)
       PROVE  PassInv'
  BY <1>14, <1>11 DEF Assign, AtStatement
<1>15. CASE UNCHANGED vars
  BY <1>15 DEF vars, Prepared, Eligible, Selected, Current, Candidates
<1>16. CASE Next
  BY <1>16, <1>1, <1>2, <1>3, <1>4, <1>5, <1>6, <1>7, <1>8, <1>9, <1>10, <1>12, <1>13, <1>14
  DEF Next
<1>17. QED
  BY <1>15, <1>16

\* A call passes its variables by reference exactly to the closures that take them by
\* reference, unless an argument is the result of another call.
THEOREM Passing == Spec => []PassedAsDeclared
<1>1. Init => PassInv
  BY DEF Init, PassInv, Prepared, Eligible, Selected
<1>2. TypeInv /\ Overloads /\ PassInv /\ [Next]_vars => PassInv'
  BY PassStep
<1>3. TypeInv /\ PassInv => PassedAsDeclared
  BY DEF TypeInv, InCall, PassInv, Selected, PassedBy, PassedAsDeclared, Running, AsDeclared
<1>4. QED
  BY <1>1, <1>2, <1>3, TypeInvariance, OverloadsInvariance, PTL DEF Spec

------------------------------------------------------------------------------
(* find_closure selects the only cheapest overload, whatever the classes, the *)
(* signatures and the order of the definitions are.                           *)

\* What get_cost sums up, after each argument.
Sums(c, args) ==
    LET cost[i \in 0..Len(args)] ==
          IF i = 0 THEN 0 ELSE cost[i - 1] + get_distance(args[i], Signature[c][i])
    IN  cost

Cost(i) == get_cost(Candidates[i], Current.args)

\* The candidates before the next one that accept the arguments.
Tried == {i \in 1..search.next - 1 : /\ i \in DOMAIN Candidates
                                     /\ arg_count(Candidates[i]) = Len(Current.args)
                                     /\ Cost(i) # NoMatch}

\* find_closure has the best of the candidates that it has tried, and knows whether
\* another one is as good.
BestOfTried ==
    /\ \A i \in Tried : Cost(i) \in Nat
    /\ Tried = {} => search.candidate = NoClosure /\ search.cost = NoMatch /\ ~search.conflict
    /\ Tried # {} =>
         \E i \in Tried : /\ search.candidate = Candidates[i]
                          /\ search.cost = Cost(i)
                          /\ \A j \in Tried : search.cost <= Cost(j)
                          /\ search.conflict <=> \E j \in Tried : j # i /\ Cost(j) = search.cost

\* get_cost has summed up the distances of the arguments that it has seen, all of
\* which the candidate accepts.
Summing ==
    /\ search.arg - 1 <= Len(Current.args)
    /\ \A i \in 1..search.arg - 1 : Matches(Current.args[i], Signature[Considered][i])
    /\ search.sum = Sums(Considered, Current.args)[search.arg - 1]

\* An error stops find_closure at the end of its search.
Stopped ==
    /\ calls # <<>>
    /\ SearchEnds
    /\ error = "ambiguous" => search.conflict
    /\ error = "unresolved" => search.candidate = NoClosure

Searching ==
    /\ pc # "error" => error = "none"
    /\ pc \in {"find", "cost"} => BestOfTried
    /\ pc = "cost" => Summing
    /\ pc = "error" /\ error \in {"ambiguous", "unresolved"} => Stopped /\ BestOfTried

------------------------------------------------------------------------------
(* The sum of the distances.  The recursive function of get_cost exists for   *)
(* any number of arguments, by induction: there is no least number for which  *)
(* it does not.                                                               *)

\* There is a function that sums up as many values as one likes.
LEMMA SumExists ==
    ASSUME NEW n \in Nat, NEW d
    PROVE  \E g : g = [i \in 0..n |-> IF i = 0 THEN 0 ELSE g[i - 1] + d[i]]
<1> DEFINE IsSum(g, m) == g = [i \in 0..m |-> IF i = 0 THEN 0 ELSE g[i - 1] + d[i]]
           T == {m \in Nat : ~\E g : IsSum(g, m)}
<1>1. SUFFICES ASSUME T # {} PROVE FALSE
  OBVIOUS
<1>2. PICK m \in T : \A k \in T : m <= k
  <2>1. T \in SUBSET Nat
    OBVIOUS
  <2> HIDE DEF T
  <2>2. QED
    BY <1>1, <2>1, LeastNumber
<1>3. CASE m = 0
  <2> DEFINE g == [i \in 0..0 |-> 0]
  <2>1. IsSum(g, 0)
    OBVIOUS
  <2>2. QED
    BY <1>3, <2>1
<1>4. CASE m # 0
  <2>1. m \in Nat /\ m - 1 \in Nat /\ m - 1 \notin T
    BY <1>2, <1>4
  <2>2. PICK h : IsSum(h, m - 1)
    BY <2>1
  <2> DEFINE g == [i \in 0..m |-> IF i = m THEN h[m - 1] + d[m] ELSE h[i]]
  <2>3. \A i \in 0..m - 1 : h[i] = IF i = 0 THEN 0 ELSE h[i - 1] + d[i]
    BY <2>2
  <2>4. \A i \in 0..m : g[i] = IF i = 0 THEN 0 ELSE g[i - 1] + d[i]
    <3>1. TAKE i \in 0..m
    <3>2. CASE i = m
      BY <1>4, <2>1, <3>2
    <3>3. CASE i # m
      <4>1. i \in 0..m - 1 /\ (i # 0 => i - 1 \in 0..m /\ i - 1 # m)
        BY <2>1, <3>3
      <4>2. QED
        BY <2>3, <3>3, <4>1
    <3>4. QED
      BY <3>2, <3>3
  <2>5. g = [i \in 0..m |-> g[i]]
    OBVIOUS
  <2> HIDE DEF g
  <2>6. IsSum(g, m)
    BY <2>4, <2>5
  <2>7. QED
    BY <1>2, <2>6
<1>5. QED
  BY <1>3, <1>4

\* What get_cost adds for the i-th argument.
Added(c, args) == [i \in 1..Len(args) |-> get_distance(args[i], Signature[c][i])]

\* get_cost starts with 0, and adds the distance of each argument.
LEMMA SumsStep ==
    ASSUME NEW c, NEW args, Len(args) \in Nat
    PROVE  /\ Sums(c, args)[0] = 0
           /\ \A i \in 1..Len(args) :
                Sums(c, args)[i] = Sums(c, args)[i - 1] + get_distance(args[i], Signature[c][i])
<1> DEFINE n == Len(args)
           d == Added(c, args)
           IsCost(g) ==
             g = [i \in 0..n |-> IF i = 0 THEN 0 ELSE g[i - 1] + get_distance(args[i], Signature[c][i])]
           s == Sums(c, args)
<1>1. PICK g : g = [i \in 0..n |-> IF i = 0 THEN 0 ELSE g[i - 1] + d[i]]
  <2> HIDE DEF d
  <2>1. QED
    BY SumExists
<1>2. \A i \in 0..n : i # 0 => d[i] = get_distance(args[i], Signature[c][i])
  BY DEF Added
<1>3. IsCost(g)
  <2> HIDE DEF d
  <2>1. QED
    BY <1>1, <1>2
<1>4. s = CHOOSE f : IsCost(f)
  BY DEF Sums
<1> HIDE DEF s
<1>5. IsCost(s)
  <2> HIDE DEF IsCost
  <2>1. QED
    BY <1>3, <1>4
<1>6. s[0] = 0
  BY <1>5
<1>7. \A i \in 1..n : s[i] = s[i - 1] + get_distance(args[i], Signature[c][i])
  BY <1>5
<1>8. QED
  BY <1>6, <1>7 DEF s

\* get_cost is the sum of all distances if every argument matches.
LEMMA CostIs ==
    ASSUME NEW c, NEW args
    PROVE  get_cost(c, args) = IF \A i \in DOMAIN args : Matches(args[i], Signature[c][i])
                               THEN Sums(c, args)[Len(args)] ELSE NoMatch
BY DEF get_cost, Sums

------------------------------------------------------------------------------
(* The steps of find_closure. *)

\* The candidates of a search, and their costs, are those of the call.
LEMMA SearchFrame ==
    ASSUME UNCHANGED <<closures, calls>>
    PROVE  /\ Candidates' = Candidates /\ Current' = Current
           /\ \A i : Cost(i)' = Cost(i)
BY DEF Candidates, Current, Cost

\* The same candidates have been tried, with the same outcome.
LEMMA BestKept ==
    ASSUME UNCHANGED <<closures, calls>>, BestOfTried, Tried' = Tried,
           search'.candidate = search.candidate, search'.cost = search.cost,
           search'.conflict = search.conflict
    PROVE  BestOfTried'
<1>1. Candidates' = Candidates /\ \A i : Cost(i)' = Cost(i)
  BY SearchFrame
<1>2. QED
  BY <1>1 DEF BestOfTried

\* find_closure goes on to the next candidate.
LEMMA TriedNext ==
    ASSUME TypeInv, UNCHANGED <<closures, calls>>, calls # <<>>,
           search.next <= Len(Candidates), search'.next = search.next + 1
    PROVE  Tried' = Tried \cup IF arg_count(Considered) = Len(Current.args) /\ Cost(search.next) # NoMatch
                               THEN {search.next} ELSE {}
<1>1. Candidates' = Candidates /\ Current' = Current /\ \A i : Cost(i)' = Cost(i)
  BY SearchFrame
<1>2. search.next \in Nat \ {0} /\ Candidates \in Seq(Closure)
  BY CurrentType DEF TypeInv, TypeOK, Locals
<1>3. search.next \in DOMAIN Candidates /\ 1..search'.next - 1 = 1..search.next - 1 \cup {search.next}
  BY <1>2
<1>4. QED
  BY <1>1, <1>3 DEF Tried, Considered

\* get_cost returns what it has summed up.
LEMMA Measured ==
    ASSUME TypeInv, Summing, pc = "cost", search.arg > Len(Current.args)
    PROVE  Cost(search.next) = search.sum /\ search.sum \in Nat
<1> DEFINE args == Current.args
<1>1. Current \in PreparedCall /\ search.arg \in Nat \ {0} /\ search.sum \in Nat
  BY CurrentType DEF TypeInv, TypeOK, InCall, Locals
<1>2. args \in Seq(Argument)
  BY <1>1 DEF PreparedCall
<1> HIDE DEF args
<1>3. Len(args) \in Nat /\ DOMAIN args = 1..Len(args)
  BY <1>2, LenProperties
<1>4. search.arg - 1 = Len(args)
  BY <1>1, <1>3 DEF Summing, args
<1>5. \A i \in DOMAIN args : Matches(args[i], Signature[Considered][i])
  BY <1>3, <1>4 DEF Summing, args
<1>6. get_cost(Considered, args) = Sums(Considered, args)[Len(args)]
  BY <1>5, CostIs
<1>7. QED
  BY <1>1, <1>4, <1>6 DEF Summing, Cost, Considered, args

\* Candidates with too few parameters are skipped, and so are those that an argument
\* does not match.
LEMMA SkipSearch ==
    ASSUME TypeInv, Searching, SkipShorter \/ Mismatch
    PROVE  Searching'
<1>1. /\ UNCHANGED <<closures, calls, error>> /\ pc' = "find" /\ pc \in {"find", "cost"}
      /\ search' = [search EXCEPT !.next = @ + 1]
  BY DEF SkipShorter, Mismatch, function
<1>2. /\ search'.next = search.next + 1 /\ search'.candidate = search.candidate
      /\ search'.cost = search.cost /\ search'.conflict = search.conflict
  BY <1>1 DEF TypeInv, TypeOK, Locals
<1>3. calls # <<>> /\ search.next <= Len(Candidates)
  BY <1>1 DEF TypeInv, InCall, Measuring, SkipShorter, Mismatch, SearchEnds
<1>4. arg_count(Considered) # Len(Current.args) \/ Cost(search.next) = NoMatch
  <2>1. Current \in PreparedCall /\ Candidates \in Seq(Closure) /\ search.next \in Nat \ {0}
    BY <1>3, CurrentType DEF TypeInv, TypeOK, Locals
  <2>2. CASE SkipShorter
    <3>1. Considered \in Closure
      BY <1>3, <2>1 DEF Considered
    <3>2. arg_count(Considered) \in Nat /\ Len(Current.args) \in Nat
      BY <2>1, <3>1, ArityType DEF PreparedCall
    <3>3. QED
      BY <2>2, <3>2 DEF SkipShorter
  <2>3. CASE Mismatch
    <3>1. search.arg <= Len(Current.args) /\ ~Matches(Current.args[search.arg], Signature[Considered][search.arg])
      BY <2>3 DEF Mismatch, CurrentArg, CurrentParam
    <3>2. search.arg \in DOMAIN Current.args
      <4>1. search.arg \in Nat \ {0} /\ Current.args \in Seq(Argument)
        BY <2>1 DEF PreparedCall, TypeInv, TypeOK, Locals
      <4>2. QED
        BY <3>1, <4>1
    <3>3. get_cost(Considered, Current.args) = NoMatch
      BY <3>1, <3>2, CostIs
    <3>4. QED
      BY <3>3 DEF Cost, Considered
  <2>4. QED
    BY <2>2, <2>3
<1>5. Tried' = Tried
  BY <1>1, <1>2, <1>3, <1>4, TriedNext
<1>6. BestOfTried'
  BY <1>1, <1>2, <1>5, BestKept DEF Searching
<1>7. QED
  BY <1>1, <1>6 DEF Searching

\* get_cost starts.
LEMMA MeasureSearch ==
    ASSUME TypeInv, Searching, Measure
    PROVE  Searching'
<1>1. /\ UNCHANGED <<closures, calls, error>> /\ pc = "find" /\ pc' = "cost" /\ calls # <<>>
      /\ search' = [search EXCEPT !.arg = 1, !.sum = 0]
  BY DEF Measure, function, TypeInv, InCall
<1>2. /\ search'.next = search.next /\ search'.candidate = search.candidate
      /\ search'.cost = search.cost /\ search'.conflict = search.conflict
      /\ search'.arg = 1 /\ search'.sum = 0
  BY <1>1 DEF TypeInv, TypeOK, Locals
<1>3. Candidates' = Candidates /\ Current' = Current /\ \A i : Cost(i)' = Cost(i)
  BY <1>1, SearchFrame
<1>4. Tried' = Tried
  BY <1>2, <1>3 DEF Tried
<1>5. BestOfTried'
  BY <1>1, <1>2, <1>4, BestKept DEF Searching
<1>6. Summing'
  <2>1. Len(Current.args) \in Nat
    BY <1>1, CurrentType DEF TypeInv, PreparedCall
  <2>2. Sums(Considered', Current.args)[0] = 0
    BY <2>1, SumsStep
  <2>3. QED
    BY <1>2, <1>3, <2>1, <2>2 DEF Summing
<1>7. QED
  BY <1>1, <1>5, <1>6 DEF Searching

\* get_cost goes on to the next argument.
LEMMA AddSearch ==
    ASSUME TypeInv, Searching, AddDistance
    PROVE  Searching'
<1> DEFINE a == search.arg
           args == Current.args
           c == Considered
<1>1. /\ UNCHANGED <<closures, calls, error>> /\ pc = "cost" /\ pc' = "cost" /\ calls # <<>>
      /\ search' = [search EXCEPT !.arg = @ + 1, !.sum = @ + get_distance(CurrentArg, CurrentParam)]
      /\ a <= Len(args) /\ Matches(args[a], Signature[c][a])
  BY DEF AddDistance, function, TypeInv, InCall, CurrentArg, CurrentParam
<1>2. /\ search'.next = search.next /\ search'.candidate = search.candidate
      /\ search'.cost = search.cost /\ search'.conflict = search.conflict
      /\ search'.arg = a + 1
      /\ search'.sum = search.sum + get_distance(args[a], Signature[c][a])
  BY <1>1 DEF TypeInv, TypeOK, Locals, CurrentArg, CurrentParam
<1>3. Candidates' = Candidates /\ Current' = Current /\ \A i : Cost(i)' = Cost(i)
  BY <1>1, SearchFrame
<1>4. Tried' = Tried /\ Considered' = c
  BY <1>2, <1>3 DEF Tried, Considered
<1>5. BestOfTried'
  BY <1>1, <1>2, <1>4, BestKept DEF Searching
<1>6. Summing'
  <2>1. Len(args) \in Nat /\ a \in Nat \ {0}
    BY <1>1, CurrentType DEF TypeInv, TypeOK, PreparedCall, Locals
  <2>2. a \in 1..Len(args)
    BY <1>1, <2>1
  <2>3. Sums(c, args)[a] = Sums(c, args)[a - 1] + get_distance(args[a], Signature[c][a])
    BY <2>1, <2>2, SumsStep
  <2>4. /\ \A i \in 1..a - 1 : Matches(args[i], Signature[c][i])
        /\ search.sum = Sums(c, args)[a - 1]
    BY <1>1 DEF Searching, Summing
  <2>5. search'.sum = Sums(c, args)[a]
    BY <1>2, <2>3, <2>4
  <2>6. \A i \in 1..a : Matches(args[i], Signature[c][i])
    BY <1>1, <2>1, <2>4
  <2> HIDE DEF a, args, c
  <2>7. search'.arg - 1 = a
    BY <1>2, <2>1
  <2>8. Current'.args = args
    BY <1>3 DEF args
  <2>9. QED
    BY <1>4, <2>2, <2>5, <2>6, <2>7, <2>8 DEF Summing
<1>7. QED
  BY <1>1, <1>5, <1>6 DEF Searching

\* The candidate is compared with the best one.
LEMMA CompareSearch ==
    ASSUME TypeInv, Searching, Compare
    PROVE  Searching'
<1> DEFINE n == search.next
<1>1. /\ UNCHANGED <<closures, calls, error>> /\ pc = "cost" /\ pc' = "find" /\ calls # <<>>
      /\ search.arg > Len(Current.args)
      /\ n <= Len(Candidates) /\ arg_count(Considered) = Len(Current.args)
  BY DEF Compare, function, TypeInv, InCall, Measuring
<1>2. Cost(n) = search.sum /\ search.sum \in Nat /\ n \in Nat
  BY <1>1, Measured DEF Searching, TypeInv, TypeOK, Locals
<1>3. /\ Candidates' = Candidates /\ \A i : Cost(i)' = Cost(i)
  BY <1>1, SearchFrame
<1>4. BestOfTried
  BY <1>1 DEF Searching
<1>5. search'.next = n + 1
  BY DEF Compare, TypeInv, TypeOK, Locals
<1>6. Tried' = Tried \cup {n}
  BY <1>1, <1>2, <1>5, TriedNext DEF NoMatch
<1>7. n \notin Tried
  BY <1>2 DEF Tried
<1>8. \A i \in Tried : Cost(i) \in Nat
  BY <1>4 DEF BestOfTried
<1>9. IF search.cost = NoMatch \/ search.sum <= search.cost
      THEN /\ search'.cost = search.sum /\ search'.candidate = Candidates[n]
           /\ search'.conflict = (search.sum = search.cost)
      ELSE /\ search'.cost = search.cost /\ search'.candidate = search.candidate
           /\ search'.conflict = search.conflict
  BY DEF Compare, TypeInv, TypeOK, Locals, Considered
<1> HIDE DEF n
<1>10. CASE Tried = {}
  <2>1. search.cost = NoMatch
    BY <1>4, <1>10 DEF BestOfTried
  <2>2. /\ search'.cost = Cost(n) /\ search'.candidate = Candidates[n]
        /\ search'.conflict = (search.sum = search.cost)
    BY <1>2, <1>9, <2>1
  <2>3. ~search'.conflict
    <3>1. search.sum # search.cost
      BY <1>2, <2>1 DEF NoMatch
    <3>2. QED
      BY <2>2, <3>1
  <2>4. Tried' = {n}
    BY <1>6, <1>10
  <2>5. BestOfTried'
    BY <1>2, <1>3, <2>2, <2>3, <2>4 DEF BestOfTried
  <2>6. QED
    BY <1>1, <2>5 DEF Searching
<1>11. CASE Tried # {}
  <2>1. PICK i \in Tried : /\ search.candidate = Candidates[i]
                           /\ search.cost = Cost(i)
                           /\ \A j \in Tried : search.cost <= Cost(j)
                           /\ search.conflict <=> \E j \in Tried : j # i /\ Cost(j) = search.cost
    BY <1>4, <1>11 DEF BestOfTried
  <2>2. search.cost \in Nat /\ search.cost # NoMatch
    BY <1>8, <2>1 DEF NoMatch
  <2>3. CASE search.sum <= search.cost
    <3>1. /\ search'.cost = Cost(n) /\ search'.candidate = Candidates[n]
          /\ search'.conflict <=> Cost(n) = search.cost
      BY <1>2, <1>9, <2>3
    <3>2. \A j \in Tried' : search'.cost <= Cost(j)
      BY <1>2, <1>6, <1>8, <2>1, <2>2, <2>3, <3>1
    <3>3. search'.conflict <=> \E j \in Tried' : j # n /\ Cost(j) = search'.cost
      <4>1. CASE Cost(n) = search.cost
        BY <1>6, <1>7, <2>1, <3>1, <4>1
      <4>2. CASE Cost(n) # search.cost
        BY <1>2, <1>6, <1>8, <2>1, <2>2, <2>3, <3>1, <4>2
      <4>3. QED
        BY <4>1, <4>2
    <3>4. n \in Tried' /\ \A j \in Tried' : Cost(j) \in Nat
      BY <1>2, <1>6, <1>8
    <3>5. BestOfTried'
      BY <1>3, <3>1, <3>2, <3>3, <3>4 DEF BestOfTried
    <3>6. QED
      BY <1>1, <3>5 DEF Searching
  <2>4. CASE ~(search.sum <= search.cost)
    <3>1. /\ search'.cost = search.cost /\ search'.candidate = Candidates[i]
          /\ search'.conflict = search.conflict
      BY <1>9, <2>1, <2>2, <2>4
    <3>2. \A j \in Tried' : search'.cost <= Cost(j)
      BY <1>2, <1>6, <2>1, <2>2, <2>4, <3>1
    <3>3. search'.conflict <=> \E j \in Tried' : j # i /\ Cost(j) = search'.cost
      BY <1>2, <1>6, <2>1, <2>2, <2>4, <3>1
    <3>4. i \in Tried' /\ search'.cost = Cost(i) /\ \A j \in Tried' : Cost(j) \in Nat
      BY <1>2, <1>6, <1>8, <2>1, <3>1
    <3>5. BestOfTried'
      BY <1>3, <3>1, <3>2, <3>3, <3>4 DEF BestOfTried
    <3>6. QED
      BY <1>1, <3>5 DEF Searching
  <2>5. QED
    BY <2>3, <2>4
<1>12. QED
  BY <1>10, <1>11

\* Each step of the loops keeps what find_closure knows; other steps do not interfere.
LEMMA SearchStep ==
    ASSUME TypeInv, Searching, [Next]_vars
    PROVE  Searching'
<1>1. CASE Call
  <2>1. /\ pc' = "find" /\ search' = NoSearch /\ error' = error /\ pc = "evaluate"
    BY <1>1 DEF Call
  <2>2. Tried' = {}
    BY <2>1 DEF Tried, NoSearch
  <2>3. BestOfTried'
    BY <2>1, <2>2 DEF BestOfTried, NoSearch
  <2>4. QED
    BY <2>1, <2>3 DEF Searching
<1>2. CASE FindAmbiguous \/ FindNone
  <2>1. /\ UNCHANGED <<closures, calls, search>> /\ pc = "find" /\ pc' = "error" /\ SearchEnds
        /\ error' = "ambiguous" => search.conflict
        /\ error' = "unresolved" => search.candidate = NoClosure
    BY <1>2 DEF FindAmbiguous, FindNone, Throw, function
  <2>2. Candidates' = Candidates /\ Current' = Current /\ \A i : Cost(i)' = Cost(i)
    BY <2>1, SearchFrame
  <2>3. Tried' = Tried
    BY <2>1, <2>2 DEF Tried
  <2>4. BestOfTried'
    BY <2>1, <2>3, BestKept DEF Searching
  <2>5. Stopped'
    BY <2>1, <2>2 DEF Stopped, SearchEnds, TypeInv, InCall
  <2>6. QED
    BY <2>1, <2>4, <2>5 DEF Searching
<1>3. CASE \/ Merged \/ PushNull \/ FindOne \/ Recover
           \/ \E f \in Func : Precall(f)
           \/ \E class \in Class : PushVariable(class) \/ Return(class)
  <2>1. pc' \notin {"find", "cost", "error"} /\ error' = "none"
    BY <1>3 DEF Merged, PushNull, FindOne, Recover, Precall, PushVariable, Return, Searching
  <2>2. QED
    BY <2>1 DEF Searching
<1>4. CASE \/ \E f, g \in Func : Assign(f, g)
           \/ \E f \in Func, c \in Closure : \/ Define(f, c) \/ AddKnown(f, c)
                                             \/ AddRefused(f, c) \/ AddClosure(f, c)
  <2>1. /\ pc' \notin {"find", "cost"}
        /\ pc' # "error" => error' = "none"
        /\ pc' = "error" => error' \in {"inconsistent", "defined"}
    BY <1>4 DEF Assign, Define, AtStatement, AddKnown, AddRefused, AddClosure, Adding, Throw, Searching
  <2>2. QED
    BY <2>1 DEF Searching
<1>5. CASE UNCHANGED vars
  <2>1. UNCHANGED <<closures, calls, pc, search, error>>
    BY <1>5 DEF vars
  <2>2. Candidates' = Candidates /\ Current' = Current /\ \A i : Cost(i)' = Cost(i)
    BY <2>1, SearchFrame
  <2>3. Tried' = Tried /\ Considered' = Considered
    BY <2>1, <2>2 DEF Tried, Considered
  <2>4. BestOfTried => BestOfTried'
    BY <2>1, <2>3, BestKept
  <2>5. Summing => Summing'
    BY <2>1, <2>2, <2>3 DEF Summing
  <2>6. Stopped => Stopped'
    BY <2>1, <2>2 DEF Stopped, SearchEnds
  <2>7. QED
    BY <2>1, <2>4, <2>5, <2>6 DEF Searching
<1>6. QED
  BY <1>1, <1>2, <1>3, <1>4, <1>5, SkipSearch, MeasureSearch, AddSearch, CompareSearch DEF Next

------------------------------------------------------------------------------
(* The end of the search. *)

\* All candidates that accept the arguments have been tried, as those that have not
\* been have too many parameters.
LEMMA AllTried ==
    ASSUME TypeInv, Overloads, calls # <<>>, SearchEnds
    PROVE  /\ Applicable(Current.func, Current.args) = {Candidates[i] : i \in Tried}
           /\ \A i, j \in Tried : Candidates[i] = Candidates[j] => i = j
           /\ \A i \in Tried : Candidates[i] \in Closure
<1> DEFINE n == Len(Current.args)
<1>1. /\ Current \in PreparedCall /\ Candidates \in Seq(Closure) /\ search.next \in Nat \ {0}
  BY CurrentType DEF TypeInv, TypeOK, Locals
<1>2. n \in Nat /\ Current.func \in Func /\ Len(Candidates) \in Nat
      /\ DOMAIN Candidates = 1..Len(Candidates)
  BY <1>1, LenProperties DEF PreparedCall
<1>3. \A i \in DOMAIN Candidates : Candidates[i] \in Closure /\ arg_count(Candidates[i]) \in Nat
  BY <1>1, <1>2, ElementOfSeq, ArityType
<1>4. \A i, j \in DOMAIN Candidates :
         i <= j => arg_count(Candidates[i]) <= arg_count(Candidates[j])
  BY <1>2 DEF Overloads, SortedByArity, Candidates
<1>5. ASSUME NEW i \in DOMAIN Candidates, arg_count(Candidates[i]) = n
      PROVE  i < search.next
  <2>1. SUFFICES ASSUME search.next <= i PROVE FALSE
    BY <1>1, <1>2
  <2>2. search.next \in DOMAIN Candidates
    BY <1>1, <1>2, <2>1
  <2>3. arg_count(Candidates[search.next]) > n
    BY <1>2, <2>2 DEF SearchEnds
  <2>4. QED
    BY <1>2, <1>3, <1>4, <1>5, <2>1, <2>2, <2>3
<1>6. \A i : i \in Tried <=> /\ i \in DOMAIN Candidates
                             /\ arg_count(Candidates[i]) = n /\ Cost(i) # NoMatch
  BY <1>1, <1>2, <1>5 DEF Tried
<1>7. Applicable(Current.func, Current.args) = {Candidates[i] : i \in Tried}
  BY <1>6 DEF Applicable, Elements, Candidates, Cost
<1>8. \A i, j \in DOMAIN Candidates : Candidates[i] = Candidates[j] => i = j
  BY <1>2 DEF Overloads, SignaturesDistinct, Candidates
<1>9. QED
  BY <1>3, <1>6, <1>7, <1>8

\* Two different elements of a finite set.
LEMMA MoreThanOne ==
    ASSUME NEW S, IsFiniteSet(S), NEW a \in S, NEW b \in S, a # b
    PROVE  Cardinality(S) > 1
<1>1. IsFiniteSet({a}) /\ Cardinality({a}) = 1
  BY FS_Singleton
<1>2. Cardinality({a} \cup {b}) = 2
  BY <1>1, FS_AddElement
<1>3. {a} \cup {b} \subseteq S
  OBVIOUS
<1>4. Cardinality({a} \cup {b}) <= Cardinality(S) /\ Cardinality(S) \in Nat
  BY <1>3, FS_Subset, FS_CardinalityType
<1>5. QED
  BY <1>2, <1>4

\* What find_closure has found when it stops is what it should select.
LEMMA Selects ==
    ASSUME TypeInv, Overloads, calls # <<>>, SearchEnds, BestOfTried
    PROVE  LET best == Cheapest(Current.func, Current.args)
           IN  /\ search.conflict => Cardinality(best) > 1
               /\ search.candidate = NoClosure => best = {}
               /\ ~search.conflict /\ search.candidate # NoClosure => best = {search.candidate}
<1> DEFINE best == Cheapest(Current.func, Current.args)
<1>1. /\ Applicable(Current.func, Current.args) = {Candidates[i] : i \in Tried}
      /\ \A i, j \in Tried : Candidates[i] = Candidates[j] => i = j
      /\ \A i \in Tried : Candidates[i] \in Closure
  BY AllTried
<1>2. \A c : c \in best <=> \E i \in Tried : c = Candidates[i] /\ \A j \in Tried : Cost(i) <= Cost(j)
  BY <1>1 DEF Cheapest, Cost
<1>3. IsFiniteSet(best)
  <2>1. IsFiniteSet(Elements(Candidates))
    <3>1. Candidates \in Seq(Closure)
      BY CurrentType DEF TypeInv
    <3>2. Candidates \in Surjection(1..Len(Candidates), Elements(Candidates))
      BY <3>1, LenProperties DEF Surjection, Elements
    <3>3. IsFiniteSet(1..Len(Candidates))
      BY <3>1, LenProperties, FS_Interval
    <3>4. QED
      BY <3>2, <3>3, FS_Surjection DEF ExistsSurjection
  <2>2. best \subseteq Elements(Candidates)
    BY DEF Cheapest, Applicable, Candidates
  <2>3. QED
    BY <2>1, <2>2, FS_Subset
<1> HIDE DEF best
<1>4. \A i \in Tried : Cost(i) \in Nat
  BY DEF BestOfTried
<1>5. CASE Tried = {}
  <2>1. best = {}
    BY <1>2, <1>5
  <2>2. search.candidate = NoClosure /\ ~search.conflict
    BY <1>5 DEF BestOfTried
  <2>3. QED
    BY <2>1, <2>2 DEF best
<1>6. CASE Tried # {}
  <2>1. PICK i \in Tried : /\ search.candidate = Candidates[i]
                           /\ search.cost = Cost(i)
                           /\ \A j \in Tried : search.cost <= Cost(j)
                           /\ search.conflict <=> \E j \in Tried : j # i /\ Cost(j) = search.cost
    BY <1>6 DEF BestOfTried
  <2>2. Candidates[i] \in best /\ search.candidate # NoClosure
    BY <1>1, <1>2, <2>1, NoClosureIsNoClosure
  <2>3. CASE search.conflict
    <3>1. PICK j \in Tried : j # i /\ Cost(j) = search.cost
      BY <2>1, <2>3
    <3>2. Candidates[j] \in best
      BY <1>2, <2>1, <3>1
    <3>3. Candidates[j] # Candidates[i]
      BY <1>1, <3>1
    <3>4. Cardinality(best) > 1
      BY <1>3, <2>2, <3>2, <3>3, MoreThanOne
    <3>5. QED
      BY <2>2, <2>3, <3>4 DEF best
  <2>4. CASE ~search.conflict
    <3>1. ASSUME NEW c \in best PROVE c = Candidates[i]
      <4>1. PICK j \in Tried : c = Candidates[j] /\ \A k \in Tried : Cost(j) <= Cost(k)
        BY <1>2
      <4>2. Cost(j) = Cost(i)
        <5>1. Cost(j) <= Cost(i) /\ Cost(i) <= Cost(j)
          BY <2>1, <4>1
        <5>2. Cost(i) \in Nat /\ Cost(j) \in Nat
          BY <1>4
        <5>3. QED
          BY <5>1, <5>2
      <4>3. j = i
        BY <2>1, <2>4, <4>2
      <4>4. QED
        BY <4>1, <4>3
    <3>2. best = {search.candidate}
      BY <2>1, <2>2, <3>1
    <3>3. QED
      BY <2>2, <2>4, <3>2 DEF best
  <2>5. QED
    BY <2>3, <2>4
<1>7. QED
  BY <1>5, <1>6

\* find_closure knows the best of the candidates that it has tried.
THEOREM SearchInvariance == Spec => []Searching
<1>1. Init => Searching
  BY DEF Init, Searching
<1>2. TypeInv /\ Searching /\ [Next]_vars => Searching'
  BY SearchStep
<1>3. QED
  BY <1>1, <1>2, TypeInvariance, PTL DEF Spec

\* A call runs the only cheapest overload that accepts its arguments, and fails only
\* if there is none or more than one, for all classes, signatures and arguments, and
\* in whatever order the overloads have been defined.
THEOREM Selection == Spec => []CheapestSelected
<1>1. TypeInv /\ Overloads /\ Searching => CheapestSelected
  <2> SUFFICES ASSUME TypeInv, Overloads, Searching, pc \in {"error", "find"}, calls # <<>>
               PROVE  LET best == Cheapest(Current.func, Current.args)
                      IN  /\ error = "ambiguous" => Cardinality(best) > 1
                          /\ error = "unresolved" => best = {}
                          /\ pc = "find" /\ Found => best = {search.candidate}
    BY DEF CheapestSelected
  <2>1. CASE pc = "find" /\ Found
    <3>1. BestOfTried /\ error = "none" /\ SearchEnds /\ ~search.conflict /\ search.candidate # NoClosure
      BY <2>1 DEF Searching, Found
    <3>2. QED
      BY <3>1, Selects
  <2>2. CASE pc = "find" /\ ~Found
    BY <2>2 DEF Searching
  <2>3. CASE pc = "error" /\ error \in {"ambiguous", "unresolved"}
    <3>1. /\ BestOfTried /\ SearchEnds
          /\ error = "ambiguous" => search.conflict
          /\ error = "unresolved" => search.candidate = NoClosure
      BY <2>3 DEF Searching, Stopped
    <3>2. QED
      BY <2>3, <3>1, Selects
  <2>4. CASE pc = "error" /\ error \notin {"ambiguous", "unresolved"}
    BY <2>4
  <2>5. QED
    BY <2>1, <2>2, <2>3, <2>4
<1>2. QED
  BY <1>1, TypeInvariance, OverloadsInvariance, SearchInvariance, PTL
==============================================================================
