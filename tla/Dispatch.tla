------------------------------ MODULE Dispatch ------------------------------
(***************************************************************************)
(* Multiple dispatch: how a Function gathers its overloads, one Closure    *)
(* each (function.cpp, add_closure; variant.cpp, the assignment of a       *)
(* function to a function), and how a call finds the overload to run       *)
(* (find_closure, get_cost; class.cpp, get_distance).                      *)
(*                                                                         *)
(* The arguments of a call are evaluated between the opcodes Precall and   *)
(* Call, by reference or by value as the flags say that Precall has stored *)
(* in the frame.  An argument may itself be a call, whose callee may       *)
(* define further overloads of the function that waits for its arguments.  *)
(***************************************************************************)
EXTENDS Integers, Sequences, FiniteSets

CONSTANTS Class,          \* classes of the values passed as arguments
          Base,           \* Class::_bases: from the class Object down to the class
          Null,           \* the class of null, which any parameter accepts
          Func,           \* Function objects
          Closure,        \* closures, one for each definition of a routine
          Signature,      \* the classes of a routine's parameters
          RefFlags,       \* the positions it takes by reference
          NoClosure,
          MaxArgs,        \* bound: arguments of a call
          MaxNested       \* bound: calls prepared at the same time

ASSUME BasesEndInClass ==
    /\ Base \in [Class -> Seq(Class)]
    /\ \A c \in Class : Len(Base[c]) > 0 /\ Base[c][Len(Base[c])] = c
ASSUME NullIsNoClass == Null \notin Class
ASSUME SignatureType == Signature \in [Closure -> Seq(Class)]
ASSUME RefFlagsType == RefFlags \in [Closure -> SUBSET Nat]
ASSUME NoClosureIsNoClosure == NoClosure \notin Closure

VARIABLES closures,       \* of each function, sorted by number of parameters
          ref_flags,      \* positions that the closures take by reference
          max_argc,       \* of the closure with the most parameters
          pc,             \* the loop control is in
          merge,          \* the function that overloads are added to, and those left
          calls,          \* the calls of a frame between Precall and their result
          frame_flags,    \* current_frame->ref_flags
          search,         \* the locals of find_closure
          error           \* the error thrown, or "none"

function == <<closures, ref_flags, max_argc>>
vars == <<closures, ref_flags, max_argc, pc, merge, calls, frame_flags, search, error>>

------------------------------------------------------------------------------

arg_count(c) == Len(Signature[c])

Elements(s) == {s[i] : i \in DOMAIN s}

Last(s) == s[Len(s)]

\* depth is the index of a class among its own bases, counted from 1
depth(c) == Len(Base[c])

\* _bases[base->depth()] == base.  For a deeper base the code reads past the end
\* of _bases; the distance is negative whatever is read there.
inherits(c, base) == depth(base) <= depth(c) /\ Base[c][depth(base)] = base

\* An argument matches a parameter if it is null or an instance of its class.
Matches(a, class) == a.class # Null => inherits(a.class, class)

\* Mutation: the distance is measured from the parameter's class.
get_distance_reversed(a, class) == IF a.class = Null THEN 0 ELSE depth(class) - depth(a.class)

get_distance(a, class) == IF a.class = Null THEN 0 ELSE depth(a.class) - depth(class)

\* numeric_limits<int>::max()
NoMatch == -1

\* the sum of the distances between the arguments and the parameters
get_cost(c, args) ==
    LET cost[i \in 0..Len(args)] ==
          IF i = 0 THEN 0 ELSE cost[i - 1] + get_distance(args[i], Signature[c][i])
    IN  IF \A i \in DOMAIN args : Matches(args[i], Signature[c][i])
        THEN cost[Len(args)] ELSE NoMatch

NoMerge == [into |-> Null, rest |-> <<>>]

NoSearch == [next |-> 1, arg |-> 1, sum |-> 0, cost |-> NoMatch,
             candidate |-> NoClosure, conflict |-> FALSE]

\* the call whose arguments are being evaluated, or whose callee runs
Current == Last(calls)

Init ==
    /\ closures = [f \in Func |-> <<>>]
    /\ ref_flags = [f \in Func |-> {}]
    /\ max_argc = [f \in Func |-> 0]
    /\ pc = "evaluate"
    /\ merge = NoMerge
    /\ calls = <<>>
    /\ frame_flags = {}
    /\ search = NoSearch
    /\ error = "none"

Throw(what) ==
    /\ pc' = "error"
    /\ error' = what

------------------------------------------------------------------------------
(* Definitions and assignments. *)

\* Statements are executed between two calls, or in the body of a callee.
AtStatement == pc = "run" \/ (pc = "evaluate" /\ calls = <<>>)

\* function f(...): NewClosure makes a function of one closure, which SetGlobal
\* stores in the variable or, if there is a function, assigns to it.
Define(f, c) ==
    /\ AtStatement
    /\ merge' = [into |-> f, rest |-> <<c>>]
    /\ pc' = "merge"
    /\ UNCHANGED <<function, calls, frame_flags, search, error>>

\* f = g, both functions: f gets the closures of g.
Assign(f, g) ==
    /\ AtStatement
    /\ f # g
    /\ closures[f] # <<>> /\ closures[g] # <<>>
    /\ merge' = [into |-> f, rest |-> closures[g]]
    /\ pc' = "merge"
    /\ UNCHANGED <<function, calls, frame_flags, search, error>>

\* Mutation: only the references of the new closure are checked.
Consistent_oneway(f, c) ==
    \A i \in 1..arg_count(c) : i <= max_argc[f] => (i \in RefFlags[c] => i \in ref_flags[f])

\* Reference consistency: the positions that both c and f know are passed alike.
Consistent(f, c) ==
    \A i \in 1..arg_count(c) : i <= max_argc[f] => (i \in RefFlags[c] <=> i \in ref_flags[f])

\* Mutation: the signature is compared with that of the last closure only.
Overrides_last(f, c) ==
    closures[f] # <<>> /\ Signature[Last(closures[f])] = Signature[c]

Overrides(f, c) == \E d \in Elements(closures[f]) : Signature[d] = Signature[c]

\* Mutation: closures are appended.
IsInsertionPoint_end(s, c, i) == i = Len(s) + 1

\* The first position in s of a closure with more parameters than c, or the end.
IsInsertionPoint(s, c, i) ==
    /\ i \in 1..Len(s) + 1
    /\ i <= Len(s) => arg_count(c) < arg_count(s[i])
    /\ \A j \in 1..i - 1 : arg_count(s[j]) <= arg_count(c)

Insert(s, c, i) == SubSeq(s, 1, i - 1) \o <<c>> \o SubSeq(s, i, Len(s))

Adding(f, c) ==
    /\ pc = "merge"
    /\ merge.into = f
    /\ merge.rest # <<>>
    /\ c = Head(merge.rest)
    /\ UNCHANGED <<calls, frame_flags, search>>

MergeRest == merge' = [merge EXCEPT !.rest = Tail(@)]

\* add_closure, when f has that very closure already
AddKnown(f, c) ==
    /\ Adding(f, c)
    /\ c \in Elements(closures[f])
    /\ MergeRest
    /\ UNCHANGED <<function, pc, error>>

\* add_closure, throwing an error: the closures added before stay
AddRefused(f, c) ==
    /\ Adding(f, c)
    /\ c \notin Elements(closures[f])
    /\ \/ ~Consistent(f, c) /\ Throw("inconsistent")
       \/ Consistent(f, c) /\ Overrides(f, c) /\ Throw("defined")
    /\ merge' = NoMerge
    /\ UNCHANGED function

\* add_closure, inserting an overload
AddClosure(f, c) ==
    /\ Adding(f, c)
    /\ c \notin Elements(closures[f])
    /\ Consistent(f, c) /\ ~Overrides(f, c)
    /\ \E i \in 1..Len(closures[f]) + 1 :
          /\ IsInsertionPoint(closures[f], c, i)
          /\ closures' = [closures EXCEPT ![f] = Insert(@, c, i)]
    /\ IF arg_count(c) > max_argc[f]
       THEN /\ ref_flags' = [ref_flags EXCEPT ![f] = RefFlags[c]]
            /\ max_argc' = [max_argc EXCEPT ![f] = arg_count(c)]
       ELSE UNCHANGED <<ref_flags, max_argc>>
    /\ MergeRest
    /\ UNCHANGED <<pc, error>>

Merged ==
    /\ pc = "merge"
    /\ merge.rest = <<>>
    /\ merge' = NoMerge
    /\ pc' = IF calls = <<>> THEN "evaluate" ELSE "run"
    /\ UNCHANGED <<function, calls, frame_flags, search, error>>

------------------------------------------------------------------------------
(* Calls. *)

CanTakeArgument == calls # <<>> /\ Len(Current.args) < MaxArgs

\* An expression that begins with the name of a function to call: a statement,
\* or the next argument of the current call.
Precall(f) ==
    /\ pc = "evaluate"
    /\ closures[f] # <<>>
    /\ calls = <<>> \/ CanTakeArgument
    /\ Len(calls) < MaxNested
    /\ calls' = Append(calls, [func |-> f, args |-> <<>>, closure |-> NoClosure])
    /\ frame_flags' = ref_flags[f]
    /\ UNCHANGED <<function, pc, merge, search, error>>

PushArgument(a) ==
    calls' = [calls EXCEPT ![Len(calls)].args = Append(@, a)]

\* Mutation: the positions are counted from 0 here and from 1 in the flags.
PushVariable_shifted(class) ==
    /\ pc = "evaluate"
    /\ CanTakeArgument
    /\ PushArgument([class |-> class, is_var |-> TRUE,
                     by_ref |-> Len(Current.args) \in frame_flags])
    /\ UNCHANGED <<function, pc, merge, frame_flags, search, error>>

\* GetLocalArg, GetGlobalArg: the frame's flags say how to pass the variable.
PushVariable(class) ==
    /\ pc = "evaluate"
    /\ CanTakeArgument
    /\ PushArgument([class |-> class, is_var |-> TRUE,
                     by_ref |-> Len(Current.args) + 1 \in frame_flags])
    /\ UNCHANGED <<function, pc, merge, frame_flags, search, error>>

Temporary(class) == [class |-> class, is_var |-> FALSE, by_ref |-> FALSE]

\* null, the only constant in the model
PushNull ==
    /\ pc = "evaluate"
    /\ CanTakeArgument
    /\ PushArgument(Temporary(Null))
    /\ UNCHANGED <<function, pc, merge, frame_flags, search, error>>

Call ==
    /\ pc = "evaluate"
    /\ calls # <<>>
    /\ pc' = "find"
    /\ search' = NoSearch
    /\ UNCHANGED <<function, merge, calls, frame_flags, error>>

Candidates == closures[Current.func]

\* The closures are sorted: none after a longer one can match.
SearchEnds ==
    search.next <= Len(Candidates) =>
        arg_count(Candidates[search.next]) > Len(Current.args)

Considered == Candidates[search.next]

SkipShorter ==
    /\ pc = "find"
    /\ ~SearchEnds
    /\ arg_count(Considered) < Len(Current.args)
    /\ search' = [search EXCEPT !.next = @ + 1]
    /\ UNCHANGED <<function, pc, merge, calls, frame_flags, error>>

\* find_closure calls get_cost.
Measure ==
    /\ pc = "find"
    /\ ~SearchEnds
    /\ arg_count(Considered) = Len(Current.args)
    /\ search' = [search EXCEPT !.arg = 1, !.sum = 0]
    /\ pc' = "cost"
    /\ UNCHANGED <<function, merge, calls, frame_flags, error>>

CurrentArg == Current.args[search.arg]

CurrentParam == Signature[Considered][search.arg]

AddDistance ==
    /\ pc = "cost"
    /\ search.arg <= Len(Current.args)
    /\ Matches(CurrentArg, CurrentParam)
    /\ search' = [search EXCEPT !.arg = @ + 1, !.sum = @ + get_distance(CurrentArg, CurrentParam)]
    /\ UNCHANGED <<function, pc, merge, calls, frame_flags, error>>

\* get_cost returns the maximal cost.
Mismatch ==
    /\ pc = "cost"
    /\ search.arg <= Len(Current.args)
    /\ ~Matches(CurrentArg, CurrentParam)
    /\ search' = [search EXCEPT !.next = @ + 1]
    /\ pc' = "find"
    /\ UNCHANGED <<function, merge, calls, frame_flags, error>>

\* Mutation: a tie is not noticed.
Compare_strict ==
    /\ pc = "cost"
    /\ search.arg > Len(Current.args)
    /\ IF search.cost = NoMatch \/ search.sum < search.cost
       THEN search' = [search EXCEPT !.next = @ + 1, !.cost = search.sum,
                                     !.candidate = Considered, !.conflict = FALSE]
       ELSE search' = [search EXCEPT !.next = @ + 1]
    /\ pc' = "find"
    /\ UNCHANGED <<function, merge, calls, frame_flags, error>>

\* get_cost returns the sum, which find_closure compares with the best cost.
Compare ==
    /\ pc = "cost"
    /\ search.arg > Len(Current.args)
    /\ IF search.cost = NoMatch \/ search.sum <= search.cost
       THEN search' = [search EXCEPT !.next = @ + 1, !.cost = search.sum,
                                     !.candidate = Considered,
                                     !.conflict = (search.sum = search.cost)]
       ELSE search' = [search EXCEPT !.next = @ + 1]
    /\ pc' = "find"
    /\ UNCHANGED <<function, merge, calls, frame_flags, error>>

FindAmbiguous ==
    /\ pc = "find"
    /\ SearchEnds
    /\ search.conflict
    /\ Throw("ambiguous")
    /\ UNCHANGED <<function, merge, calls, frame_flags, search>>

FindNone ==
    /\ pc = "find"
    /\ SearchEnds
    /\ search.candidate = NoClosure
    /\ Throw("unresolved")
    /\ UNCHANGED <<function, merge, calls, frame_flags, search>>

Found == SearchEnds /\ ~search.conflict /\ search.candidate # NoClosure

FindOne ==
    /\ pc = "find"
    /\ Found
    /\ calls' = [calls EXCEPT ![Len(calls)].closure = search.candidate]
    /\ search' = NoSearch
    /\ pc' = "run"
    /\ UNCHANGED <<function, merge, frame_flags, error>>

\* The callee returns a value, which is dropped or is the argument of a call.
Return(class) ==
    /\ pc = "run"
    /\ LET outer == SubSeq(calls, 1, Len(calls) - 1)
       IN  calls' = IF outer = <<>> THEN <<>>
                    ELSE [outer EXCEPT ![Len(outer)].args = Append(@, Temporary(class))]
    /\ pc' = "evaluate"
    /\ UNCHANGED <<function, merge, frame_flags, search, error>>

\* An error ends the evaluation; the host may go on with another script.
Recover ==
    /\ pc = "error"
    /\ pc' = "evaluate"
    /\ error' = "none"
    /\ calls' = <<>>
    /\ search' = NoSearch
    /\ UNCHANGED <<function, merge, frame_flags>>

------------------------------------------------------------------------------

Next ==
    \/ \E f \in Func, c \in Closure : \/ Define(f, c) \/ AddKnown(f, c)
                                      \/ AddRefused(f, c) \/ AddClosure(f, c)
    \/ \E f, g \in Func : Assign(f, g)
    \/ Merged
    \/ \E f \in Func : Precall(f)
    \/ \E class \in Class : PushVariable(class) \/ Return(class)
    \/ PushNull
    \/ Call
    \/ SkipShorter \/ Measure \/ AddDistance \/ Mismatch \/ Compare
    \/ FindAmbiguous \/ FindNone \/ FindOne
    \/ Recover

Spec == Init /\ [][Next]_vars

------------------------------------------------------------------------------
(* Properties. *)

Argument == [class : Class \cup {Null}, is_var : BOOLEAN, by_ref : BOOLEAN]

PreparedCall == [func : Func, args : Seq(Argument), closure : Closure \cup {NoClosure}]

Locals == [next : Nat \ {0}, arg : Nat \ {0}, sum : Nat, cost : Nat \cup {NoMatch},
           candidate : Closure \cup {NoClosure}, conflict : BOOLEAN]

\* The types of the variables.
TypeOK ==
    /\ closures \in [Func -> Seq(Closure)]
    /\ ref_flags \in [Func -> SUBSET Nat]
    /\ max_argc \in [Func -> Nat]
    /\ pc \in {"evaluate", "merge", "find", "cost", "run", "error"}
    /\ merge \in [into : Func \cup {Null}, rest : Seq(Closure)]
    /\ calls \in Seq(PreparedCall)
    /\ frame_flags \in SUBSET Nat
    /\ search \in Locals
    /\ error \in {"none", "inconsistent", "defined", "ambiguous", "unresolved"}

\* The closures of a function are sorted by their number of parameters, however
\* definitions and assignments came: find_closure stops at the first longer one.
SortedByArity ==
    \A f \in Func : \A i, j \in DOMAIN closures[f] :
        i <= j => arg_count(closures[f][i]) <= arg_count(closures[f][j])

\* No two closures of a function have the same signature.
SignaturesDistinct ==
    \A f \in Func : \A i, j \in DOMAIN closures[f] :
        Signature[closures[f][i]] = Signature[closures[f][j]] => i = j

\* Every closure of a function takes each of its arguments as the flags of the
\* function say, also after an assignment that failed halfway.
ReferenceConsistent ==
    \A f \in Func : \A i \in DOMAIN closures[f] :
        /\ arg_count(closures[f][i]) <= max_argc[f]
        /\ \A n \in 1..arg_count(closures[f][i]) :
              n \in RefFlags[closures[f][i]] <=> n \in ref_flags[f]

\* The closures of f that accept args, and the cheapest ones among them.
Applicable(f, args) ==
    {c \in Elements(closures[f]) : /\ arg_count(c) = Len(args)
                                   /\ get_cost(c, args) # NoMatch}

Cheapest(f, args) ==
    {c \in Applicable(f, args) :
       \A d \in Applicable(f, args) : get_cost(c, args) <= get_cost(d, args)}

\* A call runs the only cheapest closure that accepts its arguments; it fails if
\* there is none or more than one.  Hence it does not matter in which order the
\* overloads were defined.
CheapestSelected ==
    pc \in {"error", "find"} /\ calls # <<>> =>
       LET best == Cheapest(Current.func, Current.args)
       IN  /\ error = "ambiguous" => Cardinality(best) > 1
           /\ error = "unresolved" => best = {}
           /\ pc = "find" /\ Found => best = {search.candidate}

\* No argument is the result of a call.
Plain(args) == \A i \in DOMAIN args : args[i].is_var \/ args[i].class = Null

\* The variables among args are passed the way c takes them.
AsDeclared(args, c) ==
    \A i \in DOMAIN args : args[i].is_var => (args[i].by_ref <=> i \in RefFlags[c])

Running == pc = "run" /\ Current.closure # NoClosure

\* A variable is passed to the closure that runs the way this closure takes it:
\* the runtime checks the function's bitset.
PassedByBitset == Running => AsDeclared(Current.args, Current.closure)

\* It is when none of the arguments is the result of a call: then the flags in the
\* frame are those of the function, although overloads may have been added to it
\* while outer calls were waiting for their arguments.
PassedAsDeclared ==
    Running /\ Plain(Current.args) => AsDeclared(Current.args, Current.closure)

==============================================================================
