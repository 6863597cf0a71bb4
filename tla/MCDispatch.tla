----------------------------- MODULE MCDispatch -----------------------------
(* Classes of depth 1 to 3, and overloads that tie, repeat a signature, differ *)
(* in how they take an argument, and have more or fewer parameters.            *)
EXTENDS Dispatch, TLC

CONSTANTS Object, Number, Integer, String,
          int_num, num_int, int, int2, ref_str, num_ref, int_num_obj, f, g

MCFunc == {f, g}

Symmetry == Permutations(MCFunc)

MCNumeric == {Object, Number, Integer}

MCClass == MCNumeric \cup {String}

Lineage == (Object  :> <<Object>>) @@ (Number :> <<Object, Number>>)
        @@ (Integer :> <<Object, Number, Integer>>) @@ (String :> <<Object, String>>)

MCBase == [c \in Class |-> Lineage[c]]

MCClosure == {int_num, num_int, int, int2, ref_str, num_ref, int_num_obj}

Parameters == (int_num :> <<Integer, Number>>) @@ (num_int :> <<Number, Integer>>)
           @@ (int :> <<Integer>>) @@ (int2 :> <<Integer>>) @@ (ref_str :> <<String>>)
           @@ (num_ref :> <<Number, Number>>)
           @@ (int_num_obj :> <<Integer, Number, Object>>)

MCSignature == [c \in Closure |-> Parameters[c]]

MCRefFlags == [c \in Closure |-> CASE c = ref_str -> {1} [] c = num_ref -> {2} [] OTHER -> {}]
==============================================================================
