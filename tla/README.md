# Specifications of the script engine

TLA+ models of the scripting engine in `src/phon` (C++17), the TLC
configurations that check them on small instances, and theorems about them that
TLAPS checks for all values of their constants.

The engine is a library that a host program embeds. A `Runtime` compiles a
script to bytecode (scanner, parser, abstract syntax tree, compiler) and
executes it on a stack machine. It is single-threaded: nothing in it takes a
lock, and its difficulties lie elsewhere. Most operations are *re-entrant*:
releasing a value destroys it, which releases other values, one of which may
start the cycle collector in the middle of the destruction; evaluating the
argument of a call runs a function that may redefine the function about to be
called; inserting into a table rehashes it, which inserts into it again. Values
are shared behind reference counts, copied when written to, and aliased by
references. What must be true at the end of a public call therefore depends on
what is true in the middle of others, where no unit test looks.

## 1. Inventory

| Component | State | Operations | Interacts with |
|---|---|---|---|
| **Hash table** `hashmap.hpp` | `m_data` (nodes with a hash, 0 meaning free), `m_mask`, `m_size` | insert, `operator[]`, find, erase, clear, reserve, rehash, iteration | storage of every `Table` (`table.cpp`, `func_table.hpp`); keys are variants and are compared with `Variant::operator==` |
| **Memory management** `object.cpp`, `object.hpp`, `runtime.cpp` 84-127 and 1951-2120 | reference count, GC color and list links of each object; `gc_root`, `gc_count`, `gc_threshold`, `gc_paused` | retain, release, destroy, add/remove/pop candidate, collect | called by every copy and destruction of a `Variant` or `Handle`; calls the destructor and the traversal of each class |
| **Multiple dispatch** `function.cpp`, `class.cpp` | closures of a `Function` with its `ref_flags` and `max_argc`; the bases of a class; `ref_flags` of a frame | add_closure, find_closure, get_cost, get_distance; opcodes NewClosure, Precall, Get*Arg, Call | the assignment of variants merges functions; the compiler decides what is an argument |
| **Values** `variant.cpp` | type tag and payload; aliases are boxed variants with their own count | copy, move, assign, make_alias, unalias, resolve, unshare | copy on write of lists, tables, strings, arrays; the opcodes for references |
| **Virtual machine** `runtime.cpp` | value stack, call frames, instruction pointer, globals, `needs_ref`, `calling_method` | one case per opcode; error reporting | the compiler's stack discipline; native callbacks; exceptions |
| **Compiler** `compiler/compiler.cpp`, `code.cpp`, `function.cpp` 111-179 | routine being compiled, its locals, upvalues and open scopes; the code buffer | visitor of the AST; add/find local, resolve upvalue, backpatch jumps | the virtual machine executes its output |
| **Parser and AST** `compiler/parser.cpp`, `ast.cpp` | current and look-ahead token | one function per grammar rule | scanner, compiler |
| **Scanner and tokens** `compiler/scanner.cpp`, `token.cpp` | position in the line, current character | read_token and its helpers | parser |
| **Arrays** `array.hpp` | data, size, capacity, dimensions | growth, insert, remove, 1-based and negative indices | lists, the stack of the runtime |
| **Lists, sets, iterators** `list.cpp`, `set.cpp`, `iterator.cpp`, `func_*.hpp` | items; position of an iterator | library functions | copy on write, foreach loops |
| **Strings** `string.cpp`, `func_string.hpp` | shared buffer, cached hash and length | copy on write, growth, cutting in place, search, graphemes | utf8proc; keys of tables; the text of programs |
| **Files** `file.cpp`, `source_code.cpp` | stream, mode, encoding | open, read lines, write | the source of programs; iterators |
| **Regular expressions, modules, utilities** | match data, native tables | pcre2, libc | the host's system |

The vendored libraries under `src/phon/third_party` are not part of the model.

### What is hard, and what correctness means

* *Hash table.* Robin Hood insertion swaps entries, erasing shifts them back,
  growing reinserts them, and the probing loops end only at a free slot. It is
  correct if it is a finite map at every step, with every key in one place,
  every entry reachable by the probe, never so full that a loop cannot end.
* *Memory.* A live object is never freed, an unreferenced one is, a collection
  that finds nothing changes nothing, and every collection ends, although
  collections start inside destructors.
* *Dispatch.* The overload that runs is the cheapest one that accepts the
  arguments, whatever the order of the definitions; each argument is passed by
  value or by reference as that overload declares, although the decision is
  taken before the overload is known, from flags shared by all overloads.
* *Values.* A copy never sees a later change of the original, except through a
  reference; an assignment through a reference is seen by everyone who has it.
* *Virtual machine and compiler.* Each opcode finds on the stack what the
  compiler has put there, also after a call that failed; a name denotes the
  variable of the innermost open scope; a program prints what the language means
  by it.
* *Files, scanner and parser.* A text is read as the tree it was written from: the end of
  a line, a comma and the word `end` each belong to the statement they close.
* *Arrays and strings.* Memory that was left behind is written over or not read;
  what is counted is released once; a copy that shares a buffer does not see it
  change; a length and a hash that are remembered are those of the text.

`PROJECT.json` lists these as hazards, each at the line where it bites, with the
property that covers it.

## 2. Plan

Modules in the order in which they were written.

1. `HashmapAbstract`, `Hashmap`: the table and the map it implements. Proofs:
   `HashmapProofs` (types, rehashing, probe chains, counts, the table is a map).
2. `Recycler`: reference counts, candidates and the collector. Proofs: `RecyclerProofs`
   (counts, colors, what is freed).
3. `Dispatch`: overloads, calls, references. Proofs: `DispatchProofs` (the overloads,
   the passing of arguments, the overload selected).
4. `Values` over `ValueStore`, a store of independent values: variants, aliases,
   copy on write, indexed assignment, foreach by reference. Proofs: `ValuesProofs`
   (what resolving, unsharing and loops rely on).
5. `Array` over `ListAbstract`: the storage of lists under the functions on lists.
   Proofs: `ArrayProofs` (counts and spare memory), `ArrayRefinementProofs` (the list is
   a sequence).
6. `Ast`, `Data`, `Compiler`, `Machine`, and `Language`, the evaluator that says
   what a program means: from the syntax tree to the output.
7. `SourceFile`, `Scanner`, `Parser`, and `Writer`, which writes the texts that they
   read: from the bytes of a file to the syntax tree.
8. `Text` over `TextAbstract`: strings. Proofs: `TextProofs`.

`Recursion` holds what several of the proofs need about numbers and recursive functions.

What is left: streams that are read and written in turn, tables and sets as
values of the machine, arrays of several dimensions, lists in lists for `Values`.
Of the proofs, the next ones are `ImplementsStore`, with `SharedListsPlain` on
the way, and `ImplementsTexts`.

## 3. The modules

### Hashmap

`data`, `capacity`, `size` are `m_data`, `m_mask + 1` and `m_size`. A public call
is recorded in `call`; `pc` says which loop of the code is running, `probe` holds
the locals of `lookup` and `insert_entry`, `old` the storage that `rehash` moves
out of and `src` the table that a copy reads. One step is one turn of a loop:
`LookupNext`, `ProbeNext`, `ProbeSteal` (the swap with a richer entry),
`RehashNext`, `ShiftBack`, `CopyNext`. Hash codes are parameters; a code of 0 is
mapped to 1 as the code does. `Clear` is an action only in `SpecWithClear`,
since what it does breaks the load factor (section 5).

`HashmapAbstract` is a function from keys to values or `Absent`, changed by calls
that are requested, take effect once, and return. The refinement
maps a key to the value of its entry wherever the entry is at that moment: in a
slot, in the hands of `insert_entry`, or still in the storage that is being
rehashed. `map[k] = v` takes effect when the value is written, not when the
entry is made.

### Recycler

The recursion of the code is unfolded in `todo`, the sequence of calls to be
made, so that each call is an action with the name of its function (`release`,
`destroy`, `mark_grey`, `scan_black`, `collect_white`...) and a collection may
start between any two of them. `Mutator` is what scripts and the host do when
`todo` is empty: make an object, copy and drop a handle, store into and pop from a
list, suspend the collector. `Append_` carries an underscore because `Append`
is taken by the module Sequences. An object is a list and stands for every
collectable object whose traversal visits what it owns. Freed memory is not
reused; a step that touches it, the failed assertion of `add_candidate` or
`remove_candidate` and a destructor that is entered twice set `fault` and stop the program.

Two histories, which no step reads, say when a run is `Regular`. `interrupted` is set when a
collection that started inside a destructor comes upon an object that is being destroyed, in
`mark_candidates`; `cycle_found` when `collect_white` meets a white object and the white
objects are `Garbage`: no variable leads to them, and each is an item of one of them.
Either way the code takes counts away twice (section 5), and no promise about memory
is kept from there on. The invariants speak about regular runs, up to and including the
step that ends them or stops the program.

### Dispatch

`closures`, `ref_flags` and `max_argc` are the fields of each `Function`;
`calls` are the calls of a frame whose arguments are being evaluated, one inside
the other; `frame_flags` is `current_frame->ref_flags`, one for all of them as in
the code. `Define` and `Assign` start a merge, which adds closures one by one
(`AddKnown`, `AddClosure`, `AddRefused`) and leaves those it has added when one
is refused. `Precall` stores the flags; `PushVariable` passes a variable by
reference or value as they say; `Call` starts `find_closure`, whose two loops are
steps (`SkipShorter`, `Measure`, `AddDistance`, `Mismatch`, `Compare`). While a
callee runs it may define and assign overloads, also of the function whose call
is waiting for its argument. A position of a parameter is counted from 1; the
flags are the set of positions passed by reference.

### Values

`heap` holds the content of the variables, of the boxes (`Alias`) and of the list
objects, the value stack, and `Iterator::object` of the loop that is open.
Counts are not stored: `Count` is the number of variants that hold an object, which
is what `retain` and `release` keep, over the places (`Places`) that variants are in,
and an object that is reached no more is `Freed`. Both this and the boxes that `resolve` goes through
are computed by `Reached`. `Resolve`, `make_alias`, `unshare`, `Clone` and `assign` are the operations of
`variant.cpp` and the copy constructor of `List`. A script is any sequence of
statements: `Execute` picks one, `Compile` gives the opcodes that the compiler
emits for it, and each opcode is an action (`GetReference`, `GetUnique`,
`SetVariable`, `NewList`, `GetIndex`, `GetIndexRef`, `SetIndex`, `CallAppend`,
`NewIterator`, `NextValue`, `ClearLocal`, `PopLocal`...). An index is a part of its
opcode instead of a value on the stack. There is one routine with the reference parameter `Param`, whose body may execute
statements on globals and on its parameter, and in it one loop with the loop
variable `Each` (`BeginTurn` is the test at its start, `EndLoop` the jump out of it).

`ValueStore` has neither boxes, counts nor sharing: it is what each variable
reads as, and which places (variables and items of their lists) are one place.
A statement announces its effect on the store and the opcodes carry it out; the
refinement maps the remaining opcodes to the effects still to come, the heap to
what is read in it, and two items to one place if boxes make them so. An item
that only its list leads to belongs to the variable it is read from, whichever
objects share the list.

The engine keeps this promise only for scripts that take precautions, and
`Careful` says which. Without any of them TLC finds a counterexample (drop it from
`Precaution` in `MCValues.cfg`):

* `acyclic`: a variable is not made a reference to the place it already is
  (`x = ref x`): `resolve` would not end (`ResolveEnds`);
* `update`: an item is only assigned to in a variable that is a reference
  (`ItemAssigned`, the run `values_lost`; it takes a third list object);
* `loop`: a loop by reference over a local goes over a list that no other
  variable shares: `GetLocalRef` does not unshare it, `GetGlobalRef` does
  (`SharedListsPlain`);
* `plain`: a list that has references in it is not assigned to a variable, which
  would share them until one of the two is written to, and a loop by value does
  not go over one, which would hand out the references (`SharedListsPlain`,
  `ImplementsStore`);
* `collection`: the body of a loop changes its collection only in place: a clone
  would leave the iterator with the other copy (`IteratorFollowsCollection`).

### Array

`memory` is the content of every slot of the storage, of the boxes of references,
and of two variables of the script: `Ref`, a reference to an item, and `Var`, which
holds an object. `stale` are the slots whose content was destroyed without
being reset. An action is a function of `func_list.hpp` with all the moves,
assignments, constructions and destructions that the array makes for it, in
their order: `std::move_backward` and `std::move` assign slot by slot (`MoveUp`,
`MoveDown`), and an assignment goes through a reference (`assign`) and releases
what it replaces. Counting is explicit, so that `CountsExact` can fail.

`ListAbstract` is a sequence and the position of the item that the reference is
to. `Array` implements it for scripts that take these precautions, each
necessary (drop it from `Precaution` in `MCArray.cfg`):

* `stale`: after `clear()` or a removal the slot behind the last item holds a
  destroyed value; an insertion in front moves the last item into that slot with
  an assignment, which releases the value a second time;
* `last`: `remove_at` moves the items behind the removed one and forgets the last
  slot: removing the last item destroys nothing, and its count is never given back;
* `alias`: the move assigns to what the removed item refers to: if it is a
  reference, the variable changes and the item stays;
* `empty`: `pop` and `shift` of an empty list make the size -1;
* `compare`: a comparison of a number with an object throws in the middle of
  `remove` or `sort`, which has then moved some items and lost one; and a sorted
  insertion into a list that is not sorted goes anywhere.

### The machine and its front end

One chain of modules follows a program from its text to its output:

    bytes --SourceFile--> text --Scanner--> tokens --Parser--> Ast --Compiler--> code --Machine--> output
                            ^                                   |                                    =
                            +------------- Writer --------------+------------- Language -------> meaning

`SourceFile` opens a file, tells its encoding by its mark and reads it line by
line, a UTF-8 line in pieces of 32 bytes; it also writes, so that a program of the
model is given to the runtime as a string, or is in a file that a script or the
host has written, with or without a mark and a last end of line. A file
in UTF-16 ends with a character that no program has (U+FFFF, `file.cpp:420`), one in
little-endian UTF-32 is taken for UTF-16, and in one in big-endian UTF-32 the end is never met.
`read_line_wide` has this as the engine does; the programs of the runs are in UTF-8 (section 5).
`Scanner` turns a string into its tokens, `Parser` these into a tree; a rule of the
parser is an operator of the same name that maps a state of the parser to the
next (`parse_statement`, `parse_conditional_expression`, ...). `Compiler` is one operator per visit of the
AST, over the routine that is compiled, its tables of locals and upvalues, the
open scopes, the jumps to be patched (`break_jumps`, `continue_jumps` and their
counts, which nested loops share) and the flags the visits leave for each other (`visit_arg`,
`visiting_reference`...). Code is a sequence of words and an address is a place in
it, so that a wrong patch makes the machine run astray. These are functions, no
state machine: compiling a program is not interrupted by anything.

`Machine` is a state machine whose actions are the operation codes of
`Runtime::interpret`. `store` is the memory (stack, boxes, functions and closures,
iterators, globals), `frames` the call frames, `running` the nested activations of
`interpret`, `ip` the next word. The result of a routine is told from its locals by
the height of the stack alone, as in `pop_call_frame`. A host runs the programs of
a session one after the other in one runtime (`do_string`); a program that fails
leaves its frames and values behind, as in the code, and the next one runs above them.

`Language` knows nothing of this: an evaluator in which a name denotes a
location, an execution of a declaration makes a new one, and `break`, `return` and
errors are signals that pass over what follows. `OutputAsMeant` compares the two.
`Writer` writes the text of a tree with as few parentheses as the precedence of
the operators allows; `ParsedAsWritten` says that the parser gives the tree back.

The programs of `MCMachine` are written with care for what the engine does not do.
It models these oddities as the code has them, and the scripts avoid them; most were
met by running the engine and its listing of the code on programs of the model:

* `and` and `or` whose left side decides leave no value (run `machine_and`);
* a local of a closed sibling scope is still found (`function.cpp:127`); a captured
  variable passed as an argument makes the machine read the next operation as an
  operand (`compiler.cpp:400`); a function written in an argument inherits the
  state `visit_arg` of the call (`compiler.cpp:871`);
* `continue` in `repeat` jumps over the test; `break` outside a loop starts the program
  again; a `break` in a function inside a loop is patched in the wrong routine;
* a reference declared in a loop is a reference to itself in the second turn, a
  local function defined in a loop merges with the one of the first turn;
  `var x` in a loop keeps the value of the turn before, and closures made in
  different turns share the variable of a `while`, `repeat` or `for`;
* `a[b[2]] = 9` assigns to `b`, `l[-1] += 2` changes the sign of the 1, an item of
  an item cannot be assigned to; printing a function is an error;
* a comment takes the end of its line with it (`scanner.cpp:406`), and so does
  a concatenation (`parser.cpp:628`): what the next line says belongs to the statement;
* an error of the compiler leaves its scope depth, flags and jumps for the
  next program (`compiler.cpp:52`); `1 + []` reads a freed object for the message
  of its error (`runtime.cpp:428`).

### Text

`heap` is the string data: code points, capacity, the number of graphemes and the
hash if they are remembered, and the reference count. `impl` says which data each
of two variables points to; `call` records the last call and its result, nothing
else in the module reads it. An action is a function of `func_string.hpp`, with the argument's
count held during the call where it is passed by value, or a function that only a
host program has (`chop`, `clear`, `fill`, `repeat`, `Join`, `shrink_to_fit`,
`trim_new_line`, `replace_char`). A buffer is changed in place if one variable has it
and it is large enough (`FitsAlone`); every change in place goes through `adjust`,
which forgets the length and the hash. A code point stands for the bytes that
encode it. A loop that would not end gives the result `Hangs`. There are at least four
buffers (`BufferAssumption`): two variables, a new text, and the old text of the variable
that is changed, if an argument holds it, need no more.

`TextAbstract` gives each variable a text of its own and tells every function in
terms of cutting a text into parts and graphemes and joining them again: the
answer of a call is part of the step. Scripts take these precautions, each
necessary (drop it from `Precaution` in `MCText.cfg`):

* `empty`: removing, replacing or counting the empty string does not end, or does
  nothing, and an empty string contains nothing, not even itself;
* `grapheme`: `find` of something that is found inside a grapheme (`"\n"` in
  `"\r\n"`, an accent) does not end: `distance` passes it by (`string.cpp:458`);
* `self`: `replace_at` takes the replacement from its first argument, the
  string itself (`func_string.hpp:313`): `replace_at("abc", 2, 1, "x")` gives `aabcc`;
* `split`: a string split by itself is not split;
* `exact`: `shrink_to_fit` may allocate less than the constructor of the data clears.

The first four were confirmed with the engine; the last is about host programs only.

### The MC modules

These give the constants their values; each `.cfg` is one question.

## 4. Runs

| Run | Module, cfg | What is checked | Bounds |
|---|---|---|---|
| `hashmap` | `MCHashmap` | `TypeOK`, `ProbeOrder`, `UniqueKeys`, `SizeCountsEntries`, `LoadFactorKept`, `NoNestedRehash`, `AssignsTheKey`; refinement `ImplementsMap`; liveness `CallsReturn` | 4 keys, 2 values, capacities 0, 1, 2, 4 and 8 |
| `recycler` | `MCRecycler` | `TypeOK`, `MemorySafe`, `CountsExact`, `ColorsAtRest`, `FoundIsGarbage`; liveness `ReleaseReturns` | a class and 3 objects, a handle on each, lists of one item, threshold 2 |
| `dispatch` | `MCDispatch` | `TypeOK`, `SortedByArity`, `SignaturesDistinct`, `ReferenceConsistent`, `CheapestSelected`, `PassedAsDeclared` | 2 functions, 5 closures, 3 classes, calls of 2 arguments nested twice |
| `values` | `MCValues` | `TypeOK`, `SharedListsPlain`, `IteratorFollowsCollection`, `ResolveEnds`; refinement `ImplementsStore` | a global, a local, the parameter and the loop variable; a scalar and null; 3 boxes; 2 lists of one or two items |
| `array` | `MCArray` | `TypeOK`, `CountsExact`, `SpareSlotsNull`; refinement `ImplementsList` | 2 numbers, an object, a box; up to 3 items, capacities from 2 |
| `text` | `MCText` | `BuffersSound`; refinement `ImplementsTexts` | 2 characters and the upper case of one; 4 buffers; texts of up to 3 and 2 characters |
| `machine` | `MCMachine` | `TypeOK`, `ParsedAsWritten`, `OutputAsMeant`, `OperandsAboveLocals`, `LoopsBalanced`, `FramesDisjoint`, `QuietWhenIdle`; liveness `SessionsEnd` | 145 sessions of one to four programs; one in three as a string, the others in files; about 1000 expressions that are only read |
| `hashmap_clear` | `MCHashmap` | `LoadFactorKept` with clear | as `hashmap` |
| `recycler_live` | `MCRecycler` | `LiveNotFreed` | as `recycler`, with 2 handles on each |
| `dispatch_flags` | `MCDispatch` | `PassedByBitset` | as `dispatch` |
| `values_lost` | `MCValues` | `ItemAssigned` without the precaution `update` | as `values`, with 2 scalars and 3 lists of one item |
| `machine_and` | `MCMachine` | `ReturnAboveLocals` with an `and` whose left side is false | one program |

The runs of the last five rows end in a counterexample: section 5.

*Why the bounds are enough.* The four keys collide in every way the code
distinguishes: two have the same full hash, one shares their position at every
capacity reached, the chain wraps around the end of the table onto the
preferred slot of the fourth key, whose hash code is 0. A table grows from no
slot to eight; a copy reserves the power of two next to its size (one, two or
four slots), which the load factor does not allow it to fill, so that it is
rehashed in the middle of the copy, with entries in the old and in the new
storage and some in neither. Three
objects and a class allow a cycle, a cycle with an object hanging off it and a
candidate that is destroyed while another one is root; with a threshold of 2 the
class and one candidate fill the list, so that nearly every release starts a
collection, also the releases made by destructors. Within these bounds a collection meets
half-destroyed objects and garbage cycles, and in regular runs the list of candidates
does stop the program, by an assertion and by a dangling link. The five closures tie
(`int_num` and `num_int` for two integers), repeat a signature (`int`, `int2`),
differ in how they take an argument (`num_ref`) and in their number of parameters.
Two functions are needed for a merge of a merge; two nested calls for a callee
that redefines the function that waits. For values, a global and a local are
what the opcodes distinguish; two lists are a list and its clone, shared by any
of four variables, the stack and the iterator; three boxes allow a variable, an
item and the collection of a loop to be references at once. Statements that
would need more objects are not chosen (`Room`). A loop is the last statement of
the routine: its locals are then destroyed, while elsewhere they would hold on to
their last values and multiply the states.

For arrays, a list of three items has a first, a middle and a last one, and
grows from no storage through two capacities; one object and one box are enough
for an item to be held twice, once more by a variable, and as a reference. For
strings, an end of a line and a mark that joins what it follows give texts of
three graphemes, of one grapheme of three characters, and everything between;
a minimal capacity of 2 makes a buffer grow within these lengths; four buffers
are the most that a call needs. Text positions beyond the end, before
the beginning and 0, and negative numbers of graphemes, are among `Index` and `Count`.

The sessions of the machine are every pair of nested loops (`while`, `repeat`,
`for` up and down, `foreach`) left by `break` and `continue` in either order;
scripts about closures, recursion, references, overloads, lists and shadowing; 24
ways to fail, most of them in a loop in a call in a concatenation, each with a program after it
that finds what the failure left; programs that the parser or the compiler
rejects between others; options that last; and operators applied to each other.
The scripts were also run by the engine itself, from files with and without
a mark and a last end of line, with the same output in all of them.
Every pair of binary operators, either way round, and each of them under and
above every other form of expression, is written and read back.

*Reductions.* In `text` the four buffers are alike (`SYMMETRY`), and states that
differ in `call` alone are one (`VIEW`). `call` is a history: no action reads
it, and the invariants do not. The property `ImplementsTexts` relates the two ends of a step
and TLC checks it for every step that it generates, also to a state it has met, so that each call is
compared with what it promises although most calls do not change a string. There is no liveness
property in that run.

*Fairness.* Only `WF` of the steps inside a call (`Internal`), and of the next
operation of the machine: the engine is single-threaded, a call once made runs on.
The scripts and the host are not assumed to do anything but to run the
programs of a session.

*Deadlock.* `MCRecycler` switches the check off: a fault stops the program, and so
may running out of objects. `MCArray` and `MCText` do too: their scripts may stop
where every further call would lack care. The other runs check for it.

## 5. Where the code disagrees with what it says

Each of these is a run that ends in a counterexample; `PROJECT.json` quotes the
sentence of the repository that it contradicts.

* `hashmap_clear`: `clear()` destroys entries but leaves their hashes, so that
  their slots stay used. After a few rounds no slot is free, although the load
  factor is 67 %, and `lookup`, which has no other way to end, would run forever.
* `recycler_live`: the destructor of an object releases its items while the object is
  still in the list of candidates. When the list is full, such a release starts a collection
  (`object.cpp:45`, `runtime.cpp:86`) that comes upon the object: trial deletion takes away the very
  count that the destructor is giving up, the item looks like garbage, and `collect_white`
  destroys it although a variable holds it. There is no garbage cycle in the
  counterexample: a list in the candidates holds another list and is dropped.
  Two more things go wrong in runs that are not regular. A half-destroyed candidate with no color left is destroyed
  once more by `mark_candidates` (`runtime.cpp:1981-1984`, the fault `twice`). And the members of
  a garbage cycle are destroyed with destructors that release what trial
  deletion has already subtracted (`runtime.cpp:2076`): with two items to a list, an object
  that hangs off the cycle and is in a variable can be freed.
* `dispatch_flags`: a call among the arguments overwrites the reference flags in
  the frame; variables after it are passed as the other function declares.
* `values_lost`: `a[1] = 5` pushes a copy of the list in `a` for `set_item`, which finds
  it shared by `a` and the stack, clones it and changes the clone.

* `machine_and`: the jump of `and` and `or` takes the value it tests off the stack.
  If the left side decides, no value is left, and the next operation takes a local;
  the frame is popped with the top of the stack below its locals.

Met while modelling, and not the property of a run: `mark_candidates` follows a link
that it has just reset, so that the rest of the list is popped purple and never
listed again; popping a candidate does not decrement `gc_count`. The only
candidate of the list has no links and does not look like one to `is_candidate`: its destructor leaves
`gc_root` to the freed object, which the next collection or candidate touches. The collection that
`add_candidate` starts may color the very object black that is listed after it; the next release links
the object again, to itself if it is alone, and then the assertion of `remove_candidate`
fails (`ListFault` admits these two). A program in UTF-16 or UTF-32 cannot be read
(`file.cpp:420`), while `file.hpp:28-31` lists these encodings as read-only and `file.hpp:131` says
that a line is converted to UTF-8 on the fly. An iterator over an emptied table
with storage yields one free slot; `get_distance` reads beyond the bases of a
class that is less deep than the parameter's; the message about an ambiguous
call lists closures that cannot take the arguments. The precautions of section 3
are further ones.

## 6. Proofs

**HashmapProofs.** Type correctness alone is not inductive: that positions stay
inside the table needs to know which loop is running and whether the table has
any slot. `IInv` adds `Control` (what each value of `pc` says about `call`,
`probe` and the two walks) and `Room`: while `insert_entry` probes, there is a
capacity, and while `rehash` moves entries, the new storage is large enough for
the size counted. `Room` makes `RehashNeverNests` provable: a rehash chooses at
least twice the capacity that was too small, so that `(size + 1)` is below 67 % of it,
and the reinsertions leave the size alone. The proof is one lemma for each
group of actions (`LookupStep`, `GrowStep`, `ProbeStep`, `PlaceStep`, `ShiftStep`,
`CallStep`), over arithmetic lemmas about positions and loads. It assumes that
hashes are natural numbers, that capacities are positive numbers (those of
`Power2`; nothing depends on their being powers of two), and that the marks
`Free`, `Fresh` and `Absent` are not entries or values.

`ProbeOrder`, in the rest of the module, is not inductive either. That an entry can be found
rests on the order of Robin Hood: walking from an entry's preferred slot to the entry,
each slot holds an entry at least as far from its own. An insertion breaks this order
unless the entry in hand stops where it would be the richer one, a deletion unless
the shift moves exactly the run of displaced entries. The invariant `Inv` is `IInv` and

* `Hashed`, `Walking`: a key's entry carries its hash, also in `probe` and in the old
  storage, and the walks are where their loops say;
* `Counted`: the used slots, the entry in hand and what a rehash has still to move
  add up to `size`, which with the load factor leaves a free slot;
* `Ordered`, `Unique`: the order and that no two entries have one key, in the slots that
  the running loop has not opened;
* `Probing`, `Looking`, `Answer`: the slots passed are richer than the entry in hand;
  the key looked for is in none of the slots passed; the result is where the key is.

TLC checked `Inv` as an invariant of `hashmap` before it was proved.

`ImplementsMap`, in the last part: each step of the table maps to a step of
`HashmapAbstract` or to none. `Meaning` says that the abstract value of a key, which
is defined by search through slots, hands and old storage, is the value of *any* entry
found with that key (by `Unique` there is one at most); during a copy the map is that of the
table copied, and `Copied` are those of its entries that the copy has. A swap, a shift and a
move by rehash carry entries from one of these places to another and map to
stuttering, and so do the insertions of a copy; `MapStep` is proved for each action.

**DispatchProofs.** `TypeInv` is `TypeOK` with what the types of the locals need
(`InCall`, `Measuring`). `Overloads` (sorted, distinct, consistent) is inductive
together with it: the lemmas `InsertSorted` and `InsertElements` say what
inserting at the insertion point does to a sorted sequence, `AddClosureStep`
lifts this to `add_closure`. `Passing` needs `PassInv`: as long as no argument is
the result of a call the frame's flags are those of the current function
(`Prepared`), the closures that `find_closure` considers are among the
function's (`Eligible`), and the one it runs has them (`Selected`); with
`Overloads` it follows that each variable is passed as that closure declares.

`CheapestSelected`, in the second half of the module, compares the two loops of `find_closure`
with a definition by sums of distances. `Searching` is the loop invariant: the cost
accumulated is the sum over the parameters measured (`Summing`), the closure kept
is the cheapest of those tried and the flag of a conflict tells whether another one costs the same
(`BestOfTried`); stopping at the first closure with more parameters than
arguments loses nothing, because `Overloads` are sorted.

**RecyclerProofs.** `MemorySafe`, `CountsExact`, `ColorsAtRest` and `FoundIsGarbage`, for all
sets of objects, thresholds and bounds, in regular runs: a run that is not regular loses
counts, as `recycler_live` shows, and the invariant with them. `MemorySafe` and `FoundIsGarbage` speak
about every step of the three mutually recursive traversals, whichever a destructor starts,
and so must the invariant. `Inv` says that a regular run that was not stopped satisfies
`IInv` and `Sound`, and that a regular run that was stopped has freed nothing a script can reach and was
stopped by its list (`ListFault`). The parts of `IInv` are:

* `Shape`: which calls may follow which in `todo`. It makes the phases disjoint: a
  collection that colors objects grey (`Marking`), one that scans (`Scanning`), and none (`Idle`), when
  objects are released and destroyed;
* `Balance`: the count of an object is the number of references to it, less those that
  grey and white objects hold, plus the trial deletions and less the restorations that
  are still in `todo`. Coloring an object and leaving the calls on its items
  changes neither side; with no color left, the count is the number of references;
* `Lives`: an object is freed, or about to be, exactly when nothing refers to it, the
  references that a destructor has yet to release included;
* `Colours`: what an object of a color may refer to, in each phase;
* `List`: the candidates are a list in both directions, in an order (`Positions`); nothing in the list is
  unborn. The only candidate of the list makes it less than that: it may refer to itself, and
  when it is removed, it may stay linked from behind (`Stub`);
* `Coverage`: every grey object is reached, over grey ones, from the calls and the candidates still to be
  scanned, every white one from the candidates still to be popped. Reaching
  is said with closed sets, as in `Reachable`. When the scan is over nothing is grey.

`Sound` is what keeps the calls off freed memory and the collector off live objects:

* `Owned`: what is about to be listed or destroyed is alive, and is destroyed once;
* `Visited`: a collection that comes upon no dying object colors nothing that is without
  references, so that no call of it is on freed memory;
* `Unused`: a white object has no count left, unless `scan_black` is about to reach it.

With `Balance`, `Unused` gives `FoundIsGarbage`: when the scan is over, a white object's references are all
held by white objects. `WhiteIsGarbage` concludes that the objects that are not white are
closed under the items of what has a handle, hence hold everything reachable. The
proof is a lemma for each action and each of the two invariants, over lemmas about counting calls and references
(`ThenTimes`, `RefsSplit`) and about removing from and inserting into the list
(`RemovedLinked`, `InsertedLinked`). TLC checked `Inv` on a class with two objects and lists of two items, and with
three objects and one item, within small bounds on the numbers in it. The assumptions are those that `Recycler` names about its constants.

**ValuesProofs.** `TypeOK`, `ResolveEnds` and `IteratorFollowsCollection`, for all sets of variables,
scalars, boxes and lists and every bound on the length of a list, of scripts that take the
precautions `acyclic` and `collection` (`CarefulScript`); the other three are about what is read, and
not needed. The three hold each other up: an iterator's list can only be compared with what
its collection resolves to where resolving ends; and whether an opcode closes a circle
depends on what lies on the stack. `IInv` is therefore one invariant of three parts.

* `Good`, of the memory: variants are of the kinds they may be (`Typed`); what is held
  has not been released (`Live`); no non-empty set of boxes is closed under what they
  hold (`Acyclic`), which is how a proof can use that there is no circle without counting
  steps; no item leads to a list (`ItemsFlat`). `Last` is the box where resolving ends.
* `Follows`: the list of the iterator is the one its collection leads to, and its position is an
  item or one more.
* `At`, one predicate for each opcode: what the opcodes that remain of the statement rely on. The
  checks of `Careful` and `Possible` are made when a statement starts and used when its last
  opcode assigns; in between variables are boxed, lists cloned and objects released.
  `AtGetRef` says, for example, that the assignment after it will go to a place that is not
  the one the reference is to (`Apart`), that does not lead to the collection of the loop
  (`Other`), nor is an item if a list is assigned (`NoItem`).

The lemmas before the opcodes say, for every operation on the memory, what becomes of `Last`
and `Final` (what a variant resolves to): `make_alias` changes neither, an
assignment changes those that lead to the place assigned, `unshare` puts a
clone where only those see it that led to the shared list through the same
place, and `Release` keeps what variables, the stack and the iterator reach. Then
there is a lemma for each opcode (`GetRefSound`, `SetSound`, `CallAppendSound`, ...: if `Sound` before,
`Sound` after it with the remaining opcodes), and one for each statement that it can start
(`StartRef`, `StartItem`, ...). The list of a loop that is appended to or assigned in
must not be cloned under the iterator: `Own` says that a variable that leads to it has it
for itself (`One`), also when its value moves into a box. TLC checked `Sound` with the two precautions alone, in the instance of `values`, before
it was proved. The theorems assume that variables and objects are finitely many and that null, the scalars,
the boxes, the lists and the mark `Freed` are different (`FinitelyMany`, `DistinctValues`).

**ArrayProofs.** `TypeOK`, `CountsExact` and `SpareSlotsNull` for each set of precautions
that contains `stale`, `last`, `alias` and `empty`; `compare` is not needed. The model releases
inside releases: `release` is a recursive function over the counts, and the lemmas on it
say that it takes off exactly what the destroyed variant held (`Holding`). A move
is proved slot by slot: after k turns, the slots moved hold what their neighbours held
(`Plain`: none of them is a reference, where the move assigns), and the holders of
every object are one fewer at the slot left and one more at the slot filled. `Spare` says what
lies behind the last item, which the next growth or insertion assigns to.

**ArrayRefinementProofs.** `ImplementsList`: each function on lists maps to one step of
`ListAbstract` or to none, with all five precautions. That the memory stands for a
sequence needs one fact more than `IInv`: `Single`, that no two items are the same
reference, or the item that a reference is to would have no position. `View` writes
the items, the position and the value kept by a reference in terms of the memory. Every function
that moves items has an order of its own (from the end, from the front, by swaps, by
the loop of `list_remove` over the positions left); the step lemmas of `ArrayProofs`
say where each slot's content came from, `Moves` is this as a function of
positions, and `ChangeStep` proves once that such a step is `List!Change`. The others
write to an item or its box (`WriteRefines`), make an item a reference
(`LinkRefines`), or copy the list and leave the boxes (`CloneRefines`).

**TextProofs.** `BuffersSound`: counts are the number of holders, a remembered
length or hash is the text's, and lengths are below capacities. Of the precautions it needs
`exact` alone: what the others exclude are wrong answers, not unsound buffers. `SoundMemory` is
the invariant in the middle of a call, with the buffers that the call itself keeps;
`Supply` says that a call never needs a buffer when all are taken.

**Recursion.** The library's induction theorems take an operator as a parameter,
which the provers here cannot instantiate. Induction is therefore stated for *sets* of
numbers (`Induction`), from the least number of a set; `Iterates`, `Continues`
and `Grown` derive from it that the recursive functions of the models exist and compute
what their equations say: sums of costs, the loop that doubles a capacity,
releases along a list.

*Only model-checked.* Liveness, since ENABLED is beyond the prover. The refinements
`ImplementsStore` and `ImplementsTexts`. Type correctness of
the recycler, for one conjunct: that `gc_count`, an `int` in the code, is never negative rests on how
often a stub is removed. Of the values, `SharedListsPlain`: it depends on the precautions `loop` and `plain`, and on
who holds the references in shared lists, which `IInv` does not say. The machine, whose compiler, parser and evaluator
are recursive over trees: what they compute for every tree is induction over
data, and they are written with recursive operators, which exclude theorems.

## 7. What is not modelled

* Of the table: construction from an initializer list and by move, equality, and
  the collection of keys and values (loops over the same iterator).
* Of memory management: classes whose traversal differs from their ownership
  (`Function::traverse` skips its closures), and the reuse of freed memory.
* Of values: lists in lists, tables, strings and arrays; upvalues (`Machine` has
  them); statements that fail.
* Of dispatch: the text of error messages, constructors, methods looked up by name, user-defined native
  callbacks, and the limit of 64 positions of the flags (`MaxArgs` is smaller).
* Of the machine and the compiler: floats, fields, tables, sets and arrays as
  values, references to items, methods, and native functions but `append`;
  reference counts and unsharing, which `Values` is about; and what an error of the
  compiler leaves for the next program (in the model such a program is the last).
* Of the scanner: letters outside ASCII and the positions of tokens.
* Of arrays: several dimensions, ranges and the numeric functions.
* Of strings: conversions, comparisons, formatting, searching without case, and
  regular expressions.
* Of files: `seek`, `tell`, `size`, single bytes, formatted output, surrogate pairs,
  and streams that are read and written in turn.
* Regular expressions, the math and system modules and the utilities are layers
  over libraries.
