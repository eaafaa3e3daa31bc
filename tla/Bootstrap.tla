----------------------------- MODULE Bootstrap ------------------------------
(***************************************************************************)
(* What parse (ast_build.c) does before it reads a file: reset_traits and  *)
(* reset_types fill the tables of traits and of types (static_types.c).    *)
(*                                                                         *)
(* The types of the trait Add are a HashTable.  Those of its               *)
(* implementation for int are a clone (bth_htab_clone): it copies the      *)
(* slots and not the entries they point to, and nothing is added to either *)
(* table afterwards, so that data is the content of both.  (Its rows are   *)
(* copied into arrays of nb = 0 positions, which nobody reads and whose    *)
(* overrun stays within what malloc hands out at least.)  The other tables *)
(* get two entries at most: what matters is the slots they have.           *)
(***************************************************************************)
EXTENDS Integers, Sequences

CONSTANTS NULL, JUNK, RESERVED

VARIABLES
  cap, nd, nb, noresize, size, data, map, todo, ret, st,   \* of the types of Add
  fixed,     \* type_table may not grow (its noresize, which nothing sets)
  typeTable, \* the names in type_table; the slot of a name is its type-id
  traits,    \* the implementations entered for int
  step,      \* 1-3 the parameters of Add, 4 char, 5-7 the types of the
             \* implementation, 8 its function, 9 int
  outcome    \* "running", "ready", "rejected" (perr) or "faulted"

table == <<cap, nd, nb, noresize, size, data, map, todo, ret, st>>
vars == <<table, fixed, typeTable, traits, step, outcome>>

\* The parameters of Add and the row djb2 gives each among eight.
Params == <<"Self", "Rhs", "Output">>
Rows == [Self |-> 7, Rhs |-> 2, Output |-> 6]
AddTypes == INSTANCE HashTable
  WITH Keys <- DOMAIN Rows, Vals <- {"any", "int"}, Hash <- Rows,
       Geometry <- {<<8, 0, 0>>}, NewCaps <- {}

\* __define_add_trait builds the function add and puts it in no table.
Funcs == <<>>

Init ==
  /\ AddTypes!Init
  /\ fixed \in BOOLEAN
  /\ typeTable = <<>> /\ traits = {}
  /\ step = 1 /\ outcome = "running"

-----------------------------------------------------------------------------
Running == outcome = "running"
Advance == step' = step + 1 /\ UNCHANGED <<fixed, outcome>>
Ends(how) == outcome' = how /\ UNCHANGED <<table, fixed, typeTable, traits, step>>

\* What a slot of an array of n points at; behind the array it is anything.
Slot(slots, n, i) == IF i < n THEN slots[i] ELSE JUNK
IsEntry(pointer) == pointer \notin {NULL, JUNK}

\* The next bth_htab_add of __define_add_trait, which looks at no answer.
DefineParam ==
  /\ Running /\ step \in DOMAIN Params
  /\ AddTypes!Add(Params[step], "any")
  /\ Advance
  /\ UNCHANGED <<typeTable, traits>>

\* define_type: a table of two slots, the first reserved, grows for the second
\* name, or else the name counts as declared.
DefineType(name) ==
  IF typeTable # <<>> /\ fixed
  THEN Ends("rejected")
  ELSE /\ typeTable' = Append(typeTable, name)
       /\ step' = step + 1
       /\ outcome' = IF name = "int" THEN "ready" ELSE outcome
       /\ UNCHANGED <<table, fixed, traits>>

DefineChar == Running /\ step = 4 /\ DefineType("char")

\* __define_int_type clones the types of Add and stores int in each of the
\* clone's first three: in the entries of Add.
StoreType ==
  /\ Running /\ step - 4 \in DOMAIN Params
  /\ IF IsEntry(Slot(data, size, step - 4))
     THEN /\ data' = [data EXCEPT ![step - 4].val = "int"]
          /\ Advance
          /\ UNCHANGED <<cap, nd, nb, noresize, size, map, todo, ret, st, typeTable, traits>>
     ELSE Ends("faulted")

\* The parameters of the first function of the implementation become ints;
\* impl2str then reads every slot of the types to name the implementation.
StoreFunction ==
  /\ Running /\ step = 8
  /\ IF /\ IsEntry(Slot(Funcs, Len(Funcs) + 1, 1))
        /\ \A i \in 1..(size - 1) : IsEntry(data[i])
     THEN /\ traits' = traits \union {"Add<int, int> for int"}
          /\ Advance
          /\ UNCHANGED <<table, typeTable>>
     ELSE Ends("faulted")

DefineInt == Running /\ step = 9 /\ DefineType("int")

Next == DefineParam \/ DefineChar \/ StoreType \/ StoreFunction \/ DefineInt
Spec == Init /\ [][Next]_vars /\ WF_vars(Next)

-----------------------------------------------------------------------------
\* The compiler gets as far as reading a file, samples/val_ret_0.cml say.  Even
\* where memory that nothing wrote is zero, so that tables grow and a slot that
\* was not cleared is NULL, it follows no pointer that is none.
Boots == ~noresize /\ ~fixed /\ (\A i \in DOMAIN data : data[i] # JUNK)
           => outcome \notin {"rejected", "faulted"}
=============================================================================
