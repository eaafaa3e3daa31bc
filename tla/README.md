# A verification of cmlc

`cmlc` compiles CML, a small language of functions, `int`, `char` and pointers
to them, to C. It is a sequential program of some 4,000 lines and work in
progress: the repository does not build as it stands (the `+` case of
`ast_desug_binop` stops in the middle of a declaration), and it has no tests
besides ten sample files, named `val_*` for valid code and `err_*` for wrong.
Nothing is concurrent and nothing is persisted. What makes the code hard is of
another kind: a hand-written hash table whose slot numbers are used as type-ids,
three passes that push and pop one global stack of contexts, two of which must
agree on how a name becomes a key, `Type` objects that are shared by pointer and
changed in place, results of one enumeration read as truth values, and loops
whose end depends on another component making progress.

## Inventory

| part | state | operations | interacts with |
|---|---|---|---|
| hash table, `include/bth_htab.h` | slots, rows of buckets, growth steps | new, add, delete, recap, destroy, clone, reset, lookups | used for symbols, types, traits, functions |
| contexts and symbols, `context.c` | `ctx_stack` (four frames), symbol table | push, peek, pop, current name, add and get symbol | parser, `ast_desug` and backend push and pop the same stack, one after the other |
| types, `types.c` | type and trait tables | `typeget`, `typecmp`, table comparison, implementation of traits | hands out pointers into the tree |
| bootstrap, `static_types.c` | fills the type and trait tables | `define_static_types`, `define_static_traits` | calls clone and `impl2str`, before any file is read |
| lexer, `bth_lex.h`, `token.c` | buffer, position, row, column | `next_token`, `check_prefix_collisions` | the parser asks for one token at a time |
| parser, `ast_build.c` | the current token, the tree | recursive descent | registers every declaration in the symbol table |
| desugaring, `ast_desug.c` | changes the tree | one function per kind of node | resolves names, checks types |
| tree dump, `ast_dump.c` | none | one function per kind of node | follows types, before or after desugaring |
| backend, `c_backend.c` | the output file, `argc` of functions | one function per kind of node | pushes contexts, empties the symbol table |
| driver, `main.c` | options | parse, desugar, dump or emit | runs the passes in order |

What makes each part correct:

* **hash table**: an entry is found by its key, whatever was added, removed or
  rebuilt before, and stays in its slot; memory that was not written is not read.
* **contexts and symbols**: the stack is the list of open declarations; both
  passes make the same key of a name; a key keeps its meaning.
* **types, desugaring**: a file is accepted exactly if it is well typed.
* **lexer**: tokens tile the file, rows are right, the longest keyword is
  taken, it stops.
* **parser**: it comes to a verdict, registers what the file declares, and
  builds the tree the grammar gives the tokens.
* **bootstrap**: it gets through.
* **backend, driver**: options mean what they say, a file is written for an
  accepted source only, and what is written is the tree that was checked.

## Modules

| module | what it is |
|---|---|
| `Dictionary` | abstract specification of the table: a finite map in which the first binding of a key wins |
| `HashTable` | `bth_htab.h`: one action per way through add, delete, recap, destroy, new |
| `Bootstrap` | `static_types.c` with `create_impl_node` and `bth_htab_clone`, on an instance of `HashTable` |
| `Types` | `Type`, `typecmp`, and how each caller reads its result |
| `Context` | the context stack, names, the symbol table (`context.c`) |
| `Scopes` | abstract specification of `context.c`: scopes like brackets, keys that keep their meaning |
| `Syntax` | the nodes of the tree |
| `Lexer` | `bth_lex.h` and `next_token` |
| `Parser` | `ast_build.c`, with its stack of open calls |
| `Reading`, `Grammar` | the grammar of CML as a relation between trees and tokens |
| `Desugar` | the declarations of the parser again, and `ast_desug.c`, over the visits of a tree |
| `Ast`, `Typing` | the order of the visits; a declarative type system |
| `TypeChecker` | relates the verdict of `Desugar` to `Typing` |
| `Backend` | `c_backend.c`, with its stack of open calls |
| `CText` | what C reads in the emitted tokens |
| `Driver` | `main.c`: the loop over the command line, and which pass follows which |
| `Compiler` | `Driver`, with `Parser`, `Desugar` and `Backend` as its passes on one stack and one table |
| `CompilerTrees` | what `Compiler` takes as a parameter, as recursive definitions over trees, and the properties that speak of trees |
| `Samples` | the samples of the repository as trees |
| `HashTableProofs`, `LexerProofs`, `ParserProofs`, `DesugarProofs`, `DriverProofs`, `CompilerProofs` | theorems about the module of that name |
| `DeclarationProofs` | the theorem about the declarations of `Parser` and the symbol table |
| `DataLemmas` | least elements, sequences and joined sequences, for the proofs |
| `MCHashTable`, `MCLexer`, `MCParser`, `MCDesugar`, `MCDriver`, `MCCompiler` | instances for TLC |

`Parser`, `Desugar` and `Scopes` extend `Context`; `Compiler` instantiates
`Driver`, `Parser`, `Desugar`, `Backend` and `Scopes` on its own variables, and
`CompilerTrees` adds `CText`.

### HashTable and Bootstrap

`data` is the array of slots, `map` the rows of buckets; a bucket is a sequence
of slot numbers ended by zeros, as in the layout comment at the top of the
header. `bth_htab_add` is five actions: the key is bound (`AddBound`), there is
a free slot (`AddInPlace`), data grows (`AddGrowing`), data may not grow
(`AddRefused`), or the bucket cannot grow (`AddOverrun`). The rebuild of
`bth_htab_recap` is a walk with a position, `todo`, so that the invariant says
what is true in the middle of it.

Two reads of memory that nothing wrote are choices: `noresize`, which no
function sets, is either truth value; the last slot of a growth by two or more
is `NULL` or `JUNK`. Following `JUNK` as a pointer, or writing past a bucket
that has nothing to double, makes `st` `"undefined"` and ends the behaviour,
since nothing can be said of what comes after it. Failed allocations are not
modelled: every caller uses wrappers that exit or ignores them.
A hash is a constant function; which keys share a row is up to the instance.

`Bootstrap` is what `parse_file` does first. The table of the types of `Add` is a
`HashTable` with the rows djb2 gives its three keys. A clone shares the entries
of the original, so that one `data` is the content of both.

### Context, Scopes, Types

A name is the sequence of its pieces between underscores, because keys are names
joined with underscores and this joining is not injective. The symbol table is
a function in which the first binding wins: that is `Dictionary`, which
`HashTable` is proved to implement. (`symtable_reset(16)` makes a table with
growth steps 2 and 2; nothing is ever removed from it.) Two things `HashTable` has
are left out of `Context`: `noresize`, which nothing sets, is taken to be false for
the table of symbols, so that every key is stored; and the slot that a growth by two
leaves uncleared matters where the whole table is walked, which is in `Compiler`.

### Lexer

One step is one round of the loop of `next_token`. The tables are constants. The
column is not modelled (skipped characters do not advance it, so it is no column
number, and only messages use it), nor is the mapping of `identify_token` from
first characters to literal kinds, except that it reads in front of the end of
an unclosed literal, which has none. `MaxRow` caps the row counter; the texts
must have fewer lines (`TextsAssumption`), so that it is reached only at an
unclosed comment, whose lines are counted again in every round.

### Parser

The recursion of `ast_build.c` is a stack of frames, `calls`: each has the place
the function goes on from, and its local variables. A step is a function up to
its next call of a `parse_*` function, its return, or its second call of
`next_token`. The lexer is seen through `next_token`: `Follow` says which tokens
may come next, and the end token is repeated for ever, with the idx of `int`, as
`bth_lex.h` has it. An unexpected token is `"rejected"` (`err_tok_unexp` exits).
`get_token_int` and `get_token_char` are a set of refused constants. `read` is a
history of the tokens, for `Grammar`.

Oddities that the code has and the model keeps: a name is any token; a file-level
declaration cannot start with `char`; `+` and `=` take all that follows for their
right side; commas between parameters and arguments may miss.

### Desugar

A file is the sequence of visits that `ast_desug_node` makes of its tree, so that
the recursion of the code becomes a program counter and the calls that are open
become the two stacks `ctx` (the real one) and `operands` (the nodes whose parent
has not used them yet). `types[i]` is the `Type` object of the declaration or
literal visited at `i`; an operand only says whose object `typeget` would return
for it. This is where the code shares: `a`, `*a` and `b + 1` own no `Type`, and
`*` and `&` change the one of the declaration.

The first pass (`Parse...`) does to the stack and the symbols what `ast_build.c`
does while it builds the tree; the second (`Desug...`) has an action for each
function of `ast_desug.c`. An error (`derr`, `perr`) ends in `"rejected"`, a
failed assertion in `"aborted"`. The `+` case is modelled up to where the source
stops: the sum has the type of its left side and nothing is checked.
`WellFormed` says what visits of a tree are; `ProgramsAssumption` demands it of
every file, and TLC evaluates it on all those of the runs.

`Typing` says what is well typed without stack, table or shared object: a name
means its first declaration in its function, and declared types do not change.
Two rules of it are the code's own and look odd: an assignment or an argument
must be a `char` (or a pointer to `char`) that goes into an `int`, because
`typecmp` answers 0 for just that case and its callers take anything else for an
error (see Findings); and a variable may be used above its declaration, since the
first pass has registered all of them.

### Driver

One step is one turn of the loop of `main`, or one pass. The loop takes the
arguments from the front, `-o` with the one behind it, and rejects what it does
not know; a second file, or none, is an error only behind the loop. What a pass
does is left open: it ends well, or the compiler exits. `Given`, `OutPath` and
`Left` say what a whole command line means, without a loop.

### Backend and Compiler

`Backend` keeps what is still to be emitted as one list, `todo`, of nodes, of the
tokens that follow the return of a call, of the loops over the nodes of a module, a
function or a call (`EmitLoop` is a turn of one), and of the ends of calls that
leave a context or count a parameter. The output is a sequence of C tokens
cut as C cuts them (`&&` is one token), without layout. `argc` is the field of
the function node, which the code counts down while it prints parameters.
`CText` reads the tokens with the precedences of C.

`Compiler` gives the passes of `Driver` their content: each of its steps is one of
`Driver` together with what the pass needs, or a step of a pass that leaves the
options alone. The tree of `Parser` becomes the visits of `Desugar`, whose types
become those of the tree `Backend` emits. `ctx` and `symbols` are the same variables in
all of them; `table` is the table with the nodes as `Desugar` counts them. A dump
is one step: whether it gets through is modelled, the text is not. It dies of
`*` and `&` before `ast_desug` has given them types, and of a `char` literal that
`&` has made look like a string. With two keys the table of symbols has the uncleared
last slot of `hash_table_slots`: `dump_symbols` follows it, and so does the
`symtable_reset` before the emission, which frees the table. Either may kill `cmlc`
(`SymbolsKilled`) or find nothing there. The bootstrap is left out of the sequence,
since nothing would follow it (see Findings).

What is made of a tree by recursion over it is a parameter of `Compiler`: the
visits of a file (`ProgramOf`), the expressions without a type (`TypeMissing`), and
the tree `ast_desug` leaves (`Keyed`). The runs give them the definitions of
`CompilerTrees` and `Ast`. Three assumptions say what `Compiler` needs of its
parameters: those of `Driver` and `Parser`, and, in `ProgramsAssumption`, that the
visits of a source are those of a tree and meet its declarations in the order in
which the parser makes their nodes, each under the same key. TLC evaluates it on
every file of the run.

## Runs

| run | what it asks | bounds |
|---|---|---|
| `hash_table` | `TypeOK`, `IndexExact`, `LookupExact`, `UnitGrowthIsSafe`, `SlotsStable`, `ImplementsDictionary` | three keys, two values, four geometries (the ones the compiler asks for, with two rows), rebuilds to one or three rows |
| `lexer` | `TypeOK`, `Lossless`, `RowExact`, `WordsWhole`, `KeywordsLongest`, `Progress` | every text of up to four characters of seven kinds, and up to two characters inside and behind a comment; two keywords of which one begins the other; `MaxRow` = 9 |
| `parser` | `TypeOK`, `ContextIsCalls`, `SymbolsOfFile`, `TreeIsTheFile`, `KeepsScopes`, `Termination` | eight templates with up to five free tokens, seven in expressions and nested functions; four contexts, two parameters |
| `desugar` | `TypeOK`, `ContextIsEnclosing`, `ContextFits`, `PassesAgree`, `AssertionsHold`, `Sound`, `Complete`, `BindingsStable`, `Termination` | about 6,700 files: a function of one parameter and a main with two variables, a statement and a return; redeclarations and initialisers, also such as read their own variable; a parameter with an initialiser; names in `f` that have the key of a function, and calls of a name that has the key of a local, which `ast_desug` resolves to the one or the other; file-level variables; functions nested up to four deep; the samples |
| `driver` | `TypeOK`, `OptionsAsWritten`, `EmitsUnasked`, `ArgsEnd` | every command line of up to five words: `-o`, three of the flags, a file, and a name of none |
| `compiler` | `TypeOK`, `TreeIsTheSource`, `KeysAgree`, `ExitIsVerdict`, `OutputOnlyAccepted`, `OutputIsTheSource`, `KeepsScopes`, `Termination` | eleven command lines on one file; about 210 files, 42 of them with each dump, the samples with `--syms` too; five of them are wrong, of which one ends inside its parameters; up to three parameters |

and one run for each finding below, with a single property that TLC finds
violated: `hash_table_slots`, `equal_types_assign`, `declared_once`,
`declared_type_kept`, `pointer_dump`, `bootstrap`.

Why the bounds are enough. Three keys are what can go wrong in the table: two
share a row of the initial map and all three share the row of a rebuilt one, so
that a removal can open a gap in front of, between and behind other entries; with
three entries each of the four geometries grows its data at least once, two of
them to a size whose last slot is not cleared. A template of `parser` puts the
free tokens where one function of `ast_build.c` reads, so that this function
meets every sequence of its tokens; seven are an expression of four operands, or
a function inside a function inside a function, which is one more than
`ctx_stack` holds. In `desugar` two types of two variables, at most one level of
pointers written and another by `&`, reach every result of `typecmp`.
`compiler` needs no more of these, only what passes from one pass to the next:
types that have changed, keys, `argc`, the order of declarations; every way of
writing a command line is for `driver`, where five words are enough for `-o`
twice, `-o` without a path, a repeated option, and two files.

Deadlock is not checked in any run: the compiler exits, the lexer stops, and a
table is at an end after undefined behaviour.

`Termination` and `Progress` assume weak fairness of the next-state action. The
program is one process that runs until it exits, and no step waits for anything.
`ArgsEnd` of the driver assumes it of the loop only, since a pass, seen from
there, may not come back.
`Termination` of the parser and of the compiler excepts exactly the end of the file
inside a list of parameters, where the loop at ast_build.c:492 reads the end token for ever;
`Progress` of the lexer excepts an unclosed comment, at which `next_token` goes
round for ever (token.c:132; the message for it, bth_lex.h:215, is commented out).

`Sound` and `Complete` speak of the files in which no `*` or `&` changes a
`Type` that is read at another place (`Unshared`), the check of the variable's own
initialiser included: `&int a = *a` is accepted, since both sides of the comparison
are the object that `*` has changed. And of those in which every name that is used
has a key of its own (`OwnKeys`): in `f`, `x` is the function `f_x` if there is one.
Some 3,000 of the generated files are such, and about 200 of these are accepted.
On the others the verdict depends on the order of the visits, which is the defect the
run `declared_type_kept` shows, or on whose key came first. `ExitIsVerdict` is about
the same files, to the end of the run: 0 only for a file that is to be accepted, 1 only
for one that is not or where the output cannot be opened, and killed, on a file that
is to be accepted, in four cases only (`MayBeKilled`): a return of `*` or `&` with
`--ast`, a `char` behind `&` with `--irep`, two keys where the table is dumped or
freed, and no `$PWD`.

`OutputIsTheSource` leaves out what the backend
writes wrongly by construction (`Emittable`): strings, which are printed with the
conversion of integers; assignments inside expressions, which end their own
statement; `&` right behind `&`, which C reads as one operator; and parameters with an
initialiser, which C has not. It compares with
the types `ast_desug` has left, not with the ones that were written.

### Findings

Each is a run that TLC must find violated by what the code does.

| run | the code | the repository says |
|---|---|---|
| `hash_table_slots` | `bth_htab_resize` (bth_htab.h:335) clears one slot too few | the layout comment, bth_htab.h:31-34: a slot is an entry or `NULL` |
| `equal_types_assign` | `a = b` of two ints is an error (ast_desug.c:129), and so is `foo(4)` with an int parameter (line 200) | samples/val_ret_69.cml:4 |
| `declared_once` | a second declaration is accepted (context.c:100) | samples/err_var_decl1.cml:3 |
| `declared_type_kept` | `*a` changes the type of `a` (ast_desug.c:101) | samples/val_ptr1.cml:3 and 4 |
| `pointer_dump` | `--ast` follows the missing type of `*a` (ast_dump.c:82) | samples/val_ptr1.cml:4 |
| `bootstrap` | the implementation of `Add` for `int` writes to a function no table holds (static_types.c:99), before any file is read | samples/val_ret_0.cml:1-2 |

## Proofs

These modules prove properties of the runs for every value of the constants.
`DataLemmas` has what several of them need and the library does not say: that a
set of numbers has a least element (so that a proof may take the least
counterexample, where others would use induction), and what `FlattenSeq` makes
of a sequence of names.

### HashTableProofs

Every property of the run `hash_table`, for all keys, values, hash functions and
geometries, from the assumptions of `HashTable` alone: the hash is a natural
number, a table has at least one row, the sentinels are no entries and no values.

The properties are not inductive. `IndexExact` speaks of the table between two
calls and in the middle of a rebuild, but says nothing of the shape of buckets
or of which slots may be pointed to when `todo` moves. The invariant `IndexInv`
is the conjunction of the type invariant, slot 0 being reserved, and (while the
table is live) `Dense`, `Sound`, `Complete` and `OncePerBucket` together with
`KeysUnique`. The argument has three layers:

1. lemmas about one bucket: `WithRoomFacts` (there is exactly one place to put a
   slot number, behind the others), `CloseGapFacts` (the bucket after a removal);
2. `ReputKeepsIndex`: putting a slot number in the bucket of its row extends the
   index by that slot; used by both ways to add and by the rebuild;
3. one lemma per action (`AddInPlaceStores`, ..., `RecapDoneInv`), put together
   in `NextInv`.

`LookupCorrect` then follows because a dense bucket without repetition has one
position for each entry. `SlotsCorrect` and `Refinement` are about steps, with
`IndexInv` on both sides. `UnitGrowthCorrect` needs an invariant of its own: with
a growth step of one no slot is `JUNK`, and with `nb > 0` no bucket overruns.

### LexerProofs

Every safety property of the run `lexer`: `TypeOK`, `Lossless`, `RowExact`,
`WordsWhole` and `KeywordsLongest`, and that tokens never overlap
(`TokensApart`), for all texts and all tables whose keywords and opening
delimiters are not empty and within a line.

`RowExact` is about tokens, and the next token gets its row from the counter: the
invariant says that the counter is exact where the lexer stands. This fails at
one place only, a comment that is never closed, where every round counts the
lines once more; so the invariant excepts it (`Stuck`), and `StuckFacts` with
`StartStays` show that the lexer cannot return a token from there or leave.
`LinesFacts` makes line counts add up; `DelimFacts`, `SymbolFacts` and
`WordFacts` say where a token ends and that its beginning is within a line. All
steps are one of two: `QuietKeeps` returns no token, `EmitKeeps` returns one that
the lexer then stands behind. `FirstIsLongest` is the point of
`check_prefix_collisions`: of two keywords at one place the shorter begins the
longer.

`Lossless` says of a gap between tokens that it is skips and closed comments, as
a chain of places (`Blank`). The gap that counts is the one that is not closed
yet: the invariant says it of the text between the last token and the place where
the lexer stands. Chains join (`BlankJoins`); what `bth_lex_skip` passes is one
(`BlankSkipped`), and so is a comment (`BlankComment`).

### ParserProofs and DeclarationProofs

`TypeOK`, `ContextIsCalls` and that `Parser` implements `Scopes`, for all tokens,
all languages and any depth of contexts, from `ContextAssumption` (there is room
for a frame) and `TokensAssumption` (the end of the file is one token, and the text
of every token is a sequence of pieces that is not empty).

The invariant is `CallsOK` (the open calls begin with the one of the file, every
frame has the fields its place needs and refers to declarations that were made),
`ReadOK`, `TablesOK` and `ContextIsCalls` itself. Most steps replace the frame on
top by others that stand for the same open function, and leave `ctx` alone: these
are treated once (`Replaces`, `QuietStep`), from the lemma that the number of open
functions below a frame (`OpenFuns`) depends on the frames below only. What is
left are the steps that enter or leave a function or add a symbol, each with its
own lemma; the same lemmas give the step of `Scopes` that it implements.

`SymbolsOfFile` is about the end of a parse: the table has the keys of all the
declarations of the tree, each with the first of its declarations, and no others.
In between, a declaration may have its node (`new_node`) and be in the table but
not in the tree, or be in the tree of an open function and not in the table,
since a function is registered behind all that is inside it. The invariant
(`DeclInv`) has three parts beside `IInv`. `Shape` says which function may have
called which, and `TopOK` what has been read where a call returns; together they
give `Structure`: while the file may still be accepted, at most two declarations
are open, a function and a variable in it, and what else is on the stack is
inside a type or an expression. `Booking` says it of those states: the keys of
the finished declarations, of the open one and of what is inside it (`KeysNow`),
put behind each other, are as many as the nodes made, in their order; and the
table has exactly those that are not still to be registered (`Unbound`), each
with the first node of its key. A function that is registered late keeps the
first place only because no key inside it is its own (`NodesOK`, from
`LocalName`: a joined name is longer than the name in front of it). `NewBooks`,
`BindBooks` and `KeptBooks` are the three ways to change the books: a node is
made, a key is bound, a frame is replaced by another for the same declaration.
The steps inside types and expressions are treated together (`DeepStep`); each
other step has its lemma. `Live` excludes the states from which no file is
accepted: a function nested in a function closes with `end`, where the statement
around it must close with `;` (`parse_fun_body`, ast_build.c:465).

### DesugarProofs

`TypeOK`, `ContextIsEnclosing`, `ContextFits`, `AssertionsHold` and
`BindingsStable`, for every set of well-formed files (`ProgramsAssumption`).

`ContextIsEnclosing` says which declarations are on the stack, not how many close
before the one on top does. The invariant counts: `Follows` says that frame k of
a stack of height h has h - k + 1 declarations more opened than closed since it
was pushed (`Balance`), so that a visit that closes one takes exactly the frame
on top and leaves the others open (`FollowsOpen`, `FollowsClose`,
`FollowsPlain`); `Rooted` ties the height to the count from the start of the
file, so that the stack is never popped when empty. In the same way `OperandsOK`
keeps the height of `operands` equal to `Depth`, the number of nodes that wait for
their parent, so that every visit finds the operands it takes. The names of types
never change (`TypesOK`), which is what `AssertionsHold` needs. There is one
lemma for each group of actions that do the same to the stacks.

`PassesAgree` is about the two ways to make a key. The parser takes the name of
the context as it is, `ast_desug` puts an underscore behind it in any case; and
keys are joined names, so that one key may be that of two declarations. So the
property says: a name that its function declares is found, and it is the first
such declaration there unless a declaration elsewhere has the same key. The
invariant (`SymbolsKeyed`) says that after the visits so far the table has the
keys of the declarations so far (`KeyAt`, made from the declarations around one
in the file, not from the stack), each with the first of them, where a function
counts from its end and a variable from its place. `Walk` and `SameScope`
show that two places with the same innermost declaration have the same frames
around them, however many functions open and close in between: the stack of the
first pass at the declaration is then that of the second pass at the use.

### DriverProofs

`TypeOK`, `OptionsAsWritten` and `EmitsUnasked`, for command lines of any length
and any files, from `RunsAssumption` (the null pointer is no word of the line).

`OptionsAsWritten` compares options that were set from the front, one word at a
time, with what the whole line says. The invariant (`ReadTo`) says it of every
turn: the loop has read the words up to some n, and path, flags and file are what
the line says of these words. `NextWord` is the lemma that carries it: the word
the loop takes for `-o` is the first one there is, so that the word behind it is
the one to leave out; each kind of turn then has its lemma (`OutTurn`,
`FlagTurn`, `FinTurn`), and `TwoLeft` shows that a refused word is a second file.

### CompilerProofs

`OutputOnlyAccepted`, for every set of command lines, files and tokens and every
choice of the parameters; and, where the parser makes the tree
that was written, `TypeOK`, `KeysAgree` and `KeepsScopes`.

The module has instances of `DeclarationProofs`, `DesugarProofs` and `DriverProofs`
for the variables of `Compiler`, so that what is proved of a pass by itself can be
cited for the pass in its place. The first lemmas say that the definitions of these
instances are those of the instances in `Compiler` (`SameParser`, `SameDesug`,
`SameDriver`, `SameScopes`), and that what the parts assume follows from what
`Compiler` assumes (`PartsAssume`).

The invariant (`Handed`) has a part for each phase: `DeclInv` of the parser and that
no context is open once the file is parsed (`Reading`); `IInv` and `SymbolsKeyed` of
`ast_desug` and that no context is open once the file is accepted (`Resolving`);
`Emitting` for the backend. The work is where one pass hands over to the next.
`ResolvingStarts` shows that the table the parser leaves, whose nodes are numbered
as they were made, is one that `ast_desug` can start from, where they are numbered
by their visits: `VisitsOfDecls` says that the visits of declarations are in
increasing order, so that the first declaration of a key stays the first.
`Emitting` says that as many contexts are open as there are ends of functions and
modules in `todo`, and that each context has a function that was emitted. The ends
are counted from the back of `todo` (`Closings`), where a step at its front does not
move them (`JoinedClosings`, `MoreHeight`); every step opens one, closes one, or does
neither (`EmitKinds`). So no pass finds a context that another one left behind, none
pops an empty stack, and the table is emptied between scopes only, which is
`ScopeStep`. `OutputOnlyAccepted` has an invariant of its own (`Written`). That every step is one
of `Driver` holds by the way `Compiler` is written; it is a lemma (`DriverStep`), by
which the invariant of `Driver` carries over.

The last three theorems have `[]TreeIsTheSource` as a hypothesis. It says that the
parser accepts no other tree than the one that was written, a statement about the
grammar and every sequence of tokens, which is model-checked in two runs
(`TreeIsTheFile`, `TreeIsTheSource`) and cannot be proved here. It is needed because
`ProgramsAssumption` speaks of the files there are: of a tree that is in none of
them nothing is assumed.

### Only model-checked

* `TreeIsTheFile`, `TreeIsTheSource`, `Sound`, `Complete`, `ExitIsVerdict` and
  `OutputIsTheSource`: the grammar, the typing rules, the order of the visits and
  the C text are recursive definitions over trees. What these compute for every tree
  cannot be proved without induction over data, which the prover does not take.
* that the definitions of `CompilerTrees` and `Ast` satisfy `ProgramsAssumption`, for
  the same reason: TLC evaluates it on the files of the runs.
* all liveness, which needs fairness.

## Not modelled

* `bth_htab_reset`, `peak_token`, `collect_tokens`, `impl_trait` and
  `typetablecmp`: nothing calls them (`impl_trait` ends in `TODO()`, and
  `bth_htab_reset` resizes in bytes what it counts in elements).
* `--tok` and the texts of the dumps, the one of the symbols included: they change
  nothing. Whether a dump gets through is modelled.
* the column of a token, which only messages show.
* a true `noresize` in the table of symbols: what `bth_htab_new` leaves unset is a
  choice in `HashTable`, whose properties hold for both, and false in the passes.
* string, option, I/O and allocation helpers, and failed allocations: they exit or
  are not looked at.
* the polymorphic types of `typecmp`: no source file can write one.

## What could come next

1. A refinement of `Lexer` and `Parser` into one, in which `Follow` is what the
   lexer returns for a text, so that rows of messages can be stated of trees.
2. `argc` as an invariant: as many parameters are still to come as the innermost
   function is short of. It is the part of `OutputIsTheSource` that speaks of no
   tree, and `Emitting` is where it would be added.
