----------------------------- MODULE HashTable ------------------------------
(***************************************************************************)
(* The hash table of include/bth_htab.h, on which the compiler keeps its   *)
(* symbols, types, traits and functions.  A table is an array of slots     *)
(* (data) that hold the entries, and rows of buckets (map) that hold the   *)
(* slot numbers of the entries whose hash falls in the row.  Slot 0 is     *)
(* reserved so that 0 can mean "free" in a bucket.                         *)
(*                                                                         *)
(* Two reads of memory that nothing wrote are choices here:                *)
(*   - bth_htab_new never sets noresize;                                   *)
(*   - bth_htab_resize clears all the new slots but the last.              *)
(* A slot with such content is JUNK: not NULL, and not an entry either.    *)
(***************************************************************************)
EXTENDS Integers, Sequences

CONSTANTS
  Keys,      \* strings, told apart only by equality
  Vals,      \* pointers stored as values
  Hash,      \* BTH_HTAB_HASH: the hash of each key
  Geometry,  \* the <<cap, nd, nb>> given to bth_htab_new
  NewCaps,   \* the row counts bth_htab_recap may be given
  NULL, JUNK, RESERVED

Entry == [key : Keys, val : Vals]
Slot == Entry \union {NULL, JUNK, RESERVED}

ASSUME HashAssumption == Hash \in [Keys -> Nat]
ASSUME GeometryAssumption ==
  /\ Geometry \subseteq (Nat \ {0}) \X Nat \X Nat
  /\ NewCaps \subseteq Nat \ {0}
ASSUME SentinelAssumption ==
  /\ NULL \notin Entry /\ JUNK \notin Entry /\ RESERVED \notin Entry
  /\ NULL # JUNK /\ NULL # RESERVED /\ JUNK # RESERVED
ASSUME ValueAssumption == NULL \notin Vals /\ (Vals \union {NULL}) \cap Nat = {}

VARIABLES
  cap,       \* number of rows of map
  nd, nb,    \* growth steps of data and of a bucket, 0 for "double it"
  noresize,  \* data may not grow
  size,      \* number of slots of data
  data,      \* the slots
  map,       \* the buckets, each with zeros after its slot numbers
  todo,      \* next slot for the loop of bth_htab_recap, 0 outside of it
  ret,       \* what the last bth_htab_add or bth_htab_delete returned
  st         \* "live", "freed", or "undefined" after undefined behaviour

vars == <<cap, nd, nb, noresize, size, data, map, todo, ret, st>>
geometry == <<nd, nb, noresize>>

TypeOK ==
  /\ cap \in Nat \ {0} /\ nd \in Nat /\ nb \in Nat /\ size \in Nat \ {0}
  /\ noresize \in BOOLEAN
  /\ data \in [0..size-1 -> Slot]
  /\ map \in [0..cap-1 -> Seq(Nat)]
  /\ todo \in 0..size
  /\ ret \in Nat \union Vals \union {NULL}
  /\ st \in {"live", "freed", "undefined"}

-----------------------------------------------------------------------------
(* Buckets. *)

AtLeastOne(n) == IF n = 0 THEN 1 ELSE n
Zeros(n) == [i \in 1..n |-> 0]
Row(k) == Hash[k] % cap
Live == {s \in 1..size-1 : data[s] \in Entry}

\* Positions bth_htab_get_idxp looks at: those before the first zero.
Scanned(b) == {p \in 1..Len(b) : \A q \in 1..p : b[q] # 0}
HitsWithoutKeys(k) == Scanned(map[Row(k)])  \* mutant: the keys are not compared
Hits(k) == {p \in Scanned(map[Row(k)]) : data[map[Row(k)][p]].key = k}
FoundFirst(k) == 1 \in Hits(k)              \* mutant: one position is looked at
Found(k) == Hits(k) # {}
Position(k) == CHOOSE p \in Hits(k) : \A q \in Hits(k) : p <= q

\* bth_htab_vget: the value under a key, as a caller sees it.
Lookup(k) == IF Found(k) THEN data[map[Row(k)][Position(k)]].val ELSE NULL

\* bth_htab_reput: a slot number enters its bucket after the last one there;
\* a bucket whose last position is taken grows by nb first (or doubles).
Full(b) == ~(Len(b) > 0 /\ b[Len(b)] = 0)
BucketStep(b) == IF nb # 0 THEN nb ELSE Len(b)
WithRoom(b) == IF Full(b) THEN b \o Zeros(BucketStep(b)) ELSE b
Ends(b) == {p \in 1..Len(b) : /\ \A q \in p..Len(b) : b[q] = 0
                              /\ p > 1 => b[p-1] # 0}
Put(b, p, s) == [WithRoom(b) EXCEPT ![p] = s]
Reput(r, s) == \E p \in Ends(WithRoom(map[r])) :
                 map' = [map EXCEPT ![r] = Put(@, p, s)]
\* Nothing to double: the new slot number is written past the bucket.
Overruns(b) == Full(b) /\ BucketStep(b) = 0

\* bth_htab_delete: close the gap a removed slot number leaves.
ClearGap(b, p) == [b EXCEPT ![p] = 0]       \* mutant: nothing moves up
CloseGap(b, p) ==
  [q \in 1..Len(b) |-> CASE q < p -> b[q]
                         [] q >= p /\ q < Len(b) -> b[q+1]
                         [] q >= p /\ q = Len(b) -> 0]

(* Slots. *)

FreeSlots == {s \in 1..size-1 : data[s] = NULL}
DataStepIgnored == size                     \* mutant: data always doubles
DataStep == IF nd # 0 THEN nd ELSE size

\* bth_htab_resize followed by the store of the new entry: every new slot is
\* cleared except the last, whose content is whatever the allocator left.
GrownShort(e, leftover) ==                  \* mutant: one slot too few
  [s \in 0..size+DataStep-2 |-> IF s < size THEN data[s] ELSE e]
GrownAnew(e, leftover) ==                   \* mutant: the old slots are not kept
  [s \in 0..size+DataStep-1 |-> CASE s = 0 -> RESERVED
                                  [] s = size -> e
                                  [] OTHER -> NULL]
Grown(e, leftover) ==
  [s \in 0..size+DataStep-1 |-> CASE s < size -> data[s]
                                  [] s = size -> e
                                  [] s > size /\ s < size+DataStep-1 -> NULL
                                  [] s > size /\ s = size+DataStep-1 -> leftover]

-----------------------------------------------------------------------------
(* Operations. *)

FreshData(n) == [s \in 0..AtLeastOne(n)-1 |-> IF s = 0 THEN RESERVED ELSE NULL]
FreshMap(c, n) == [r \in 0..c-1 |-> Zeros(AtLeastOne(n))]

Init ==
  /\ \E g \in Geometry :
       /\ cap = g[1] /\ nd = g[2] /\ nb = g[3]
       /\ size = AtLeastOne(g[2])
       /\ data = FreshData(g[2])
       /\ map = FreshMap(g[1], g[3])
  /\ noresize \in BOOLEAN
  /\ todo = 0
  /\ ret = NULL
  /\ st = "live"

\* bth_htab_new, for the place of a table that was destroyed.
New(g) ==
  /\ st = "freed"
  /\ cap' = g[1] /\ nd' = g[2] /\ nb' = g[3]
  /\ size' = AtLeastOne(g[2])
  /\ data' = FreshData(g[2])
  /\ map' = FreshMap(g[1], g[3])
  /\ noresize' \in BOOLEAN
  /\ st' = "live"
  /\ UNCHANGED <<todo, ret>>

Idle == st = "live" /\ todo = 0

\* bth_htab_add of a bound key: its slot is returned, the value is not stored.
AddBound(k) ==
  /\ Idle
  /\ Found(k)
  /\ ret' = map[Row(k)][Position(k)]
  /\ UNCHANGED <<cap, geometry, size, data, map, todo, st>>

\* bth_htab_add of a new key when data is full and may not grow.
AddRefused(k) ==
  /\ Idle
  /\ ~Found(k)
  /\ FreeSlots = {} /\ noresize
  /\ ret' = 0
  /\ UNCHANGED <<cap, geometry, size, data, map, todo, st>>

\* bth_htab_add of a new key in the first free slot.
AddInPlace(k, v) ==
  /\ Idle
  /\ ~Found(k)
  /\ ~Overruns(map[Row(k)])
  /\ \E s \in FreeSlots :
       /\ \A t \in FreeSlots : s <= t
       /\ data' = [data EXCEPT ![s] = [key |-> k, val |-> v]]
       /\ Reput(Row(k), s)
       /\ ret' = s
  /\ UNCHANGED <<cap, geometry, size, todo, st>>

\* bth_htab_add of a new key in the first of the slots data grows by.
AddGrowing(k, v) ==
  /\ Idle
  /\ ~Found(k)
  /\ FreeSlots = {} /\ ~noresize
  /\ ~Overruns(map[Row(k)])
  /\ \E leftover \in {NULL, JUNK} : data' = Grown([key |-> k, val |-> v], leftover)
  /\ size' = size + DataStep
  /\ Reput(Row(k), size)
  /\ ret' = size
  /\ UNCHANGED <<cap, geometry, todo, st>>

\* bth_htab_add of a new key whose bucket cannot grow.
AddOverrun(k) ==
  /\ Idle
  /\ ~Found(k)
  /\ FreeSlots # {} \/ ~noresize
  /\ Overruns(map[Row(k)])
  /\ st' = "undefined"
  /\ UNCHANGED <<cap, geometry, size, data, map, todo, ret>>

Add(k, v) == \/ AddBound(k)
             \/ AddRefused(k)
             \/ AddInPlace(k, v)
             \/ AddGrowing(k, v)
             \/ AddOverrun(k)

\* bth_htab_delete.
Delete(k) ==
  /\ Idle
  /\ \/ /\ ~Found(k)
        /\ ret' = NULL
        /\ UNCHANGED <<data, map>>
     \/ /\ Found(k)
        /\ ret' = Lookup(k)
        /\ data' = [data EXCEPT ![map[Row(k)][Position(k)]] = NULL]
        /\ map' = [map EXCEPT ![Row(k)] = CloseGap(@, Position(k))]
  /\ UNCHANGED <<cap, geometry, size, todo, st>>

\* bth_htab_recap drops every bucket, and then walks the slots to fill them.
RecapStart(c) ==
  /\ Idle
  /\ cap' = c
  /\ map' = [r \in 0..c-1 |-> Zeros(nb)]
  /\ todo' = 1
  /\ UNCHANGED <<geometry, size, data, ret, st>>

RecapReput ==
  /\ st = "live" /\ todo \in 1..size-1
  /\ data[todo] \in Entry
  /\ ~Overruns(map[Row(data[todo].key)])
  /\ Reput(Row(data[todo].key), todo)
  /\ todo' = todo + 1
  /\ UNCHANGED <<cap, geometry, size, data, ret, st>>

RecapSkip ==
  /\ st = "live" /\ todo \in 1..size-1
  /\ data[todo] = NULL
  /\ todo' = todo + 1
  /\ UNCHANGED <<cap, geometry, size, data, map, ret, st>>

\* The walk reads an entry through JUNK, or fills a bucket that cannot grow.
RecapUndefined ==
  /\ st = "live" /\ todo \in 1..size-1
  /\ data[todo] # NULL
  /\ data[todo] \in Entry => Overruns(map[Row(data[todo].key)])
  /\ st' = "undefined"
  /\ UNCHANGED <<cap, geometry, size, data, map, todo, ret>>

RecapDone ==
  /\ st = "live" /\ todo = size
  /\ todo' = 0
  /\ UNCHANGED <<cap, geometry, size, data, map, ret, st>>

Recap == RecapReput \/ RecapSkip \/ RecapUndefined \/ RecapDone

\* bth_htab_destroy frees what every slot but 0 points to.
Destroy ==
  /\ Idle
  /\ st' = IF \E s \in 1..size-1 : data[s] = JUNK THEN "undefined" ELSE "freed"
  /\ UNCHANGED <<cap, geometry, size, data, map, todo, ret>>

Next ==
  \/ \E k \in Keys : \E v \in Vals : Add(k, v)
  \/ \E k \in Keys : Delete(k)
  \/ \E c \in NewCaps : RecapStart(c)
  \/ Recap
  \/ Destroy
  \/ \E g \in Geometry : New(g)

Spec == Init /\ [][Next]_vars

-----------------------------------------------------------------------------
(* Properties. *)

\* Every entry is in the bucket of its row exactly once, nothing else is in a
\* bucket, and no zero hides a slot number behind it: so the early stop of
\* bth_htab_get_idxp never misses an entry.  During the walk of recap this
\* holds of the slots already passed.
Indexed == IF todo = 0 THEN Live ELSE {s \in Live : s < todo}

Dense == \A r \in 0..cap-1 : \A p \in 1..Len(map[r]) :
           map[r][p] # 0 => p \in Scanned(map[r])
Sound == \A r \in 0..cap-1 : \A p \in 1..Len(map[r]) :
           map[r][p] # 0 => /\ map[r][p] \in Indexed
                            /\ Row(data[map[r][p]].key) = r
Complete == \A s \in Indexed : \E p \in 1..Len(map[Row(data[s].key)]) :
              map[Row(data[s].key)][p] = s
OncePerBucket == \A r \in 0..cap-1 : \A p, q \in 1..Len(map[r]) :
                   map[r][p] = map[r][q] /\ map[r][p] # 0 => p = q
IndexExact == st = "live" => Dense /\ Sound /\ Complete /\ OncePerBucket

\* A key occupies one slot at most, and between two calls a lookup finds that
\* slot and no other: no collision, growth, removal or rebuild loses a key or
\* answers with the value of another.
KeysUnique == \A s, t \in Live : data[s].key = data[t].key => s = t
Contents == [k \in Keys |-> IF st # "freed" /\ \E s \in Live : data[s].key = k
                            THEN data[CHOOSE s \in Live : data[s].key = k].val
                            ELSE NULL]
LookupExact == Idle => KeysUnique /\ \A k \in Keys : Lookup(k) = Contents[k]

\* The callers keep slot numbers: a type-id is the slot of the type in
\* type_table (types.c get_type).  An entry therefore stays in its slot, with
\* its value, until a removal hands that value back or the table is destroyed,
\* even when the array grows or the rows are rebuilt.
SlotsStable ==
  [][\A s \in Live :
       \/ st = "freed"
       \/ data'[s] = data[s]
       \/ data'[s] = NULL /\ ret' = data[s].val]_vars

\* A table that grows one slot at a time, and whose buckets can grow, as the
\* trait tables of the basic types do (static_types.c, bth_htab_new(4, 1, 1)),
\* never reaches undefined behaviour: no slot is left uncleared.
UnitGrowthIsSafe == nd = 1 /\ nb > 0 => st # "undefined"

\* The layout documented above struct bth_htab: a slot other than slot 0 holds
\* an entry or NULL.
SlotsAsDocumented == \A s \in 1..size-1 : data[s] \in Entry \union {NULL}

\* The table is a dictionary in which the first binding of a key wins.
Abstract == INSTANCE Dictionary WITH
  Absent <- NULL,
  dict <- Contents,
  answer <- IF ret \in Nat THEN ret > 0 ELSE ret
ImplementsDictionary == Abstract!Spec
=============================================================================
