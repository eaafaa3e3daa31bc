-------------------------- MODULE HashTableProofs --------------------------
(***************************************************************************)
(* What HashTable guarantees for every set of keys, every hash function    *)
(* and every geometry.  The argument rests on one inductive invariant,     *)
(* IndexInv: the rows index exactly the slots that hold entries, and no    *)
(* key has two slots.                                                      *)
(***************************************************************************)
EXTENDS HashTable, TLAPS


-----------------------------------------------------------------------------
(* Buckets. *)

\* No zero of a bucket hides a slot number behind it.
DenseBucket(b) == \A p \in 1..Len(b) : b[p] # 0 => \A q \in 1..p : b[q] # 0

\* A remainder is a row number.
LEMMA RowInRange ==
  ASSUME NEW h \in Nat, NEW c \in Nat \ {0}
  PROVE  h % c \in 0..c-1
  OBVIOUS

\* A run of zeros is a sequence of that length.
LEMMA ZerosSeq ==
  ASSUME NEW n \in Nat
  PROVE  /\ Zeros(n) \in Seq(Nat)
         /\ Len(Zeros(n)) = n
         /\ \A i \in 1..n : Zeros(n)[i] = 0
  BY DEF Zeros

\* Room is made behind the slot numbers of a bucket, which stay where they are.
LEMMA WithRoomFacts ==
  ASSUME NEW b \in Seq(Nat), nb \in Nat
  PROVE  /\ WithRoom(b) \in Seq(Nat)
         /\ Len(WithRoom(b)) >= Len(b)
         /\ \A q \in 1..Len(b) : WithRoom(b)[q] = b[q]
         /\ \A q \in 1..Len(WithRoom(b)) : q > Len(b) => WithRoom(b)[q] = 0
<1>1. CASE ~Full(b)
  BY <1>1 DEF WithRoom
<1>2. CASE Full(b)
  <2>1. BucketStep(b) \in Nat
    BY DEF BucketStep
  <2>2. /\ Zeros(BucketStep(b)) \in Seq(Nat)
        /\ Len(Zeros(BucketStep(b))) = BucketStep(b)
        /\ \A i \in 1..BucketStep(b) : Zeros(BucketStep(b))[i] = 0
    BY <2>1, ZerosSeq
  <2>3. WithRoom(b) = b \o Zeros(BucketStep(b))
    BY <1>2 DEF WithRoom
  <2> HIDE DEF Zeros, BucketStep, WithRoom
  <2> QED
    BY <2>1, <2>2, <2>3
<1> QED
  BY <1>1, <1>2

\* Bucket c is b with slot number s at position p, behind those of b.
Appended(b, c, p, s) ==
  /\ c \in Seq(Nat)
  /\ DenseBucket(c)
  /\ p \in 1..Len(c) /\ c[p] = s
  /\ \A q \in 1..Len(b) : b[q] # 0 => q \in 1..Len(c) /\ c[q] = b[q]
  /\ \A q \in 1..Len(c) : c[q] # 0 /\ q # p => q \in 1..Len(b) /\ c[q] = b[q]

\* What bth_htab_reput does to a bucket: one more slot number, after the
\* others, which stay where they are.
LEMMA ReputFacts ==
  ASSUME NEW b \in Seq(Nat), nb \in Nat, DenseBucket(b),
         NEW s \in Nat \ {0}, NEW p \in Ends(WithRoom(b))
  PROVE  Appended(b, Put(b, p, s), p, s)
<1> DEFINE w == WithRoom(b)
           c == Put(b, p, s)
<1>1. /\ w \in Seq(Nat)
      /\ Len(w) >= Len(b)
      /\ \A q \in 1..Len(b) : w[q] = b[q]
      /\ \A q \in 1..Len(w) : q > Len(b) => w[q] = 0
  BY WithRoomFacts
<1>2. /\ p \in 1..Len(w)
      /\ \A q \in p..Len(w) : w[q] = 0
      /\ p > 1 => w[p-1] # 0
  BY DEF Ends
<1> HIDE DEF w, c
<1>3. /\ c \in Seq(Nat) /\ Len(c) = Len(w)
      /\ c[p] = s
      /\ \A q \in 1..Len(w) : q # p => c[q] = w[q]
  BY <1>1, <1>2 DEF w, c, Put
<1>4. \A q \in 1..Len(w) : w[q] # 0 => q < p /\ q \in 1..Len(b) /\ w[q] = b[q]
  BY <1>1, <1>2
<1>5. \A q \in 1..p-1 : w[q] # 0
  <2>1. CASE p = 1
    BY <2>1
  <2>2. CASE p > 1
    <3>1. p-1 \in 1..Len(w) /\ w[p-1] # 0
      BY <1>1, <1>2, <2>2
    <3>2. p-1 \in 1..Len(b) /\ b[p-1] # 0
      BY <1>4, <3>1
    <3>3. \A q \in 1..p-1 : b[q] # 0
      BY <3>2 DEF DenseBucket
    <3>4. \A q \in 1..p-1 : q \in 1..Len(b)
      BY <3>2, <1>1, <1>2
    <3> QED
      BY <3>3, <3>4, <1>1
  <2> QED
    BY <2>1, <2>2, <1>2
<1>6. DenseBucket(c)
  <2> SUFFICES ASSUME NEW i \in 1..Len(c), c[i] # 0, NEW q \in 1..i
               PROVE  c[q] # 0
    BY DEF DenseBucket
  <2>1. i <= p
    BY <1>2, <1>3, <1>4
  <2> QED
    BY <2>1, <1>2, <1>3, <1>5
<1>7. \A q \in 1..Len(b) : b[q] # 0 => q \in 1..Len(c) /\ c[q] = b[q]
  <2> SUFFICES ASSUME NEW q \in 1..Len(b), b[q] # 0
               PROVE  q \in 1..Len(c) /\ c[q] = b[q]
    OBVIOUS
  <2>1. q \in 1..Len(w) /\ w[q] = b[q]
    BY <1>1
  <2>2. q < p
    BY <1>4, <2>1
  <2> QED
    BY <1>2, <1>3, <2>1, <2>2
<1> QED
  BY <1>1, <1>2, <1>3, <1>4, <1>6, <1>7 DEF c, Appended

\* Bucket c is b without position p, those behind it moved up by one.
Closed(b, c, p) ==
  /\ c \in Seq(Nat) /\ Len(c) = Len(b)
  /\ DenseBucket(c)
  /\ \A q \in 1..Len(b) : c[q] # 0 => \/ q < p /\ c[q] = b[q]
                                      \/ q >= p /\ q < Len(b) /\ c[q] = b[q+1]
  /\ \A q \in 1..Len(b) : q < p => c[q] = b[q]
  /\ \A q \in 1..Len(b) : q > p => c[q-1] = b[q]

\* What bth_htab_delete does to a bucket: the slot number at p is gone and
\* those behind it move up.
LEMMA CloseGapFacts ==
  ASSUME NEW b \in Seq(Nat), DenseBucket(b), NEW p \in 1..Len(b)
  PROVE  Closed(b, CloseGap(b, p), p)
<1> DEFINE c == CloseGap(b, p)
<1>1. /\ c \in Seq(Nat) /\ Len(c) = Len(b)
      /\ \A q \in 1..Len(b) : q < p => c[q] = b[q]
      /\ \A q \in 1..Len(b) : q >= p /\ q < Len(b) => c[q] = b[q+1]
      /\ \A q \in 1..Len(b) : q >= p /\ q = Len(b) => c[q] = 0
  BY DEF CloseGap
<1> HIDE DEF c
<1>2. \A q \in 1..Len(b) : q > p => c[q-1] = b[q]
  <2> SUFFICES ASSUME NEW q \in 1..Len(b), q > p
               PROVE  c[q-1] = b[q]
    OBVIOUS
  <2>1. q-1 \in 1..Len(b) /\ q-1 >= p /\ q-1 < Len(b) /\ (q-1)+1 = q
    OBVIOUS
  <2> QED
    BY <1>1, <2>1
<1>3. DenseBucket(c)
  <2> SUFFICES ASSUME NEW i \in 1..Len(c), c[i] # 0, NEW q \in 1..i
               PROVE  c[q] # 0
    BY DEF DenseBucket
  <2>1. CASE i < p
    BY <2>1, <1>1 DEF DenseBucket
  <2>2. CASE i >= p
    <3>1. i < Len(b) /\ b[i+1] # 0
      BY <2>2, <1>1
    <3>2. i+1 \in 1..Len(b) /\ q \in 1..i+1 /\ q+1 \in 1..i+1
      BY <3>1, <1>1
    <3>3. b[q] # 0 /\ b[q+1] # 0
      BY <3>1, <3>2 DEF DenseBucket
    <3>4. q \in 1..Len(b) /\ q < Len(b)
      BY <3>1, <1>1
    <3>5. CASE q < p
      BY <3>3, <3>4, <3>5, <1>1
    <3>6. CASE q >= p
      BY <3>3, <3>4, <3>6, <1>1
    <3> QED
      BY <3>5, <3>6
  <2> QED
    BY <2>1, <2>2
<1>4. \A q \in 1..Len(b) : c[q] # 0 => \/ q < p /\ c[q] = b[q]
                                       \/ q >= p /\ q < Len(b) /\ c[q] = b[q+1]
  BY <1>1
<1>5. Closed(b, c, p)
  BY <1>1, <1>2, <1>3, <1>4 DEF Closed
<1> QED
  BY <1>5 DEF c

-----------------------------------------------------------------------------
(* The inductive invariant. *)

IndexOK == Dense /\ Sound /\ Complete /\ OncePerBucket
IndexInv ==
  /\ TypeOK
  /\ st = "live" => IndexOK
  /\ KeysUnique
  /\ st = "freed" => todo = 0

\* Every bucket of a dense index is dense.
LEMMA DenseBuckets ==
  Dense <=> \A r \in 0..cap-1 : DenseBucket(map[r])
BY DEF Dense, DenseBucket, Scanned

\* An entry is a record of a key and a value, and has a row.
LEMMA RowOfKey ==
  ASSUME TypeOK, NEW k \in Keys
  PROVE  Row(k) \in 0..cap-1
BY HashAssumption, RowInRange DEF Row, TypeOK

\* A slot in use holds the record of a key and a value.
LEMMA LiveFacts ==
  ASSUME TypeOK, NEW s \in Live
  PROVE  /\ s \in 1..size-1
         /\ data[s] \in Entry
         /\ data[s].key \in Keys /\ data[s].val \in Vals
BY DEF Live, Entry

\* Storing one more slot number by bth_htab_reput keeps the index exact.
LEMMA ReputKeepsIndex ==
  ASSUME TypeOK, IndexOK, cap' = cap,
         NEW s \in Nat \ {0}, s \notin Indexed,
         Indexed' = Indexed \union {s},
         \A t \in Indexed : data'[t] = data[t],
         data'[s] \in Entry,
         NEW r, r = Hash[data'[s].key] % cap,
         Reput(r, s)
  PROVE  IndexOK' /\ map' \in [0..cap-1 -> Seq(Nat)]
<1> USE DEF TypeOK
<1>1. data'[s].key \in Keys
  BY DEF Entry
<1>2. r \in 0..cap-1
  BY <1>1, RowOfKey DEF Row
<1>3. PICK p \in Ends(WithRoom(map[r])) :
             map' = [map EXCEPT ![r] = Put(map[r], p, s)]
  BY DEF Reput
<1>4. map[r] \in Seq(Nat) /\ DenseBucket(map[r]) /\ nb \in Nat
  BY <1>2, DenseBuckets DEF IndexOK
<1>5. /\ map'[r] = Put(map[r], p, s)
      /\ \A q \in 0..cap-1 : q # r => map'[q] = map[q]
  BY <1>2, <1>3
<1>6. /\ map'[r] \in Seq(Nat)
      /\ DenseBucket(map'[r])
      /\ p \in 1..Len(map'[r]) /\ map'[r][p] = s
      /\ \A q \in 1..Len(map[r]) :
           map[r][q] # 0 => q \in 1..Len(map'[r]) /\ map'[r][q] = map[r][q]
      /\ \A q \in 1..Len(map'[r]) :
           map'[r][q] # 0 /\ q # p =>
             q \in 1..Len(map[r]) /\ map'[r][q] = map[r][q]
  <2>1. Appended(map[r], Put(map[r], p, s), p, s)
    BY <1>4, ReputFacts
  <2> QED
    BY <1>5, <2>1 DEF Appended
<1>7. map' \in [0..cap-1 -> Seq(Nat)]
  BY <1>2, <1>3, <1>5, <1>6
<1>8. Dense'
  <2>1. \A q \in 0..cap-1 : DenseBucket(map'[q])
    BY <1>5, <1>6, DenseBuckets DEF IndexOK
  <2> QED
    BY <2>1 DEF Dense, DenseBucket, Scanned
<1>9. Sound'
  <2> SUFFICES ASSUME NEW q \in 0..cap-1, NEW i \in 1..Len(map'[q]),
                      map'[q][i] # 0
               PROVE  /\ map'[q][i] \in Indexed'
                      /\ Hash[data'[map'[q][i]].key] % cap = q
    BY DEF Sound, Row
  <2>1. CASE q = r /\ i = p
    BY <2>1, <1>6
  <2>2. CASE ~(q = r /\ i = p)
    <3>1. i \in 1..Len(map[q]) /\ map'[q][i] = map[q][i]
      BY <2>2, <1>5, <1>6
    <3>2. map[q][i] \in Indexed /\ Hash[data[map[q][i]].key] % cap = q
      BY <3>1 DEF IndexOK, Sound, Row
    <3> QED
      BY <3>1, <3>2
  <2> QED
    BY <2>1, <2>2
<1>10. Complete'
  <2> SUFFICES ASSUME NEW t \in Indexed'
               PROVE  \E i \in 1..Len(map'[Hash[data'[t].key] % cap]) :
                        map'[Hash[data'[t].key] % cap][i] = t
    BY DEF Complete, Row
  <2>1. CASE t = s
    BY <2>1, <1>6
  <2>2. CASE t \in Indexed
    <3>1. t \in Live /\ t # 0
      BY <2>2 DEF Indexed, Live
    <3>2. Hash[data[t].key] % cap \in 0..cap-1
      BY <3>1, LiveFacts, RowOfKey DEF Row
    <3>3. PICK i \in 1..Len(map[Hash[data[t].key] % cap]) :
                 map[Hash[data[t].key] % cap][i] = t
      BY <2>2 DEF IndexOK, Complete, Row
    <3>4. data'[t] = data[t]
      BY <2>2
    <3>5. /\ i \in 1..Len(map'[Hash[data[t].key] % cap])
          /\ map'[Hash[data[t].key] % cap][i] = t
      BY <3>1, <3>2, <3>3, <1>5, <1>6
    <3> QED
      BY <3>4, <3>5
  <2> QED
    BY <2>1, <2>2
<1>11. OncePerBucket'
  <2> SUFFICES ASSUME NEW q \in 0..cap-1,
                      NEW i \in 1..Len(map'[q]), NEW j \in 1..Len(map'[q]),
                      map'[q][i] = map'[q][j], map'[q][i] # 0
               PROVE  i = j
    BY DEF OncePerBucket
  <2>1. ASSUME NEW m \in 1..Len(map'[q]), map'[q][m] # 0, ~(q = r /\ m = p)
        PROVE  /\ m \in 1..Len(map[q]) /\ map'[q][m] = map[q][m]
               /\ map'[q][m] # s
    <3>1. m \in 1..Len(map[q]) /\ map'[q][m] = map[q][m]
      BY <2>1, <1>5, <1>6
    <3>2. map[q][m] \in Indexed
      BY <2>1, <3>1 DEF IndexOK, Sound
    <3> QED
      BY <3>1, <3>2
  <2>2. CASE q = r /\ (i = p \/ j = p)
    <3>1. map'[q][p] = s
      BY <2>2, <1>6
    <3>2. map'[q][j] # 0
      OBVIOUS
    <3>3. i # p => map'[q][i] # s
      BY <2>1
    <3>4. j # p => map'[q][j] # s
      BY <2>1, <3>2
    <3> QED
      BY <2>2, <3>1, <3>3, <3>4
  <2>3. CASE ~(q = r /\ (i = p \/ j = p))
    BY <2>1, <2>3 DEF IndexOK, OncePerBucket
  <2> QED
    BY <2>2, <2>3
<1> QED
  BY <1>7, <1>8, <1>9, <1>10, <1>11 DEF IndexOK

-----------------------------------------------------------------------------
(* Lookups. *)

\* Every hit of a lookup is at a slot in use that holds the key.
LEMMA HitFacts ==
  ASSUME IndexInv, Idle, NEW k \in Keys, NEW p \in Hits(k)
  PROVE  /\ Row(k) \in 0..cap-1
         /\ p \in 1..Len(map[Row(k)])
         /\ map[Row(k)][p] # 0
         /\ map[Row(k)][p] \in Live
         /\ data[map[Row(k)][p]].key = k
<1>1. TypeOK /\ IndexOK /\ todo = 0
  BY DEF IndexInv, Idle
<1>2. Row(k) \in 0..cap-1
  BY <1>1, RowOfKey
<1>3. /\ p \in 1..Len(map[Row(k)]) /\ map[Row(k)][p] # 0
      /\ data[map[Row(k)][p]].key = k
  BY <1>1, <1>2 DEF Hits, Scanned, TypeOK
<1>4. map[Row(k)][p] \in Indexed
  BY <1>1, <1>2, <1>3 DEF IndexOK, Sound
<1> QED
  BY <1>1, <1>2, <1>3, <1>4 DEF Indexed

\* A key has one hit at most.
LEMMA OneHit ==
  ASSUME IndexInv, Idle, NEW k \in Keys, NEW p \in Hits(k), NEW q \in Hits(k)
  PROVE  p = q
<1>1. map[Row(k)][p] = map[Row(k)][q]
  BY HitFacts DEF IndexInv, KeysUnique
<1> QED
  BY <1>1, HitFacts DEF IndexInv, Idle, IndexOK, OncePerBucket

\* bth_htab_get_idxp stops at a slot that holds the key.
LEMMA FoundFacts ==
  ASSUME IndexInv, Idle, NEW k \in Keys, Found(k)
  PROVE  /\ Position(k) \in Hits(k)
         /\ Row(k) \in 0..cap-1
         /\ Position(k) \in 1..Len(map[Row(k)])
         /\ map[Row(k)][Position(k)] # 0
         /\ map[Row(k)][Position(k)] \in Live
         /\ data[map[Row(k)][Position(k)]].key = k
<1>1. PICK p \in Hits(k) : TRUE
  BY DEF Found
<1>2. p \in Nat /\ \A q \in Hits(k) : p <= q
  BY <1>1, OneHit DEF Hits, Scanned
<1>3. Position(k) \in Hits(k)
  BY <1>1, <1>2 DEF Position
<1> QED
  BY <1>3, HitFacts

\* bth_htab_get_idxp misses no entry.
LEMMA LiveFound ==
  ASSUME IndexInv, Idle, NEW s \in Live
  PROVE  Found(data[s].key)
<1> DEFINE r == Row(data[s].key)
<1>1. TypeOK /\ IndexOK /\ todo = 0
  BY DEF IndexInv, Idle
<1>2. s # 0 /\ s \in Indexed
  BY <1>1 DEF Indexed, Live
<1>3. PICK p \in 1..Len(map[r]) : map[r][p] = s
  BY <1>1, <1>2 DEF IndexOK, Complete
<1>4. r \in 0..cap-1
  BY <1>1, LiveFacts, RowOfKey
<1>5. p \in Scanned(map[r])
  BY <1>1, <1>2, <1>3, <1>4 DEF IndexOK, Dense
<1> QED
  BY <1>3, <1>5 DEF Found, Hits

-----------------------------------------------------------------------------
(* The invariant holds initially and every operation preserves it. *)

\* A new table, empty, satisfies the invariant.
LEMMA InitInv == Init => IndexInv
<1> SUFFICES ASSUME Init PROVE IndexInv
  OBVIOUS
<1> PICK g \in Geometry :
           /\ cap = g[1] /\ nd = g[2] /\ nb = g[3]
           /\ size = AtLeastOne(g[2])
           /\ data = FreshData(g[2])
           /\ map = FreshMap(g[1], g[3])
  BY DEF Init
<1>1. cap \in Nat \ {0} /\ nd \in Nat /\ nb \in Nat /\ size \in Nat \ {0}
  BY GeometryAssumption DEF AtLeastOne
<1>2. /\ data \in [0..size-1 -> Slot]
      /\ \A s \in 1..size-1 : data[s] = NULL
  BY <1>1 DEF FreshData, Slot
<1>3. /\ map \in [0..cap-1 -> Seq(Nat)]
      /\ \A r \in 0..cap-1 : \A p \in 1..Len(map[r]) : map[r][p] = 0
  <2>1. AtLeastOne(g[3]) \in Nat
    BY <1>1 DEF AtLeastOne
  <2> QED
    BY <1>1, <2>1, ZerosSeq DEF FreshMap
<1>4. TypeOK
  BY <1>1, <1>2, <1>3 DEF Init, TypeOK
<1>5. Live = {} /\ Indexed = {}
  BY <1>1, <1>2, SentinelAssumption DEF Live, Indexed
<1> QED
  BY <1>3, <1>4, <1>5
     DEF Init, IndexInv, IndexOK, Dense, Sound, Complete, OncePerBucket, KeysUnique

\* bth_htab_new in the place of a destroyed table.
LEMMA NewInv ==
  ASSUME IndexInv, NEW g \in Geometry, New(g)
  PROVE  IndexInv'
<1>1. cap' \in Nat \ {0} /\ nd' \in Nat /\ nb' \in Nat /\ size' \in Nat \ {0}
  BY GeometryAssumption DEF New, AtLeastOne
<1>2. /\ data' \in [0..size'-1 -> Slot]
      /\ \A s \in 1..size'-1 : data'[s] = NULL
  BY <1>1 DEF New, FreshData, Slot
<1>3. /\ map' \in [0..cap'-1 -> Seq(Nat)]
      /\ \A r \in 0..cap'-1 : \A p \in 1..Len(map'[r]) : map'[r][p] = 0
  <2>1. AtLeastOne(g[3]) \in Nat
    BY <1>1 DEF AtLeastOne, New
  <2>2. map' = FreshMap(cap', g[3])
    BY DEF New
  <2> QED
    BY <1>1, <2>1, <2>2, ZerosSeq DEF FreshMap
<1>4. todo' = 0 /\ st' = "live"
  BY DEF New, IndexInv
<1>5. TypeOK'
  BY <1>1, <1>2, <1>3, <1>4 DEF New, TypeOK, IndexInv
<1>6. Live' = {} /\ Indexed' = {}
  BY <1>1, <1>2, <1>4, SentinelAssumption DEF Live, Indexed
<1> QED
  BY <1>3, <1>4, <1>5, <1>6
     DEF IndexInv, IndexOK, Dense, Sound, Complete, OncePerBucket, KeysUnique

\* A call that only returns something.
LEMMA NothingStored ==
  ASSUME IndexInv, UNCHANGED <<cap, geometry, size, data, map, todo>>,
         ret' \in Nat \union Vals \union {NULL},
         st' \in {"live", "freed", "undefined"},
         st' = "live" => st = "live",
         st' = "freed" => todo = 0
  PROVE  IndexInv'
<1>1. TypeOK'
  BY DEF IndexInv, TypeOK, geometry
<1>2. KeysUnique' /\ (IndexOK <=> IndexOK')
  BY DEF geometry, IndexInv, KeysUnique, IndexOK, Dense, Sound, Complete,
         OncePerBucket, Indexed, Live, Row, Scanned
<1> QED
  BY <1>1, <1>2 DEF IndexInv

\* A new entry is in a slot of its own, and the others are where they were.
Stored(k, v) ==
  \E s \in Nat \ {0} :
    /\ s \notin Live /\ Live' = Live \union {s}
    /\ data'[s] = [key |-> k, val |-> v]
    /\ \A t \in Live : data'[t] = data[t]
    /\ ret' = s
    /\ Reput(Row(k), s)

\* A new entry in the first free slot.
LEMMA AddInPlaceStores ==
  ASSUME TypeOK, NEW k \in Keys, NEW v \in Vals, AddInPlace(k, v)
  PROVE  Stored(k, v) /\ data' \in [0..size-1 -> Slot]
<1>1. PICK s \in FreeSlots : /\ data' = [data EXCEPT ![s] = [key |-> k, val |-> v]]
                             /\ Reput(Row(k), s)
                             /\ ret' = s
  BY DEF AddInPlace
<1>2. s \in Nat \ {0} /\ s \in 1..size-1 /\ data[s] = NULL
  BY DEF FreeSlots, TypeOK
<1>3. [key |-> k, val |-> v] \in Entry
  BY DEF Entry
<1>4. /\ data' \in [0..size-1 -> Slot]
      /\ data'[s] = [key |-> k, val |-> v]
      /\ \A t \in 0..size-1 : t # s => data'[t] = data[t]
  BY <1>1, <1>2, <1>3 DEF TypeOK, Slot
<1>5. s \notin Live /\ Live' = Live \union {s}
  BY <1>2, <1>3, <1>4, SentinelAssumption DEF Live, AddInPlace
<1>6. \A t \in Live : data'[t] = data[t]
  BY <1>2, <1>4, <1>5 DEF Live
<1> QED
  BY <1>1, <1>2, <1>4, <1>5, <1>6 DEF Stored

\* A new entry in the first of the slots that data grows by.
LEMMA AddGrowingStores ==
  ASSUME TypeOK, NEW k \in Keys, NEW v \in Vals, AddGrowing(k, v)
  PROVE  /\ Stored(k, v)
         /\ size' \in Nat /\ size' > size /\ data' \in [0..size'-1 -> Slot]
<1> DEFINE e == [key |-> k, val |-> v]
<1>1. PICK leftover \in {NULL, JUNK} : data' = Grown(e, leftover)
  BY DEF AddGrowing
<1>2. e \in Entry
  BY DEF Entry
<1>3. /\ size \in Nat \ {0} /\ DataStep \in Nat \ {0}
      /\ size' = size + DataStep /\ size' \in Nat /\ size' > size
  BY DEF AddGrowing, DataStep, TypeOK
<1>4. /\ data' \in [0..size'-1 -> Slot]
      /\ data'[size] = e
      /\ \A t \in 0..size-1 : data'[t] = data[t]
      /\ \A t \in 0..size'-1 : t > size => data'[t] \notin Entry
  <2>1. /\ DOMAIN data' = 0..size'-1
        /\ data'[size] = e
        /\ \A t \in 0..size-1 : data'[t] = data[t]
        /\ \A t \in 0..size'-1 : t > size => data'[t] \in {NULL, JUNK}
        /\ data' = [t \in 0..size'-1 |-> data'[t]]
    BY <1>1, <1>3 DEF Grown
  <2>2. \A t \in 0..size'-1 : data'[t] \in Slot
    <3> SUFFICES ASSUME NEW t \in 0..size'-1 PROVE data'[t] \in Slot
      OBVIOUS
    <3>1. CASE t < size
      BY <2>1, <3>1, <1>3 DEF TypeOK
    <3>2. CASE t = size
      BY <2>1, <3>2, <1>2 DEF Slot
    <3>3. CASE t > size
      BY <2>1, <3>3 DEF Slot
    <3> QED
      BY <3>1, <3>2, <3>3, <1>3
  <2> QED
    BY <2>1, <2>2, SentinelAssumption
<1>5. size \notin Live /\ Live' = Live \union {size}
  BY <1>2, <1>3, <1>4 DEF Live
<1>6. \A t \in Live : data'[t] = data[t]
  BY <1>3, <1>4 DEF Live
<1>7. ret' = size /\ Reput(Row(k), size)
  BY DEF AddGrowing
<1> HIDE DEF e
<1>8. Stored(k, v)
  BY <1>3, <1>4, <1>5, <1>6, <1>7 DEF Stored, e
<1> QED
  BY <1>3, <1>4, <1>8

\* Storing the entry of a key that was not found.
LEMMA StoredInv ==
  ASSUME IndexInv, Idle, NEW k \in Keys, NEW v \in Vals, ~Found(k), Stored(k, v),
         size' \in Nat, size' >= size, data' \in [0..size'-1 -> Slot],
         UNCHANGED <<cap, geometry, todo, st>>
  PROVE  IndexInv'
<1>1. TypeOK /\ IndexOK /\ KeysUnique /\ todo = 0
  BY DEF Idle, IndexInv
<1>2. PICK s \in Nat \ {0} :
             /\ s \notin Live /\ Live' = Live \union {s}
             /\ data'[s] = [key |-> k, val |-> v]
             /\ \A t \in Live : data'[t] = data[t]
             /\ ret' = s
             /\ Reput(Row(k), s)
  BY DEF Stored
<1>3. s \notin Indexed /\ Indexed' = Indexed \union {s} /\ Indexed = Live
  BY <1>1, <1>2 DEF Indexed
<1>4. IndexOK' /\ map' \in [0..cap-1 -> Seq(Nat)]
  <2>1. Row(k) = Hash[data'[s].key] % cap
    BY <1>2 DEF Row
  <2>2. cap' = cap /\ data'[s] \in Entry
    BY <1>2 DEF Entry
  <2>3. \A t \in Indexed : data'[t] = data[t]
    BY <1>2, <1>3
  <2> QED
    BY <1>1, <1>2, <1>3, <2>1, <2>2, <2>3, ReputKeepsIndex
<1>5. TypeOK'
  <2>1. size' \in Nat \ {0} /\ todo' \in 0..size'
    BY <1>1 DEF TypeOK
  <2>2. ret' \in Nat
    BY <1>2
  <2> QED
    BY <1>1, <1>4, <2>1, <2>2 DEF TypeOK, geometry
<1>6. KeysUnique'
  <2>1. \A t \in Live : data[t].key # k
    BY LiveFound
  <2>2. data'[s].key = k
    BY <1>2
  <2>3. \A t \in Live : data'[t].key # data'[s].key
    BY <1>2, <2>1, <2>2
  <2>4. \A t, u \in Live : data'[t].key = data'[u].key => t = u
    BY <1>1, <1>2 DEF KeysUnique
  <2> QED
    BY <1>2, <2>3, <2>4 DEF KeysUnique
<1> QED
  BY <1>1, <1>4, <1>5, <1>6 DEF IndexInv, Idle

\* A removal takes one entry out, and the others stay where they are.
Removed(k) ==
  \E s \in Live : /\ data[s].key = k
                  /\ Live' = Live \ {s}
                  /\ data'[s] = NULL
                  /\ \A t \in Live' : data'[t] = data[t]
                  /\ ret' = data[s].val

\* A removal frees the slot and closes the gap in the bucket.
LEMMA DeleteFoundInv ==
  ASSUME IndexInv, Idle, NEW k \in Keys, Found(k),
         ret' = Lookup(k),
         data' = [data EXCEPT ![map[Row(k)][Position(k)]] = NULL],
         map' = [map EXCEPT ![Row(k)] = CloseGap(@, Position(k))],
         UNCHANGED <<cap, geometry, size, todo, st>>
  PROVE  IndexInv' /\ Removed(k)
<1> DEFINE r == Row(k)
           p == Position(k)
           s == map[r][p]
<1>1. TypeOK /\ IndexOK /\ KeysUnique /\ todo = 0 /\ st = "live"
  BY DEF Idle, IndexInv
<1>2. /\ r \in 0..cap-1 /\ p \in 1..Len(map[r])
      /\ s # 0 /\ s \in Live /\ data[s].key = k
  BY FoundFacts
<1>3. s \in 1..size-1 /\ data[s].val \in Vals
  BY <1>1, <1>2, LiveFacts
<1>4. ret' = data[s].val
  BY DEF Lookup
<1>5. map[r] \in Seq(Nat) /\ DenseBucket(map[r])
  BY <1>1, <1>2, DenseBuckets DEF IndexOK, TypeOK
<1>6. Closed(map[r], CloseGap(map[r], p), p)
  BY <1>2, <1>5, CloseGapFacts
<1>7. /\ map'[r] = CloseGap(map[r], p)
      /\ \A q \in 0..cap-1 : q # r => map'[q] = map[q]
  BY <1>1, <1>2 DEF TypeOK
<1> HIDE DEF r, p, s
<1>8. Closed(map[r], map'[r], p)
  BY <1>6, <1>7
<1>9. map' \in [0..cap-1 -> Seq(Nat)]
  BY <1>1, <1>2, <1>6 DEF TypeOK, Closed, r, p
<1>10. /\ data' \in [0..size-1 -> Slot]
       /\ data'[s] = NULL
       /\ \A t \in 0..size-1 : t # s => data'[t] = data[t]
  BY <1>1, <1>3 DEF TypeOK, Slot, r, p, s
<1>11. Live' = Live \ {s} /\ Indexed = Live /\ Indexed' = Live'
  BY <1>1, <1>3, <1>10, SentinelAssumption DEF Live, Indexed
<1>12. Live \subseteq 1..size-1 /\ \A t \in Live' : data'[t] = data[t]
  BY <1>10, <1>11 DEF Live
<1>13. TypeOK'
  BY <1>1, <1>3, <1>4, <1>9, <1>10 DEF TypeOK, geometry
<1>14. Dense'
  <2>1. \A q \in 0..cap-1 : DenseBucket(map'[q])
    BY <1>1, <1>7, <1>8, DenseBuckets DEF IndexOK, Closed
  <2> QED
    BY <2>1 DEF Dense, DenseBucket, Scanned
<1>15. ASSUME NEW q \in 0..cap-1, NEW i \in 1..Len(map'[q]), map'[q][i] # 0
       PROVE  \E j \in 1..Len(map[q]) :
                /\ map'[q][i] = map[q][j]
                /\ q = r => j # p /\ j = (IF i < p THEN i ELSE i+1)
                /\ q # r => j = i
  <2>1. CASE q # r
    BY <1>7, <1>15, <2>1
  <2>2. CASE q = r
    <3>1. i \in 1..Len(map[r]) /\ p \in Nat
      BY <1>2, <1>8, <2>2 DEF Closed
    <3>2. CASE i < p /\ map'[r][i] = map[r][i]
      BY <3>1, <3>2, <2>2
    <3>3. CASE i >= p /\ i < Len(map[r]) /\ map'[r][i] = map[r][i+1]
      <4>1. i+1 \in 1..Len(map[r]) /\ i+1 # p /\ ~(i < p)
        BY <3>1, <3>3, <1>5
      <4> QED
        BY <4>1, <3>3, <2>2
    <3> QED
      BY <1>8, <1>15, <2>2, <3>1, <3>2, <3>3 DEF Closed
  <2> QED
    BY <2>1, <2>2
<1>16. Sound'
  <2> SUFFICES ASSUME NEW q \in 0..cap-1, NEW i \in 1..Len(map'[q]),
                      map'[q][i] # 0
               PROVE  /\ map'[q][i] \in Indexed'
                      /\ Hash[data'[map'[q][i]].key] % cap = q
    BY DEF Sound, Row
  <2>1. PICK j \in 1..Len(map[q]) : map'[q][i] = map[q][j] /\ (q = r => j # p)
    BY <1>15
  <2>2. map[q][j] \in Live /\ Hash[data[map[q][j]].key] % cap = q
    BY <1>1, <1>11, <2>1 DEF IndexOK, Sound, Row
  <2>3. map[q][j] # s
    <3>1. CASE q = r
      BY <1>1, <1>2, <2>1, <3>1 DEF IndexOK, OncePerBucket, s
    <3>2. CASE q # r
      BY <1>2, <2>2, <3>2 DEF Row, r
    <3> QED
      BY <3>1, <3>2
  <2> QED
    BY <1>11, <1>12, <2>1, <2>2, <2>3
<1>17. Complete'
  <2> SUFFICES ASSUME NEW t \in Live'
               PROVE  \E i \in 1..Len(map'[Hash[data'[t].key] % cap]) :
                        map'[Hash[data'[t].key] % cap][i] = t
    BY <1>11 DEF Complete, Row
  <2> DEFINE q == Row(data[t].key)
  <2>0. q = Hash[data'[t].key] % cap
    BY <1>12 DEF Row
  <2>1. t \in Live /\ t # s
    BY <1>11
  <2>2. q \in 0..cap-1
    BY <1>1, <2>1, LiveFacts, RowOfKey
  <2>3. PICK j \in 1..Len(map[q]) : map[q][j] = t
    BY <1>1, <1>11, <2>1 DEF IndexOK, Complete
  <2> HIDE DEF q
  <2>4. CASE q # r
    BY <1>7, <2>2, <2>3, <2>4, <2>0
  <2>5. CASE q = r
    <3>1. j # p
      BY <2>1, <2>3, <2>5 DEF s
    <3>2. j \in 1..Len(map[r]) /\ p \in 1..Len(map[r]) /\ Len(map'[r]) = Len(map[r])
      BY <1>2, <1>8, <2>3, <2>5 DEF Closed
    <3>3. CASE j < p
      BY <1>8, <2>3, <2>5, <3>2, <3>3, <2>0 DEF Closed
    <3>4. CASE j > p
      <4>1. j-1 \in 1..Len(map'[r]) /\ map'[r][j-1] = t
        BY <1>8, <2>3, <2>5, <3>2, <3>4 DEF Closed
      <4> QED
        BY <4>1, <2>5, <2>0
    <3> QED
      BY <3>1, <3>2, <3>3, <3>4
  <2> QED
    BY <2>4, <2>5
<1>18. OncePerBucket'
  <2> SUFFICES ASSUME NEW q \in 0..cap-1,
                      NEW i \in 1..Len(map'[q]), NEW j \in 1..Len(map'[q]),
                      map'[q][i] = map'[q][j], map'[q][i] # 0
               PROVE  i = j
    BY DEF OncePerBucket
  <2>1. PICK m \in 1..Len(map[q]) :
               /\ map'[q][i] = map[q][m]
               /\ q = r => m = (IF i < p THEN i ELSE i+1)
               /\ q # r => m = i
    BY <1>15
  <2>2. PICK n \in 1..Len(map[q]) :
               /\ map'[q][j] = map[q][n]
               /\ q = r => n = (IF j < p THEN j ELSE j+1)
               /\ q # r => n = j
    BY <1>15
  <2>3. m = n
    BY <1>1, <2>1, <2>2 DEF IndexOK, OncePerBucket
  <2>4. i \in Nat /\ j \in Nat /\ p \in Nat
    BY <1>2
  <2> QED
    BY <2>1, <2>2, <2>3, <2>4
<1>19. KeysUnique'
  BY <1>1, <1>11, <1>12 DEF KeysUnique
<1>20. Removed(k)
  BY <1>2, <1>4, <1>10, <1>11, <1>12 DEF Removed, r, p, s
<1> QED
  BY <1>1, <1>13, <1>14, <1>16, <1>17, <1>18, <1>19, <1>20 DEF IndexInv, IndexOK

\* bth_htab_recap starts over with empty buckets.
LEMMA RecapStartInv ==
  ASSUME IndexInv, NEW c \in NewCaps, RecapStart(c)
  PROVE  IndexInv'
<1>1. TypeOK /\ KeysUnique /\ c \in Nat \ {0}
  BY GeometryAssumption DEF IndexInv
<1>2. /\ map' \in [0..cap'-1 -> Seq(Nat)]
      /\ \A r \in 0..cap'-1 : \A p \in 1..Len(map'[r]) : map'[r][p] = 0
  <2>1. nb \in Nat /\ cap' = c /\ map' = [r \in 0..c-1 |-> Zeros(nb)]
    BY <1>1 DEF TypeOK, RecapStart
  <2> QED
    BY <1>1, <2>1, ZerosSeq
<1>3. TypeOK'
  <2>1. cap' \in Nat \ {0} /\ todo' \in 0..size'
    BY <1>1 DEF TypeOK, RecapStart
  <2>2. UNCHANGED <<geometry, size, data, ret, st>>
    BY DEF RecapStart
  <2> QED
    BY <1>1, <1>2, <2>1, <2>2 DEF TypeOK, geometry
<1>4. Indexed' = {}
  BY <1>1 DEF RecapStart, Indexed, Live, TypeOK
<1>5. KeysUnique'
  BY <1>1 DEF KeysUnique, RecapStart, Live
<1>6. st' # "freed"
  BY DEF RecapStart, Idle
<1> QED
  BY <1>2, <1>3, <1>4, <1>5, <1>6
     DEF IndexInv, IndexOK, Dense, Sound, Complete, OncePerBucket

\* One step of its walk over the slots that hold entries.
LEMMA RecapReputInv ==
  ASSUME IndexInv, RecapReput
  PROVE  IndexInv'
<1>1. /\ TypeOK /\ IndexOK /\ KeysUnique
      /\ todo \in Nat \ {0} /\ todo \in 1..size-1 /\ data[todo] \in Entry
      /\ data' = data /\ size' = size /\ todo' = todo+1 /\ cap' = cap
  BY DEF RecapReput, IndexInv
<1>2. Live' = Live /\ todo \in Live
  BY <1>1 DEF Live
<1>3. todo \notin Indexed /\ Indexed' = Indexed \union {todo}
  BY <1>1, <1>2 DEF Indexed, Live
<1>4. IndexOK' /\ map' \in [0..cap-1 -> Seq(Nat)]
  <2>1. Row(data[todo].key) = Hash[data'[todo].key] % cap
    BY <1>1 DEF Row
  <2>2. Reput(Row(data[todo].key), todo)
    BY DEF RecapReput
  <2>3. data'[todo] \in Entry /\ \A t \in Indexed : data'[t] = data[t]
    BY <1>1
  <2> HIDE <1>2
  <2> QED
    BY <1>1, <1>3, <2>1, <2>2, <2>3, ReputKeepsIndex
<1>5. TypeOK'
  BY <1>1, <1>4 DEF TypeOK, RecapReput, geometry
<1>6. KeysUnique'
  BY <1>1, <1>2 DEF KeysUnique
<1>7. st' = "live"
  BY DEF RecapReput
<1> QED
  BY <1>4, <1>5, <1>6, <1>7 DEF IndexInv

\* One step of its walk over the free slots.
LEMMA RecapSkipInv ==
  ASSUME IndexInv, RecapSkip
  PROVE  IndexInv'
<1>1. /\ TypeOK /\ IndexOK /\ KeysUnique
      /\ todo \in Nat \ {0} /\ todo \in 1..size-1 /\ data[todo] \notin Entry
  BY SentinelAssumption DEF RecapSkip, IndexInv
<1>2. Live' = Live /\ todo \notin Live
  BY <1>1 DEF Live, RecapSkip
<1>3. Indexed' = Indexed
  BY <1>1, <1>2 DEF Indexed, Live, RecapSkip
<1>4. TypeOK'
  BY <1>1 DEF TypeOK, RecapSkip, geometry
<1>5. KeysUnique' /\ IndexOK'
  BY <1>1, <1>2, <1>3 DEF KeysUnique, IndexOK, Dense, Sound, Complete,
                          OncePerBucket, Row, Scanned, RecapSkip
<1> QED
  BY <1>4, <1>5 DEF IndexInv, RecapSkip

\* Its end.
LEMMA RecapDoneInv ==
  ASSUME IndexInv, RecapDone
  PROVE  IndexInv'
<1>1. TypeOK /\ IndexOK /\ KeysUnique /\ todo = size
  BY DEF RecapDone, IndexInv
<1>2. Live' = Live
  BY DEF Live, RecapDone
<1>3. Indexed' = Indexed
  BY <1>1, <1>2 DEF Indexed, Live, RecapDone, TypeOK
<1>4. TypeOK'
  BY <1>1 DEF TypeOK, RecapDone, geometry
<1>5. KeysUnique' /\ IndexOK'
  BY <1>1, <1>2, <1>3 DEF KeysUnique, IndexOK, Dense, Sound, Complete,
                          OncePerBucket, Row, Scanned, RecapDone
<1> QED
  BY <1>4, <1>5 DEF IndexInv, RecapDone

\* Every step preserves the invariant.
LEMMA NextInv == IndexInv /\ [Next]_vars => IndexInv'
<1> SUFFICES ASSUME IndexInv, [Next]_vars PROVE IndexInv'
  OBVIOUS
<1>1. TypeOK
  BY DEF IndexInv
<1>2. ASSUME NEW k \in Keys, AddBound(k) PROVE IndexInv'
  <2>1. ret' \in Nat
    BY <1>1, <1>2, FoundFacts DEF AddBound, TypeOK
  <2> QED
    BY <1>2, <2>1, NothingStored DEF AddBound, Idle
<1>3. ASSUME NEW k \in Keys, AddRefused(k) PROVE IndexInv'
  BY <1>3, NothingStored DEF AddRefused, Idle
<1>4. ASSUME NEW k \in Keys, NEW v \in Vals, AddInPlace(k, v) PROVE IndexInv'
  <2>1. Stored(k, v) /\ data' \in [0..size-1 -> Slot]
    BY <1>1, <1>4, AddInPlaceStores
  <2>2. size' \in Nat /\ size' >= size /\ size' = size
    BY <1>1, <1>4 DEF AddInPlace, TypeOK
  <2> QED
    BY <1>4, <2>1, <2>2, StoredInv DEF AddInPlace
<1>5. ASSUME NEW k \in Keys, NEW v \in Vals, AddGrowing(k, v) PROVE IndexInv'
  <2>1. /\ Stored(k, v) /\ data' \in [0..size'-1 -> Slot]
        /\ size' \in Nat /\ size' >= size
    BY <1>1, <1>5, AddGrowingStores DEF TypeOK
  <2> QED
    BY <1>5, <2>1, StoredInv DEF AddGrowing
<1>6. ASSUME NEW k \in Keys, AddOverrun(k) PROVE IndexInv'
  BY <1>1, <1>6, NothingStored DEF AddOverrun, TypeOK
<1>7. ASSUME NEW k \in Keys, Delete(k) PROVE IndexInv'
  <2>1. CASE ~Found(k)
    BY <1>7, <2>1, NothingStored DEF Delete, Idle
  <2>2. CASE Found(k)
    BY <1>7, <2>2, DeleteFoundInv DEF Delete
  <2> QED
    BY <2>1, <2>2
<1>8. ASSUME NEW c \in NewCaps, RecapStart(c) PROVE IndexInv'
  BY <1>8, RecapStartInv
<1>9. CASE RecapUndefined
  BY <1>1, <1>9, NothingStored DEF RecapUndefined, TypeOK
<1>10. CASE Destroy
  BY <1>1, <1>10, NothingStored DEF Destroy, TypeOK, Idle
<1>11. ASSUME NEW g \in Geometry, New(g) PROVE IndexInv'
  BY <1>11, NewInv
<1>12. CASE UNCHANGED vars
  BY <1>1, <1>12, NothingStored DEF vars, geometry, IndexInv, TypeOK
<1> QED
  BY <1>2, <1>3, <1>4, <1>5, <1>6, <1>7, <1>8, <1>9, <1>10, <1>11, <1>12,
     RecapReputInv, RecapSkipInv, RecapDoneInv
     DEF Next, Add, Recap

\* The invariant holds of every reachable state.
THEOREM Invariance == Spec => []IndexInv
BY InitInv, NextInv, PTL DEF Spec

\* Type correctness: the variables of bth_htab.h stay within their types
\* whatever the keys, the hash and the geometry.
THEOREM TypeCorrect == Spec => []TypeOK
<1>1. IndexInv => TypeOK
  BY DEF IndexInv
<1> QED
  BY <1>1, Invariance, PTL

\* The rows index exactly the entries: after any number of bth_htab_add,
\* bth_htab_delete and bth_htab_recap no entry is lost, duplicated or in the
\* wrong row.
THEOREM IndexCorrect == Spec => []IndexExact
<1>1. IndexInv => IndexExact
  BY DEF IndexInv, IndexExact, IndexOK
<1> QED
  BY <1>1, Invariance, PTL

-----------------------------------------------------------------------------
(* Lookups and slots. *)

\* The binding of a key is the value in the slot that holds it.
LEMMA ContentsOfLive ==
  ASSUME KeysUnique, st # "freed", NEW s \in Live, NEW k \in Keys, data[s].key = k
  PROVE  Contents[k] = data[s].val
<1>1. (CHOOSE t \in Live : data[t].key = k) = s
  BY DEF KeysUnique
<1> QED
  BY <1>1 DEF Contents

\* A key that no slot holds has no binding.
LEMMA ContentsOfOther ==
  ASSUME NEW k \in Keys, \A s \in Live : data[s].key # k
  PROVE  Contents[k] = NULL
BY DEF Contents

\* A lookup between two calls answers with the binding of the key and with
\* nothing else: bth_htab_vget is exact whatever the collisions, the removals
\* and the rebuilds before it.
THEOREM LookupCorrect == Spec => []LookupExact
<1>1. ASSUME IndexInv, Idle, NEW k \in Keys
      PROVE  Lookup(k) = Contents[k]
  <2>1. st # "freed" /\ KeysUnique
    BY <1>1 DEF Idle, IndexInv
  <2>2. CASE Found(k)
    BY <1>1, <2>1, <2>2, FoundFacts, ContentsOfLive DEF Lookup
  <2>3. CASE ~Found(k)
    <3>1. \A s \in Live : data[s].key # k
      BY <1>1, <2>3, LiveFound
    <3> QED
      BY <1>1, <2>3, <3>1, ContentsOfOther DEF Lookup
  <2> QED
    BY <2>2, <2>3
<1>2. IndexInv => LookupExact
  BY <1>1 DEF LookupExact, IndexInv
<1> QED
  BY <1>2, Invariance, PTL

\* An entry stays in the slot it was given, so that a type-id (types.c
\* get_type) keeps naming the same type, until the entry is removed or the
\* table is destroyed.
THEOREM SlotsCorrect == Spec => SlotsStable
<1> DEFINE Stable == \A s \in Live : \/ st = "freed"
                                     \/ data'[s] = data[s]
                                     \/ data'[s] = NULL /\ ret' = data[s].val
<1>1. ASSUME IndexInv, Next PROVE Stable
  <2>1. TypeOK
    BY <1>1 DEF IndexInv
  <2>2. ASSUME NEW k \in Keys, NEW v \in Vals, Stored(k, v) PROVE Stable
    BY <2>2 DEF Stored
  <2>3. ASSUME NEW k \in Keys, NEW v \in Vals, Add(k, v) PROVE Stable
    <3>1. CASE AddInPlace(k, v)
      BY <2>1, <2>2, <3>1, AddInPlaceStores
    <3>2. CASE AddGrowing(k, v)
      BY <2>1, <2>2, <3>2, AddGrowingStores
    <3>3. CASE AddBound(k) \/ AddRefused(k) \/ AddOverrun(k)
      BY <3>3 DEF AddBound, AddRefused, AddOverrun
    <3> QED
      BY <2>3, <3>1, <3>2, <3>3 DEF Add
  <2>4. ASSUME NEW k \in Keys, Delete(k) PROVE Stable
    <3>1. CASE ~Found(k)
      BY <2>4, <3>1 DEF Delete
    <3>2. CASE Found(k)
      <4>1. Removed(k)
        BY <1>1, <2>4, <3>2, DeleteFoundInv DEF Delete
      <4> QED
        BY <4>1 DEF Removed
    <3> QED
      BY <3>1, <3>2
  <2>5. ASSUME NEW g \in Geometry, New(g) PROVE Stable
    BY <2>5 DEF New
  <2>6. ASSUME NEW c \in NewCaps, RecapStart(c) PROVE Stable
    BY <2>6 DEF RecapStart
  <2>7. CASE Recap \/ Destroy
    BY <2>7 DEF Recap, RecapReput, RecapSkip, RecapUndefined, RecapDone, Destroy
  <2> QED
    BY <1>1, <2>3, <2>4, <2>5, <2>6, <2>7 DEF Next
<1>2. IndexInv /\ [Next]_vars => [Stable]_vars
  BY <1>1
<1> QED
  BY <1>2, Invariance, PTL DEF Spec, SlotsStable

-----------------------------------------------------------------------------
(* Undefined behaviour. *)

\* The slots of a table that grows by one are all cleared.
GrowthInv ==
  /\ IndexInv
  /\ nd = 1 => \A s \in 1..size-1 : data[s] \in Entry \union {NULL}
  /\ UnitGrowthIsSafe

\* A bucket that grows by a step of its own always makes room.
LEMMA RoomToGrow ==
  ASSUME NEW b, nb \in Nat, nb > 0
  PROVE  ~Overruns(b)
BY DEF Overruns, BucketStep

\* A table that grows by one slot, and whose buckets can grow, is never left
\* with a slot it did not clear: the tables of trait implementations
\* (static_types.c, bth_htab_new(4, 1, 1)) are safe to walk and to destroy.
THEOREM UnitGrowthCorrect == Spec => []UnitGrowthIsSafe
<1>1. Init => GrowthInv
  <2> SUFFICES ASSUME Init PROVE GrowthInv
    OBVIOUS
  <2>1. IndexInv /\ st = "live"
    BY InitInv DEF Init
  <2>2. PICK n \in Nat : data = FreshData(n) /\ size = AtLeastOne(n)
    BY GeometryAssumption DEF Init
  <2>3. \A s \in 1..size-1 : data[s] = NULL
    BY <2>2 DEF FreshData, AtLeastOne
  <2> QED
    BY <2>1, <2>3 DEF GrowthInv, UnitGrowthIsSafe
<1>2. GrowthInv /\ [Next]_vars => GrowthInv'
  <2> SUFFICES ASSUME GrowthInv, [Next]_vars PROVE GrowthInv'
    OBVIOUS
  <2> DEFINE Clean == \A s \in 1..size-1 : data[s] \in Entry \union {NULL}
             Good == (nd' = 1 => Clean') /\ UnitGrowthIsSafe'
  <2>1. TypeOK /\ IndexInv /\ IndexInv' /\ (nd = 1 => Clean)
    BY NextInv DEF GrowthInv, IndexInv
  <2>2. ASSUME UNCHANGED <<geometry, size, data>>,
               nd = 1 /\ nb > 0 => st' # "undefined" \/ st' = st
        PROVE  Good
    <3>1. nd' = nd /\ nb' = nb /\ (Clean <=> Clean')
      BY <2>2 DEF geometry, Entry
    <3> QED
      BY <2>1, <2>2, <3>1 DEF GrowthInv, UnitGrowthIsSafe
  <2>3. ASSUME NEW k \in Keys, NEW v \in Vals, AddInPlace(k, v) PROVE Good
    <3>1. PICK s \in FreeSlots : data' = [data EXCEPT ![s] = [key |-> k, val |-> v]]
      BY <2>3 DEF AddInPlace
    <3>2. [key |-> k, val |-> v] \in Entry
      BY DEF Entry
    <3>3. \A t \in 1..size-1 : data'[t] = data[t] \/ data'[t] \in Entry
      BY <2>1, <3>1, <3>2 DEF TypeOK
    <3> QED
      BY <2>1, <2>3, <3>3 DEF AddInPlace, Idle, UnitGrowthIsSafe, geometry
  <2>4. ASSUME NEW k \in Keys, NEW v \in Vals, AddGrowing(k, v) PROVE Good
    <3> DEFINE e == [key |-> k, val |-> v]
    <3>1. PICK leftover \in {NULL, JUNK} : data' = Grown(e, leftover)
      BY <2>4 DEF AddGrowing
    <3>2. e \in Entry
      BY DEF Entry
    <3>3. size \in Nat /\ nd' = nd /\ st' = "live"
      BY <2>1, <2>4 DEF TypeOK, AddGrowing, geometry, Idle
    <3>4. CASE nd = 1
      <4>1. DataStep = 1 /\ size' = size+1
        BY <2>4, <3>4 DEF AddGrowing, DataStep
      <4> HIDE DEF e
      <4>2. data'[size] = e /\ \A t \in 1..size-1 : data'[t] = data[t]
        BY <3>1, <3>3, <4>1 DEF Grown
      <4>3. Clean'
        BY <2>1, <3>2, <3>3, <3>4, <4>1, <4>2
      <4> QED
        BY <3>3, <4>3 DEF UnitGrowthIsSafe
    <3>5. CASE nd # 1
      BY <3>3, <3>5 DEF UnitGrowthIsSafe
    <3> QED
      BY <3>4, <3>5
  <2>5. ASSUME NEW k \in Keys, Delete(k) PROVE Good
    <3>1. CASE ~Found(k)
      BY <2>2, <2>5, <3>1 DEF Delete
    <3>2. CASE Found(k)
      <4>1. \A t \in 1..size-1 : data'[t] = data[t] \/ data'[t] = NULL
        BY <2>1, <2>5, <3>2 DEF Delete, TypeOK
      <4> QED
        BY <2>1, <2>5, <4>1 DEF Delete, Idle, UnitGrowthIsSafe, geometry
    <3> QED
      BY <3>1, <3>2
  <2>6. ASSUME NEW g \in Geometry, New(g) PROVE Good
    <3>1. \A s \in 1..size'-1 : data'[s] = NULL
      BY <2>6, GeometryAssumption DEF New, FreshData, AtLeastOne
    <3> QED
      BY <2>6, <3>1 DEF New, UnitGrowthIsSafe
  <2>7. ASSUME NEW k \in Keys, AddOverrun(k) PROVE Good
    <3>1. ~(nb > 0)
      BY <2>1, <2>7, RoomToGrow DEF AddOverrun, TypeOK
    <3> QED
      BY <2>1, <2>7, <3>1 DEF AddOverrun, UnitGrowthIsSafe, geometry
  <2>8. ASSUME RecapUndefined PROVE Good
    <3>1. ~(nd = 1 /\ nb > 0)
      BY <2>1, <2>8, RoomToGrow DEF RecapUndefined, TypeOK
    <3> QED
      BY <2>2, <2>8, <3>1 DEF RecapUndefined
  <2>9. ASSUME Destroy PROVE Good
    <3>1. nd = 1 => st' = "freed"
      BY <2>1, <2>9, SentinelAssumption DEF Destroy
    <3> QED
      BY <2>2, <2>9, <3>1 DEF Destroy
  <2>10. ASSUME NEW k \in Keys, AddBound(k) \/ AddRefused(k) PROVE Good
    BY <2>2, <2>10 DEF AddBound, AddRefused
  <2>11. ASSUME NEW c \in NewCaps, RecapStart(c) PROVE Good
    BY <2>2, <2>11 DEF RecapStart
  <2>12. ASSUME RecapReput \/ RecapSkip \/ RecapDone PROVE Good
    <3>1. UNCHANGED <<geometry, size, data>> /\ st' = st
      BY <2>12 DEF RecapReput, RecapSkip, RecapDone
    <3> QED
      BY <2>2, <3>1
  <2>13. ASSUME UNCHANGED vars PROVE Good
    <3>1. UNCHANGED <<geometry, size, data>> /\ st' = st
      BY <2>13 DEF vars, geometry
    <3> QED
      BY <2>2, <3>1
  <2> HIDE DEF Good
  <2>14. Good
    BY <2>3, <2>4, <2>5, <2>6, <2>7, <2>8, <2>9, <2>10, <2>11, <2>12, <2>13
       DEF Next, Add, Recap
  <2> QED
    BY <2>1, <2>14 DEF GrowthInv, Good
<1>3. GrowthInv => UnitGrowthIsSafe
  BY DEF GrowthInv
<1> QED
  BY <1>1, <1>2, <1>3, PTL DEF Spec

-----------------------------------------------------------------------------
(* Refinement. *)

\* Storing a new entry is an insertion.
LEMMA StoredInserts ==
  ASSUME KeysUnique, KeysUnique', st # "freed", st' # "freed",
         NEW k \in Keys, NEW v \in Vals, Stored(k, v),
         \A s \in Live : data[s].key # k
  PROVE  Abstract!Insert(k, v)
<1>1. PICK s \in Nat \ {0} : /\ Live' = Live \union {s}
                             /\ data'[s] = [key |-> k, val |-> v]
                             /\ \A t \in Live : data'[t] = data[t]
                             /\ ret' = s
  BY DEF Stored
<1>2. Contents[k] = NULL
  BY ContentsOfOther
<1>3. ASSUME NEW j \in Keys PROVE Contents'[j] = IF j = k THEN v ELSE Contents[j]
  <2>1. CASE j = k
    <3>1. (CHOOSE t \in Live' : data'[t].key = k) = s
      BY <1>1 DEF KeysUnique
    <3> QED
      BY <1>1, <2>1, <3>1 DEF Contents
  <2>2. CASE j # k /\ \E t \in Live : data[t].key = j
    <3>1. PICK t \in Live : data[t].key = j
      BY <2>2
    <3>2. (CHOOSE u \in Live : data[u].key = j) = t
      BY <3>1 DEF KeysUnique
    <3>3. (CHOOSE u \in Live' : data'[u].key = j) = t
      BY <1>1, <3>1 DEF KeysUnique
    <3> QED
      BY <1>1, <2>2, <3>1, <3>2, <3>3 DEF Contents
  <2>3. CASE j # k /\ ~\E t \in Live : data[t].key = j
    BY <1>1, <2>3 DEF Contents
  <2> QED
    BY <2>1, <2>2, <2>3
<1>4. Contents' = [Contents EXCEPT ![k] = v]
  BY <1>3 DEF Contents
<1>5. ret' \in Nat /\ ret' > 0
  BY <1>1
<1> QED
  BY <1>2, <1>4, <1>5 DEF Abstract!Insert

\* Taking an entry out is a removal.
LEMMA RemovedRemoves ==
  ASSUME KeysUnique, KeysUnique', st # "freed", st' # "freed",
         NEW k \in Keys, Removed(k)
  PROVE  Abstract!Remove(k)
<1>1. PICK s \in Live : /\ data[s].key = k
                        /\ Live' = Live \ {s}
                        /\ \A t \in Live' : data'[t] = data[t]
                        /\ ret' = data[s].val
  BY DEF Removed
<1>2. Contents[k] = data[s].val /\ data[s].val \in Vals
  BY <1>1, ContentsOfLive DEF Live, Entry
<1>3. ASSUME NEW j \in Keys PROVE Contents'[j] = IF j = k THEN NULL ELSE Contents[j]
  <2>1. CASE j = k
    <3>1. \A t \in Live' : data'[t].key # k
      BY <1>1 DEF KeysUnique
    <3> QED
      BY <2>1, <3>1 DEF Contents
  <2>2. CASE j # k /\ \E t \in Live : data[t].key = j
    <3>1. PICK t \in Live : data[t].key = j
      BY <2>2
    <3>2. t \in Live' /\ data'[t].key = j
      BY <1>1, <2>2, <3>1
    <3>3. (CHOOSE u \in Live : data[u].key = j) = t
      BY <3>1 DEF KeysUnique
    <3>4. (CHOOSE u \in Live' : data'[u].key = j) = t
      BY <3>2 DEF KeysUnique
    <3> QED
      BY <1>1, <2>2, <3>1, <3>2, <3>3, <3>4 DEF Contents
  <2>3. CASE j # k /\ ~\E t \in Live : data[t].key = j
    BY <1>1, <2>3 DEF Contents
  <2> QED
    BY <2>1, <2>2, <2>3
<1>4. Contents' = [Contents EXCEPT ![k] = NULL]
  BY <1>3 DEF Contents
<1>5. ret' \notin Nat
  BY <1>1, <1>2, ValueAssumption
<1> QED
  BY <1>1, <1>2, <1>4, <1>5 DEF Abstract!Remove

\* A step that leaves the entries and the result alone is no step of the
\* dictionary.
LEMMA SameContents ==
  ASSUME UNCHANGED <<size, data, ret>>, st # "freed", st' # "freed"
  PROVE  UNCHANGED Abstract!dvars
<1>1. Live' = Live
  BY DEF Live
<1>2. Contents' = Contents
  BY <1>1 DEF Contents
<1> QED
  BY <1>2 DEF Abstract!dvars

\* The table is a dictionary: growth, collisions, removals and rebuilds of the
\* rows are invisible to a caller, and the first binding of a key wins.
THEOREM Refinement == Spec => ImplementsDictionary
<1>1. Init => Abstract!Init
  <2> SUFFICES ASSUME Init PROVE Abstract!Init
    OBVIOUS
  <2>1. PICK n \in Nat : data = FreshData(n) /\ size = AtLeastOne(n)
    BY GeometryAssumption DEF Init
  <2>2. Live = {}
    BY <2>1, SentinelAssumption DEF Live, FreshData, AtLeastOne
  <2>3. Contents = [k \in Keys |-> NULL]
    BY <2>2 DEF Contents
  <2>4. ret = NULL /\ NULL \notin Nat
    BY ValueAssumption DEF Init
  <2> QED
    BY <2>3, <2>4 DEF Abstract!Init
<1>2. IndexInv /\ IndexInv' /\ [Next]_vars => [Abstract!Next]_(Abstract!dvars)
  <2> SUFFICES ASSUME IndexInv, IndexInv', [Next]_vars
               PROVE  Abstract!Next \/ UNCHANGED Abstract!dvars
    OBVIOUS
  <2>1. TypeOK /\ KeysUnique /\ KeysUnique'
    BY DEF IndexInv
  <2>2. ASSUME NEW k \in Keys, NEW v \in Vals, Idle, ~Found(k), Stored(k, v), st' = st
        PROVE  Abstract!Next
    <3>1. \A s \in Live : data[s].key # k
      BY <2>2, LiveFound
    <3>2. Abstract!Insert(k, v)
      BY <2>1, <2>2, <3>1, StoredInserts DEF Idle
    <3> QED
      BY <3>2 DEF Abstract!Next
  <2>3. ASSUME NEW k \in Keys, NEW v \in Vals, AddInPlace(k, v) PROVE Abstract!Next
    BY <2>1, <2>2, <2>3, AddInPlaceStores DEF AddInPlace
  <2>4. ASSUME NEW k \in Keys, NEW v \in Vals, AddGrowing(k, v) PROVE Abstract!Next
    BY <2>1, <2>2, <2>4, AddGrowingStores DEF AddGrowing
  <2>5. ASSUME Idle, UNCHANGED <<size, data, st>> PROVE UNCHANGED Contents
    <3>1. Live' = Live
      BY <2>5 DEF Live
    <3> QED
      BY <2>5, <3>1 DEF Contents
  <2>6. ASSUME NEW k \in Keys, AddBound(k) PROVE Abstract!Next
    <3>1. /\ map[Row(k)][Position(k)] \in Live
          /\ data[map[Row(k)][Position(k)]].key = k
      BY <2>6, FoundFacts DEF AddBound
    <3>2. Contents[k] # NULL
      <4>1. data[map[Row(k)][Position(k)]].val \in Vals
        BY <2>1, <3>1, LiveFacts
      <4>2. st # "freed"
        BY <2>6 DEF AddBound, Idle
      <4> QED
        BY <2>1, <3>1, <4>1, <4>2, ContentsOfLive, ValueAssumption
    <3>3. ret' \in Nat /\ ret' > 0
      BY <2>1, <2>6, <3>1 DEF AddBound, Live
    <3>4. UNCHANGED Contents
      BY <2>5, <2>6 DEF AddBound
    <3>5. Abstract!Keep(k)
      BY <3>2, <3>3, <3>4 DEF Abstract!Keep
    <3> QED
      BY <3>5 DEF Abstract!Next
  <2>7. ASSUME NEW k \in Keys, AddRefused(k) PROVE Abstract!Next
    <3>1. \A s \in Live : data[s].key # k
      BY <2>7, LiveFound DEF AddRefused
    <3>2. Contents[k] = NULL
      BY <3>1, ContentsOfOther
    <3>3. UNCHANGED Contents
      BY <2>5, <2>7 DEF AddRefused
    <3>4. ret' = 0
      BY <2>7 DEF AddRefused
    <3>5. Abstract!Refuse(k)
      BY <3>2, <3>3, <3>4 DEF Abstract!Refuse
    <3> QED
      BY <3>5 DEF Abstract!Next
  <2>8. ASSUME NEW k \in Keys, Delete(k) PROVE Abstract!Next
    <3>1. CASE ~Found(k)
      <4>1. \A s \in Live : data[s].key # k
        BY <2>8, <3>1, LiveFound DEF Delete
      <4>2. Contents[k] = NULL
        BY <4>1, ContentsOfOther
      <4>3. UNCHANGED Contents
        BY <2>5, <2>8, <3>1 DEF Delete
      <4>4. ret' = NULL /\ ret' \notin Nat
        BY <2>8, <3>1, ValueAssumption DEF Delete
      <4>5. Contents = [Contents EXCEPT ![k] = NULL]
        BY <4>2 DEF Contents
      <4>6. Abstract!Remove(k)
        BY <4>2, <4>3, <4>4, <4>5 DEF Abstract!Remove
      <4> QED
        BY <4>6 DEF Abstract!Next
    <3>2. CASE Found(k)
      <4>1. Removed(k) /\ st # "freed" /\ st' # "freed"
        BY <2>8, <3>2, DeleteFoundInv DEF Delete, Idle
      <4>2. Abstract!Remove(k)
        BY <2>1, <4>1, RemovedRemoves
      <4> QED
        BY <4>2 DEF Abstract!Next
    <3> QED
      BY <3>1, <3>2
  <2>9. ASSUME \/ \E c \in NewCaps : RecapStart(c)
               \/ RecapReput \/ RecapSkip \/ RecapUndefined \/ RecapDone
               \/ \E k \in Keys : AddOverrun(k)
        PROVE  UNCHANGED Abstract!dvars
    <3>1. UNCHANGED <<size, data, ret>> /\ st # "freed" /\ st' # "freed"
      BY <2>9 DEF RecapStart, RecapReput, RecapSkip, RecapUndefined, RecapDone,
                  AddOverrun, Idle
    <3> QED
      BY <3>1, SameContents
  <2>10. ASSUME Destroy PROVE Abstract!Next \/ UNCHANGED Abstract!dvars
    <3>1. CASE st' = "freed"
      <4>1. Contents' = [k \in Keys |-> NULL] /\ ret' = ret
        BY <2>10, <3>1 DEF Destroy, Contents
      <4>2. Abstract!Forget
        BY <4>1 DEF Abstract!Forget
      <4> QED
        BY <4>2 DEF Abstract!Next
    <3>2. CASE st' # "freed"
      BY <2>10, <3>2, SameContents DEF Destroy, Idle
    <3> QED
      BY <3>1, <3>2
  <2>11. ASSUME NEW g \in Geometry, New(g) PROVE UNCHANGED Abstract!dvars
    <3>1. Contents = [k \in Keys |-> NULL]
      BY <2>11 DEF New, Contents
    <3>2. \A s \in 1..size'-1 : data'[s] = NULL
      BY <2>11, GeometryAssumption DEF New, FreshData, AtLeastOne
    <3>3. Live' = {}
      BY <3>2, SentinelAssumption DEF Live
    <3>4. Contents' = [k \in Keys |-> NULL]
      BY <3>3 DEF Contents
    <3>5. ret' = ret
      BY <2>11 DEF New
    <3> QED
      BY <3>1, <3>4, <3>5 DEF Abstract!dvars
  <2>12. ASSUME UNCHANGED vars PROVE UNCHANGED Abstract!dvars
    <3>1. Live' = Live
      BY <2>12 DEF Live, vars
    <3>2. Contents' = Contents
      BY <2>12, <3>1 DEF Contents, vars
    <3> QED
      BY <2>12, <3>2 DEF Abstract!dvars, vars
  <2> QED
    BY <2>3, <2>4, <2>6, <2>7, <2>8, <2>9, <2>10, <2>11, <2>12
       DEF Next, Add, Recap
<1> QED
  BY <1>1, <1>2, Invariance, PTL DEF Spec, ImplementsDictionary, Abstract!Spec
=============================================================================
