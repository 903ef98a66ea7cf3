-------------------------------- MODULE Dict --------------------------------
(***************************************************************************)
(* The hash table of redis-stable/src/dict.c: two tables, an incremental   *)
(* rehash from table 0 to table 1, the stateless SCAN cursor that walks    *)
(* the buckets in reversed-bit order, and the safe iterator that pauses    *)
(* the rehash. One thread owns the dictionary: an operation is a step, and *)
(* what interleaves is the order of the operations between two calls of    *)
(* SCAN or two calls of dictNext.                                          *)
(*                                                                         *)
(* A chain is the set of its keys. A table is a function from its bucket   *)
(* numbers; an unallocated one has no bucket. ht_size_exp is the size of   *)
(* that domain.                                                            *)
(***************************************************************************)
EXTENDS Integers, FiniteSetsExt

CONSTANTS
  DictKeys,                 \* the keys that may be stored
  Hash,                     \* the hash of a key
  CursorBits,               \* bits of the SCAN cursor (64 in the code)
  DICT_HT_INITIAL_EXP,      \* 2 in the code
  HASHTABLE_MIN_FILL,       \* 8 in the code
  dict_force_resize_ratio,  \* 4 in the code
  EmptyVisits               \* empty buckets a step may skip (10 in the code)

ASSUME DictConstants ==
  /\ Hash \in [DictKeys -> Nat]
  /\ CursorBits \in Nat \ {0}
  /\ DICT_HT_INITIAL_EXP \in 0 .. CursorBits
  /\ {HASHTABLE_MIN_FILL, dict_force_resize_ratio, EmptyVisits} \subseteq Nat \ {0}

\* 1 << e
Pow2[e \in 0 .. CursorBits] == IF e = 0 THEN 1 ELSE 2 * Pow2[e - 1]

\* A table as large as the cursor counts holds every key in a bucket of its own.
ASSUME DictKeysFit == IsFiniteSet(DictKeys) /\ Cardinality(DictKeys) < Pow2[CursorBits]

VARIABLES
  dict,          \* [table, used, rehashidx]
  pauserehash,   \* how many safe iterators hold the rehash
  policy,        \* dict_can_resize
  scan,          \* the client of SCAN: [on, cursor, owed]
  iter           \* a safe iterator: [on, table, index, chain, owed, returned]

dictVars == <<dict, pauserehash, policy, scan, iter>>

Unallocated == [i \in {} |-> {}]
NewTable(size) == [i \in 0 .. size - 1 |-> {}]
Size(dd, t) == Cardinality(DOMAIN dd.table[t])
Slot(dd, t, k) == IF Size(dd, t) = 0 THEN 0 ELSE Hash[k] % Size(dd, t)
dictSize(dd) == dd.used[0] + dd.used[1]
dictIsRehashing(dd) == dd.rehashidx # -1
StoredIn(dd, t) == UNION {dd.table[t][i] : i \in DOMAIN dd.table[t]}
Contents(dd) == StoredIn(dd, 0) \cup StoredIn(dd, 1)

(***************************************************************************)
(* Resizing.                                                               *)
(***************************************************************************)
\* The smallest power of two that is at least size, and the initial one.
dictNextSize(size) ==
  Pow2[Min({e \in DICT_HT_INITIAL_EXP .. CursorBits : Pow2[e] >= size})]

\* An empty table 0 is replaced at once, a filled one starts a rehash.
dictResize(dd, size) ==
  LET n == dictNextSize(size)
  IN IF n = Size(dd, 0) THEN dd
     ELSE IF dd.used[0] = 0
       THEN [dd EXCEPT !.table[0] = NewTable(n)]
       ELSE [dd EXCEPT !.table[1] = NewTable(n), !.used[1] = 0, !.rehashidx = 0]

dictExpand(dd, size) ==
  IF dictIsRehashing(dd) \/ dd.used[0] > size \/ Size(dd, 0) >= size
    THEN dd ELSE dictResize(dd, size)

dictShrink(dd, size) ==
  IF dictIsRehashing(dd) \/ dd.used[0] > size \/ Size(dd, 0) <= size
    THEN dd ELSE dictResize(dd, size)

MustExpand(dd) ==
  \/ policy = "ENABLE" /\ dd.used[0] >= Size(dd, 0)
  \/ policy # "FORBID" /\ dd.used[0] >= dict_force_resize_ratio * Size(dd, 0)

dictExpandIfNeeded(dd) ==
  CASE dictIsRehashing(dd) -> dd
    [] ~dictIsRehashing(dd) /\ Size(dd, 0) = 0 ->
         dictExpand(dd, Pow2[DICT_HT_INITIAL_EXP])
    [] OTHER -> IF MustExpand(dd) THEN dictExpand(dd, dd.used[0] + 1) ELSE dd

MayShrink(dd) == ~dictIsRehashing(dd) /\ Size(dd, 0) > Pow2[DICT_HT_INITIAL_EXP]

MustShrink(dd) ==
  \/ policy = "ENABLE" /\ dd.used[0] * HASHTABLE_MIN_FILL <= Size(dd, 0)
  \/ /\ policy # "FORBID"
     /\ dd.used[0] * HASHTABLE_MIN_FILL * dict_force_resize_ratio <= Size(dd, 0)

dictShrinkIfNeeded(dd) ==
  IF MayShrink(dd) /\ MustShrink(dd) THEN dictShrink(dd, dd.used[0]) ELSE dd

(***************************************************************************)
(* The incremental rehash.                                                 *)
(***************************************************************************)
\* As a mistake would have it: the old bucket number serves a growing table too.
NewSlotMasked(dd, i, k) == i % Size(dd, 1)

\* The bucket of the new table that a key of bucket i goes to: when the
\* table shrinks the code masks the bucket number, not the hash.
NewSlot(dd, i, k) ==
  IF Size(dd, 1) > Size(dd, 0) THEN Hash[k] % Size(dd, 1) ELSE i % Size(dd, 1)

rehashEntriesInBucketAtIndex(dd, i) ==
  LET moved == dd.table[0][i]
  IN [table     |-> [t \in {0, 1} |->
                       IF t = 0 THEN [dd.table[0] EXCEPT ![i] = {}]
                       ELSE [j \in DOMAIN dd.table[1] |->
                               dd.table[1][j] \cup {k \in moved : NewSlot(dd, i, k) = j}]],
      used      |-> [t \in {0, 1} |-> IF t = 0 THEN dd.used[0] - Cardinality(moved)
                                     ELSE dd.used[1] + Cardinality(moved)],
      rehashidx |-> dd.rehashidx]

dictCheckRehashingCompleted(dd) ==
  IF dd.used[0] # 0 THEN dd
  ELSE [table     |-> [t \in {0, 1} |-> IF t = 0 THEN dd.table[1] ELSE Unallocated],
        used      |-> [t \in {0, 1} |-> IF t = 0 THEN dd.used[1] ELSE 0],
        rehashidx |-> -1]

\* While a child process shares the memory the tables are left alone, but for
\* one that is far from its size.
RehashHeld(dd) ==
  LET s0 == Size(dd, 0)
      s1 == Size(dd, 1)
  IN \/ policy = "FORBID"
     \/ /\ policy = "AVOID"
        /\ \/ s1 > s0 /\ s1 < dict_force_resize_ratio * s0
           \/ s1 < s0 /\ s0 < HASHTABLE_MIN_FILL * dict_force_resize_ratio * s1

\* dictRehash(d,1): the next filled bucket, unless too many empty ones precede.
dictRehashOne(dd) ==
  IF ~dictIsRehashing(dd) \/ RehashHeld(dd) THEN dd
  ELSE IF dd.used[0] = 0 THEN dictCheckRehashingCompleted(dd)
  ELSE LET next == Min({i \in DOMAIN dd.table[0] :
                            i >= dd.rehashidx /\ dd.table[0][i] # {}})
       IN IF next - dd.rehashidx >= EmptyVisits
            THEN [dd EXCEPT !.rehashidx = @ + EmptyVisits]
            ELSE dictCheckRehashingCompleted(
                   [rehashEntriesInBucketAtIndex(dd, next) EXCEPT !.rehashidx = next + 1])

\* dictRehash(d,n)
dictRehash(dd, n) ==
  LET r[i \in 0 .. n] == IF i = 0 THEN dd ELSE dictRehashOne(r[i - 1]) IN r[n]

dictBucketRehash(dd, i) ==
  IF RehashHeld(dd) THEN dd
  ELSE dictCheckRehashingCompleted(rehashEntriesInBucketAtIndex(dd, i))

\* As a mistake would have it: the safe iterators are forgotten.
dictRehashStepUnpaused(dd, visitedIdx) == dictRehashOne(dd)

dictRehashStepIfNeeded(dd, visitedIdx) ==
  IF ~dictIsRehashing(dd) \/ pauserehash # 0 THEN dd
  ELSE IF visitedIdx >= dd.rehashidx /\ dd.table[0][visitedIdx] # {}
    THEN dictBucketRehash(dd, visitedIdx)
    ELSE dictRehashOne(dd)

(***************************************************************************)
(* Lookup: idx is the bucket computed before the rehash step of the        *)
(* operation; table 0 is skipped when the rehash has passed it.            *)
(***************************************************************************)
Tables(dd, idx) ==
  {t \in {0, 1} : /\ t = 0 => idx >= dd.rehashidx
                  /\ t = 1 => dictIsRehashing(dd)}

Finds(dd, idx, k) ==
  \E t \in Tables(dd, idx) :
    Slot(dd, t, k) \in DOMAIN dd.table[t] /\ k \in dd.table[t][Slot(dd, t, k)]

(***************************************************************************)
(* SCAN: the cursor counts from its high bits down, within the table size. *)
(***************************************************************************)
\* The n low bits of v in reverse, for every n.
RevBits(v) ==
  LET r[n \in 0 .. CursorBits] ==
        IF n = 0 THEN 0 ELSE 2 * r[n - 1] + ((v \div Pow2[n - 1]) % 2)
  IN r

rev == [v \in 0 .. Pow2[CursorBits] - 1 |-> RevBits(v)[CursorBits]]

\* As a mistake would have it: the cursor counts up from its low bits.
NextCursorPlain(v, size) == (v + 1) % size

\* v |= ~mask; v = rev(v); v++; v = rev(v)
NextCursor(v, size) ==
  LET w == (v % size) + (Pow2[CursorBits] - size)
  IN rev[(rev[w] + 1) % Pow2[CursorBits]]

\* The cursors that follow v in a table of this size.
Cursors(v, size) ==
  LET c[n \in 0 .. size] == IF n = 0 THEN v ELSE NextCursor(c[n - 1], size) IN c

\* One call on a table that is not being rehashed.
ScanOne(dd, v) ==
  [cursor |-> NextCursor(v, Size(dd, 0)), keys |-> dd.table[0][v % Size(dd, 0)]]

\* As a mistake would have it: one bucket of each table, not every expansion.
ScanTwoOnce(dd, v) ==
  [cursor |-> NextCursor(v, Size(dd, 0)),
   keys |-> dd.table[0][v % Size(dd, 0)] \cup dd.table[1][v % Size(dd, 1)]]

\* One call during a rehash: the bucket of the smaller table, and the
\* expansions of the cursor in the larger one, until the bits that only the
\* larger mask covers are zero again.
WalkEnd(c, s0, s1) == Min({n \in 1 .. s1 : (c[n] % s1) \div s0 = 0})
Expansions(f, c, s1, last) == UNION {f[c[n] % s1] : n \in 0 .. last - 1}

ScanTwo(dd, v) ==
  LET small == IF Size(dd, 0) > Size(dd, 1) THEN 1 ELSE 0
      large == 1 - small
      s0 == Size(dd, small)
      s1 == Size(dd, large)
      c == Cursors(v, s1)
      last == WalkEnd(c, s0, s1)
  IN [cursor |-> c[last],
      keys |-> dd.table[small][v % s0] \cup Expansions(dd.table[large], c, s1, last)]

dictScan(dd, v) ==
  IF dictSize(dd) = 0 THEN [cursor |-> 0, keys |-> {}]
  ELSE IF dictIsRehashing(dd) THEN ScanTwo(dd, v) ELSE ScanOne(dd, v)

(***************************************************************************)
(* The operations.                                                         *)
(***************************************************************************)
NoScan == [on |-> FALSE, cursor |-> 0, owed |-> {}]
NoIter == [on |-> FALSE, table |-> 0, index |-> -1, chain |-> {}, owed |-> {}, returned |-> {}]

DictInit ==
  /\ dict = [table |-> [t \in {0, 1} |-> Unallocated], used |-> [t \in {0, 1} |-> 0],
          rehashidx |-> -1]
  /\ pauserehash = 0
  /\ policy = "ENABLE"
  /\ scan = NoScan
  /\ iter = NoIter

Link(dd, t, k) ==
  [table     |-> [dd.table EXCEPT ![t][Slot(dd, t, k)] = @ \cup {k}],
   used      |-> [dd.used EXCEPT ![t] = @ + 1],
   rehashidx |-> dd.rehashidx]

\* dictAddRaw: a step of rehash, an expansion if the table is full, the search
\* for the key, and the insertion in the table that is being filled.
Insert(k) ==
  LET idx == Slot(dict, 0, k)
      dd == dictExpandIfNeeded(dictRehashStepIfNeeded(dict, idx))
  IN /\ dict' = IF Finds(dd, idx, k) THEN dd
                ELSE Link(dd, IF dictIsRehashing(dd) THEN 1 ELSE 0, k)
     /\ UNCHANGED <<pauserehash, policy, scan, iter>>

Unlink(dd, t, k) ==
  [table     |-> [dd.table EXCEPT ![t][Slot(dd, t, k)] = @ \ {k}],
   used      |-> [dd.used EXCEPT ![t] = @ - 1],
   rehashidx |-> dd.rehashidx]

\* dictGenericDelete. A safe iterator holds a pointer to the entry after the
\* one it returned: its user deletes only what it was given.
Delete(k) ==
  LET idx == Slot(dict, 0, k)
      dd == dictRehashStepIfNeeded(dict, idx)
  IN /\ dictSize(dict) > 0
     /\ k \notin iter.chain
     /\ IF Finds(dd, idx, k)
          THEN /\ dict' = dictShrinkIfNeeded(
                         Unlink(dd, Min({t \in Tables(dd, idx) : k \in StoredIn(dd, t)}), k))
               /\ scan' = [scan EXCEPT !.owed = @ \ {k}]
               /\ iter' = [iter EXCEPT !.owed = @ \ {k}, !.returned = @ \ {k}]
          ELSE dict' = dd /\ UNCHANGED <<scan, iter>>
     /\ UNCHANGED <<pauserehash, policy>>

\* dictFind changes the tables too: it takes a step of rehash.
Find(k) ==
  /\ dictSize(dict) > 0
  /\ dict' = dictRehashStepIfNeeded(dict, Slot(dict, 0, k))
  /\ UNCHANGED <<pauserehash, policy, scan, iter>>

\* One reader at a time (a bound): no SCAN while a safe iterator is open.
ScanCall ==
  LET r == dictScan(dict, scan.cursor)
      due == (IF scan.on THEN scan.owed ELSE Contents(dict)) \ r.keys
  IN /\ ~iter.on
     /\ scan' = [on |-> r.cursor # 0, cursor |-> r.cursor, owed |-> due]
     /\ UNCHANGED <<dict, pauserehash, policy, iter>>

\* Where dictNext goes on: the rest of the chain, else the next filled bucket
\* of this table, else, during a rehash, the first one of table 1. The first
\* call skips the buckets the rehash has emptied.
Filled(t, after) == {i \in DOMAIN dict.table[t] : i > after /\ dict.table[t][i] # {}}

dictNextEntry ==
  LET after == IF ~iter.on /\ dictIsRehashing(dict) THEN dict.rehashidx - 1 ELSE iter.index
      here == Filled(iter.table, after)
      there == IF dictIsRehashing(dict) /\ iter.table = 0 THEN Filled(1, -1) ELSE {}
      at(t, i) == [table |-> t, index |-> i, chain |-> dict.table[t][i]]
  IN IF iter.chain # {}
       THEN [table |-> iter.table, index |-> iter.index, chain |-> iter.chain]
     ELSE IF here # {} THEN at(iter.table, Min(here))
     ELSE IF there # {} THEN at(1, Min(there))
     ELSE [table |-> 1, index |-> Size(dict, 1), chain |-> {}]

\* dictNext of a safe iterator; the first call pauses the rehash.
IterNext(k) ==
  LET e == dictNextEntry
  IN /\ ~scan.on
     /\ k \in e.chain
     /\ iter' = [on |-> TRUE, table |-> e.table, index |-> e.index, chain |-> e.chain \ {k},
                 owed |-> (IF iter.on THEN iter.owed ELSE Contents(dict)) \ {k},
                 returned |-> (IF iter.on THEN iter.returned ELSE {}) \cup {k}]
     /\ pauserehash' = IF iter.on THEN pauserehash ELSE pauserehash + 1
     /\ UNCHANGED <<dict, policy, scan>>

\* dictNext returns NULL and the user releases the iterator.
IterEnd ==
  /\ iter.on
  /\ dictNextEntry.chain = {}
  /\ iter' = [NoIter EXCEPT !.owed = iter.owed]
  /\ pauserehash' = pauserehash - 1
  /\ UNCHANGED <<dict, policy, scan>>

\* The user releases it before the end.
IterRelease ==
  /\ iter.on
  /\ iter' = NoIter
  /\ pauserehash' = pauserehash - 1
  /\ UNCHANGED <<dict, policy, scan>>

\* updateDictResizePolicy: a child process starts or ends.
SetPolicy(p) ==
  /\ p # policy
  /\ policy' = p
  /\ UNCHANGED <<dict, pauserehash, scan, iter>>

\* databasesCron, while no child process runs: resize tables, then rehash at
\* least 100 buckets, which is more than the tables here have.
Cron ==
  LET resized == IF MayShrink(dict) /\ ~MustShrink(dict)
                   THEN dictExpandIfNeeded(dict) ELSE dictShrinkIfNeeded(dict)
  IN /\ policy = "ENABLE"
     /\ dict' = IF pauserehash = 0 THEN dictRehash(resized, 2 * Size(dict, 0)) ELSE resized
     /\ UNCHANGED <<pauserehash, policy, scan, iter>>

Operations ==
  \/ \E k \in DictKeys : Insert(k) \/ Delete(k) \/ Find(k)
  \/ \E p \in {"ENABLE", "AVOID", "FORBID"} : SetPolicy(p)
  \/ Cron

Iterate == (\E k \in DictKeys : IterNext(k)) \/ IterEnd \/ IterRelease

DictSpec == DictInit /\ [][Operations \/ ScanCall \/ Iterate]_dictVars

(***************************************************************************)
(* Properties.                                                             *)
(***************************************************************************)
DictTypeOK ==
  /\ dict = [table |-> dict.table, used |-> dict.used, rehashidx |-> dict.rehashidx]
  /\ \A t \in {0, 1} :
       /\ \E n \in {0} \cup {Pow2[e] : e \in 0 .. CursorBits} :
            dict.table[t] \in [0 .. n - 1 -> SUBSET DictKeys]
       /\ dict.used[t] \in Nat
  /\ dict.rehashidx \in -1 .. Size(dict, 0)
  /\ pauserehash \in {0, 1}
  /\ policy \in {"ENABLE", "AVOID", "FORBID"}
  /\ scan \in [on : BOOLEAN, cursor : 0 .. Pow2[CursorBits] - 1, owed : SUBSET DictKeys]
  /\ iter \in [on : BOOLEAN, table : {0, 1}, index : Int, chain : SUBSET DictKeys,
               owed : SUBSET DictKeys, returned : SUBSET DictKeys]

\* Every key is in one bucket of one table, the one its hash gives; the counters
\* of used entries are right; and a rehash that passed a bucket left it empty
\* (the assertion of dictRehash at dict.c:424 needs a filled bucket ahead).
Placement ==
  /\ \A t \in {0, 1} : \A i \in DOMAIN dict.table[t] :
       \A k \in dict.table[t][i] : Hash[k] % Size(dict, t) = i
  /\ StoredIn(dict, 0) \cap StoredIn(dict, 1) = {}
  /\ \A t \in {0, 1} : dict.used[t] = Cardinality(StoredIn(dict, t))
  /\ dictIsRehashing(dict) <=> Size(dict, 1) > 0
  /\ \A i \in DOMAIN dict.table[0] : i < dict.rehashidx => dict.table[0][i] = {}

\* Lookups skip table 0 below rehashidx and take a step of rehash first: they
\* still find the keys stored, and no other, in every state of a rehash.
LookupExact ==
  \A k \in DictKeys :
    LET idx == Slot(dict, 0, k)
    IN Finds(dictRehashStepIfNeeded(dict, idx), idx, k) <=> k \in Contents(dict)

\* Whatever cursor a client holds, a call of SCAN ends its iteration or moves
\* the cursor forward in reversed-bit order, never leaving it where it was: an
\* iteration ends after a bounded number of calls, whatever expansions, shrinks
\* and steps of rehash happen between them (dict.c:1609).
CursorAdvances ==
  \A v \in 0 .. Pow2[CursorBits] - 1 :
    LET next == dictScan(dict, v).cursor IN next = 0 \/ rev[next] > rev[v]

\* "The function guarantees all elements present in the dictionary get returned
\* between the start and end of the iteration" (dict.c:1442), and no operation
\* loses or invents a key: the dictionary implements KeyScan.
Abstract == INSTANCE KeyScan WITH Keys <- DictKeys, contents <- Contents(dict),
                                  scanning <- scan.on, owed <- scan.owed
ImplementsKeyScan == Abstract!Spec

\* A safe iterator returns every key that stays in the dictionary from its first
\* to its last call, although insertions and deletions resize the tables.
IterComplete == ~iter.on => iter.owed = {}

\* It returns a key once, unless its user deleted and inserted it again: with
\* the rehash paused no entry moves into a bucket that is still to come.
IterOnce ==
  [][\A k \in DictKeys : IterNext(k) => ~iter.on \/ k \notin iter.returned]_dictVars

\* The two tables: every key is in the bucket of its hash, a lookup finds what
\* is stored and nothing else, in the middle of any rehash (dict.c:761).
TablesSound == DictTypeOK /\ Placement /\ LookupExact

\* A safe iterator returns every key that stays, and returns it once, although
\* its user may start a rehash (dict.c:1179).
IterExact == []IterComplete /\ IterOnce
=============================================================================
