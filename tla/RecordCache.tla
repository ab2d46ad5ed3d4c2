---------------------------- MODULE RecordCache ----------------------------
(***************************************************************************)
(* RecordCache (metaxtract-core, scan/cache.rs): one SQLite table of       *)
(* extraction results under a key, with a checksum and the second of the   *)
(* last use, bounded in bytes and in entries.  Scans in several processes  *)
(* may have the same cache open; each operation below is one transaction.  *)
(* FileExtraction has the threads that call them.                          *)
(***************************************************************************)
EXTENDS Naturals, FiniteSets, Functions

CONSTANTS
  Bytes(_),     \* length of the encoding of a payload
  MaxBytes,     \* max_bytes
  MaxEntries,   \* max_entries
  MaxSecond     \* bound: the last second the clock shows

(* RecordCache::open refuses limits of zero. *)
ASSUME CacheAssumption ==
  /\ MaxBytes \in Nat \ {0}
  /\ MaxEntries \in Nat \ {0}
  /\ MaxSecond \in Nat

VARIABLES
  rows,         \* the table, by key: [data, intact, accessed]
  now           \* unixepoch()

cacheVars == <<rows, now>>

CacheInit == rows = << >> /\ now = 0

Without(table, keys) == Restrict(table, DOMAIN table \ keys)
SizeOf(table) == SumFunction([k \in DOMAIN table |-> Bytes(table[k].data)])

Fits(table) ==
  Cardinality(DOMAIN table) <= MaxEntries /\ SizeOf(table) <= MaxBytes

(* What the loop of put may delete: the rows used longest ago, one by one   *)
(* and none once the rest fits.  Of the rows of one second the lowest key   *)
(* goes first; a key is a hash, so that may be any of them.                 *)
Evictable(table) ==
  {gone \in SUBSET DOMAIN table :
     /\ Fits(Without(table, gone))
     /\ \A old \in gone, kept \in DOMAIN table \ gone :
          table[old].accessed <= table[kept].accessed
     /\ gone # {} => \E last \in gone :
          /\ \A old \in gone : table[old].accessed <= table[last].accessed
          /\ ~Fits(Without(table, gone \ {last}))}

(* put: a payload that can never fit is not stored at all. *)
Put(k, data) ==
  IF Bytes(data) > MaxBytes
    THEN UNCHANGED cacheVars
    ELSE /\ LET table == [x \in DOMAIN rows \union {k} |->
                            IF x = k THEN [data |-> data, intact |-> TRUE, accessed |-> now]
                                     ELSE rows[x]]
            IN \E gone \in Evictable(table) : rows' = Without(table, gone)
         /\ UNCHANGED now

(* The second transaction of get: a row that was decoded is marked as used, *)
(* one whose checksum differs is deleted.  Both go by the key, and another  *)
(* process may have removed or replaced the row since it was read.          *)
Touch(k) ==
  /\ rows' = IF k \in DOMAIN rows THEN [rows EXCEPT ![k].accessed = now] ELSE rows
  /\ UNCHANGED now

Discard(k) == rows' = Without(rows, {k}) /\ UNCHANGED now

(* purge_existing, from the command line or the desktop. *)
Purge == rows # << >> /\ rows' = << >> /\ UNCHANGED now

(* A payload is damaged on disk. *)
Rot(k) ==
  /\ k \in DOMAIN rows /\ rows[k].intact
  /\ rows' = [rows EXCEPT ![k].intact = FALSE]
  /\ UNCHANGED now

(* The wall clock moves, and may be set back. *)
Tick == \E second \in (0..MaxSecond) \ {now} : now' = second /\ UNCHANGED rows
=============================================================================
