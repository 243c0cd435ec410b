------------------------------ MODULE HashMap ------------------------------
(***************************************************************************)
(* The hash table of utils/s2n_map.c: open addressing with linear probing, *)
(* doubled when more than half full.  A map is a value; an operation that  *)
(* can fail gives NoMap, as the callers give up then.  A slot whose key is *)
(* empty is free.  Hash stands for the first word of SHA-256 of the key.   *)
(***************************************************************************)
EXTENDS Integers, Sequences, FiniteSets

CONSTANT Hash   \* from keys to naturals

Free == [key |-> <<>>, value |-> <<>>]
NoMap == [capacity |-> 0, size |-> 0, table |-> <<>>, immutable |-> FALSE]

s2n_map_slot(capacity, key) == Hash[key] % capacity

EmptyTable(capacity) == [i \in 0..(capacity - 1) |-> Free]

s2n_map_new_with_initial_capacity(capacity) ==
    [capacity |-> capacity, size |-> 0, table |-> EmptyTable(capacity), immutable |-> FALSE]

(***************************************************************************)
(* The slot where linear probing for key ends: the first that is free or   *)
(* holds it; capacity when the probe has gone round without finding either.*)
(***************************************************************************)
Probe(map, key) ==
    LET first == s2n_map_slot(map.capacity, key)
        At(d) == (first + d) % map.capacity
        ends == {d \in 0..(map.capacity - 1) : map.table[At(d)].key \in {<<>>, key}}
    IN IF ends = {} THEN map.capacity ELSE At(CHOOSE d \in ends : \A e \in ends : d <= e)

(***************************************************************************)
(* s2n_map_embiggen: every entry is added anew to a table of the given     *)
(* capacity, in the order of the old slots.  The loads met here never make *)
(* the new table grow while it is filled.                                  *)
(***************************************************************************)
Rehash(map, new, i) ==
    LET entry == map.table[i] IN
    IF entry.key = <<>> THEN new
    ELSE [new EXCEPT !.table[Probe(new, entry.key)] = entry, !.size = @ + 1]

s2n_map_embiggen(map, capacity) ==
    LET moved[i \in 0..map.capacity] ==
            IF i = 0 THEN s2n_map_new_with_initial_capacity(capacity)
            ELSE Rehash(map, moved[i - 1], i - 1)
    IN moved[map.capacity]

Grown(map) == IF map.capacity < 2 * map.size THEN s2n_map_embiggen(map, 2 * map.capacity) ELSE map

\* s2n_map_add refuses a key that is there.
s2n_map_add(map, key, value) ==
    LET m == Grown(map)
        slot == Probe(m, key)
    IN IF map.immutable \/ m.table[slot].key = key THEN NoMap
       ELSE [m EXCEPT !.table[slot] = [key |-> key, value |-> value], !.size = @ + 1]

s2n_map_complete(map) == [map EXCEPT !.immutable = TRUE]
s2n_map_unlock(map) == [map EXCEPT !.immutable = FALSE]

\* s2n_map_lookup reads maps that are complete; the slot of the key, or capacity.
s2n_map_lookup(map, key) ==
    LET slot == Probe(map, key) IN
    IF map.immutable /\ slot < map.capacity /\ map.table[slot].key = key THEN slot ELSE map.capacity
=============================================================================
