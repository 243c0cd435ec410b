------------------------------- MODULE Memory -------------------------------
(***************************************************************************)
(* Memory (utils/s2n_mem.c, utils/s2n_blob.c, stuffer/s2n_stuffer.c): the  *)
(* blobs and stuffers of one connection and the blocks they hold.          *)
(*                                                                         *)
(* A state s has the heap s.m, the cells s.c of the connection by field,   *)
(* its flag managed_io and s.ok, which becomes FALSE at the first failure  *)
(* of a sequence of calls: the rest of it is skipped, as the guards of the *)
(* code do.  Sizes are in pages.                                           *)
(***************************************************************************)
EXTENDS Integers, Sequences, FiniteSets, FiniteSetsExt

NoBlock == <<"none", 0>>
UserBlock == <<"user", 0>>     \* memory of the application

(***************************************************************************)
(* A blob (data, size, room for its allocated size, growable) and what a   *)
(* stuffer adds to it: r and w are its cursors, sgrowable its own growable *)
(* flag.  The fields of a blob that is no part of a stuffer stay as they   *)
(* are in Empty.                                                           *)
(***************************************************************************)
Empty == [data |-> NoBlock, size |-> 0, room |-> 0, growable |-> FALSE,
          alloced |-> FALSE, sgrowable |-> FALSE, tainted |-> FALSE, r |-> 0, w |-> 0]

NoHeap == [init |-> FALSE, mlock |-> TRUE, live |-> {}, bad |-> FALSE]

Fail(s) == [s EXCEPT !.ok = FALSE]
Ensure(cond, s, then) == IF cond THEN then ELSE Fail(s)

\* A block is <<field, number, pages>>, so that the blocks say what is locked.
Locked(live) == MapThenSumSet(LAMBDA b : b[3], live)
FreshBlock(s, f, n) ==
    LET k == CHOOSE i \in 1..(Cardinality(s.m.live) + 1) :
                /\ \A b \in s.m.live : <<b[1], b[2]>> # <<f, i>>
                /\ \A j \in 1..(i - 1) : \E b \in s.m.live : <<b[1], b[2]>> = <<f, j>>
    IN <<f, k, n>>

(***************************************************************************)
(* s2n_mem_malloc_mlock_impl fails when the pages that may be locked are   *)
(* used up, s2n_mem_malloc_no_mlock_impl does not.  The objects of the     *)
(* cryptographic library have no page of ours.                             *)
(***************************************************************************)
CanAllocate(s, n) == ~s.m.mlock \/ Locked(s.m.live) + n <= s.limit

\* s2n_mem_free_cb; freeing what is not there, or is not ours, is remembered.
Release(s, b) ==
    IF b = NoBlock THEN s
    ELSE [s EXCEPT !.m.live = @ \ {b}, !.m.bad = @ \/ b \notin s.m.live \/ b = UserBlock]

s2n_blob_is_growable(b) == b.growable \/ (b.data = NoBlock /\ b.size = 0 /\ b.room = 0)

\* The blob part of a cell, as s2n_free leaves it.
NoBlob(b) == [b EXCEPT !.data = NoBlock, !.size = 0, !.room = 0, !.growable = FALSE]

s2n_free(s, f) ==
    Ensure(s.m.init /\ s2n_blob_is_growable(s.c[f]), s,
           [Release(s, s.c[f].data) EXCEPT !.c[f] = NoBlob(@)])

(***************************************************************************)
(* s2n_realloc: the new block is there before the old one goes.            *)
(***************************************************************************)
s2n_realloc(s, f, n) ==
    LET b == s.c[f]
        block == FreshBlock(s, f, n)
        moved == [[s EXCEPT !.m.live = @ \cup {block}] EXCEPT
                     !.c[f] = [b EXCEPT !.data = block, !.size = n, !.room = n, !.growable = TRUE]]
    IN Ensure(s.m.init /\ s2n_blob_is_growable(b), s,
          IF n = 0 THEN s2n_free(s, f)
          ELSE IF n <= b.room THEN [s EXCEPT !.c[f].size = n]
          ELSE Ensure(CanAllocate(s, n), s, IF b.room > 0 THEN Release(moved, b.data) ELSE moved))

\* s2n_alloc forgets what the blob held.
s2n_alloc(s, f, n) ==
    Ensure(s.m.init, s, s2n_realloc([s EXCEPT !.c[f] = NoBlob(@)], f, n))

s2n_dup(s, f, n) == Ensure(s.m.init /\ s.c[f].size = 0 /\ s.c[f].data = NoBlock, s, s2n_alloc(s, f, n))

s2n_blob_zeroize_free(s, f) == Ensure(s.m.init, s, IF s.c[f].room > 0 THEN s2n_free(s, f) ELSE s)

(***************************************************************************)
(* An object held by a pointer: allocated into a local blob whose memory   *)
(* the pointer then takes, and freed by s2n_free_object.                   *)
(***************************************************************************)
NewObject(s, f, n) ==
    LET block == FreshBlock(s, f, n) IN
    Ensure(s.m.init /\ CanAllocate(s, n), s,
           [[s EXCEPT !.m.live = @ \cup {block}] EXCEPT
               !.c[f] = [Empty EXCEPT !.data = block, !.size = n, !.room = n, !.growable = TRUE]])

s2n_free_object(s, f) ==
    IF s.c[f].data = NoBlock THEN s
    ELSE Ensure(s.m.init, s, [Release(s, s.c[f].data) EXCEPT !.c[f] = Empty])

\* The same where the code wants the pointer to be null, or asks whether it is.
NewObjectIfNull(s, f, n) == Ensure(s.c[f].data = NoBlock, s, NewObject(s, f, n))
RestoreObject(s, f, n) == IF s.c[f].data = NoBlock THEN NewObject(s, f, n) ELSE s

-----------------------------------------------------------------------------
(***************************************************************************)
(* Stuffers                                                                *)
(***************************************************************************)
s2n_stuffer_growable_alloc(s, f, n) ==
    LET t == s2n_alloc([s EXCEPT !.c[f] = Empty], f, n)
    IN IF t.ok THEN [t EXCEPT !.c[f].alloced = TRUE, !.c[f].sgrowable = TRUE] ELSE t

s2n_stuffer_free(s, f) ==
    LET t == IF s.c[f].alloced THEN s2n_free(s, f) ELSE s
    IN IF t.ok THEN [t EXCEPT !.c[f] = Empty] ELSE t

s2n_stuffer_wipe(s, f) == [s EXCEPT !.c[f].tainted = FALSE, !.c[f].r = 0, !.c[f].w = 0]

s2n_stuffer_resize(s, f, n) ==
    LET b == s.c[f]
        least(x) == IF x > n THEN n ELSE x
    IN Ensure(~b.tainted /\ b.sgrowable, s,
          IF n = b.size THEN s
          ELSE IF n = 0 THEN s2n_free(s2n_stuffer_wipe(s, f), f)
          ELSE IF n < b.size THEN [s EXCEPT !.c[f].size = n, !.c[f].r = least(@), !.c[f].w = least(@)]
          ELSE s2n_realloc(s, f, n))

s2n_stuffer_resize_if_empty(s, f, n) ==
    IF s.c[f].data # NoBlock THEN s
    ELSE Ensure(~s.c[f].tainted /\ s.c[f].sgrowable, s, s2n_realloc(s, f, n))

\* s2n_stuffer_write_bytes with s2n_stuffer_reserve_space.
s2n_stuffer_write(s, f, n) ==
    LET b == s.c[f]
        t == IF b.size - b.w >= n THEN s
             ELSE Ensure(b.sgrowable, s, s2n_stuffer_resize(s, f, b.w + n))
    IN IF t.ok THEN [t EXCEPT !.c[f].w = @ + n] ELSE t

\* s2n_stuffer_raw_read of all there is, and s2n_stuffer_raw_write.
s2n_stuffer_raw_read(s, f) == [s EXCEPT !.c[f].r = s.c[f].w, !.c[f].tainted = TRUE]
s2n_stuffer_raw_write(s, f, n) ==
    LET t == s2n_stuffer_write(s, f, n) IN IF t.ok THEN [t EXCEPT !.c[f].tainted = TRUE] ELSE t

s2n_stuffer_rewrite(s, f) == [s EXCEPT !.c[f].r = 0, !.c[f].w = 0]
s2n_stuffer_is_consumed(s, f) == s.c[f].r = s.c[f].w

-----------------------------------------------------------------------------
(***************************************************************************)
(* s2n_mem_init and s2n_mem_cleanup.  Cleanup puts the callbacks that do   *)
(* not lock memory in place; initialisation does not put the others back.  *)
(***************************************************************************)
s2n_mem_init(m) == [m EXCEPT !.init = TRUE]
s2n_mem_cleanup(m) == IF m.init THEN [m EXCEPT !.init = FALSE, !.mlock = FALSE] ELSE m
=============================================================================
