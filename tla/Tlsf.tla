-------------------------------- MODULE Tlsf --------------------------------
(***************************************************************************)
(* The memory allocator of the test program, bench/verilog/TLSF-2.4/src/   *)
(* tlsf.c, as it is built (no locks, no mmap, no sbrk), used by one        *)
(* program.  Addresses are bytes; a block is named by the address of its   *)
(* header.  Block headers are cells of the function h: the places that     *)
(* hold no header, or one of a block that has been merged into another,    *)
(* are NoHeader.                                                           *)
(***************************************************************************)
EXTENDS Integers, FiniteSetsExt, SequencesExt

CONSTANTS Align,        \* BLOCK_ALIGN, two machine words
          MaxLog2Sli,   \* MAX_LOG2_SLI
          FliOffset,    \* FLI_OFFSET
          MaxFli,       \* MAX_FLI
          SizeT,        \* size_t counts modulo SizeT
          Pool,         \* the area of the pool, <<address, size>>
          MoreAreas,    \* the areas the program adds, a sequence of the same
          Sizes,        \* the sizes it asks for
          MaxLive       \* blocks it holds at once

MaxSli == 2 ^ MaxLog2Sli
SmallBlock == 2 ^ (FliOffset + 1)

ASSUME TlsfAssumption ==
    /\ Align > 0 /\ SmallBlock \div MaxSli \in 1..Align
    /\ \A a \in {Pool} \cup ToSet(MoreAreas) : a[1] % Align = 0 /\ a[2] >= 5 * Align

VARIABLES pool,         \* [h, matrix, sl, fl]: headers, list heads, bitmaps
          areas,        \* the list at area_head, of [ib, end]
          added,        \* how many of MoreAreas have been added
          signature,    \* the pool is initialised
          live,         \* the blocks the program holds: buffer -> size asked for
          crashed       \* memcpy was called with NULL
vars == <<pool, areas, added, signature, live, crashed>>

Null == -1
BhdrOverhead == Align          \* sizeof(bhdr_t) - MIN_BLOCK_SIZE
MinBlockSize == Align
SizeofBhdr == 2 * Align
RoundUp(r) == ((r + Align - 1) \div Align) * Align
RoundDown(r) == (r \div Align) * Align
Adjust(r) == IF r < MinBlockSize THEN MinBlockSize ELSE RoundUp(r)

AreaCells(a) == a[1]..(a[1] + a[2] - 1)
Memory == UNION {AreaCells(a) : a \in {Pool} \cup ToSet(MoreAreas)}
Addr == {a \in Memory : a % Align = 0}
Classes == (0..(MaxFli - FliOffset - 1)) \X (0..(MaxSli - 1))

NoHeader == [size |-> Null, free |-> FALSE, prevfree |-> FALSE, prevhdr |-> Null,
             prev |-> Null, next |-> Null]
Header(size, free, prevfree, prevhdr) ==
    [NoHeader EXCEPT !.size = size, !.free = free, !.prevfree = prevfree, !.prevhdr = prevhdr]
Buffer(b) == b + BhdrOverhead
NextBlock(h, b) == Buffer(b) + h[b].size

ms_bit(x) == Max({k \in 0..30 : 2 ^ k <= x})
ls_bit(bits) == IF bits = {} THEN -1 ELSE Min(bits)

(***************************************************************************)
(* The two-level index.  A search rounds the size up to the next class, so *)
(* that any block of the class it finds is large enough.                   *)
(***************************************************************************)
MAPPING_INSERT(r) ==
    IF r < SmallBlock THEN <<0, r \div (SmallBlock \div MaxSli)>>
    ELSE LET f == ms_bit(r)
         IN  <<f - FliOffset, (r \div 2 ^ (f - MaxLog2Sli)) - MaxSli>>

NoSlack(r) == 0                              \* faulty: a search does not round up
SearchSlack(r) == IF r < SmallBlock THEN 0 ELSE 2 ^ (ms_bit(r) - MaxLog2Sli) - 1
SearchClass(r) == MAPPING_INSERT(r + SearchSlack(r))
SearchSize(r) == LET t == SearchSlack(r) IN ((r + t) \div (t + 1)) * (t + 1)

FIND_SUITABLE_BLOCK(m, c) ==
    LET above == {s \in m.sl[c[1]] : s >= c[2]}
        fl    == ls_bit({f \in m.fl : f > c[1]})
    IN  IF above # {} THEN <<c[1], ls_bit(above)>>
        ELSE IF fl > 0 THEN <<fl, ls_bit(m.sl[fl])>> ELSE <<>>

(***************************************************************************)
(* The free lists, one per class, doubly linked.                           *)
(***************************************************************************)
SetNext(h, b, n) == IF b = Null THEN h ELSE [h EXCEPT ![b].next = n]
SetPrev(h, b, p) == IF b = Null THEN h ELSE [h EXCEPT ![b].prev = p]
Unlinked(h, b) == SetNext(SetPrev(h, b, Null), b, Null)

KeepBits(m, c) == m                          \* faulty: the bitmaps are left alone
ClearBits(m, c) ==
    LET rest == m.sl[c[1]] \ {c[2]}
    IN  IF m.matrix[c] # Null THEN m
        ELSE [m EXCEPT !.sl[c[1]] = rest, !.fl = IF rest = {} THEN @ \ {c[1]} ELSE @]

EXTRACT_BLOCK_HDR(m, b, c) ==
    LET n == m.h[b].next
    IN  ClearBits([m EXCEPT !.matrix[c] = n, !.h = Unlinked(SetPrev(@, n, Null), b)], c)

EXTRACT_BLOCK(m, b, c) ==
    LET n  == m.h[b].next
        p  == m.h[b].prev
        m1 == [m EXCEPT !.h = Unlinked(SetNext(SetPrev(@, n, p), p, n), b)]
    IN  IF m.matrix[c] = b THEN ClearBits([m1 EXCEPT !.matrix[c] = n], c) ELSE m1

INSERT_BLOCK(m, b, c) ==
    LET n == m.matrix[c]
    IN  [m EXCEPT !.h = SetNext(SetPrev(SetPrev(@, n, b), b, Null), b, n), !.matrix[c] = b,
                  !.sl[c[1]] = @ \cup {c[2]}, !.fl = @ \cup {c[1]}]

Extract(m, b) == EXTRACT_BLOCK(m, b, MAPPING_INSERT(m.h[b].size))
Insert(m, b) == INSERT_BLOCK(m, b, MAPPING_INSERT(m.h[b].size))

(* Block n, already off its list, becomes part of block b before it.        *)
Absorb(m, b, n) ==
    [m EXCEPT !.h = [@ EXCEPT ![b].size = @ + m.h[n].size + BhdrOverhead, ![n] = NoHeader]]

(***************************************************************************)
(* Areas: a used block with the area's description, one block for          *)
(* everything, an empty used block at the end.                             *)
(***************************************************************************)
AreaBlock(ib) == Buffer(ib) + Align

process_area(h, area) ==
    LET ib == area[1]
        b  == AreaBlock(ib)
        sz == RoundDown(area[2] - 3 * BhdrOverhead - Align)
    IN  [h EXCEPT ![ib] = Header(Align, FALSE, FALSE, Null),
                  ![b] = Header(sz, FALSE, FALSE, Null),
                  ![Buffer(b) + sz] = Header(0, FALSE, TRUE, b)]

(***************************************************************************)
(* The operations, as functions from the pool to the pool.                 *)
(***************************************************************************)
MergeNext(m, b) ==
    LET n == NextBlock(m.h, b) IN IF m.h[n].free THEN Absorb(Extract(m, n), b, n) ELSE m

MergePrevNever(m, b) == m                    \* faulty: the block before is not looked at
MergePrev(m, b) ==
    LET p == m.h[b].prevhdr IN IF m.h[b].prevfree THEN Absorb(Extract(m, p), p, b) ELSE m

free_ex(m, b) ==
    LET m1   == [m EXCEPT !.h = Unlinked([@ EXCEPT ![b].free = TRUE], b)]
        m2   == MergePrev(MergeNext(m1, b), b)
        whole == IF m2.h[b] = NoHeader THEN m1.h[b].prevhdr ELSE b
        m3   == Insert(m2, whole)
        n    == NextBlock(m3.h, whole)
    IN  [m3 EXCEPT !.h = [@ EXCEPT ![n].prevfree = TRUE, ![n].prevhdr = whole]]

(* The end of block b, used, becomes a free block when it is long enough.   *)
SplitNoHeader(m, b, size) ==                 \* faulty: the new header is not counted
    LET rest == Buffer(b) + size
        m1   == [m EXCEPT !.h = [@ EXCEPT ![rest] = Header(m.h[b].size - size, TRUE, FALSE, Null),
                                          ![b].size = size, ![b].free = FALSE]]
    IN  Insert(m1, rest)
Split(m, b, size) ==
    LET rest == Buffer(b) + size
        left == m.h[b].size - size - BhdrOverhead
        n    == NextBlock(m.h, b)
        m1   == [m EXCEPT !.h = [@ EXCEPT ![rest] = Header(left, TRUE, FALSE, Null),
                                          ![n].prevhdr = rest, ![n].prevfree = TRUE,
                                          ![b].size = size, ![b].free = FALSE]]
    IN  Insert(m1, rest)

Whole(m, b) ==
    LET n == NextBlock(m.h, b)
    IN  [m EXCEPT !.h = [@ EXCEPT ![n].prevfree = FALSE, ![b].free = FALSE]]

Take(m, b, size) == IF m.h[b].size - size >= SizeofBhdr THEN Split(m, b, size) ELSE Whole(m, b)

(* The pool after an allocation and the block, or Null.                     *)
malloc_ex(m, size) ==
    LET r == Adjust(size)
        c == FIND_SUITABLE_BLOCK(m, SearchClass(r))
    IN  IF c = <<>> THEN [m |-> m, b |-> Null]
        ELSE LET b == m.matrix[c]
             IN  [m |-> Take(EXTRACT_BLOCK_HDR(m, b, c), b, SearchSize(r)), b |-> b]

(* The three ways of realloc_ex: in place, into the free block behind, and  *)
(* to another block.                                                        *)
MovedOnly(new, b) == new.m                   \* faulty: the old block is not freed
Moved(new, b) == free_ex(new.m, b)
InPlace(m, b, r) == Take(MergeNext(m, b), b, r)

FitsWithNextAny(m, b, r) == m.h[NextBlock(m.h, b)].free   \* faulty: any free block will do
FitsWithNext(m, b, r) ==
    LET n == NextBlock(m.h, b) IN m.h[n].free /\ r <= m.h[b].size + m.h[n].size

realloc_ex(m, b, size) ==
    LET r   == Adjust(size)
        new == malloc_ex(m, r)
    IN  IF r <= m.h[b].size \/ FitsWithNext(m, b, r)
        THEN [m |-> InPlace(m, b, r), b |-> b]
        ELSE IF new.b = Null THEN new
        ELSE [m |-> Moved(new, b), b |-> new.b]

(***************************************************************************)
(* add_new_area walks the list of areas and joins the new one to those it  *)
(* touches.  The walk carries the new area's first, middle and last block  *)
(* and the areas that stay in the list.                                    *)
(***************************************************************************)
JoinNext(w, a) ==
    LET b1 == AreaBlock(a.ib)
        bsize == w.h[w.b].size + w.h[a.ib].size + 2 * BhdrOverhead
    IN  [w EXCEPT !.h = [@ EXCEPT ![w.b] = Header(bsize, FALSE, FALSE, w.h[w.b].prevhdr),
                                  ![w.lb] = NoHeader, ![a.ib] = NoHeader, ![b1].prevhdr = w.b],
                  !.lb = a.end]

JoinPrev(w, a) ==
    LET lb1 == a.end
        bsize == w.h[w.b].size + w.h[w.ib].size + 2 * BhdrOverhead
        h1  == [w.h EXCEPT ![w.ib] = NoHeader, ![w.b] = NoHeader, ![lb1].size = bsize]
    IN  [w EXCEPT !.h = [h1 EXCEPT ![NextBlock(h1, lb1)].prevhdr = lb1], !.b = lb1, !.ib = a.ib]

JoinOne(w, a) ==
    CASE a.ib = Buffer(w.lb) -> JoinNext(w, a)
      [] Buffer(a.end) = w.ib -> JoinPrev(w, a)
      [] OTHER -> [w EXCEPT !.kept = Append(@, a)]

Join(h, area, list) ==
    LET b0 == AreaBlock(area[1])
        h0 == process_area(h, area)
        w0 == [h |-> h0, ib |-> area[1], b |-> b0, lb |-> NextBlock(h0, b0), kept |-> <<>>]
    IN  FoldLeft(JoinOne, w0, list)

(***************************************************************************)
(* The program.                                                            *)
(***************************************************************************)
NoPool == [h |-> [a \in Addr |-> NoHeader], matrix |-> [c \in Classes |-> Null],
           sl |-> [f \in 0..(MaxFli - FliOffset - 1) |-> {}], fl |-> {}]

Init ==
    /\ pool = NoPool /\ areas = <<>> /\ added = 0
    /\ signature = FALSE /\ live = <<>> /\ crashed = FALSE

init_memory_pool ==
    LET h == process_area(NoPool.h, Pool)
        b == AreaBlock(Pool[1])
    IN  /\ ~signature /\ signature' = TRUE
        /\ pool' = free_ex([NoPool EXCEPT !.h = h], b)
        /\ areas' = <<[ib |-> Pool[1], end |-> NextBlock(h, b)]>> /\ added' = 0
        /\ UNCHANGED <<live, crashed>>

(* The program gives up all it holds with the pool.                         *)
destroy_memory_pool ==
    /\ signature /\ signature' = FALSE /\ live' = <<>>
    /\ UNCHANGED <<pool, areas, added, crashed>>

add_new_area ==
    /\ signature /\ added < Len(MoreAreas)
    /\ LET w == Join(pool.h, MoreAreas[added + 1], areas)
       IN  /\ pool' = free_ex([pool EXCEPT !.h = w.h], w.b)
           /\ areas' = <<[ib |-> w.ib, end |-> w.lb]>> \o w.kept
    /\ added' = added + 1
    /\ UNCHANGED <<signature, live, crashed>>

HoldNull(b, size) == (Buffer(b) :> size) @@ live   \* faulty: NULL is taken for a block
Hold(b, size) == IF b = Null THEN live ELSE (Buffer(b) :> size) @@ live
Drop(p) == [q \in DOMAIN live \ {p} |-> live[q]]
HeaderOf(p) == p - BhdrOverhead

Allocate(asked, size) ==
    LET new == malloc_ex(pool, size)
    IN  /\ signature /\ ~crashed /\ Cardinality(DOMAIN live) < MaxLive
        /\ pool' = new.m /\ live' = Hold(new.b, asked)
        /\ UNCHANGED <<areas, added, signature, crashed>>

tlsf_malloc == \E size \in Sizes : Allocate(size, size)

(* The product is a size_t; a product of zero is refused.                   *)
tlsf_calloc ==
    \E nelem \in 1..2, size \in Sizes \ {0} : Allocate(nelem * size, (nelem * size) % SizeT)

tlsf_free ==
    \E p \in DOMAIN live :
        /\ signature /\ ~crashed
        /\ pool' = free_ex(pool, HeaderOf(p)) /\ live' = Drop(p)
        /\ UNCHANGED <<areas, added, signature, crashed>>

(* When there is no room the code copies the block to NULL.                 *)
tlsf_realloc ==
    \E p \in DOMAIN live, size \in Sizes \ {0} :
        LET new == realloc_ex(pool, HeaderOf(p), size)
        IN  /\ signature /\ ~crashed
            /\ pool' = new.m
            /\ live' = IF new.b = Null THEN live ELSE (Buffer(new.b) :> size) @@ Drop(p)
            /\ crashed' = (new.b = Null)
            /\ UNCHANGED <<areas, added, signature>>

Next == init_memory_pool \/ destroy_memory_pool \/ add_new_area
        \/ tlsf_malloc \/ tlsf_calloc \/ tlsf_free \/ tlsf_realloc
Spec == Init /\ [][Next]_vars

-----------------------------------------------------------------------------
(***************************************************************************)
(* Properties.                                                             *)
(***************************************************************************)
Headers == {b \in Addr : pool.h[b] # NoHeader}
Links == Addr \cup {Null}
TypeOK ==
    /\ \A b \in Addr : LET x == pool.h[b] IN
           /\ x.size \in Int /\ x.free \in BOOLEAN /\ x.prevfree \in BOOLEAN
           /\ x.prevhdr \in Links /\ x.prev \in Links /\ x.next \in Links
    /\ pool.matrix \in [Classes -> Links]
    /\ \A c \in Classes : pool.sl[c[1]] \subseteq 0..(MaxSli - 1)
    /\ signature \in BOOLEAN /\ crashed \in BOOLEAN
    /\ DOMAIN live \subseteq Addr /\ added \in 0..Len(MoreAreas)

(* The blocks tile the areas: from the first block of an area each block    *)
(* ends where the next begins, up to the empty block at its end, whatever   *)
(* was split, merged, grown or joined before.                               *)
Ends == {areas[i].end : i \in DOMAIN areas}
Starts == {areas[i].ib : i \in DOMAIN areas}
Tiled ==
    /\ Starts \cup Ends \subseteq Headers
    /\ \A b \in Headers \ Ends :
           /\ pool.h[b].size >= MinBlockSize /\ NextBlock(pool.h, b) \in Headers \ Starts
           /\ \A c \in Headers : b < c => c >= NextBlock(pool.h, b)
    /\ \A b \in Ends : pool.h[b].size = 0

(* The boundary tags tell the truth: a header knows whether the block       *)
(* before it is free and where it begins, and two free blocks are never     *)
(* neighbours, so memory that is given back can be granted in one piece.    *)
Coalesced ==
    \A b \in Headers \ Ends :
        LET n == NextBlock(pool.h, b)
        IN  /\ pool.h[n].prevfree <=> pool.h[b].free
            /\ pool.h[b].free => pool.h[n].prevhdr = b /\ ~pool.h[n].free

(* The free lists and the bitmaps hold exactly the free blocks, each in the *)
(* class of its size.                                                       *)
Indexed ==
    /\ \A b \in {x \in Headers : pool.h[x].free} :
           LET c == MAPPING_INSERT(pool.h[b].size)
               n == pool.h[b].next
           IN  /\ (pool.h[b].prev = Null) <=> (pool.matrix[c] = b)
               /\ n # Null => /\ pool.h[n].free /\ pool.h[n].prev = b
                              /\ MAPPING_INSERT(pool.h[n].size) = c
    /\ \A c \in Classes :
           /\ c[2] \in pool.sl[c[1]] <=> pool.matrix[c] # Null
           /\ pool.matrix[c] # Null => pool.h[pool.matrix[c]].free
    /\ pool.fl = {c[1] : c \in {d \in Classes : pool.matrix[d] # Null}}

(* The heap is consistent, whatever sequence of calls has led to it.        *)
Consistent == TypeOK /\ Tiled /\ Coalesced /\ Indexed

(* The search is a good fit: it finds a block that is large enough without  *)
(* looking at its size, and fails only when no block has the rounded size.  *)
GoodFit ==
    \A size \in Sizes :
        LET r == Adjust(size)
            c == FIND_SUITABLE_BLOCK(pool, SearchClass(r))
        IN  IF c = <<>> THEN \A b \in Headers : pool.h[b].free => pool.h[b].size < SearchSize(r)
            ELSE pool.h[pool.matrix[c]].size >= r

(* Nothing leaks: the blocks in use are those the program holds and the     *)
(* first and last of each area.                                             *)
NoLeak ==
    signature => {b \in Headers : ~pool.h[b].free}
                 = Starts \cup Ends \cup {HeaderOf(p) : p \in DOMAIN live}

(* The extents the program holds, of the sizes it asked for, never overlap  *)
(* and stay inside the areas.                                               *)
Held == {<<p, live[p]>> : p \in {q \in DOMAIN live : live[q] > 0}}
A == INSTANCE Allocator WITH Memory <- Memory, held <- Held
Allocates == A!Spec
=============================================================================
