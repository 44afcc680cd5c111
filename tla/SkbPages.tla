------------------------------- MODULE SkbPages -------------------------------
(***************************************************************************)
(* Socket buffers of src/include/linux/skbuff.h over the counted pages of  *)
(* src/page_pool.c.  A buffer is a linear part in its head page, between   *)
(* data and tail, and fragments in pages of their own.  What the module    *)
(* asks is whether these offsets and counts, which a dozen operations      *)
(* change after a dozen different tests, still describe a string of bytes. *)
(*                                                                         *)
(* A driver may call the operations in any order and with any length.  The *)
(* uses under which the bytes are not kept are named: they set the string  *)
(* of the buffer to Lost.  Lengths stay far below UINT_MAX.  A byte is     *)
(* named by the place it was written to, <<page, offset>>; copying moves   *)
(* it to another place.                                                    *)
(***************************************************************************)
EXTENDS Naturals, FiniteSets, SequencesExt

CONSTANTS Pages,     \* struct page objects
          Skbs,      \* struct sk_buff objects
          PAGE_SIZE, \* bytes of a page
          MaxFrags,  \* entries of shinfo.frags, and of a scatterlist
          MaxLen,    \* bound on the bytes of a buffer and of an allocation
          MaxEnd,    \* bound on the linear room of a buffer
          None

ASSUME SkbAssumption ==
    PAGE_SIZE \in Nat \ {0} /\ MaxFrags \in Nat \ {0} /\ MaxLen \in Nat \ {0}
    /\ MaxEnd \in Nat
    /\ IsFiniteSet(Skbs)

(* struct sk_buff, whose fragments are pieces of pages.                    *)
SkbFrags == [page : Pages, off : Nat, size : Nat]
SkBuffs == [head : Pages, data : Nat, len : Nat, dlen : Nat, tail : Nat, end : Nat,
            frags : Seq(SkbFrags)]

(* NULL, which virt_to_head_page returns for an address in no page.        *)
ASSUME NoneAssumption == None \notin SkBuffs /\ None \notin Pages

VARIABLES
    refs,    \* [p -> lcompat_refcnt], 0: not on lcompat_pages
    psize,   \* [p -> size]
    held,    \* [p -> references a driver owns]
    skb,     \* [s -> struct sk_buff, or None]
    string   \* history: [s -> the places of its bytes in order, or Lost]

skbVars == <<refs, psize, held, skb, string>>

Lost == <<None>>
Lengths == 1..MaxLen
Least(a, b) == IF a < b THEN a ELSE b
Live(s) == skb[s] # None

-----------------------------------------------------------------------------
(* Pages.  get_order counts the shifts that clear the last page's number.  *)
get_order(size) ==
    LET last == (size - 1) \div PAGE_SIZE
    IN IF size <= PAGE_SIZE THEN 0 ELSE CHOOSE o \in 1..size : last < 2^o /\ last >= 2^(o - 1)

FrameBytes(size) == PAGE_SIZE * 2^get_order(IF size = 0 THEN 1 ELSE size)

(* put_page for every page of a sequence: at 0 lcompat_page_free takes the *)
(* page off the list.                                                      *)
Less(p, pages) == refs[p] - Cardinality({i \in DOMAIN pages : pages[i] = p})

PutPages(pages) ==
    /\ refs' = [p \in Pages |-> Less(p, pages)]
    /\ psize' = [p \in Pages |-> IF Less(p, pages) = 0 THEN 0 ELSE psize[p]]

(* lcompat_page_alloc of page q, before the pages of a sequence are put.   *)
AllocThenPut(q, size, pages) ==
    /\ refs[q] = 0
    /\ refs' = [p \in Pages |-> IF p = q THEN 1 ELSE Less(p, pages)]
    /\ psize' = [p \in Pages |-> IF p = q THEN size
                                 ELSE IF Less(p, pages) = 0 THEN 0 ELSE psize[p]]

PageAlloc(q, size) == AllocThenPut(q, size, <<>>)

(* The page on the list that an address lies in: for offset off of page p. *)
virt_to_head_page(p, off) == IF refs[p] > 0 /\ off < psize[p] THEN p ELSE None

page_pool_alloc_frag(p, size) ==
    /\ PageAlloc(p, size)
    /\ held' = [held EXCEPT ![p] = 1]
    /\ UNCHANGED <<skb, string>>

get_page(p) ==
    /\ held[p] = 1
    /\ refs' = [refs EXCEPT ![p] = @ + 1]
    /\ held' = [held EXCEPT ![p] = @ + 1]
    /\ UNCHANGED <<psize, skb, string>>

put_page(p) ==
    /\ held[p] > 0
    /\ PutPages(<<p>>)
    /\ held' = [held EXCEPT ![p] = @ - 1]
    /\ UNCHANGED <<skb, string>>

-----------------------------------------------------------------------------
(* Reading a buffer.                                                       *)
FragPages(b) == [i \in DOMAIN b.frags |-> b.frags[i].page]
HeadLen(b) == IF b.len >= b.dlen THEN b.len - b.dlen ELSE 0

lcompat_skb_valid_bounds(b) ==
    /\ b.dlen <= b.len
    /\ b.data <= b.end /\ b.tail <= b.end
    /\ b.len - b.dlen <= b.end - b.data
    /\ b.tail >= b.data /\ b.len - b.dlen <= b.tail - b.data

Piece(p, off, n) == [page |-> p, off |-> off, size |-> n]
Places(p, off, n) == [i \in 1..n |-> <<p, off + i - 1>>]
Read(piece) == Places(piece.page, piece.off, piece.size)
ReadAll(pieces) == FlattenSeq([i \in DOMAIN pieces |-> Read(pieces[i])])

(* Mutant: the bytes to skip are not forgotten once they were skipped.     *)
SgTakeSkipping(st, f) ==
    LET n == Least(f.size - st.skip, st.left)
    IN IF st.left = 0 THEN st
       ELSE IF st.skip >= f.size THEN [st EXCEPT !.skip = @ - f.size]
       ELSE IF Len(st.out) >= MaxFrags THEN st
       ELSE [st EXCEPT !.left = @ - n, !.out = Append(@, Piece(f.page, f.off + st.skip, n))]

(* One fragment in the loop of skb_to_sgvec.                               *)
SgTake(st, f) ==
    LET n == Least(f.size - st.skip, st.left)
    IN IF st.left = 0 THEN st
       ELSE IF st.skip >= f.size THEN [st EXCEPT !.skip = @ - f.size]
       ELSE IF Len(st.out) >= MaxFrags THEN st
       ELSE [skip |-> 0, left |-> st.left - n, out |-> Append(st.out, Piece(f.page, f.off + st.skip, n))]

(* The pieces of bytes offset .. offset + len - 1, or none if they need    *)
(* more than MaxFrags entries.                                             *)
skb_to_sgvec(b, offset, len) ==
    LET want == Least(len, b.len - offset)
        lin  == HeadLen(b)
        n    == Least(lin - offset, want)
        st   == IF offset < lin
                THEN [skip |-> 0, left |-> want - n, out |-> <<Piece(b.head, b.data + offset, n)>>]
                ELSE [skip |-> offset - lin, left |-> want, out |-> <<>>]
        end  == FoldLeft(SgTake, st, b.frags)
        in   == offset < lin => virt_to_head_page(b.head, b.data + offset) # None
    IN IF end.left = 0 /\ in THEN end.out ELSE <<>>

(* The copy loop of skb_linearize.                                         *)
Gathered(b) ==
    FoldLeft(LAMBDA got, f : got \o Read([f EXCEPT !.size = Least(@, b.len - Len(got))]),
             Read(Piece(b.head, b.data, HeadLen(b))), b.frags)

-----------------------------------------------------------------------------
(* Changing a buffer.                                                      *)
Becomes(s, b) == skb' = [skb EXCEPT ![s] = b]
Means(s, kept, bytes) ==
    string' = [string EXCEPT ![s] = IF kept /\ @ # Lost THEN bytes ELSE Lost]

NewSkb(p, end) ==
    [head |-> p, data |-> 0, len |-> 0, dlen |-> 0, tail |-> 0, end |-> end, frags |-> <<>>]

alloc_skb(s, p, size) ==
    /\ ~Live(s)
    /\ PageAlloc(p, FrameBytes(size))
    /\ Becomes(s, NewSkb(p, size))
    /\ string' = [string EXCEPT ![s] = <<>>]
    /\ UNCHANGED held

(* The buffer takes over the driver's reference to the page at `data`.     *)
build_skb(s, p) ==
    /\ ~Live(s) /\ held[p] > 0
    /\ held' = [held EXCEPT ![p] = @ - 1]
    /\ Becomes(s, NewSkb(virt_to_head_page(p, 0), psize[p]))
    /\ string' = [string EXCEPT ![s] = <<>>]
    /\ UNCHANGED <<refs, psize>>

kfree_skb(s) ==
    /\ Live(s)
    /\ PutPages(<<skb[s].head>> \o FragPages(skb[s]))
    /\ Becomes(s, None)
    /\ string' = [string EXCEPT ![s] = <<>>]
    /\ UNCHANGED held

(* Fragments are added at nr_frags.  A buffer that trimming has cut inside *)
(* a fragment keeps the fragment's size: adding one more then revives the  *)
(* bytes cut off.                                                          *)
Uncut(b) == b.dlen = FoldLeft(LAMBDA n, f : n + f.size, 0, b.frags)

skb_add_rx_frag(s, p, off, size) ==
    LET b == skb[s] IN
    /\ Live(s) /\ held[p] > 0 /\ off + size <= psize[p]
    /\ Len(b.frags) < MaxFrags /\ b.len + size <= MaxLen
    /\ held' = [held EXCEPT ![p] = @ - 1]
    /\ Becomes(s, [b EXCEPT !.frags = Append(@, Piece(p, off, size)),
                            !.len = @ + size, !.dlen = @ + size])
    /\ Means(s, Uncut(b), string[s] \o Places(p, off, size))
    /\ UNCHANGED <<refs, psize>>

Tailroom(b, n) == n <= b.end - b.tail

(* skb_put and its variants: at the tail of the linear part.               *)
skb_put(s, n) ==
    LET b == skb[s] IN
    /\ Live(s) /\ lcompat_skb_valid_bounds(b) /\ Tailroom(b, n) /\ b.len + n <= MaxLen
    /\ Becomes(s, [b EXCEPT !.tail = @ + n, !.len = @ + n])
    /\ Means(s, b.dlen = 0, string[s] \o Places(b.head, b.tail, n))
    /\ UNCHANGED <<refs, psize, held>>

skb_reserve(s, n) ==
    LET b == skb[s] IN
    /\ Live(s) /\ lcompat_skb_valid_bounds(b) /\ Tailroom(b, n)
    /\ Becomes(s, [b EXCEPT !.data = @ + n, !.tail = @ + n])
    /\ Means(s, b.len = b.dlen, string[s])
    /\ UNCHANGED <<refs, psize, held>>

skb_push(s, n) ==
    LET b == skb[s] IN
    /\ Live(s) /\ lcompat_skb_valid_bounds(b) /\ n <= b.data /\ b.len + n <= MaxLen
    /\ Becomes(s, [b EXCEPT !.data = @ - n, !.len = @ + n])
    /\ Means(s, TRUE, Places(b.head, b.data - n, n) \o string[s])
    /\ UNCHANGED <<refs, psize, held>>

(* The test is against len, which counts the fragments: past the linear    *)
(* part, data passes tail and no operation accepts the buffer any more.    *)
skb_pull(s, n) ==
    LET b == skb[s] IN
    /\ Live(s) /\ lcompat_skb_valid_bounds(b) /\ n <= b.len
    /\ Becomes(s, [b EXCEPT !.data = @ + n, !.len = @ - n])
    /\ Means(s, n <= HeadLen(b), SubSeq(string[s], n + 1, b.len))
    /\ UNCHANGED <<refs, psize, held>>

Trimmed(b, n) ==
    IF n < HeadLen(b)
    THEN [b EXCEPT !.frags = <<>>, !.dlen = 0, !.len = n, !.tail = b.data + n]
    ELSE [b EXCEPT !.dlen = @ - (b.len - n), !.len = n, !.tail = b.data + HeadLen(b)]

skb_trim(s, n) ==
    LET b == skb[s] IN
    /\ Live(s) /\ lcompat_skb_valid_bounds(b) /\ n <= b.len
    /\ PutPages(IF n < HeadLen(b) THEN FragPages(b) ELSE <<>>)
    /\ Becomes(s, Trimmed(b, n))
    /\ Means(s, TRUE, SubSeq(string[s], 1, n))
    /\ UNCHANGED held

(* skb_put, zeroed, then skb_trim to the old length.                       *)
skb_pad(s, n) ==
    LET b   == skb[s]
        put == [b EXCEPT !.tail = @ + n, !.len = @ + n] IN
    /\ Live(s) /\ lcompat_skb_valid_bounds(b) /\ Tailroom(b, n)
    /\ PutPages(IF b.len < HeadLen(put) THEN FragPages(b) ELSE <<>>)
    /\ Becomes(s, Trimmed(put, b.len))
    /\ Means(s, b.dlen = 0, string[s])
    /\ UNCHANGED held

skb_reset_tail_pointer(s) ==
    LET b == skb[s] IN
    /\ Live(s) /\ b.data <= b.end
    /\ Becomes(s, [b EXCEPT !.len = 0, !.tail = b.data])
    /\ Means(s, b.dlen = 0, <<>>)
    /\ UNCHANGED <<refs, psize, held>>

(* The linear part moves to a new page with more headroom.                 *)
skb_cow_head(s, p, headroom) ==
    LET b   == skb[s]
        end == headroom + HeadLen(b) + (b.end - b.tail) IN
    /\ Live(s) /\ lcompat_skb_valid_bounds(b) /\ b.data < headroom /\ end <= MaxEnd
    /\ AllocThenPut(p, FrameBytes(end), <<b.head>>)
    /\ Becomes(s, [b EXCEPT !.head = p, !.data = headroom,
                            !.tail = headroom + HeadLen(b), !.end = end])
    /\ Means(s, TRUE, Places(p, headroom, HeadLen(b)) \o SubSeq(string[s], HeadLen(b) + 1, b.len))
    /\ UNCHANGED held

(* Mutant: the fragments' pages are forgotten, not put.                    *)
MovedOffKeeping(b) == <<b.head>>

(* The pages a linearized buffer lets go.                                  *)
MovedOff(b) == <<b.head>> \o FragPages(b)

skb_linearize(s, p) ==
    LET b == skb[s] IN
    /\ Live(s) /\ lcompat_skb_valid_bounds(b) /\ b.dlen > 0
    /\ Len(Gathered(b)) = b.len /\ b.data + b.len <= MaxEnd
    /\ AllocThenPut(p, FrameBytes(b.data + b.len), MovedOff(b))
    /\ Becomes(s, [b EXCEPT !.head = p, !.tail = b.data + b.len, !.end = b.data + b.len,
                            !.dlen = 0, !.frags = <<>>])
    /\ Means(s, Gathered(b) = string[s], Places(p, b.data, b.len))
    /\ UNCHANGED held

(* Only the linear part is copied.                                         *)
skb_copy(s, t, p) ==
    LET b == skb[s] IN
    /\ Live(s) /\ ~Live(t) /\ lcompat_skb_valid_bounds(b)
    /\ PageAlloc(p, FrameBytes(b.end))
    /\ Becomes(t, [b EXCEPT !.head = p, !.tail = b.data + HeadLen(b),
                            !.len = HeadLen(b), !.dlen = 0, !.frags = <<>>])
    /\ string' = [string EXCEPT ![t] = IF b.dlen = 0 /\ string[s] # Lost
                                          THEN Places(p, b.data, b.len) ELSE Lost]
    /\ UNCHANGED held

-----------------------------------------------------------------------------
SkbInit ==
    /\ refs = [p \in Pages |-> 0]
    /\ psize = [p \in Pages |-> 0]
    /\ held = [p \in Pages |-> 0]
    /\ skb = [s \in Skbs |-> None]
    /\ string = [s \in Skbs |-> <<>>]

(* Bound: two buffers have only page counts in common, so a second one is  *)
(* made by copying and both are then only freed.                           *)
Alone(s) == \A t \in Skbs \ {s} : ~Live(t)

PageStep(p) ==
    \/ get_page(p) \/ put_page(p)
    \/ \E n \in Lengths : page_pool_alloc_frag(p, n)
    \/ \E s, t \in Skbs : skb_copy(s, t, p)

SkbStep(s) ==
    \/ \E p \in Pages :
        \/ build_skb(s, p) \/ skb_linearize(s, p)
        \/ \E n \in Lengths : skb_cow_head(s, p, n)
        \/ \E n \in 0..MaxLen : alloc_skb(s, p, n)
        \/ \E off \in 0..(MaxLen - 1), n \in Lengths : skb_add_rx_frag(s, p, off, n)
    \/ \E n \in Lengths : \/ skb_put(s, n) \/ skb_push(s, n) \/ skb_pull(s, n)
                          \/ skb_reserve(s, n) \/ skb_pad(s, n)
    \/ \E n \in 0..MaxLen : skb_trim(s, n)
    \/ skb_reset_tail_pointer(s)

SkbNext ==
    \/ \E p \in Pages : PageStep(p)
    \/ \E s \in Skbs : kfree_skb(s) \/ (Alone(s) /\ SkbStep(s))

SkbSpec == SkbInit /\ [][SkbNext]_skbVars

-----------------------------------------------------------------------------
(* Whatever a driver calls, every byte that an operation hands out, copies *)
(* or gives to a device lies in a page that is still allocated: tail and   *)
(* end stay in the head page, fragments and scatterlists in theirs.        *)
Inside ==
    \A s \in Skbs : Live(s) =>
        LET b == skb[s]
            In(piece) == refs[piece.page] > 0 /\ piece.off + piece.size <= psize[piece.page]
        IN /\ b.tail <= b.end
           /\ In(Piece(b.head, 0, b.end))
           /\ \A i \in DOMAIN b.frags : In(b.frags[i])
           /\ \A o \in 0..(b.len - 1), n \in Lengths :
                \A i \in DOMAIN skb_to_sgvec(b, o, n) : In(skb_to_sgvec(b, o, n)[i])

(* A page is counted once for every buffer, fragment and driver that holds *)
(* it: none is freed under a holder, and none outlives its last one.       *)
RefsExactlyHeld ==
    \A p \in Pages :
        refs[p] = held[p] + Cardinality({s \in Skbs : Live(s) /\ skb[s].head = p})
                          + Cardinality({x \in Skbs \X (1..MaxFrags) :
                                /\ Live(x[1]) /\ x[2] <= Len(skb[x[1]].frags)
                                /\ skb[x[1]].frags[x[2]].page = p})

(* Until a caller misuses it, a buffer is the string of its bytes: every   *)
(* scatterlist reads the right part of it, and linearizing collects it.    *)
(* Only a full buffer with a linear part can be too long for a list.  And  *)
(* misused or not, it stays inside its pages.                              *)
BytesKept ==
    /\ Inside
    /\ \A s \in Skbs : Live(s) /\ string[s] # Lost =>
           LET b == skb[s] IN
           /\ lcompat_skb_valid_bounds(b) /\ Gathered(b) = string[s]
           /\ \A o \in 0..(b.len - 1), n \in Lengths :
               LET v == skb_to_sgvec(b, o, n)
               IN IF v = <<>> THEN HeadLen(b) > 0 /\ Len(b.frags) = MaxFrags
                  ELSE ReadAll(v) = SubSeq(string[s], o + 1, Least(o + n, b.len))
=============================================================================
