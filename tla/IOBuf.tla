--------------------------------- MODULE IOBuf ---------------------------------
(***************************************************************************)
(* IOBuf (utility/iobuf.cc): buffers of bytes that are cut, appended and   *)
(* copied without copying bytes.  A buffer is a queue of references        *)
(* <<offset, length, block>> into reference-counted blocks, and several    *)
(* buffers may refer to the same bytes.  New bytes go behind `size' of a   *)
(* block that its writer keeps for that purpose: the blocks of the thread  *)
(* (TLSData), those cached by an IOPortal, or the _cur_block of an         *)
(* IOBufAsZeroCopyOutputStream.  Nothing in a block says who may write to  *)
(* it; that two writers never have the same block, and that a block is     *)
(* freed neither early nor never, follows from the discipline of all       *)
(* operations together.                                                    *)
(*                                                                         *)
(* A buffer may be handed to another thread, so every operation may be     *)
(* called by every thread.  An operation is one step: a buffer is not      *)
(* shared by two threads at a time, nshared is atomic, and the other       *)
(* fields of a block are written by the one writer that has the block,     *)
(* which is what OneWriter checks.                                         *)
(*                                                                         *)
(* `text' is an auxiliary variable: the bytes that each buffer holds by    *)
(* the meaning of the operations.                                          *)
(***************************************************************************)
EXTENDS Integers, FiniteSets, FiniteSetsExt, Sequences, SequencesExt

CONSTANTS
  Threads,            \* threads, each with its TLSData
  Bufs,               \* buffers; each may be used as an IOPortal
  NBlocks,            \* blocks the allocator can give out before it returns NULL
  Cap,                \* capacity of a block
  MaxBlocksPerThread, \* MAX_BLOCKS_PER_THREAD
  Data,               \* byte sequences given to append(), read from files, ...
  MaxCounts,          \* max_count of reads
  Delims,             \* delimiters given to cut_until(char const* ), without NUL
  MaxLength,          \* bound: bytes in all buffers together
  Fill,               \* what users write to the memory they pass in or get
  UnsafeBackUp,       \* whether BackUp may go back to a block that others have
                      \* got hold of meanwhile (see BackUpRefs)
  NoBuf               \* no stream is open

ASSUME Numbers == /\ {NBlocks, Cap, MaxBlocksPerThread, MaxLength} \subseteq Nat \ {0}
                  /\ UnsafeBackUp \in BOOLEAN
                  /\ NoBuf \notin Bufs
                  /\ Fill \in UNION {ToSet(d) : d \in Data}

VARIABLES
  block,   \* the blocks: reference count, fill level, capacity and bytes
  tls,     \* per thread: block chain and num_blocks
  buf,     \* per buffer: references, and the nbytes of the BigView
  portal,  \* per buffer: the chain of blocks cached by an IOPortal
  stream,  \* an IOBufAsZeroCopyOutputStream: its buffer, whether it has blocks of
           \* its own (block_size > 0), _cur_block, and the bytes written through it
           \* that the caller may still take back
  text     \* auxiliary: the bytes of each buffer

vars == <<block, tls, buf, portal, stream, text>>

--------------------------------------------------------------------------------
(* Blocks                                                                  *)

NoBlock == 0
Blocks == 1..NBlocks

Byte == UNION {ToSet(d) : d \in Data}

FreeBlock == [nshared |-> 0, size |-> 0, cap |-> Cap, data |-> [i \in 0..Cap-1 |-> Fill]]

Full(bl, b) == bl[b].size >= bl[b].cap
LeftSpace(bl, b) == bl[b].cap - bl[b].size

inc_ref(bl, b) == [bl EXCEPT ![b].nshared = @ + 1]

\* The last reference frees the block, or calls the deleter of user data.
dec_ref(bl, b) ==
  [bl EXCEPT ![b] = IF @.nshared = 1 THEN FreeBlock ELSE [@ EXCEPT !.nshared = @ - 1]]

DecRefs(bl, bs) == FoldLeft(dec_ref, bl, bs)

\* A new block and the blocks with it; NoBlock when the allocator fails.
create_block(bl) ==
  LET free == {b \in Blocks : bl[b].nshared = 0}
      b == IF free = {} THEN NoBlock ELSE Min(free)
  IN  [b |-> b, bl |-> IF b = NoBlock THEN bl ELSE inc_ref(bl, b)]

\* c is written behind the bytes of b
WriteByte(bl, b, c) ==
  [bl EXCEPT ![b].data[bl[b].size] = c, ![b].size = @ + 1]

--------------------------------------------------------------------------------
(* The blocks of a thread.  tl is the TLSData of one thread.               *)

\* Full blocks at the head of the chain are given up.
DropFull(bl, tl) ==
  LET keep == {i \in 1..Len(tl.chain) : ~Full(bl, tl.chain[i])}
      n == IF keep = {} THEN Len(tl.chain) ELSE Min(keep) - 1
  IN  [bl |-> DecRefs(bl, SubSeq(tl.chain, 1, n)),
       tl |-> [chain |-> SubSeq(tl.chain, n + 1, Len(tl.chain)), num |-> tl.num - n]]

\* A block that is not full; it stays in the chain.
share_tls_block(bl, tl) ==
  LET d == DropFull(bl, tl)
      c == create_block(d.bl)
  IN  CASE d.tl.chain # <<>> -> [b |-> Head(d.tl.chain), bl |-> d.bl, tl |-> d.tl]
        [] d.tl.chain = <<>> /\ c.b # NoBlock ->
             [b |-> c.b, bl |-> c.bl, tl |-> [chain |-> <<c.b>>, num |-> d.tl.num + 1]]
        [] OTHER -> [b |-> NoBlock, bl |-> d.bl, tl |-> d.tl]

\* Mutant: the block also stays in the chain.
acquire_tls_block_Keep(bl, tl) ==
  LET d == DropFull(bl, tl)
      c == create_block(d.bl)
  IN  IF d.tl.chain = <<>> THEN [b |-> c.b, bl |-> c.bl, tl |-> d.tl]
                           ELSE [b |-> Head(d.tl.chain), bl |-> d.bl, tl |-> d.tl]

\* A block that is not full, taken out of the chain.
acquire_tls_block(bl, tl) ==
  LET d == DropFull(bl, tl)
      c == create_block(d.bl)
  IN  IF d.tl.chain = <<>>
        THEN [b |-> c.b, bl |-> c.bl, tl |-> d.tl]
        ELSE [b |-> Head(d.tl.chain), bl |-> d.bl,
              tl |-> [chain |-> Tail(d.tl.chain), num |-> d.tl.num - 1]]

release_tls_block(bl, tl, b) ==
  IF b = NoBlock THEN [bl |-> bl, tl |-> tl]
  ELSE IF Full(bl, b) \/ tl.num >= MaxBlocksPerThread
    THEN [bl |-> dec_ref(bl, b), tl |-> tl]
    ELSE [bl |-> bl, tl |-> [chain |-> <<b>> \o tl.chain, num |-> tl.num + 1]]

release_tls_block_chain(bl, tl, bs) ==
  IF tl.num >= MaxBlocksPerThread
    THEN [bl |-> DecRefs(bl, bs), tl |-> tl]
    ELSE [bl |-> bl, tl |-> [chain |-> bs \o tl.chain, num |-> tl.num + Len(bs)]]

--------------------------------------------------------------------------------
(* Buffers.  v is the view of one buffer: up to two references lie in the  *)
(* SmallView, more in the BigView, whose nbytes counts their bytes.        *)

EmptyView == [refs |-> <<>>, nbytes |-> 0]

Ref(o, l, b) == [offset |-> o, length |-> l, block |-> b]
RefEnd(r) == r.offset + r.length

Small(v) == Len(v.refs) <= 2

SumLengths(refs) == FoldLeft(LAMBDA n, r : n + r.length, 0, refs)

Length(v) == IF Small(v) THEN SumLengths(v.refs) ELSE v.nbytes

\* The bytes that a view denotes
RefBytes(bl, r) == [i \in 1..r.length |-> bl[r.block].data[r.offset + i - 1]]
Bytes(bl, v) == FlattenSeq([i \in 1..Len(v.refs) |-> RefBytes(bl, v.refs[i])])

\* A reference that continues the last one is merged with it.
Merges(v, r) ==
  v.refs # <<>> /\ Last(v.refs).block = r.block /\ RefEnd(Last(v.refs)) = r.offset

\* Mutant: a reference that is moved in and merged keeps its count.
PushOrMoveBackRef_NoDec(s, r, move) ==
  LET merge == Merges(s.v, r)
      refs == IF merge
                THEN [s.v.refs EXCEPT ![Len(s.v.refs)].length = @ + r.length]
                ELSE Append(s.v.refs, r)
  IN  [bl |-> IF ~merge /\ ~move THEN inc_ref(s.bl, r.block) ELSE s.bl,
       v |-> [refs |-> refs, nbytes |-> IF Len(refs) <= 2 THEN 0 ELSE Length(s.v) + r.length]]

\* s is [bl, v].  When the reference is moved in, merging it gives up its
\* count; when it is shared, storing it needs one.
PushOrMoveBackRef(s, r, move) ==
  LET merge == Merges(s.v, r)
      refs == IF merge
                THEN [s.v.refs EXCEPT ![Len(s.v.refs)].length = @ + r.length]
                ELSE Append(s.v.refs, r)
      nbytes == IF Len(refs) <= 2 THEN 0 ELSE Length(s.v) + r.length
  IN  [bl |-> CASE merge /\ move -> dec_ref(s.bl, r.block)
                [] ~merge /\ ~move -> inc_ref(s.bl, r.block)
                [] OTHER -> s.bl,
       v |-> [refs |-> refs, nbytes |-> nbytes]]

PushBackRef(s, r) == PushOrMoveBackRef(s, r, FALSE)
MoveBackRef(s, r) == PushOrMoveBackRef(s, r, TRUE)

\* Removing a reference; with two left the view falls back to the SmallView.
WithoutRef(v, refs, r) ==
  [refs |-> refs, nbytes |-> IF Len(refs) > 2 THEN v.nbytes - r.length ELSE 0]
MoveoutFrontRef(v) == WithoutRef(v, Tail(v.refs), Head(v.refs))
PopFrontRef(s) == [bl |-> dec_ref(s.bl, Head(s.v.refs).block), v |-> MoveoutFrontRef(s.v)]
PopBackRef(s) ==
  [bl |-> dec_ref(s.bl, Last(s.v.refs).block),
   v |-> WithoutRef(s.v, Front(s.v.refs), Last(s.v.refs))]

\* Mutant: the number of bytes is taken off the offset as well.
TrimBack_Offset(v, n) ==
  [refs |-> [v.refs EXCEPT ![Len(v.refs)] = Ref(@.offset - n, @.length - n, @.block)], nbytes |-> 0]

\* n bytes fewer in the first, or in the last reference
TrimNBytes(v, n) == IF Small(v) THEN 0 ELSE v.nbytes - n

\* Mutant: the front is cut off without moving the offset.
TrimFront_NoOffset(v, n) ==
  [refs |-> [v.refs EXCEPT ![1].length = @ - n], nbytes |-> TrimNBytes(v, n)]

TrimFront(v, n) ==
  [refs |-> [v.refs EXCEPT ![1] = Ref(@.offset + n, @.length - n, @.block)],
   nbytes |-> TrimNBytes(v, n)]

TrimBack(v, n) ==
  [refs |-> [v.refs EXCEPT ![Len(v.refs)].length = @ - n], nbytes |-> TrimNBytes(v, n)]

\* c is written to b and referred to
PutByte(s, b, c) ==
  PushBackRef([bl |-> WriteByte(s.bl, b, c), v |-> s.v], Ref(s.bl[b].size, 1, b))

RefBlocks(v) == [i \in 1..Len(v.refs) |-> v.refs[i].block]

ClearView(s) == [bl |-> DecRefs(s.bl, RefBlocks(s.v)), v |-> EmptyView]

\* The loops of pop_front and pop_back: the references are taken in turn.
PopFront(s, n) ==
  LET step(a, r) ==
        CASE a.n = 0 -> a
          [] a.n > 0 /\ r.length > a.n ->
               [bl |-> a.bl, v |-> TrimFront(a.v, a.n), n |-> 0]
          [] OTHER -> LET p == PopFrontRef(a) IN [bl |-> p.bl, v |-> p.v, n |-> a.n - r.length]
      f == FoldLeft(step, [bl |-> s.bl, v |-> s.v, n |-> n], s.v.refs)
  IN  IF n >= Length(s.v) THEN ClearView(s) ELSE [bl |-> f.bl, v |-> f.v]

PopBack(s, n) ==
  LET step(r, a) ==
        CASE a.n = 0 -> a
          [] a.n > 0 /\ r.length > a.n ->
               [bl |-> a.bl, v |-> TrimBack(a.v, a.n), n |-> 0]
          [] OTHER -> LET p == PopBackRef(a) IN [bl |-> p.bl, v |-> p.v, n |-> a.n - r.length]
      f == FoldRight(step, s.v.refs, [bl |-> s.bl, v |-> s.v, n |-> n])
  IN  IF n >= Length(s.v) THEN ClearView(s) ELSE [bl |-> f.bl, v |-> f.v]

\* The loop of cutn(IOBuf*, n): whole references are moved, the last one is
\* shared.  The result has the blocks, the view cut from and the view cut to.
CutN(bl, from, to, n) ==
  LET step(a, r) ==
        CASE a.n = 0 -> a
          [] a.n > 0 /\ r.length <= a.n ->
               LET m == MoveBackRef([bl |-> a.bl, v |-> a.to], r)
               IN  [bl |-> m.bl, to |-> m.v, from |-> MoveoutFrontRef(a.from), n |-> a.n - r.length]
          [] OTHER ->
               LET p == PushBackRef([bl |-> a.bl, v |-> a.to], Ref(r.offset, a.n, r.block))
               IN  [bl |-> p.bl, to |-> p.v, from |-> TrimFront(a.from, a.n), n |-> 0]
  IN  FoldLeft(step, [bl |-> bl, from |-> from, to |-> to, n |-> n], from.refs)

\* append(data): the loop fills one block of the thread after the other.  As
\* adjacent references merge, chunks have the effect of single bytes.  n counts
\* the bytes appended before the allocator failed, if it did.
AppendBytes(bl, tl, v, d) ==
  LET step(a, c) ==
        LET h == share_tls_block(a.bl, a.tl)
            p == PutByte([bl |-> h.bl, v |-> a.v], h.b, c)
        IN  CASE a.failed -> a
              [] ~a.failed /\ h.b = NoBlock ->
                   [a EXCEPT !.bl = h.bl, !.tl = h.tl, !.failed = TRUE]
              [] OTHER -> [a EXCEPT !.bl = p.bl, !.tl = h.tl, !.v = p.v, !.n = @ + 1]
  IN  FoldLeft(step, [bl |-> bl, tl |-> tl, v |-> v, n |-> 0, failed |-> FALSE], d)

--------------------------------------------------------------------------------
(* IOPortal: reading from a file into the cached blocks.                   *)

SpaceOf(bl, bs) == FoldLeft(LAMBDA n, b : n + LeftSpace(bl, b), 0, bs)

\* Blocks are acquired until there is room for max bytes; each one adds room.
PrepareBlocks(bl, tl, bs, max) ==
  LET step(a, i) ==
        LET q == acquire_tls_block(a.bl, a.tl)
        IN  CASE a.failed \/ SpaceOf(a.bl, a.bs) >= max -> a
              [] ~a.failed /\ SpaceOf(a.bl, a.bs) < max /\ q.b = NoBlock ->
                   [a EXCEPT !.bl = q.bl, !.tl = q.tl, !.failed = TRUE]
              [] OTHER -> [a EXCEPT !.bl = q.bl, !.tl = q.tl, !.bs = Append(@, q.b)]
  IN  FoldLeft(step, [bl |-> bl, tl |-> tl, bs |-> bs, failed |-> FALSE], [i \in 1..max |-> i])

\* What was read is referred to; a block that became full leaves the cache.
TakeRead(bl, v, bs, d) ==
  LET step(a, c) ==
        LET b == Head(a.bs)
            p == PutByte(a, b, c)
        IN  IF Full(p.bl, b)
              THEN [bl |-> dec_ref(p.bl, b), v |-> p.v, bs |-> Tail(a.bs)]
              ELSE [bl |-> p.bl, v |-> p.v, bs |-> a.bs]
  IN  FoldLeft(step, [bl |-> bl, v |-> v, bs |-> bs], d)

ReturnCachedBlocks(bl, tl, bs) ==
  IF bs = <<>> THEN [bl |-> bl, tl |-> tl] ELSE release_tls_block_chain(bl, tl, bs)

--------------------------------------------------------------------------------
(* IOBufAsZeroCopyOutputStream                                             *)

NoStream == [buf |-> NoBuf, own |-> FALSE, cur |-> NoBlock, avail |-> 0]

\* _release_block: a block of its own is given up, another goes to the thread.
ReleaseBlock(bl, tl, own, b) ==
  CASE ~own -> release_tls_block(bl, tl, b)
    [] own /\ b # NoBlock -> [bl |-> dec_ref(bl, b), tl |-> tl]
    [] OTHER -> [bl |-> bl, tl |-> tl]

\* Blocks that a thread or a portal keeps to write to
Kept(tl) == ToSet(tl.chain) \cup UNION {ToSet(tls[t].chain) : t \in Threads}
                            \cup UNION {ToSet(portal[u]) : u \in Bufs}

\* The loop of BackUp(n), from the last reference on: with a _cur_block the
\* ordinary one, without the extended one, which takes the block of the last
\* reference up again.  Where the code logs a FATAL message it returns.  `unsafe': the
\* extended one came to a block that was released before and that a thread or a portal
\* keeps now (the block is linked into a chain twice), or whose rest somebody else has
\* used and given up (FATAL, the bytes stay).
BackUpRefs(bl, tl, v, n) ==
  LET done(a) == [a EXCEPT !.done = TRUE]
      step(r, a) ==
        LET atEnd == RefEnd(r) = a.bl[r.block].size
            bl1 == IF a.cur = NoBlock THEN inc_ref(a.bl, r.block) ELSE a.bl
            shrunk(k) == [bl1 EXCEPT ![r.block].size = @ - k]
            trim == IF stream.own THEN [bl |-> shrunk(a.n), tl |-> a.tl]
                                  ELSE release_tls_block(shrunk(a.n), a.tl, r.block)
            pop == PopBackRef([bl |-> shrunk(r.length), v |-> a.v])
            rel == ReleaseBlock(pop.bl, a.tl, stream.own, r.block)
            rest == PopBack(a, a.n)
            unsafe == a.unsafe \/ (a.cur = NoBlock /\ r.block \in Kept(a.tl))
        IN  CASE a.done -> a
              [] ~a.done /\ a.cur # NoBlock /\ (r.block # a.cur \/ ~atEnd) -> done(a)
              [] ~a.done /\ a.cur = NoBlock /\ ~atEnd ->
                   IF a.bl[r.block].nshared = 1 THEN done([a EXCEPT !.unsafe = TRUE])
                   ELSE done([a EXCEPT !.bl = rest.bl, !.v = rest.v, !.n = 0])
              [] ~a.done /\ (a.cur = NoBlock \/ r.block = a.cur) /\ atEnd /\ r.length > a.n ->
                   done([a EXCEPT !.bl = trim.bl, !.tl = trim.tl, !.v = TrimBack(a.v, a.n), !.n = 0,
                                  !.unsafe = unsafe,
                                  !.cur = IF stream.own THEN r.block ELSE NoBlock])
              [] OTHER ->
                   [bl |-> rel.bl, tl |-> rel.tl, v |-> pop.v, n |-> a.n - r.length,
                    cur |-> NoBlock, unsafe |-> unsafe, done |-> a.n = r.length]
  IN  FoldRight(step, v.refs,
                [bl |-> bl, tl |-> tl, v |-> v, n |-> n, cur |-> stream.cur,
                 unsafe |-> FALSE, done |-> FALSE])

--------------------------------------------------------------------------------
(* Operations                                                              *)

Init ==
  /\ block = [b \in Blocks |-> FreeBlock]
  /\ tls = [t \in Threads |-> [chain |-> <<>>, num |-> 0]]
  /\ buf = [u \in Bufs |-> EmptyView]
  /\ portal = [u \in Bufs |-> <<>>]
  /\ stream = NoStream
  /\ text = [u \in Bufs |-> <<>>]

\* While the stream may still take bytes back, nobody else uses its buffer ("You can
\* change the source IOBuf when stream is not used", iobuf.h:564).
Idle(u) == stream.buf # u \/ stream.avail = 0

\* Bound: room for n more bytes
Room(n) == MapThenSumSet(LAMBDA u : Len(text[u]), Bufs) + n <= MaxLength

View(u) == [bl |-> block, v |-> buf[u]]

\* The step leaves the blocks and the view of u as s says.
SetView(u, s) == block' = s.bl /\ buf' = [buf EXCEPT ![u] = s.v]

AppendData(t, u, d) ==
  LET a == AppendBytes(block, tls[t], buf[u], d)
  IN  /\ Idle(u) /\ Room(Len(d))
      /\ SetView(u, a)
      /\ tls' = [tls EXCEPT ![t] = a.tl]
      /\ text' = [text EXCEPT ![u] = @ \o SubSeq(d, 1, a.n)]
      /\ UNCHANGED <<portal, stream>>

\* User data: the block is full from the start and its reference is moved in.
AppendUserData(u) ==
  LET q == create_block(block)
      b == q.b
  IN  /\ Idle(u) /\ Room(1)
      /\ b # NoBlock
      /\ SetView(u, MoveBackRef([bl |-> [q.bl EXCEPT ![b] = [@ EXCEPT !.size = 1, !.cap = 1, !.data[0] = Fill]],
                                 v |-> buf[u]], Ref(0, 1, b)))
      /\ text' = [text EXCEPT ![u] = Append(@, Fill)]
      /\ UNCHANGED <<tls, portal, stream>>

AppendBuf(u, w) ==
  /\ u # w /\ Idle(u) /\ Idle(w) /\ Room(Len(text[w]))
  /\ SetView(u, FoldLeft(PushBackRef, View(u), buf[w].refs))
  /\ text' = [text EXCEPT ![u] = @ \o text[w]]
  /\ UNCHANGED <<tls, portal, stream>>

\* append(Movable): an empty buffer swaps, another takes the references over.
AppendMovable(u, w) ==
  LET s == FoldLeft(MoveBackRef, View(u), buf[w].refs)
  IN  /\ u # w /\ Idle(u) /\ Idle(w)
      /\ IF Length(buf[u]) = 0
           THEN buf' = [buf EXCEPT ![u] = buf[w], ![w] = buf[u]] /\ UNCHANGED block
           ELSE buf' = [buf EXCEPT ![u] = s.v, ![w] = EmptyView] /\ block' = s.bl
      /\ text' = [text EXCEPT ![u] = @ \o text[w], ![w] = <<>>]
      /\ UNCHANGED <<tls, portal, stream>>

\* operator=: the old references are given up, those of w shared as they are.
Assign(u, w) ==
  LET c == ClearView(View(u))
  IN  /\ u # w /\ Idle(u) /\ Idle(w) /\ Room(Len(text[w]) - Len(text[u]))
      /\ block' = FoldLeft(inc_ref, c.bl, RefBlocks(buf[w]))
      /\ buf' = [buf EXCEPT ![u] = buf[w]]
      /\ text' = [text EXCEPT ![u] = text[w]]
      /\ UNCHANGED <<tls, portal, stream>>

Swap(u, w) ==
  /\ u # w /\ Idle(u) /\ Idle(w)
  /\ buf' = [buf EXCEPT ![u] = buf[w], ![w] = buf[u]]
  /\ text' = [text EXCEPT ![u] = text[w], ![w] = text[u]]
  /\ UNCHANGED <<block, tls, portal, stream>>

\* pop_front(n), which cut1 and the writes to files end with
DoPopFront(u, n) ==
  /\ Idle(u) /\ text[u] # <<>>
  /\ SetView(u, PopFront(View(u), n))
  /\ text' = [text EXCEPT ![u] = SubSeq(@, n + 1, Len(@))]
  /\ UNCHANGED <<tls, portal, stream>>

DoPopBack(u, n) ==
  /\ Idle(u) /\ text[u] # <<>>
  /\ SetView(u, PopBack(View(u), n))
  /\ text' = [text EXCEPT ![u] = SubSeq(@, 1, Len(@) - n)]
  /\ UNCHANGED <<tls, portal, stream>>

DoCutN(u, w, n) ==
  LET a == CutN(block, buf[u], buf[w], n)
  IN  /\ u # w /\ Idle(u) /\ Idle(w)
      /\ n <= Length(buf[u])
      /\ block' = a.bl /\ buf' = [buf EXCEPT ![u] = a.from, ![w] = a.to]
      /\ text' = [text EXCEPT ![u] = SubSeq(@, n + 1, Len(@)), ![w] = @ \o SubSeq(text[u], 1, n)]
      /\ UNCHANGED <<tls, portal, stream>>

\* The positions after which the delimiter d ends in x
DelimEnds(x, d) == {n \in Len(d)..Len(x) : SubSeq(x, n - Len(d) + 1, n) = d}

\* cut_until: the references are scanned for d; what precedes it goes to w, d itself nowhere.
CutUntil(u, w, d) ==
  LET ends == DelimEnds(Bytes(block, buf[u]), d)
      n == Min(ends) - Len(d)
      a == CutN(block, buf[u], buf[w], n)
      p == PopFront([bl |-> a.bl, v |-> a.from], Len(d))
      k == Min(DelimEnds(text[u], d))
  IN  /\ u # w /\ Idle(u) /\ Idle(w) /\ ends # {}
      /\ block' = p.bl /\ buf' = [buf EXCEPT ![u] = p.v, ![w] = a.to]
      /\ text' = [text EXCEPT ![u] = SubSeq(@, k + 1, Len(@)),
                             ![w] = @ \o SubSeq(text[u], 1, k - Len(d))]
      /\ UNCHANGED <<tls, portal, stream>>

\* IOPortal::append_from_file_descriptor(max): d is what could be read, nothing
\* when the read fails or the file has ended.
ReadFrom(t, u, max, d) ==
  LET q == PrepareBlocks(block, tls[t], portal[u], max)
      r == TakeRead(q.bl, buf[u], q.bs, d)
      c == ReturnCachedBlocks(q.bl, q.tl, q.bs)
  IN  /\ Idle(u) /\ Room(Len(d))
      /\ Len(d) <= max
      /\ \/ /\ q.failed
            /\ block' = q.bl /\ portal' = [portal EXCEPT ![u] = q.bs]
            /\ tls' = [tls EXCEPT ![t] = q.tl]
            /\ UNCHANGED <<buf, text>>
         \/ /\ ~q.failed /\ d = <<>> /\ buf[u].refs = <<>>
            /\ block' = c.bl /\ portal' = [portal EXCEPT ![u] = <<>>]
            /\ tls' = [tls EXCEPT ![t] = c.tl]
            /\ UNCHANGED <<buf, text>>
         \/ /\ ~q.failed /\ (d # <<>> \/ buf[u].refs # <<>>)
            /\ SetView(u, r) /\ portal' = [portal EXCEPT ![u] = r.bs]
            /\ tls' = [tls EXCEPT ![t] = q.tl]
            /\ text' = [text EXCEPT ![u] = @ \o d]
      /\ UNCHANGED stream

\* IOPortal::clear, and the destructor
PortalClear(t, u) ==
  LET s == ClearView(View(u))
      c == ReturnCachedBlocks(s.bl, tls[t], portal[u])
  IN  /\ Idle(u)
      /\ block' = c.bl /\ tls' = [tls EXCEPT ![t] = c.tl]
      /\ buf' = [buf EXCEPT ![u] = s.v]
      /\ portal' = [portal EXCEPT ![u] = <<>>]
      /\ text' = [text EXCEPT ![u] = <<>>]
      /\ UNCHANGED stream

\* remove_tls_block_chain, at the exit of the thread
ThreadExit(t) ==
  /\ tls[t].chain # <<>>
  /\ block' = DecRefs(block, tls[t].chain)
  /\ tls' = [tls EXCEPT ![t] = [chain |-> <<>>, num |-> 0]]
  /\ UNCHANGED <<buf, portal, stream, text>>

StreamOpen(u, own) ==
  /\ stream.buf = NoBuf
  /\ stream' = [NoStream EXCEPT !.buf = u, !.own = own]
  /\ UNCHANGED <<block, tls, buf, portal, text>>

\* Next: the caller gets the rest of the block; here it fills it.
StreamNext(t) ==
  LET fetch == stream.cur = NoBlock \/ Full(block, stream.cur)
      r0 == ReleaseBlock(block, tls[t], stream.own, stream.cur)
      new == create_block(r0.bl)
      q == IF stream.own THEN [b |-> new.b, bl |-> new.bl, tl |-> r0.tl]
           ELSE acquire_tls_block(r0.bl, r0.tl)
      g == IF fetch THEN q ELSE [b |-> stream.cur, bl |-> block, tl |-> tls[t]]
      k == LeftSpace(g.bl, g.b)
      u == stream.buf
  IN  /\ u # NoBuf
      /\ tls' = [tls EXCEPT ![t] = g.tl]
      /\ \/ /\ g.b = NoBlock
            /\ block' = g.bl /\ stream' = [stream EXCEPT !.cur = NoBlock]
            /\ UNCHANGED <<buf, text>>
         \/ /\ g.b # NoBlock /\ Room(k)
            /\ SetView(u, FoldLeft(LAMBDA s, i : PutByte(s, g.b, Fill), [bl |-> g.bl, v |-> buf[u]],
                                   [i \in 1..k |-> i]))
            /\ stream' = [stream EXCEPT !.cur = g.b, !.avail = @ + k]
            /\ text' = [text EXCEPT ![u] = @ \o [i \in 1..k |-> Fill]]
      /\ UNCHANGED portal

\* BackUp: the caller takes n bytes back, up to all that it wrote ("`count' can be as
\* long as ByteCount()", iobuf.h:584).
StreamBackUp(t, n) ==
  LET u == stream.buf
      a == BackUpRefs(block, tls[t], buf[u], n)
  IN  /\ u # NoBuf /\ n <= stream.avail
      /\ a.unsafe => UnsafeBackUp
      /\ SetView(u, a) /\ tls' = [tls EXCEPT ![t] = a.tl]
      /\ stream' = [stream EXCEPT !.cur = a.cur, !.avail = @ - n]
      /\ text' = [text EXCEPT ![u] = SubSeq(@, 1, Len(@) - n)]
      /\ UNCHANGED portal

\* The caller has written its message and will not take bytes of it back.
StreamDone ==
  /\ stream.avail > 0
  /\ stream' = [stream EXCEPT !.avail = 0]
  /\ UNCHANGED <<block, tls, buf, portal, text>>

\* The destructor
StreamClose(t) ==
  LET r == ReleaseBlock(block, tls[t], stream.own, stream.cur)
  IN  /\ stream.buf # NoBuf
      /\ block' = r.bl /\ tls' = [tls EXCEPT ![t] = r.tl]
      /\ stream' = NoStream
      /\ UNCHANGED <<buf, portal, text>>

Next ==
  \/ \E u, w \in Bufs :
       \/ AppendBuf(u, w) \/ AppendMovable(u, w) \/ Assign(u, w) \/ Swap(u, w)
       \/ \E n \in 1..MaxLength : DoCutN(u, w, n)
       \/ \E d \in Delims : CutUntil(u, w, d)
  \/ \E u \in Bufs :
       \/ \E n \in 1..Len(text[u]) : DoPopFront(u, n) \/ DoPopBack(u, n)
       \/ AppendUserData(u)
       \/ \E own \in BOOLEAN : StreamOpen(u, own)
  \/ StreamDone
  \/ \E t \in Threads :
       \/ \E u \in Bufs :
            \/ \E d \in Data : AppendData(t, u, d)
            \/ \E d \in Data \cup {<<>>}, max \in MaxCounts : ReadFrom(t, u, max, d)
            \/ PortalClear(t, u)
       \/ StreamNext(t)
       \/ \E n \in 1..MaxLength : StreamBackUp(t, n)
       \/ StreamClose(t) \/ ThreadExit(t)

Spec == Init /\ [][Next]_vars

--------------------------------------------------------------------------------
(* Properties                                                              *)

\* Blocks, chains, views and the stream have their types; num_blocks and the
\* reference counts stay in their ranges.
TypeOK ==
  /\ block \in [Blocks -> [nshared : Nat, size : 0..Cap, cap : {1, Cap}, data : [0..Cap-1 -> Byte]]]
  /\ \A t \in Threads : tls[t].chain \in Seq(Blocks) /\ tls[t].num \in Nat
  /\ \A u \in Bufs :
       /\ buf[u].nbytes \in 0..MaxLength
       /\ \A i \in DOMAIN buf[u].refs :
            buf[u].refs[i] \in [offset : 0..Cap-1, length : 1..Cap, block : Blocks]
       /\ portal[u] \in Seq(Blocks)
  /\ stream \in [buf : Bufs \cup {NoBuf}, own : BOOLEAN, cur : Blocks \cup {NoBlock},
                 avail : 0..MaxLength]
  /\ \A u \in Bufs : text[u] \in Seq(Byte) /\ Len(text[u]) <= MaxLength

\* Every buffer holds the bytes its operations gave it, whoever else refers to
\* the same blocks and wherever the references were split, merged or moved, and
\* length() counts them in both views.  With UnsafeBackUp it fails: bytes taken back
\* stay where BackUp gives up (iobuf.cc:2002).
Contents ==
  \A u \in Bufs : Bytes(block, buf[u]) = text[u] /\ Length(buf[u]) = Len(text[u])

Occurrences(b, bs) == Cardinality({i \in DOMAIN bs : bs[i] = b})

\* Holders that keep b to write to it, and references to its bytes
Writers(b) ==
  MapThenSumSet(LAMBDA t : Occurrences(b, tls[t].chain), Threads)
  + MapThenSumSet(LAMBDA u : Occurrences(b, portal[u]), Bufs)
  + (IF stream.cur = b THEN 1 ELSE 0)
Refs(b) == MapThenSumSet(LAMBDA u : Occurrences(b, RefBlocks(buf[u])), Bufs)

\* nshared counts the holders of a block exactly, after any sequence of
\* operations of any threads: no block is freed while one refers to it, and none
\* is left over when the last one is gone (Block::dec_ref frees at zero).
RefCounts == \A b \in Blocks : block[b].nshared = Writers(b) + Refs(b)

\* Unless BackUp goes back to a block that others have got hold of (UnsafeBackUp; then
\* it fails: Next, BackUp(1), BackUp(1) links the block into the chain twice,
\* iobuf.cc:2017, although iobuf.h:584 allows the calls), a block
\* is kept for writing in one place only - once in the chain of one
\* thread, in the cache of one portal, or by the stream - and the bytes referred
\* to lie below its size, where no writer writes.  num_blocks is the length of the
\* chain (CHECK_EQ in remove_tls_block_chain), and no portal caches a full block
\* (CHECK in release_tls_block_chain).
OneWriter ==
  /\ \A b \in Blocks : Writers(b) <= 1
  /\ \A u \in Bufs : \A i \in DOMAIN buf[u].refs :
       RefEnd(buf[u].refs[i]) <= block[buf[u].refs[i].block].size
  /\ \A t \in Threads : tls[t].num = Len(tls[t].chain)
  /\ \A u \in Bufs : \A i \in DOMAIN portal[u] : ~Full(block, portal[u][i])

================================================================================
