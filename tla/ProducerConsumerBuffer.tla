----------------------- MODULE ProducerConsumerBuffer -----------------------
(***************************************************************************)
(* basic_producer_consumer_buffer: a memory buffer between one producer and *)
(* one consumer that do not coordinate.  The producer writes, allocates and *)
(* commits blocks, flushes and closes; the consumer reads asynchronously,   *)
(* with several reads outstanding, reads synchronously, peeks, or acquires  *)
(* a block in place and releases it.                                        *)
(*                                                                         *)
(* A step is one section under m_lock.  The n-th character written is the   *)
(* number n, so that loss, duplication and reordering can be seen.          *)
(***************************************************************************)
EXTENDS Integers, Sequences, SequencesExt

CONSTANTS
  Sizes,         \* counts that clients read, write and allocate
  AllocSize,     \* m_alloc_size
  MaxWritten,    \* bound on the characters written
  MaxBlocks,     \* bound on the blocks, empty ones included
  MaxRequests    \* bound on the reads outstanding

ASSUME BufferAssumption ==
  /\ Sizes \subseteq Nat \ {0}
  /\ AllocSize \in Nat
  /\ MaxWritten \in Nat
  /\ MaxBlocks \in Nat
  /\ MaxRequests \in Nat

VARIABLES
  canRead,     \* m_stream_can_read
  canWrite,    \* m_stream_can_write
  buf,         \* m_blocks, m_total, m_total_read, m_total_written, m_synced
  allocBlock,  \* size of m_allocBlock, 0 if there is none
  requests,    \* m_requests
  closing,     \* _close_write has cleared the flag, not yet taken the lock
  held,        \* characters offered by acquire(), -1 outside acquire/release
  answers      \* reads completed by the last step (history)

vars == <<canRead, canWrite, buf, allocBlock, requests, closing, held, answers>>

\* A block: the characters between its read and write heads, and
\* wr_chars_left().
Block == [data : Seq(1..MaxWritten), room : Nat]
Kind == {"getn", "bumpc", "getc", "copy", "nextc"}
Request == [kind : Kind, size : Nat]

\* The types of the variables: the counters of the buffer never go below zero.
TypeOK ==
  /\ canRead \in BOOLEAN
  /\ canWrite \in BOOLEAN
  /\ buf.blocks \in Seq(Block)
  /\ buf.total \in Nat /\ buf.read \in Nat /\ buf.written \in Nat
  /\ buf.synced \in Nat
  /\ allocBlock \in Nat
  /\ requests \in Seq(Request)
  /\ closing \in BOOLEAN
  /\ held \in -1..MaxWritten

Init ==
  /\ canRead = TRUE
  /\ canWrite = TRUE
  /\ buf = [blocks |-> <<>>, total |-> 0, read |-> 0, written |-> 0, synced |-> 0]
  /\ allocBlock = 0
  /\ requests = <<>>
  /\ closing = FALSE
  /\ held = -1
  /\ answers = <<>>

AtMost(n, m) == IF n < m THEN n ELSE m
AtLeast(n, m) == IF n > m THEN n ELSE m

----------------------------------------------------------------------------
(* Reading the blocks *)

\* The characters ahead of the read head of the front block, in order.
Unread(bs) == FlattenSeq([i \in DOMAIN bs |-> bs[i].data])

\* What a read of n characters copies, block by block.
Peek(b, n) == LET u == Unread(b.blocks) IN SubSeq(u, 1, AtMost(n, Len(u)))

\* The first n characters leave their blocks.
Taken(bs, n) ==
  LET before(i) == Len(Unread(SubSeq(bs, 1, i - 1)))
      taken(i) == AtMost(AtLeast(n - before(i), 0), Len(bs[i].data))
  IN [i \in DOMAIN bs |->
        [bs[i] EXCEPT !.data = SubSeq(@, taken(i) + 1, Len(@))]]

\* Empty blocks at the front are let go.
Purged(bs) ==
  LET front == SelectInSeq(bs, LAMBDA x : x.data # <<>>)
  IN IF front = 0 THEN <<>> ELSE SubSeq(bs, front, Len(bs))

\* Mutants of SyncedAfter: the count is subtracted without a floor; it is not
\* subtracted at all.
SyncedAfterUnder(s, n) == s - n
SyncedAfterKept(s, n) == s

\* m_synced: characters flushed that remain to be read.
SyncedAfter(s, n) == IF s > n THEN s - n ELSE 0

\* update_read_head
Advance(b, n) ==
  [b EXCEPT !.blocks = Purged(Taken(b.blocks, n)),
            !.total = @ - n,
            !.read = @ + n,
            !.synced = SyncedAfter(@, n)]

\* can_satisfy
CanSatisfy(b, n) == b.synced > 0 \/ b.total >= n \/ ~canWrite

\* Mutant of Consumes: a peek consumes what it sees.
ConsumesPeek(r) == IF r.kind = "nextc" THEN 1 ELSE r.size

\* How many characters a read takes out of the buffer, at most.
Consumes(r) ==
  CASE r.kind \in {"getn", "bumpc"} -> r.size
    [] r.kind = "nextc"             -> 1
    [] OTHER                        -> 0

\* _request::complete: read or read_byte; nextc advances and then peeks.
Serve(b, r) ==
  LET after == Advance(b, Len(Peek(b, Consumes(r))))
  IN [buf |-> after,
      answer |-> [kind   |-> r.kind,
                  size   |-> r.size,
                  chars  |-> IF r.kind = "nextc" THEN Peek(after, 1)
                                                 ELSE Peek(b, r.size),
                  before |-> b.read,
                  after  |-> after.read,
                  ended  |-> ~canWrite /\ b.read = b.written]]

\* One outstanding request: it is served, or it waits, and those behind it too.
FulfillNext(st, r) ==
  IF st.left # <<>> \/ ~CanSatisfy(st.buf, r.size)
    THEN [st EXCEPT !.left = Append(@, r)]
    ELSE LET s == Serve(st.buf, r)
         IN [st EXCEPT !.buf = s.buf, !.answers = Append(@, s.answer)]

\* fulfill_outstanding: requests are served in order until one has to wait.
Fulfill(b, rs) ==
  LET after[n \in 0..Len(rs)] ==
        IF n = 0 THEN [buf |-> b, left |-> <<>>, answers |-> <<>>]
                 ELSE FulfillNext(after[n - 1], rs[n])
  IN after[Len(rs)]

\* The buffer becomes b and the requests it can satisfy are fulfilled.
FulfillOutstanding(b) ==
  LET st == Fulfill(b, requests)
  IN buf' = st.buf /\ requests' = st.left /\ answers' = st.answers

----------------------------------------------------------------------------
(* The producer *)

\* The next n characters to be written.
NextChars(n) == [i \in 1..n |-> buf.written + i]

\* update_write_head
Written(bs, n) ==
  [buf EXCEPT !.blocks = bs, !.total = @ + n, !.written = @ + n]

\* Characters go to the last block, or to a new one if they do not fit in it.
Store(bs, n) ==
  LET fits == bs # <<>> /\ Last(bs).room >= n
      all == IF fits THEN bs
             ELSE Append(bs, [data |-> <<>>, room |-> AtLeast(AllocSize, n)])
  IN [all EXCEPT ![Len(all)] = [data |-> @.data \o NextChars(n),
                                room |-> @.room - n]]

\* putc and putn.  Nothing is stored when nobody is going to read.
Write(n) ==
  /\ canWrite
  /\ buf.written + n <= MaxWritten
  /\ UNCHANGED <<canRead, canWrite, allocBlock, closing, held>>
  /\ IF canRead
       THEN FulfillOutstanding(Written(Store(buf.blocks, n), n))
       ELSE answers' = <<>> /\ UNCHANGED <<buf, requests>>

Alloc(n) ==
  /\ canWrite /\ allocBlock = 0
  /\ allocBlock' = n
  /\ answers' = <<>>
  /\ UNCHANGED <<canRead, canWrite, buf, requests, closing, held>>

\* Mutant of Commit: readers are not told.
CommitSilent(n) ==
  /\ allocBlock # 0 /\ n <= allocBlock
  /\ buf.written + n <= MaxWritten /\ Len(buf.blocks) < MaxBlocks
  /\ allocBlock' = 0
  /\ buf' = Written(Append(buf.blocks, [data |-> NextChars(n),
                                        room |-> allocBlock - n]), n)
  /\ answers' = <<>>
  /\ UNCHANGED <<canRead, canWrite, closing, held, requests>>

\* commit, of any part of the block, or of none when a read into it failed.
Commit(n) ==
  /\ allocBlock # 0 /\ n <= allocBlock
  /\ buf.written + n <= MaxWritten /\ Len(buf.blocks) < MaxBlocks
  /\ allocBlock' = 0
  /\ UNCHANGED <<canRead, canWrite, closing, held>>
  /\ FulfillOutstanding(
       Written(Append(buf.blocks, [data |-> NextChars(n),
                                   room |-> allocBlock - n]), n))

\* sync: what is there is for the readers, however much they asked for.
Sync ==
  /\ canWrite
  /\ UNCHANGED <<canRead, canWrite, allocBlock, closing, held>>
  /\ FulfillOutstanding([buf EXCEPT !.synced = buf.total])

\* _close_write clears the flag without the lock ...  (The producer does not
\* close between alloc and commit.)
CloseWrite ==
  /\ canWrite /\ allocBlock = 0
  /\ canWrite' = FALSE
  /\ closing' = TRUE
  /\ answers' = <<>>
  /\ UNCHANGED <<canRead, buf, allocBlock, requests, held>>

\* ... and fulfills the outstanding requests with it.
CloseFulfill ==
  /\ closing
  /\ closing' = FALSE
  /\ UNCHANGED <<canRead, canWrite, allocBlock, held>>
  /\ FulfillOutstanding(buf)

----------------------------------------------------------------------------
(* The consumer *)

\* getn, bumpc, getc, nextc: enqueue_request.
Read(r) ==
  /\ canRead /\ held = -1
  /\ UNCHANGED <<canRead, canWrite, allocBlock, closing, held>>
  /\ IF CanSatisfy(buf, r.size)
       THEN LET s == Serve(buf, r)
            IN buf' = s.buf /\ answers' = <<s.answer>> /\ UNCHANGED requests
       ELSE /\ Len(requests) < MaxRequests
            /\ requests' = Append(requests, r)
            /\ answers' = <<>> /\ UNCHANGED buf

\* sgetn, sbumpc, sgetc, scopy: the answer now, or "an asynchronous read is required".
ReadNow(r) ==
  /\ canRead /\ held = -1
  /\ UNCHANGED <<canRead, canWrite, allocBlock, requests, closing, held>>
  /\ CanSatisfy(buf, r.size)
  /\ LET s == Serve(buf, r) IN buf' = s.buf /\ answers' = <<s.answer>>

\* acquire.  (The consumer does not mix it with reads.)
Acquire ==
  /\ canRead /\ held = -1 /\ requests = <<>>
  /\ buf.blocks # <<>>
  /\ held' = Len(Head(buf.blocks).data)
  /\ answers' = <<>>
  /\ UNCHANGED <<canRead, canWrite, buf, allocBlock, requests, closing>>

\* Mutant of Release: the totals are not brought up to date.
ReleaseSilent(n) ==
  /\ 0 <= n /\ n <= held
  /\ held' = -1
  /\ buf' = [buf EXCEPT !.blocks = Purged(Taken(buf.blocks, n))]
  /\ answers' = <<>>
  /\ UNCHANGED <<canRead, canWrite, allocBlock, requests, closing>>

\* release of the first n characters of the block acquired.
Release(n) ==
  /\ 0 <= n /\ n <= held
  /\ held' = -1
  /\ buf' = Advance(buf, n)
  /\ answers' = <<>>
  /\ UNCHANGED <<canRead, canWrite, allocBlock, requests, closing>>

CloseRead ==
  /\ canRead /\ held = -1
  /\ canRead' = FALSE
  /\ answers' = <<>>
  /\ UNCHANGED <<canWrite, buf, allocBlock, requests, closing, held>>

----------------------------------------------------------------------------

Producer ==
  \/ \E n \in Sizes : Write(n) \/ Alloc(n)
  \/ \E n \in Sizes \cup {0} : Commit(n)
  \/ Sync \/ CloseWrite \/ CloseFulfill

Consumer ==
  \/ \E n \in Sizes : Read([kind |-> "getn", size |-> n])
  \/ \E k \in {"bumpc", "getc", "nextc"} : Read([kind |-> k, size |-> 1])
  \/ \E k \in {"bumpc", "getc"} : ReadNow([kind |-> k, size |-> 1])
  \/ \E n \in Sizes, k \in {"getn", "copy"} : ReadNow([kind |-> k, size |-> n])
  \/ Acquire \/ CloseRead
  \/ \E n \in 0..MaxWritten : Release(n)

Next == Producer \/ Consumer

Spec == Init /\ [][Next]_vars

----------------------------------------------------------------------------
(* Properties *)

\* The blocks hold exactly the characters written and not yet read, in the
\* order in which they were written, and the counters agree with them: m_total
\* is what in_avail() and can_satisfy() go by.
Contents ==
  /\ Unread(buf.blocks) = [i \in 1..buf.total |-> buf.read + i]
  /\ buf.written = buf.read + buf.total
  /\ buf.synced <= buf.total

\* Every read returns consecutive characters starting at the read head, and
\* consumes what it returns; a peek consumes nothing, nextc one character.
AnswersInOrder ==
  \A i \in DOMAIN answers : LET a == answers[i] IN
    /\ \A j \in DOMAIN a.chars :
         a.chars[j] = a.before + j + (IF a.kind = "nextc" THEN 1 ELSE 0)
    /\ Len(a.chars) <= a.size
    /\ CASE a.kind \in {"getn", "bumpc"} -> a.after = a.before + Len(a.chars)
         [] a.kind = "nextc"             -> a.after <= a.before + 1
         [] OTHER                        -> a.after = a.before

\* A read returns no characters only at the end of the stream: closed for
\* writing, and everything written has been read ("0 if the end of the stream
\* is reached").  nextc is excepted: it waits for one character and needs two.
NoFalseEof ==
  \A i \in DOMAIN answers :
    answers[i].chars = <<>> => answers[i].ended \/ answers[i].kind = "nextc"

\* No reader waits for what is there: unless a close is about to fulfill it,
\* the first outstanding request cannot be satisfied.
NoReaderStuck ==
  requests # <<>> /\ ~closing =>
    /\ canWrite
    /\ buf.synced = 0
    /\ buf.total < Head(requests).size

=============================================================================
