----------------------------- MODULE FileReader -----------------------------
(***************************************************************************)
(* A file stream buffer that only reads (basic_file_buffer of filestream.h  *)
(* opened with std::ios_base::in alone, over fileio_posix.cpp): the         *)
(* read-ahead buffer, the read position, the end-of-file flag, and the      *)
(* reads, seeks and buffer changes a client makes one after the other.      *)
(*                                                                         *)
(* m_readOps runs reads one at a time, and the synchronous reads, seeks and *)
(* the close wait for them, so a read and its completion are one step.      *)
(* size() and set_buffer_size() do not wait: the client is taken to call    *)
(* them between reads.                                                      *)
(* A character is its offset in the file; memory that no file data was read *)
(* into holds Garbage.  Sizes and positions wrap at Word, as size_t does.   *)
(***************************************************************************)
EXTENDS Integers

CONSTANTS
  Page,      \* PageSize: the least size of a buffer
  Sizes,     \* lengths the file may have
  Counts,    \* numbers of characters a client asks for
  MaxPos,    \* bound on the read position
  Word,      \* one more than the largest size_t
  Garbage    \* what memory holds that was never filled

ASSUME ReaderAssumption ==
  /\ Page \in Nat \ {0}
  /\ MaxPos \in Nat
  /\ Word \in Nat
  /\ Sizes \subseteq 0..MaxPos
  /\ Counts \subseteq Nat \ {0}
  /\ \A n \in Counts \cup {1} : MaxPos + n <= Word

VARIABLES
  size,     \* length of the file
  rdpos,    \* m_rdpos
  atend,    \* m_atend
  buf,      \* m_buffer, m_bufsize, m_bufoff and m_buffill
  open,     \* m_stream_can_read
  answer    \* what the last call asked for and got (history)

vars == <<size, rdpos, atend, buf, open, answer>>

\* mem has a slot for each character allocated, and none when it is null.
Null == [i \in {} |-> Garbage]

NoBuffer == [mem |-> Null, size |-> 0, off |-> 0, fill |-> 0]

NoAnswer == [asked |-> 0, from |-> 0, chars |-> <<>>, kind |-> "none"]

\* The types of the variables: the position stays inside its bound, the fill
\* level inside the buffer, and m_bufsize is what is allocated.
TypeOK ==
  /\ size \in Sizes
  /\ rdpos \in 0..MaxPos
  /\ atend \in BOOLEAN
  /\ buf.off \in 0..MaxPos
  /\ buf.size \in Nat
  /\ buf.fill \in 0..buf.size
  /\ buf.mem # Null => DOMAIN buf.mem = 0..(buf.size - 1)
  /\ open \in BOOLEAN
  /\ answer.kind \in {"none", "data", "end", "async"}

Init ==
  /\ size \in Sizes
  /\ rdpos = 0
  /\ atend = FALSE
  /\ buf = NoBuffer
  /\ open = TRUE
  /\ answer = NoAnswer

-----------------------------------------------------------------------------
(* The buffer                                                              *)

Smaller(a, b) == IF a < b THEN a ELSE b
Larger(a, b) == IF a < b THEN b ELSE a

\* Subtraction of two values of size_t.
Minus(a, b) == IF a < b THEN a - b + Word ELSE a - b

\* Mutant of Transferred: a short read is not noticed.
TransferredAll(p, n) == n

\* What pread transfers of n characters at offset p.
Transferred(p, n) == Smaller(n, Larger(size - p, 0))

\* n characters copied from m_buffer for position p.
Copied(b, p, n) ==
  [k \in 1..n |-> LET i == p - b.off + k - 1 IN
                  IF i \in DOMAIN b.mem THEN b.mem[i] ELSE Garbage]

\* _in_avail_unprot
InAvail(b, p) ==
  IF b.mem = Null \/ b.fill = 0 \/ p \notin b.off..(b.off + b.fill)
    THEN 0
    ELSE b.fill - (p - b.off)

\* A new buffer for count characters at p that keeps the next `kept` ones of
\* the old buffer and reads the others from the file.
Loaded(b, p, count, kept) ==
  LET length == Larger(Page, count)
      got == Transferred(p + kept, length - kept)
  IN [mem |-> [i \in 0..(length - 1) |->
                 IF i < kept THEN Copied(b, p, kept)[i + 1]
                 ELSE IF i < kept + got THEN p + i ELSE Garbage],
      size |-> length,
      off |-> p,
      fill |-> got]

\* _fill_buffer_fsb: the buffer it leaves and the result it completes with.
\* What remains in the old buffer is computed in unsigned arithmetic.
Filled(b, p, count) ==
  LET bufpos == Minus(p, b.off)
      bufrem == Minus(b.fill, bufpos)
      Load(kept) == LET new == Loaded(b, p, count, kept) IN
                    [buf |-> new, result |-> new.fill + kept]
  IN IF b.mem = Null THEN Load(0)
     ELSE IF bufrem < count THEN Load(bufrem)
     ELSE [buf |-> b, result |-> count]

\* Mutant of Positioned: only the end of the buffer is looked at.
PositionedBelow(p) == IF p <= buf.off + buf.fill THEN buf ELSE NoBuffer

\* Mutant of Positioned: only the start of the buffer is looked at.
PositionedAbove(p) == IF p >= buf.off THEN buf ELSE NoBuffer

\* _seekrdpos_fsb: the buffer it leaves.
Positioned(p) ==
  IF p \in buf.off..(buf.off + buf.fill) THEN buf ELSE NoBuffer

\* An answer without characters, at the flag or for want of a buffer.
Nothing(p, count, kind) ==
  /\ answer' = [asked |-> count, from |-> p, chars |-> <<>>, kind |-> kind]
  /\ UNCHANGED atend

\* n characters from the buffer b, as the answer to a call for count.
Take(b, p, count, n) ==
  answer' = [asked |-> count, from |-> p, chars |-> Copied(b, p, n),
             kind |-> IF n = 0 THEN "end" ELSE "data"]

\* Mutant of GetnFsb: it copies what was read, without what was kept.
GetnFsbRead(b, p, count, advance) ==
  LET filled == Filled(b, p, count)
      copy == Smaller(filled.buf.fill, count)
  IN /\ buf' = filled.buf
     /\ atend' = (copy < count)
     /\ rdpos' = IF advance THEN p + copy ELSE p
     /\ Take(filled.buf, p, count, copy)

\* _getn_fsb and the completion of its caller, which moves the position past
\* what was copied or leaves it at p.
GetnFsb(b, p, count, advance) ==
  LET filled == Filled(b, p, count)
      copy == Smaller(filled.result, count)
  IN /\ buf' = filled.buf
     /\ atend' = (copy < count)
     /\ rdpos' = IF advance THEN p + copy ELSE p
     /\ Take(filled.buf, p, count, copy)

\* count characters that are all in the buffer b.
FromBuffer(b, p, count, advance) ==
  /\ buf' = b
  /\ rdpos' = IF advance THEN p + count ELSE p
  /\ Take(b, p, count, count)
  /\ UNCHANGED atend

-----------------------------------------------------------------------------
(* The calls                                                               *)

\* A call on an open buffer that may move the position by n.
Call(n) ==
  /\ open
  /\ rdpos + n <= MaxPos
  /\ UNCHANGED <<size, open>>

\* _getcImpl and _bumpc, which do not look at the flag.
GetCharAt(b, p, advance) ==
  IF InAvail(b, p) > 0
    THEN FromBuffer(b, p, 1, advance)
    ELSE GetnFsb(b, p, 1, advance)

GetChar(advance) == Call(1) /\ GetCharAt(buf, rdpos, advance)

\* _nextc: the flag is looked at after the position has moved.
NextChar ==
  LET p == rdpos + 1 IN
  /\ Call(1)
  /\ \/ ~atend /\ GetCharAt(Positioned(p), p, FALSE)
     \/ /\ atend
        /\ rdpos' = p
        /\ buf' = Positioned(p)
        /\ Nothing(p, 1, "end")

\* _ungetc
UngetChar ==
  /\ Call(0)
  /\ rdpos > 0
  /\ GetCharAt(Positioned(rdpos - 1), rdpos - 1, FALSE)

\* _getn
Getn(count) ==
  /\ Call(count)
  /\ \/ atend /\ Nothing(rdpos, count, "end") /\ UNCHANGED <<rdpos, buf>>
     \/ ~atend /\ InAvail(buf, rdpos) >= count /\ FromBuffer(buf, rdpos, count, TRUE)
     \/ ~atend /\ InAvail(buf, rdpos) < count /\ GetnFsb(buf, rdpos, count, TRUE)

\* _sgetn, and _sbumpc for one character: nothing is read from the file.  A
\* read cut short by the end of the buffer sets the flag.
GetnSync(count) ==
  LET copy == Smaller(count, InAvail(buf, rdpos)) IN
  /\ Call(count)
  /\ UNCHANGED buf
  /\ \/ atend /\ Nothing(rdpos, count, "end") /\ UNCHANGED rdpos
     \/ ~atend /\ copy = 0 /\ Nothing(rdpos, count, "async") /\ UNCHANGED rdpos
     \/ /\ ~atend /\ copy > 0
        /\ rdpos' = rdpos + copy
        /\ atend' = (copy < count)
        /\ Take(buf, rdpos, count, copy)

\* _sgetc
GetCharSync ==
  /\ Call(0)
  /\ UNCHANGED <<rdpos, buf>>
  /\ \/ atend /\ Nothing(rdpos, 1, "end")
     \/ ~atend /\ InAvail(buf, rdpos) = 0 /\ Nothing(rdpos, 1, "async")
     \/ ~atend /\ InAvail(buf, rdpos) > 0 /\ FromBuffer(buf, rdpos, 1, FALSE)

\* seekpos, and seekoff from the beginning or the current position.
Seek(p) ==
  /\ Call(0)
  /\ rdpos' = p
  /\ buf' = Positioned(p)
  /\ answer' = NoAnswer
  /\ UNCHANGED atend

\* Mutant of Discard: the fill level stays.
DiscardFilled ==
  buf' = IF buf.mem # Null THEN [NoBuffer EXCEPT !.fill = buf.fill] ELSE buf

\* seekoff from the end (_seekrdtoend_fsb), and size (_get_size), which drops
\* the buffer just as well.
Discard == buf' = IF buf.mem # Null THEN NoBuffer ELSE buf

SeekToEnd ==
  /\ Call(0)
  /\ rdpos' = size
  /\ Discard
  /\ answer' = NoAnswer
  /\ UNCHANGED atend

GetSize ==
  /\ Call(0)
  /\ Discard
  /\ answer' = NoAnswer
  /\ UNCHANGED <<rdpos, atend>>

\* set_buffer_size(0): the buffer goes, its bookkeeping stays.
Unbuffer ==
  /\ Call(0)
  /\ buf' = [NoBuffer EXCEPT !.size = buf.size, !.off = buf.off, !.fill = buf.fill]
  /\ answer' = NoAnswer
  /\ UNCHANGED <<rdpos, atend>>

\* _close_read, and the close that a failed read ends in.
Close ==
  /\ open
  /\ open' = FALSE
  /\ buf' = NoBuffer
  /\ answer' = NoAnswer
  /\ UNCHANGED <<size, rdpos, atend>>

Next ==
  \/ \E advance \in BOOLEAN : GetChar(advance)
  \/ \E count \in Counts : Getn(count) \/ GetnSync(count)
  \/ GetCharSync \/ NextChar \/ UngetChar
  \/ \E p \in 0..MaxPos : Seek(p)
  \/ SeekToEnd \/ GetSize \/ Unbuffer \/ Close

Spec == Init /\ [][Next]_vars

-----------------------------------------------------------------------------
(* Properties                                                              *)

\* The first m_buffill characters of the buffer are the file's, from m_bufoff
\* on, so that in_avail and the reads it lets through can be trusted, however
\* refills, seeks and short reads follow one another (_in_avail_unprot).
BufferHoldsFile ==
  buf.mem # Null =>
    \A i \in 0..(buf.fill - 1) :
      i \in DOMAIN buf.mem /\ buf.mem[i] = buf.off + i /\ buf.off + i < size

\* What the last read answered is what the file holds there.
Faithful(a) == \A k \in DOMAIN a.chars : a.chars[k] = a.from + k - 1

\* The documentation of getn and bumpc (filestream.h 547, 392): characters of
\* the file, and none at its end.
ReadsFile == Faithful(answer)

\* The position has run past the fill level of the buffer.
Past(b, p) == b.mem # Null /\ p > b.off + b.fill

\* A read answers something that is not in the file only from a position past
\* the fill level, where the unsigned arithmetic of _fill_buffer_fsb wraps and
\* finds the buffer full.
WrongOnlyPast == [][~Faithful(answer') => Past(buf, rdpos)]_vars

\* The position gets past the fill level only by a read that refills a buffer
\* with characters left in it; from then on only a seek, an unget, or the loss
\* of the buffer brings it back.
PastOnlyByRefill ==
  [][~Past(buf, rdpos) /\ Past(buf', rdpos') =>
       /\ InAvail(buf, rdpos) > 0
       /\ buf'.off = rdpos
       /\ rdpos' > rdpos]_vars

\* A read reports the end of the file before it only because the flag is set.
FalseEndOnlyByFlag ==
  [][answer'.kind = "end" /\ answer'.from < size => atend]_vars

=============================================================================
