----------------------------- MODULE FileProofs -----------------------------
(***************************************************************************)
(* Proofs about the files of FileStream, first those that are read          *)
(* (FileReader), then those that are written and read back.                 *)
(***************************************************************************)
EXTENDS FileStream, FiniteSetTheorems, SequenceTheorems, TLAPS

----------------------------------------------------------------------------
(***************************************************************************)
(* The reader, for any page size, file and numbers of characters: what      *)
(* in_avail counts is the file's, and a read answers something else only    *)
(* from a position past the fill level of the buffer.                       *)
(***************************************************************************)

(***************************************************************************)
(* A buffer b at position p: what it is known to hold.  Nothing is said of  *)
(* the slots from the fill level on, some of which a refill has put file    *)
(* data into without raising the level.                                     *)
(***************************************************************************)
Good(b, p) ==
  /\ b.size \in Nat /\ b.fill \in 0..b.size /\ b.off \in 0..MaxPos
  /\ b.mem # Null =>
       /\ DOMAIN b.mem = 0..(b.size - 1)
       /\ b.off <= p
       /\ \A i \in 0..(b.fill - 1) : b.mem[i] = b.off + i /\ b.off + i < size

\* The inductive invariant.
ReaderInv ==
  /\ size \in Sizes
  /\ rdpos \in 0..MaxPos
  /\ atend \in BOOLEAN
  /\ Good(buf, rdpos)
  /\ open \in BOOLEAN
  /\ answer.kind \in {"none", "data", "end", "async"}

\* No buffer is a good one.
LEMMA NoBufferGood == \A p \in Nat : Good(NoBuffer, p)
  BY ReaderAssumption DEF Good, NoBuffer

\* What is copied from below the fill level is the file's.
LEMMA CopiedFaithful ==
  ASSUME NEW b, NEW p \in Nat, NEW n \in Nat, Good(b, p), b.mem # Null,
         p + n <= b.off + b.fill
  PROVE  \A k \in 1..n : Copied(b, p, n)[k] = p + k - 1
<1> SUFFICES ASSUME NEW k \in 1..n
             PROVE  Copied(b, p, n)[k] = p + k - 1
  OBVIOUS
<1> DEFINE i == p - b.off + k - 1
<1>a. b.off \in Nat /\ b.fill \in Nat /\ b.size \in Nat
  BY ReaderAssumption DEF Good
<1>b. b.fill <= b.size
  BY DEF Good
<1>c. b.off <= p
  BY DEF Good
<1>1. i \in 0..(b.fill - 1) /\ i \in 0..(b.size - 1)
  BY <1>a, <1>b, <1>c
<1>2. b.mem[i] = b.off + i
  BY <1>1 DEF Good
<1>3. b.off + i = p + k - 1
  BY <1>a
<1> QED
  BY <1>1, <1>2, <1>3 DEF Copied, Good

\* What a refill for position p that kept some characters leaves: a good buffer,
\* and characters of the file in front, whatever the new level says.
WellLoaded(new, p, kept) ==
  /\ Good(new, p)
  /\ new.off = p
  /\ new.fill \in Nat /\ new.size \in Nat
  /\ DOMAIN new.mem = 0..(new.size - 1)
  /\ new.fill + kept <= new.size
  /\ \A i \in 0..(new.fill + kept - 1) : new.mem[i] = p + i
  /\ new.fill + kept = 0 => p >= size

\* A refill that keeps what is below the fill level loads well.
LEMMA LoadedGood ==
  ASSUME NEW b, NEW p \in 0..MaxPos, NEW count \in Nat, NEW kept \in Nat,
         size \in Nat, Good(b, p), kept < Larger(Page, count),
         \/ kept = 0
         \/ b.mem # Null /\ p + kept = b.off + b.fill
  PROVE  WellLoaded(Loaded(b, p, count, kept), p, kept)
<1> DEFINE length == Larger(Page, count)
           got == Transferred(p + kept, length - kept)
           new == Loaded(b, p, count, kept)
           slot(i) == IF i < kept THEN Copied(b, p, kept)[i + 1]
                      ELSE IF i < kept + got THEN p + i ELSE Garbage
<1>1. length \in Nat /\ length > 0 /\ kept < length
  BY ReaderAssumption DEF Larger
<1>2. /\ got \in Nat /\ got <= length - kept
      /\ got > 0 => p + kept + got <= size
  BY <1>1 DEF Transferred, Smaller, Larger
<1>9. got + kept = 0 => p >= size
  BY <1>1 DEF Transferred, Smaller, Larger
<1>3. /\ new.size = length /\ new.off = p /\ new.fill = got
      /\ new.mem = [i \in 0..(length - 1) |-> slot(i)]
      /\ DOMAIN new.mem = 0..(length - 1)
      /\ \A i \in 0..(length - 1) : new.mem[i] = slot(i)
  BY DEF Loaded
<1> HIDE DEF length, got, new, slot
<1>4. \A i \in 0..(kept - 1) : Copied(b, p, kept)[i + 1] = p + i /\ p + i < size
  <2>1. CASE kept = 0
    BY <2>1
  <2>2. CASE kept # 0
    <3>1. \A k \in 1..kept : Copied(b, p, kept)[k] = p + k - 1
      BY <2>2, CopiedFaithful
    <3> SUFFICES ASSUME NEW i \in 0..(kept - 1)
                 PROVE  Copied(b, p, kept)[i + 1] = p + i /\ p + i < size
      OBVIOUS
    <3>2. i + 1 \in 1..kept
      OBVIOUS
    <3>3. (p - b.off) + i \in 0..(b.fill - 1)
      BY <2>2, SMTT(30) DEF Good
    <3>4. b.off + ((p - b.off) + i) < size
      BY <2>2, <3>3 DEF Good
    <3> QED
      BY <3>1, <3>2, <3>4 DEF Good
  <2> QED
    BY <2>1, <2>2
<1>5. \A i \in 0..(got + kept - 1) : new.mem[i] = p + i /\ p + i < size
  <2> SUFFICES ASSUME NEW i \in 0..(got + kept - 1)
               PROVE  new.mem[i] = p + i /\ p + i < size
    OBVIOUS
  <2>1. i \in 0..(length - 1)
    BY <1>1, <1>2
  <2>2. new.mem[i] = slot(i)
    BY <1>3, <2>1
  <2>3. CASE i < kept
    <3>1. slot(i) = Copied(b, p, kept)[i + 1]
      BY <2>3 DEF slot
    <3> QED
      BY <1>4, <2>2, <2>3, <3>1
  <2>4. CASE ~(i < kept)
    <3>1. got > 0 /\ i < kept + got
      BY <1>2, <2>4
    <3>2. slot(i) = p + i
      BY <2>4, <3>1 DEF slot
    <3>3. p + i < size
      BY <1>2, <3>1
    <3> QED
      BY <2>2, <3>2, <3>3
  <2> QED
    BY <2>3, <2>4
<1>6. \A i \in 0..(got - 1) : new.mem[i] = p + i /\ p + i < size
  BY <1>2, <1>5
<1>7. new.fill \in 0..new.size /\ new.fill + kept <= new.size
  BY <1>1, <1>2, <1>3
<1>8. Good(new, p)
  <2>1. new.size \in Nat /\ new.off \in 0..MaxPos /\ new.off <= p
    BY <1>1, <1>3
  <2>2. DOMAIN new.mem = 0..(new.size - 1)
    BY <1>3
  <2>3. \A i \in 0..(new.fill - 1) : new.mem[i] = new.off + i /\ new.off + i < size
    BY <1>3, <1>6
  <2> QED
    BY <1>7, <2>1, <2>2, <2>3 DEF Good
<1>10. /\ new.off = p /\ new.fill \in Nat /\ new.size \in Nat
       /\ DOMAIN new.mem = 0..(new.size - 1)
  BY <1>1, <1>2, <1>3
<1>11. /\ \A i \in 0..(new.fill + kept - 1) : new.mem[i] = p + i
       /\ new.fill + kept = 0 => p >= size
  BY <1>3, <1>5, <1>9
<1>12. WellLoaded(new, p, kept)
  BY <1>7, <1>8, <1>10, <1>11 DEF WellLoaded
<1> QED
  BY <1>12 DEF new

\* What remains below the fill level, from a position within the buffer, in the
\* unsigned arithmetic of _fill_buffer_fsb; past it, the difference is as large
\* as any request.
LEMMA Remaining ==
  ASSUME NEW b, NEW p \in 0..MaxPos, NEW count \in Counts \cup {1},
         Good(b, p), b.mem # Null
  PROVE  LET rest == Minus(b.fill, Minus(p, b.off)) IN
         /\ rest \in Int
         /\ ~Past(b, p) => rest \in Nat /\ p + rest = b.off + b.fill
         /\ Past(b, p) => rest >= count
<1>1. /\ b.off \in Nat /\ b.fill \in Nat /\ b.off <= p
      /\ count \in Nat /\ Word \in Nat /\ MaxPos + count <= Word
  <2>1. b.off \in Nat /\ b.fill \in Nat /\ b.off <= p
    BY DEF Good
  <2>2. count \in Nat /\ Word \in Nat /\ MaxPos + count <= Word
    BY ReaderAssumption
  <2> QED
    BY <2>1, <2>2
<1>2. Minus(p, b.off) = p - b.off
  BY <1>1 DEF Minus
<1>3. CASE b.fill < p - b.off
  <2>1. Minus(b.fill, p - b.off) = b.fill - (p - b.off) + Word
    BY <1>3 DEF Minus
  <2> DEFINE rest == Minus(b.fill, Minus(p, b.off))
  <2>2. rest = b.fill - (p - b.off) + Word
    BY <1>2, <2>1
  <2> HIDE DEF rest
  <2>3. rest \in Int
    BY <1>1, <2>2
  <2>4. Past(b, p)
    BY <1>1, <1>3 DEF Past
  <2>5. p <= MaxPos /\ p \in Int /\ MaxPos \in Int
    BY ReaderAssumption
  <2>6. rest >= count
    BY <1>1, <2>2, <2>5
  <2> QED
    BY <2>3, <2>4, <2>6 DEF rest
<1>4. CASE ~(b.fill < p - b.off)
  <2>1. Minus(b.fill, p - b.off) = b.fill - (p - b.off)
    BY <1>4 DEF Minus
  <2> QED
    BY <1>1, <1>2, <1>4, <2>1 DEF Past
<1> QED
  BY <1>3, <1>4

\* The step reports the end of the file before it.
EndsEarly == answer'.kind = "end" /\ answer'.from < size

\* A read that refills: whatever comes before it, the buffer stays good, and
\* the answer is the file's unless the position was past the fill level.
LEMMA GetnFsbGood ==
  ASSUME NEW b, NEW p \in 0..MaxPos, NEW count \in Counts \cup {1},
         NEW advance \in BOOLEAN, size \in Nat, Good(b, p),
         advance => p + count <= MaxPos,
         GetnFsb(b, p, count, advance)
  PROVE  /\ rdpos' \in 0..MaxPos
         /\ atend' \in BOOLEAN
         /\ answer'.kind \in {"data", "end"}
         /\ ~EndsEarly
         /\ Good(buf', rdpos')
         /\ ~Past(b, p) => Faithful(answer')
<1> DEFINE rest == Minus(b.fill, Minus(p, b.off))
           kept == IF b.mem = Null THEN 0 ELSE rest
           filled == Filled(b, p, count)
           copy == Smaller(filled.result, count)
<1>1. count \in Nat /\ count > 0
  BY ReaderAssumption
<1>5. /\ b.off \in Nat /\ b.fill \in Nat
      /\ b.mem # Null => /\ rest \in Int
                         /\ ~Past(b, p) => rest \in Nat /\ p + rest = b.off + b.fill
                         /\ Past(b, p) => rest >= count
  <2>1. b.off \in Nat /\ b.fill \in Nat
    BY DEF Good
  <2> QED
    BY <2>1, Remaining
<1>2. /\ buf' = filled.buf
      /\ atend' = (copy < count)
      /\ rdpos' = IF advance THEN p + copy ELSE p
      /\ answer' = [asked |-> count, from |-> p,
                    chars |-> Copied(filled.buf, p, copy),
                    kind |-> IF copy = 0 THEN "end" ELSE "data"]
  BY DEF GetnFsb, Take
<1>3. CASE b.mem # Null /\ ~(rest < count)
  <2>1. filled = [buf |-> b, result |-> count]
    BY <1>3 DEF Filled
  <2>2. copy = count
    BY <1>1, <2>1 DEF Smaller
  <2>3. rdpos' \in 0..MaxPos /\ rdpos' >= p
    BY <1>1, <1>2, <2>2
  <2>4. Good(buf', rdpos')
    BY <1>2, <2>1, <2>3 DEF Good
  <2>5. ASSUME ~Past(b, p) PROVE Faithful(answer')
    <3>1. p + count <= b.off + b.fill
      BY <1>1, <1>3, <1>5, <2>5
    <3>2. \A k \in 1..count : Copied(b, p, count)[k] = p + k - 1
      BY <1>1, <1>3, <3>1, CopiedFaithful
    <3>3. answer'.chars = Copied(b, p, count) /\ answer'.from = p
      BY <1>2, <2>1, <2>2
    <3> QED
      BY <3>2, <3>3 DEF Faithful, Copied
  <2>6. ~EndsEarly
    BY <1>1, <1>2, <2>2 DEF EndsEarly
  <2> QED
    BY <1>2, <2>2, <2>3, <2>4, <2>5, <2>6
<1>4. CASE ~(b.mem # Null /\ ~(rest < count))
  <2> DEFINE new == Loaded(b, p, count, kept)
  <2>1. filled = [buf |-> new, result |-> new.fill + kept]
    BY <1>4 DEF Filled
  <2>2. /\ kept \in Nat /\ kept < count
        /\ kept = 0 \/ (b.mem # Null /\ p + kept = b.off + b.fill)
    <3>1. CASE b.mem = Null
      <4>1. kept = 0
        BY <3>1
      <4>2. \A n : n = 0 => n \in Nat /\ n < count
        BY <1>1
      <4> HIDE DEF kept
      <4>3. kept \in Nat /\ kept < count
        BY <4>1, <4>2
      <4> QED
        BY <4>1, <4>3
    <3>2. CASE b.mem # Null
      <4>1. kept = rest /\ rest < count /\ rest \in Int /\ ~(rest >= count)
        BY <1>1, <1>4, <1>5, <3>2
      <4> QED
        BY <1>5, <3>2, <4>1
    <3> QED
      BY <3>1, <3>2
  <2>3. count <= Larger(Page, count)
    BY <1>1, ReaderAssumption DEF Larger
  <2>4. /\ Good(new, p) /\ new.off = p /\ new.fill \in Nat /\ new.size \in Nat
        /\ DOMAIN new.mem = 0..(new.size - 1)
        /\ new.fill + kept <= new.size
        /\ \A i \in 0..(new.fill + kept - 1) : new.mem[i] = p + i
        /\ new.fill + kept = 0 => p >= size
    <3>1. kept < Larger(Page, count)
      BY <1>1, <2>2, <2>3, ReaderAssumption DEF Larger
    <3> HIDE DEF kept, rest
    <3>2. WellLoaded(new, p, kept)
      BY <1>1, <2>2, <3>1, LoadedGood, SMTT(30)
    <3> HIDE DEF new
    <3> QED
      BY <3>2 DEF WellLoaded
  <2> HIDE DEF new, kept, rest
  <2>5. /\ copy \in Nat /\ copy <= count /\ copy <= new.fill + kept
        /\ copy = 0 => p >= size
    BY <1>1, <2>1, <2>2, <2>4 DEF Smaller
  <2> HIDE DEF filled, copy
  <2>6. rdpos' \in 0..MaxPos /\ rdpos' >= p
    <3>1. CASE advance
      <4>1. rdpos' = p + copy
        BY <1>2, <3>1
      <4>2. p + count <= MaxPos
        BY <3>1
      <4>3. MaxPos \in Nat /\ p \in Nat
        BY ReaderAssumption
      <4>4. p + copy \in 0..MaxPos /\ p + copy >= p
        BY <1>1, <2>5, <4>2, <4>3
      <4> QED
        BY <4>1, <4>4
    <3>2. CASE ~advance
      BY <1>2, <3>2
    <3> QED
      BY <3>1, <3>2
  <2>7. Good(buf', rdpos')
    BY <1>2, <2>1, <2>4, <2>6 DEF Good
  <2>8. Faithful(answer')
    <3>4. answer'.chars = Copied(new, p, copy) /\ answer'.from = p
      BY <1>2, <2>1
    <3>5. DOMAIN Copied(new, p, copy) = 1..copy
      BY DEF Copied
    <3> SUFFICES ASSUME NEW k \in 1..copy
                 PROVE  Copied(new, p, copy)[k] = p + k - 1
      BY <3>4, <3>5 DEF Faithful
    <3>1. k - 1 \in 0..(new.fill + kept - 1) /\ k - 1 \in 0..(new.size - 1)
      BY <2>2, <2>4, <2>5
    <3>2. new.mem[k - 1] = p + (k - 1)
      BY <2>4, <3>1
    <3>3. p - new.off + k - 1 = k - 1
      BY <2>4
    <3> QED
      BY <2>4, <3>1, <3>2, <3>3 DEF Copied
  <2>9. ~EndsEarly
    BY <1>2, <2>5 DEF EndsEarly
  <2> QED
    BY <1>2, <2>6, <2>7, <2>8, <2>9
<1> QED
  BY <1>3, <1>4

\* What in_avail counts is what lies between the position and the fill level.
LEMMA InAvailBelow ==
  ASSUME NEW b, NEW p \in Nat, Good(b, p)
  PROVE  /\ InAvail(b, p) \in Nat
         /\ InAvail(b, p) > 0 => b.mem # Null /\ p + InAvail(b, p) = b.off + b.fill
<1>1. b.off \in Nat /\ b.fill \in Nat
  BY ReaderAssumption DEF Good
<1>2. CASE b.mem = Null \/ b.fill = 0 \/ p \notin b.off..(b.off + b.fill)
  <2>1. InAvail(b, p) = 0
    BY <1>2 DEF InAvail
  <2> QED
    BY <2>1
<1>3. CASE ~(b.mem = Null \/ b.fill = 0 \/ p \notin b.off..(b.off + b.fill))
  <2>1. InAvail(b, p) = b.fill - (p - b.off)
    BY <1>3 DEF InAvail
  <2> HIDE DEF InAvail
  <2> QED
    BY <1>1, <1>3, <2>1
<1> QED
  BY <1>2, <1>3

\* n characters that in_avail counts, as an answer.
LEMMA TakeFaithful ==
  ASSUME NEW b, NEW p \in Nat, NEW count, NEW n \in Nat, Good(b, p), n > 0,
         n <= InAvail(b, p), Take(b, p, count, n)
  PROVE  Faithful(answer') /\ answer'.kind = "data"
<1>1. /\ InAvail(b, p) \in Nat /\ InAvail(b, p) > 0 
      /\ b.mem # Null /\ p + InAvail(b, p) = b.off + b.fill
  BY InAvailBelow
<1>2. p + n <= b.off + b.fill
  BY <1>1 DEF Good
<1>3. \A k \in 1..n : Copied(b, p, n)[k] = p + k - 1
  BY <1>1, <1>2, CopiedFaithful
<1>4. /\ answer'.chars = Copied(b, p, n) /\ answer'.from = p
      /\ answer'.kind = "data"
  BY DEF Take
<1>5. DOMAIN Copied(b, p, n) = 1..n
  BY DEF Copied
<1> QED
  BY <1>3, <1>4, <1>5 DEF Faithful

\* A seek keeps a buffer only for a position inside it.
LEMMA PositionedGood ==
  ASSUME NEW p \in 0..MaxPos, Good(buf, rdpos)
  PROVE  Good(Positioned(p), p) /\ ~Past(Positioned(p), p)
<1>1. p \in Nat
  BY ReaderAssumption
<1>2. CASE p \in buf.off..(buf.off + buf.fill)
  <2>1. Positioned(p) = buf
    BY <1>2 DEF Positioned
  <2>2. Good(buf, p)
    BY <1>2 DEF Good
  <2>3. ~Past(buf, p)
    BY <1>2 DEF Past, Good
  <2> QED
    BY <2>1, <2>2, <2>3
<1>3. CASE p \notin buf.off..(buf.off + buf.fill)
  <2>1. Positioned(p) = NoBuffer
    BY <1>3 DEF Positioned
  <2>2. ~Past(NoBuffer, p)
    BY DEF Past, NoBuffer
  <2> QED
    BY <1>1, <2>1, <2>2, NoBufferGood
<1> QED
  BY <1>2, <1>3

\* count characters that are all in the buffer.
LEMMA FromBufferGood ==
  ASSUME NEW b, NEW p \in 0..MaxPos, NEW count \in Counts \cup {1},
         NEW advance \in BOOLEAN, Good(b, p), advance => p + count <= MaxPos,
         InAvail(b, p) >= count, atend \in BOOLEAN,
         FromBuffer(b, p, count, advance)
  PROVE  /\ rdpos' \in 0..MaxPos
         /\ atend' \in BOOLEAN
         /\ answer'.kind \in {"data", "end"}
         /\ Good(buf', rdpos')
         /\ Faithful(answer') /\ ~EndsEarly
<1>1. count \in Nat /\ count > 0 /\ p \in Nat /\ MaxPos \in Nat
  BY ReaderAssumption
<1>2. /\ buf' = b
      /\ rdpos' = IF advance THEN p + count ELSE p
      /\ Take(b, p, count, count)
      /\ atend' = atend
  BY DEF FromBuffer
<1>3. Faithful(answer') /\ answer'.kind = "data"
  BY <1>1, <1>2, TakeFaithful
<1>4. rdpos' \in 0..MaxPos /\ rdpos' >= p
  <2>1. CASE advance
    <3>1. rdpos' = p + count /\ p + count <= MaxPos
      BY <1>2, <2>1
    <3> QED
      BY <1>1, <3>1
  <2>2. CASE ~advance
    BY <1>1, <1>2, <2>2
  <2> QED
    BY <2>1, <2>2
<1>5. Good(buf', rdpos')
  BY <1>1, <1>2, <1>4 DEF Good
<1> QED
  BY <1>2, <1>3, <1>4, <1>5 DEF EndsEarly

\* One character, from the buffer or by a refill.
LEMMA GetCharAtGood ==
  ASSUME NEW b, NEW p \in 0..MaxPos, NEW advance \in BOOLEAN, size \in Nat,
         Good(b, p), advance => p + 1 <= MaxPos, atend \in BOOLEAN,
         GetCharAt(b, p, advance)
  PROVE  /\ rdpos' \in 0..MaxPos
         /\ atend' \in BOOLEAN
         /\ answer'.kind \in {"data", "end"}
         /\ ~EndsEarly
         /\ Good(buf', rdpos')
         /\ ~Past(b, p) => Faithful(answer')
<1>1. CASE InAvail(b, p) > 0
  <2>1. InAvail(b, p) >= 1
    BY <1>1, InAvailBelow, ReaderAssumption
  <2>2. FromBuffer(b, p, 1, advance)
    BY <1>1 DEF GetCharAt
  <2> QED
    BY <2>1, <2>2, FromBufferGood
<1>2. CASE ~(InAvail(b, p) > 0)
  <2>1. GetnFsb(b, p, 1, advance)
    BY <1>2 DEF GetCharAt
  <2> QED
    BY <2>1, GetnFsbGood
<1> QED
  BY <1>1, <1>2

-----------------------------------------------------------------------------
(* The steps                                                               *)

\* An answer without characters is the file's.
LEMMA NothingFaithful ==
  /\ Faithful(NoAnswer) /\ NoAnswer.kind = "none"
  /\ answer' = NoAnswer => ~EndsEarly
  /\ \A p, count, kind : Nothing(p, count, kind) =>
       Faithful(answer') /\ answer'.kind = kind /\ atend' = atend
<1>1. Faithful(NoAnswer) /\ NoAnswer.kind = "none"
  BY DEF Faithful, NoAnswer
<1>2. ASSUME NEW p, NEW count, NEW kind, Nothing(p, count, kind)
      PROVE  Faithful(answer') /\ answer'.kind = kind /\ atend' = atend
  <2>1. /\ answer' = [asked |-> count, from |-> p, chars |-> <<>>, kind |-> kind]
        /\ atend' = atend
    BY <1>2 DEF Nothing
  <2>2. answer'.chars = <<>> /\ answer'.kind = kind
    BY <2>1
  <2> QED
    BY <2>1, <2>2 DEF Faithful
<1> QED
  BY <1>1, <1>2 DEF EndsEarly

\* What every call preserves: the invariant, that an answer which is not the
\* file's was given at a position past the fill level, and an early end of the
\* file for the flag.
Kept ==
  /\ ReaderInv'
  /\ ~Faithful(answer') => Past(buf, rdpos)
  /\ EndsEarly => atend

\* The form in which the lemmas about reads give it.
LEMMA KeptBy ==
  ASSUME ReaderInv, size' = size, open' \in BOOLEAN,
         rdpos' \in 0..MaxPos, atend' \in BOOLEAN, Good(buf', rdpos'),
         answer'.kind \in {"none", "data", "end", "async"},
         ~Past(buf, rdpos) => Faithful(answer'), EndsEarly => atend
  PROVE  Kept
<1>1. Good(buf, rdpos)'
  BY DEF Good
<1> QED
  BY <1>1 DEF Kept, ReaderInv

LEMMA ReaderCallStep ==
  ASSUME ReaderInv, Next
  PROVE  Kept
<1> USE DEF ReaderInv
<1>1. /\ size \in Nat /\ MaxPos \in Nat /\ rdpos \in Nat
      /\ open \in BOOLEAN /\ atend \in BOOLEAN
      /\ Good(buf, rdpos)
  BY ReaderAssumption
<1>2. \A n : Call(n) => /\ open' \in BOOLEAN /\ size' = size
                        /\ rdpos + n <= MaxPos
  BY <1>1 DEF Call
<1>3. Good(NoBuffer, rdpos)
  BY <1>1, NoBufferGood
<1>4. ASSUME NEW advance \in BOOLEAN, GetChar(advance)
      PROVE  Kept
  <2>1. Call(1) /\ GetCharAt(buf, rdpos, advance)
    BY <1>4 DEF GetChar
  <2>2. /\ rdpos' \in 0..MaxPos /\ atend' \in BOOLEAN
        /\ answer'.kind \in {"data", "end"} /\ ~EndsEarly /\ Good(buf', rdpos')
        /\ ~Past(buf, rdpos) => Faithful(answer')
    BY <1>1, <1>2, <2>1, GetCharAtGood
  <2> QED
    BY <1>2, <2>1, <2>2, KeptBy
<1>5. ASSUME NEW count \in Counts, Getn(count)
      PROVE  Kept
  <2>1. Call(count) /\ count \in Nat /\ rdpos + count <= MaxPos
    BY <1>2, <1>5, ReaderAssumption DEF Getn
  <2>2. CASE atend /\ Nothing(rdpos, count, "end") /\ UNCHANGED <<rdpos, buf>>
    BY <1>1, <1>2, <2>1, <2>2, NothingFaithful, KeptBy
  <2>3. CASE InAvail(buf, rdpos) >= count /\ FromBuffer(buf, rdpos, count, TRUE)
    <3>1. /\ rdpos' \in 0..MaxPos /\ atend' \in BOOLEAN
          /\ answer'.kind \in {"data", "end"} /\ ~EndsEarly /\ Good(buf', rdpos')
          /\ Faithful(answer')
      BY <1>1, <2>1, <2>3, FromBufferGood
    <3> QED
      BY <1>2, <2>1, <3>1, KeptBy
  <2>4. CASE GetnFsb(buf, rdpos, count, TRUE)
    <3>1. /\ rdpos' \in 0..MaxPos /\ atend' \in BOOLEAN
          /\ answer'.kind \in {"data", "end"} /\ ~EndsEarly /\ Good(buf', rdpos')
          /\ ~Past(buf, rdpos) => Faithful(answer')
      BY <1>1, <2>1, <2>4, GetnFsbGood
    <3> QED
      BY <1>2, <2>1, <3>1, KeptBy
  <2> QED
    BY <1>5, <2>2, <2>3, <2>4 DEF Getn
<1>6. ASSUME NEW count \in Counts, GetnSync(count)
      PROVE  Kept
  <2> DEFINE copy == Smaller(count, InAvail(buf, rdpos))
  <2>1. Call(count) /\ count \in Nat /\ rdpos + count <= MaxPos /\ buf' = buf
    BY <1>2, <1>6, ReaderAssumption DEF GetnSync
  <2>2. ASSUME NEW kind \in {"end", "async"},
               Nothing(rdpos, count, kind) /\ UNCHANGED rdpos,
               kind = "end" => atend
        PROVE  Kept
    BY <1>1, <1>2, <2>1, <2>2, NothingFaithful, KeptBy DEF EndsEarly
  <2>3. CASE /\ copy > 0 /\ rdpos' = rdpos + copy /\ atend' = (copy < count)
             /\ Take(buf, rdpos, count, copy)
    <3>1. copy \in Nat /\ copy <= count /\ copy <= InAvail(buf, rdpos)
      BY <1>1, <2>1, InAvailBelow DEF Smaller
    <3>2. Faithful(answer') /\ answer'.kind = "data" /\ ~EndsEarly
      BY <1>1, <2>3, <3>1, TakeFaithful DEF EndsEarly
    <3>3. rdpos' \in 0..MaxPos /\ rdpos' >= rdpos
      <4> HIDE DEF copy
      <4> QED
        BY <1>1, <2>1, <2>3, <3>1
    <3>4. Good(buf', rdpos')
      BY <1>1, <2>1, <3>3 DEF Good
    <3> QED
      BY <1>2, <2>1, <2>3, <3>2, <3>3, <3>4, KeptBy
  <2> QED
    BY <1>6, <2>2, <2>3 DEF GetnSync
<1>7. CASE GetCharSync
  <2>1. Call(0) /\ rdpos' = rdpos /\ buf' = buf
    BY <1>7 DEF GetCharSync
  <2>2. ASSUME NEW kind \in {"end", "async"}, Nothing(rdpos, 1, kind),
               kind = "end" => atend
        PROVE  Kept
    BY <1>1, <1>2, <2>1, <2>2, NothingFaithful, KeptBy DEF EndsEarly
  <2>3. CASE InAvail(buf, rdpos) > 0 /\ FromBuffer(buf, rdpos, 1, FALSE)
    <3>1. InAvail(buf, rdpos) >= 1
      BY <1>1, <2>3, InAvailBelow
    <3>2. /\ Faithful(answer') /\ answer'.kind \in {"data", "end"} /\ ~EndsEarly
          /\ atend' \in BOOLEAN
      BY <1>1, <2>3, <3>1, FromBufferGood
    <3> QED
      BY <1>1, <1>2, <2>1, <3>2, KeptBy
  <2> QED
    BY <1>7, <2>2, <2>3 DEF GetCharSync
<1>8. CASE NextChar
  <2> DEFINE p == rdpos + 1
  <2>1. Call(1) /\ p \in 0..MaxPos /\ p \in Nat
    BY <1>1, <1>2, <1>8 DEF NextChar
  <2>2. Good(Positioned(p), p) /\ ~Past(Positioned(p), p)
    BY <1>1, <2>1, PositionedGood
  <2>3. CASE GetCharAt(Positioned(p), p, FALSE)
    <3>1. /\ rdpos' \in 0..MaxPos /\ atend' \in BOOLEAN
          /\ answer'.kind \in {"data", "end"} /\ ~EndsEarly /\ Good(buf', rdpos')
          /\ Faithful(answer')
      BY <1>1, <2>1, <2>2, <2>3, GetCharAtGood
    <3> QED
      BY <1>2, <2>1, <3>1, KeptBy
  <2>4. CASE atend /\ rdpos' = p /\ buf' = Positioned(p) /\ Nothing(p, 1, "end")
    <3>1. Good(buf', rdpos') /\ rdpos' \in 0..MaxPos
      BY <2>1, <2>2, <2>4
    <3> QED
      BY <1>1, <1>2, <2>1, <2>4, <3>1, NothingFaithful, KeptBy
  <2> QED
    BY <1>8, <2>3, <2>4 DEF NextChar
<1>9. CASE UngetChar
  <2> DEFINE p == rdpos - 1
  <2>1. Call(0) /\ p \in 0..MaxPos
    BY <1>1, <1>2, <1>9 DEF UngetChar
  <2>2. Good(Positioned(p), p) /\ ~Past(Positioned(p), p)
    BY <1>1, <2>1, PositionedGood
  <2>3. GetCharAt(Positioned(p), p, FALSE)
    BY <1>9 DEF UngetChar
  <2>4. /\ rdpos' \in 0..MaxPos /\ atend' \in BOOLEAN
        /\ answer'.kind \in {"data", "end"} /\ ~EndsEarly /\ Good(buf', rdpos')
        /\ Faithful(answer')
    BY <1>1, <2>1, <2>2, <2>3, GetCharAtGood
  <2> QED
    BY <1>2, <2>1, <2>4, KeptBy
<1>10. ASSUME NEW p \in 0..MaxPos, Seek(p)
       PROVE  Kept
  <2>1. /\ Call(0) /\ rdpos' = p /\ buf' = Positioned(p)
        /\ answer' = NoAnswer /\ atend' = atend
    BY <1>10 DEF Seek
  <2>2. Good(buf', rdpos')
    BY <1>1, <2>1, PositionedGood
  <2> QED
    BY <1>1, <1>2, <2>1, <2>2, NothingFaithful, KeptBy
<1>11. ASSUME Discard
       PROVE  \A p \in 0..MaxPos : buf.mem # Null => Good(buf', p)
  BY <1>11, NoBufferGood, ReaderAssumption DEF Discard
<1>12. buf.mem = Null => \A p : Good(buf, p)
  BY <1>1 DEF Good
<1>13. CASE SeekToEnd
  <2>1. /\ Call(0) /\ rdpos' = size /\ Discard
        /\ answer' = NoAnswer /\ atend' = atend
    BY <1>13 DEF SeekToEnd
  <2>2. size \in 0..MaxPos
    BY ReaderAssumption
  <2>3. Good(buf', rdpos')
    BY <1>11, <1>12, <2>1, <2>2 DEF Discard
  <2> QED
    BY <1>1, <1>2, <2>1, <2>2, <2>3, NothingFaithful, KeptBy
<1>14. CASE GetSize
  <2>1. /\ Call(0) /\ rdpos' = rdpos /\ Discard
        /\ answer' = NoAnswer /\ atend' = atend
    BY <1>14 DEF GetSize
  <2>2. Good(buf', rdpos')
    BY <1>1, <1>11, <1>12, <2>1 DEF Discard
  <2> QED
    BY <1>1, <1>2, <2>1, <2>2, NothingFaithful, KeptBy
<1>15. CASE Unbuffer
  <2>1. /\ Call(0) /\ rdpos' = rdpos /\ atend' = atend
        /\ answer' = NoAnswer
        /\ buf' = [NoBuffer EXCEPT !.size = buf.size, !.off = buf.off,
                                   !.fill = buf.fill]
    BY <1>15 DEF Unbuffer
  <2>2. /\ buf'.mem = Null /\ buf'.size = buf.size
        /\ buf'.off = buf.off /\ buf'.fill = buf.fill
    BY <2>1 DEF NoBuffer
  <2>3. Good(buf', rdpos')
    BY <1>1, <2>1, <2>2 DEF Good
  <2> QED
    BY <1>1, <1>2, <2>1, <2>3, NothingFaithful, KeptBy
<1>16. CASE Close
  <2>1. /\ open' \in BOOLEAN /\ size' = size /\ rdpos' = rdpos
        /\ atend' = atend /\ buf' = NoBuffer /\ answer' = NoAnswer
    BY <1>16 DEF Close
  <2> QED
    BY <1>1, <1>3, <2>1, NothingFaithful, KeptBy
<1> QED
  BY <1>4, <1>5, <1>6, <1>7, <1>8, <1>9, <1>10, <1>13, <1>14, <1>15, <1>16 DEF Next

-----------------------------------------------------------------------------
(* The theorems                                                            *)

LEMMA InitReaderInv == Init => ReaderInv
<1> SUFFICES ASSUME Init PROVE ReaderInv
  OBVIOUS
<1>1. /\ size \in Sizes /\ rdpos = 0 /\ atend = FALSE /\ buf = NoBuffer
      /\ open = TRUE /\ answer.kind = "none"
  BY DEF Init, NoAnswer
<1>2. rdpos \in 0..MaxPos /\ rdpos \in Nat
  BY <1>1, ReaderAssumption
<1>3. Good(buf, rdpos)
  BY <1>1, <1>2, NoBufferGood
<1> QED
  BY <1>1, <1>2, <1>3 DEF ReaderInv

\* The inductive invariant holds in every reachable state.
THEOREM ReaderInvariant == Spec => []ReaderInv
<1>1. ReaderInv /\ [Next]_vars => ReaderInv'
  <2> SUFFICES ASSUME ReaderInv, [Next]_vars PROVE ReaderInv'
    OBVIOUS
  <2>1. CASE Next
    BY <2>1, ReaderCallStep DEF Kept
  <2>2. CASE UNCHANGED vars
    BY <2>2 DEF vars, ReaderInv, Good
  <2> QED
    BY <2>1, <2>2
<1> QED
  BY InitReaderInv, <1>1, PTL DEF Spec

\* The state keeps its type: the position inside the bound, the fill level
\* inside the buffer, the buffer allocated at its size.
THEOREM ReaderTypeCorrect == Spec => []TypeOK
<1>1. ReaderInv => TypeOK
  BY DEF ReaderInv, Good, TypeOK
<1> QED
  BY ReaderInvariant, <1>1, PTL

\* For every page size, file and request: what _in_avail_unprot counts is the
\* file's, from m_bufoff on.
THEOREM AvailableIsFile == Spec => []BufferHoldsFile
<1>1. ReaderInv => BufferHoldsFile
  BY DEF ReaderInv, Good, BufferHoldsFile
<1> QED
  BY ReaderInvariant, <1>1, PTL

\* For every page size, file and request: a read answers something that is not
\* in the file only from a position past the fill level.
THEOREM WrongAnswerOnlyPast == Spec => WrongOnlyPast
<1>1. ReaderInv /\ [Next]_vars => [~Faithful(answer') => Past(buf, rdpos)]_vars
  BY ReaderCallStep DEF Kept
<1> QED
  BY ReaderInvariant, <1>1, PTL DEF Spec, WrongOnlyPast

\* For every page size, file and request: a read reports the end of the file
\* before it only because m_atend is set.
THEOREM EarlyEndOnlyByFlag == Spec => FalseEndOnlyByFlag
<1>1. ReaderInv /\ [Next]_vars =>
        [answer'.kind = "end" /\ answer'.from < size => atend]_vars
  BY ReaderCallStep DEF Kept, EndsEarly
<1> QED
  BY ReaderInvariant, <1>1, PTL DEF Spec, FalseEndOnlyByFlag

----------------------------------------------------------------------------
(***************************************************************************)
(* The stream, for any finite set of writes, any flushes and any length of  *)
(* file.  FlushShape says what the count of outstanding writes counts and   *)
(* what a flush knows when it is answered, CloseShape what the close of the *)
(* write head has waited for, PlaceShape where the writes go, and           *)
(* ReaderShape that the positions of the stream that reads are numbers.     *)
(***************************************************************************)

\* The writes that m_outstanding_writes counts.
Pending == {w \in Writes : write[w] \in {"put", "placed", "written"}}

FlushShape ==
  /\ write \in [Writes -> {"none", "put", "placed", "written", "done"}]
  /\ flush \in [W!Waiter -> {"none", "waiting", "answered"}]
  /\ due \in [W!Waiter -> SUBSET Writes]
  /\ outstanding = Cardinality(Pending)
  /\ waiters = {f \in W!Waiter : flush[f] = "waiting"}
  /\ outstanding = 0 => waiters = {}
  /\ \A f \in W!Waiter : \A w \in due[f] :
       write[w] # "none" /\ (flush[f] = "answered" => write[w] = "done")

\* No write is put once the write head is closed, so that those of its flush are
\* the last.
CloseShape ==
  /\ phase \in {"given", "writing", "reading"}
  /\ heads \in [in : BOOLEAN, out : BOOLEAN]
  /\ closing \in [in : {"no", "queued", "done"}, next : BOOLEAN, file : BOOLEAN]
  /\ closing.file => ~heads.out /\ ~heads.in
  /\ ~heads.out /\ flush[W!Closer] = "answered" => Pending = {}
  /\ record # "there" => ~heads.out /\ ~heads.in
  /\ record = "outCloses" => Pending = {}
  /\ phase # "writing" => /\ record = "gone" /\ closing.in = "no"
                          /\ \A w \in Writes : write[w] = "none"

\* Where the writes go.  From the start of the file each has a place of its own,
\* that of its call of putn.
InOrder ==
  /\ wrpos = Len(order)
  /\ \A i \in 1..Len(order) : at[order[i]] = i - 1 /\ write[order[i]] # "none"
  /\ \A w \in Writes : write[w] # "none" => \E i \in 1..Len(order) : order[i] = w
  /\ Len(file) =< Len(order)
  /\ \A w \in Writes : write[w] \in {"written", "done"} =>
       at[w] + 1 \in 1..Len(file) /\ file[at[w] + 1] = w

PlaceShape ==
  /\ mode.place \in {"start", "ate", "app"}
  /\ file \in Seq(Writes \cup {Hole}) /\ order \in Seq(Writes)
  /\ wrpos \in {W!End} \cup Nat
  /\ at \in [Writes -> {W!End} \cup Nat]
  /\ \A w \in Writes : write[w] = "placed" => at[w] # W!End
  /\ phase = "writing" /\ mode.place = "start" /\ ~sought => InOrder
  /\ mode.place = "app" =>
       \A w \in Writes : write[w] \in {"written", "done"} =>
         \E i \in 1..Len(file) : file[i] = w
  /\ phase = "reading" /\ mode.place = "start" /\ ~sought =>
       file = order /\ size = Len(file)

\* The stream that reads is not there while the file is written.
ReaderShape ==
  /\ size \in Int /\ rdpos \in Int /\ buf.off \in Int /\ buf.fill \in Int
  /\ answer.from \in Int /\ DOMAIN answer.chars \subseteq Int
  /\ phase = "writing" => ~open /\ answer = NoAnswer

StreamInv == FlushShape /\ CloseShape /\ PlaceShape /\ ReaderShape

\* The steps of the writes and flushes; every other step leaves them alone.
flushingVars == <<write, outstanding, waiters, flush, due>>

FlushingStep ==
  \/ \E w \in Writes : W!Putn(w) \/ W!Place(w) \/ W!Pwrite(w) \/ W!Finish(w)
  \/ \E f \in Flushes : W!Sync(f)
  \/ W!CloseWrite \/ Reopen

LEMMA FlushingLeft ==
  ASSUME [StreamNext]_streamVars, ~FlushingStep
  PROVE  UNCHANGED flushingVars
<1> USE DEF flushingVars, W!fileVars, W!flushVars
<1>1. CASE UNCHANGED streamVars \/ ReaderStep
  BY <1>1 DEF streamVars, ReaderStep, writerVars
<1>2. CASE W!Next
  <2>1. ASSUME NEW w \in Writes, W!PwriteFails(w) \/ W!WriteOrphaned(w)
        PROVE  UNCHANGED flushingVars
    BY <2>1 DEF W!PwriteFails, W!WriteOrphaned
  <2>2. ASSUME NEW p \in 0..MaxSeek \cup {W!End}, W!SeekWrite(p)
        PROVE  UNCHANGED flushingVars
    BY <2>2 DEF W!SeekWrite
  <2>3. CASE W!BeginRead \/ W!EndRead
    BY <2>3, Zenon DEF W!BeginRead, W!EndRead
  <2>5. CASE W!CloseRead \/ W!CloseStream \/ W!CloseFsb
    BY <2>5, Zenon DEF W!CloseRead, W!CloseStream, W!CloseFsb
  <2>4. ASSUME NEW both \in BOOLEAN, W!CloseIn(both)
        PROVE  UNCHANGED flushingVars
    BY <2>4 DEF W!CloseIn
  <2> QED
    BY <1>2, <2>1, <2>2, <2>3, <2>4, <2>5, Zenon DEF W!Next, FlushingStep
<1> QED
  BY <1>1, <1>2 DEF StreamNext, FlushingStep, WriterStep

\* The count is that of a finite set.
LEMMA PendingFinite ==
  ASSUME FlushShape
  PROVE  /\ IsFiniteSet(Pending) /\ outstanding \in Nat
         /\ outstanding = 0 <=> Pending = {}
<1>1. IsFiniteSet(Pending)
  BY StreamAssumption, FS_Subset DEF Pending
<1> QED
  BY <1>1, FS_CardinalityType, FS_EmptySet DEF FlushShape

\* A flush finds the writes put before it done, or waits.
LEMMA SyncFlushes ==
  ASSUME FlushShape, NEW f \in W!Waiter, W!SyncFsb(f), UNCHANGED <<write, outstanding>>
  PROVE  FlushShape' /\ (flush'[f] = "answered" => Pending' = {})
<1>1. Pending' = Pending
  BY DEF Pending
<1>2. due' = [due EXCEPT ![f] = {w \in Writes : write[w] # "none"}]
  BY DEF W!SyncFsb
<1>3. CASE outstanding > 0
  <2>1. flush' = [flush EXCEPT ![f] = "waiting"] /\ waiters' = waiters \cup {f}
    BY <1>3 DEF W!SyncFsb
  <2> QED
    BY <1>1, <1>2, <1>3, <2>1 DEF FlushShape
<1>4. CASE outstanding = 0
  <2>1. flush' = [flush EXCEPT ![f] = "answered"] /\ waiters' = waiters
    BY <1>4 DEF W!SyncFsb
  <2>2. \A w \in Writes : write[w] \in {"none", "done"}
    BY <1>4, PendingFinite DEF Pending, FlushShape
  <2>3. waiters' = {g \in W!Waiter : flush'[g] = "waiting"}
    BY <1>4, <2>1 DEF FlushShape
  <2>4. \A g \in W!Waiter : \A w \in due'[g] :
          write'[w] # "none" /\ (flush'[g] = "answered" => write'[w] = "done")
    BY <1>2, <2>1, <2>2 DEF FlushShape
  <2>5. flush' \in [W!Waiter -> {"none", "waiting", "answered"}]
        /\ due' \in [W!Waiter -> SUBSET Writes]
    BY <1>2, <2>1 DEF FlushShape
  <2>6. waiters' = {} /\ Pending' = {}
    BY <1>1, <1>4, <2>1, PendingFinite DEF FlushShape
  <2> QED
    BY <1>1, <2>3, <2>4, <2>5, <2>6 DEF FlushShape
<1> QED
  BY <1>3, <1>4, PendingFinite

LEMMA FlushStep ==
  ASSUME FlushShape, [StreamNext]_streamVars
  PROVE  FlushShape'
<1>0. /\ IsFiniteSet(Pending) /\ outstanding \in Nat
      /\ outstanding = 0 <=> Pending = {}
      /\ outstanding = Cardinality(Pending)
  BY PendingFinite DEF FlushShape
<1>1. CASE UNCHANGED flushingVars
  BY <1>1 DEF flushingVars, FlushShape, Pending
<1>2. ASSUME NEW w \in Writes, W!Putn(w)
      PROVE  FlushShape'
  <2>1. /\ write[w] = "none" /\ write' = [write EXCEPT ![w] = "put"]
        /\ outstanding' = outstanding + 1 /\ UNCHANGED <<waiters, flush, due>>
    BY <1>2 DEF W!Putn, W!flushVars
  <2>2. Pending' = Pending \cup {w} /\ w \notin Pending
    BY <2>1 DEF Pending, FlushShape
  <2>3. outstanding' = Cardinality(Pending') /\ outstanding' # 0
    BY <1>0, <2>1, <2>2, FS_AddElement
  <2>4. \A f \in W!Waiter : \A v \in due[f] : v # w /\ v \in Writes
    BY <2>1 DEF FlushShape
  <2> QED
    BY <2>1, <2>3, <2>4 DEF FlushShape
<1>3. ASSUME NEW w \in Writes, W!Place(w) \/ W!Pwrite(w)
      PROVE  FlushShape'
  <2>1. /\ UNCHANGED <<outstanding, waiters, flush, due>>
        /\ write[w] \in {"put", "placed"}
        /\ \/ write' = [write EXCEPT ![w] = "placed"]
           \/ write' = [write EXCEPT ![w] = "written"]
    BY <1>3 DEF W!Place, W!Pwrite, W!Positioned, W!flushVars
  <2>2. Pending' = Pending
    BY <2>1 DEF Pending, FlushShape
  <2>3. \A v \in Writes : v # w => write'[v] = write[v]
    BY <2>1 DEF FlushShape
  <2>4. write'[w] \in {"placed", "written"}
    BY <2>1 DEF FlushShape
  <2>5. write' \in [Writes -> {"none", "put", "placed", "written", "done"}]
    BY <2>1 DEF FlushShape
  <2>6. \A f \in W!Waiter : \A v \in due[f] : v \in Writes /\
          (flush[f] = "answered" => v # w)
    BY <2>1 DEF FlushShape
  <2> QED
    BY <2>1, <2>2, <2>3, <2>4, <2>5, <2>6 DEF FlushShape
<1>4. ASSUME NEW w \in Writes, W!Finish(w)
      PROVE  FlushShape'
  <2>1. /\ write[w] = "written" /\ write' = [write EXCEPT ![w] = "done"]
        /\ outstanding' = outstanding - 1 /\ W!Signal(outstanding - 1) /\ due' = due
    BY <1>4 DEF W!Finish
  <2>2. Pending' = Pending \ {w} /\ w \in Pending
    BY <2>1 DEF Pending, FlushShape
  <2>3. outstanding' = Cardinality(Pending') /\ outstanding' \in Nat
    <3>1. IsFiniteSet(Pending') /\ Cardinality(Pending') = Cardinality(Pending) - 1
      BY <1>0, <2>2, FS_RemoveElement
    <3> QED
      BY <1>0, <2>1, <3>1, FS_CardinalityType
  <2>4. write' \in [Writes -> {"none", "put", "placed", "written", "done"}]
    BY <2>1 DEF FlushShape
  <2>5. CASE outstanding' = 0
    <3>1. /\ waiters' = {}
          /\ flush' = [f \in W!Waiter |-> IF f \in waiters THEN "answered" ELSE flush[f]]
      BY <2>1, <2>5 DEF W!Signal
    <3>2. Pending' = {}
      BY <1>0, <2>2, <2>3, <2>5, FS_RemoveElement, FS_EmptySet
    <3>3. \A v \in Writes : write[v] # "none" => write'[v] = "done"
      BY <2>1, <2>4, <3>2 DEF Pending, FlushShape
    <3>4. \A f \in W!Waiter : flush'[f] \in {"none", "answered"}
      BY <3>1 DEF FlushShape
    <3>5. flush' \in [W!Waiter -> {"none", "waiting", "answered"}]
      BY <3>1, <3>4
    <3>6. \A f \in W!Waiter : \A v \in due[f] : v \in Writes /\ write[v] # "none"
      BY DEF FlushShape
    <3> QED
      BY <2>1, <2>3, <2>4, <3>1, <3>3, <3>4, <3>5, <3>6 DEF FlushShape
  <2>6. CASE outstanding' # 0
    <3>1. UNCHANGED <<waiters, flush>>
      BY <2>1, <2>6 DEF W!Signal
    <3>2. \A v \in Writes : write'[v] = write[v] \/ write'[v] = "done"
      BY <2>1 DEF FlushShape
    <3>3. \A f \in W!Waiter : \A v \in due[f] : v \in Writes
      BY DEF FlushShape
    <3> QED
      BY <2>1, <2>3, <2>4, <2>6, <3>1, <3>2, <3>3 DEF FlushShape
  <2> QED
    BY <2>5, <2>6
<1>5. ASSUME NEW f \in Flushes, W!Sync(f)
      PROVE  FlushShape'
  BY <1>5, SyncFlushes DEF W!Sync, W!Waiter, W!fileVars
<1>6. CASE W!CloseWrite
  BY <1>6, SyncFlushes DEF W!CloseWrite, W!Waiter, W!fileVars
<1>7. CASE Reopen
  <2>1. /\ \A w \in Writes : write[w] \in {"none", "done"}
        /\ write' = [w \in Writes |-> "none"] /\ UNCHANGED <<outstanding, waiters>>
        /\ flush' = [f \in W!Waiter |-> "none"] /\ due' = [f \in W!Waiter |-> {}]
    BY <1>7 DEF Reopen
  <2>2. Pending = {} /\ Pending' = {}
    BY <2>1 DEF Pending
  <2>3. waiters = {}
    BY <1>0, <2>2 DEF FlushShape
  <2> QED
    BY <2>1, <2>2, <2>3 DEF FlushShape
<1> QED
  BY <1>1, <1>2, <1>3, <1>4, <1>5, <1>6, <1>7, FlushingLeft DEF FlushingStep

\* What the close has waited for.
LEMMA CloseStep ==
  ASSUME FlushShape, CloseShape, [StreamNext]_streamVars
  PROVE  CloseShape'
<1> DEFINE Rest == <<phase, heads, closing, record>>
<1>0. /\ heads \in [in : BOOLEAN, out : BOOLEAN]
      /\ closing \in [in : {"no", "queued", "done"}, next : BOOLEAN, file : BOOLEAN]
      /\ W!Closer \in W!Waiter
  BY DEF CloseShape, W!Waiter
<1>1. CASE UNCHANGED <<Rest, write, flush>>
  BY <1>1 DEF CloseShape, Pending
<1>2. CASE ReaderStep \/ UNCHANGED streamVars
  BY <1>1, <1>2 DEF ReaderStep, streamVars, writerVars
<1>3. ASSUME NEW w \in Writes, WriterStep, W!Putn(w)
      PROVE  CloseShape'
  <2>1. heads.out /\ UNCHANGED <<Rest, flush>>
    BY <1>3 DEF WriterStep, W!Putn, W!flushVars, W!headVars
  <2> QED
    BY <2>1 DEF CloseShape
<1>4. ASSUME NEW w \in Writes, WriterStep, W!Place(w) \/ W!Pwrite(w)
      PROVE  CloseShape'
  <2>1. /\ UNCHANGED <<Rest, flush>> /\ w \in Pending
    BY <1>4 DEF WriterStep, W!Place, W!Pwrite, W!Positioned, W!flushVars, W!headVars, Pending
  <2>2. write[w] # "none"
    BY <2>1 DEF Pending
  <2> QED
    BY <2>1, <2>2 DEF CloseShape
<1>5. ASSUME NEW w \in Writes, WriterStep, W!Finish(w)
      PROVE  CloseShape'
  <2>1. /\ UNCHANGED Rest /\ w \in Pending /\ write' = [write EXCEPT ![w] = "done"]
        /\ outstanding' = outstanding - 1 /\ W!Signal(outstanding - 1)
    BY <1>5 DEF WriterStep, W!Finish, W!headVars, Pending
  <2>2. write[w] # "none" /\ Pending # {} /\ record # "outCloses"
    BY <2>1 DEF Pending, CloseShape
  <2>3. CASE outstanding' = 0
    <3>1. Pending' = {}
      <4>1. outstanding' = Cardinality(Pending') /\ Pending' \in SUBSET Writes
        BY FlushStep DEF FlushShape, Pending
      <4> QED
        BY <2>3, <4>1, StreamAssumption, FS_Subset, FS_EmptySet
    <3> QED
      BY <2>1, <2>2, <3>1 DEF CloseShape
  <2>4. CASE outstanding' # 0
    <3>1. flush' = flush
      BY <2>1, <2>4 DEF W!Signal
    <3> QED
      BY <2>1, <2>2, <3>1 DEF CloseShape
  <2> QED
    BY <2>3, <2>4
<1>6. ASSUME NEW f \in Flushes, WriterStep, W!Sync(f)
      PROVE  CloseShape'
  <2>1. heads.out /\ UNCHANGED <<Rest, write>>
    BY <1>6 DEF WriterStep, W!Sync, W!fileVars, W!headVars
  <2> QED
    BY <2>1 DEF CloseShape, Pending
<1>7. ASSUME WriterStep, W!CloseWrite
      PROVE  CloseShape'
  <2>1. /\ heads.out /\ UNCHANGED <<phase, record, write, outstanding>>
        /\ heads' = [heads EXCEPT !.out = FALSE] /\ W!SyncFsb(W!Closer)
        /\ closing' = [closing EXCEPT !.file = ~heads.in]
    BY <1>7 DEF WriterStep, W!CloseWrite, W!fileVars
  <2>2. flush'[W!Closer] = "answered" => Pending' = {}
    BY <1>0, <2>1, SyncFlushes
  <2>3. /\ heads' \in [in : BOOLEAN, out : BOOLEAN] /\ ~heads'.out /\ heads'.in = heads.in
        /\ closing'.file = ~heads.in
        /\ closing' \in [in : {"no", "queued", "done"}, next : BOOLEAN, file : BOOLEAN]
    BY <1>0, <2>1
  <2>4. record = "there" /\ phase = "writing"
    BY <2>1 DEF CloseShape
  <2> QED
    BY <2>1, <2>2, <2>3, <2>4 DEF CloseShape
<1>8. ASSUME NEW both \in BOOLEAN, WriterStep, W!CloseIn(both)
      PROVE  CloseShape'
  <2>1. /\ closing' = [closing EXCEPT !.in = "queued", !.next = both]
        /\ UNCHANGED <<phase, heads, record, write, flush>> /\ heads.in
    BY <1>8 DEF WriterStep, W!CloseIn, W!fileVars, W!flushVars
  <2>2. /\ closing' \in [in : {"no", "queued", "done"}, next : BOOLEAN, file : BOOLEAN]
        /\ closing'.file = closing.file
    BY <1>0, <2>1
  <2> QED
    BY <2>1, <2>2 DEF CloseShape, Pending
<1>9. ASSUME WriterStep, W!CloseRead
      PROVE  CloseShape'
  <2>1. /\ closing' = [closing EXCEPT !.in = "done"] /\ heads' = [heads EXCEPT !.in = FALSE]
        /\ record' = IF heads.out THEN record ELSE "inCloses"
        /\ UNCHANGED <<phase, write, flush>> /\ closing.in = "queued"
    BY <1>9 DEF WriterStep, W!CloseRead, W!fileVars, W!flushVars
  <2>2. /\ closing' \in [in : {"no", "queued", "done"}, next : BOOLEAN, file : BOOLEAN]
        /\ closing'.file = closing.file
        /\ heads' \in [in : BOOLEAN, out : BOOLEAN] /\ heads'.out = heads.out
        /\ ~heads'.in
    BY <1>0, <2>1
  <2>3. record' \in {record, "inCloses"} /\ (record' # record => ~heads.out)
    BY <2>1
  <2>4. phase = "writing"
    BY <2>1 DEF CloseShape
  <2> QED
    BY <2>1, <2>2, <2>3, <2>4 DEF CloseShape, Pending
<1>10. ASSUME WriterStep, W!BeginRead \/ W!EndRead \/ W!CloseStream \/ W!CloseFsb
       PROVE  CloseShape'
  <2>1. /\ UNCHANGED <<phase, heads, closing, write, flush>>
        /\ \/ record' = record
           \/ /\ closing.file /\ flush[W!Closer] = "answered" /\ record = "there"
              /\ record' = "outCloses"
           \/ record \in {"inCloses", "outCloses"} /\ record' = "gone"
    BY <1>10, Zenon DEF WriterStep, W!BeginRead, W!EndRead, W!CloseStream, W!CloseFsb,
                        W!fileVars, W!flushVars
  <2> QED
    BY <2>1 DEF CloseShape, Pending
<1>11. ASSUME WriterStep, \/ \E w \in Writes : W!PwriteFails(w) \/ W!WriteOrphaned(w)
                          \/ \E p \in 0..MaxSeek \cup {W!End} : W!SeekWrite(p)
       PROVE  CloseShape'
  <2>1. UNCHANGED <<Rest, write, flush>>
    BY <1>11, Zenon DEF WriterStep, W!PwriteFails, W!WriteOrphaned, W!SeekWrite, W!fileVars,
                        W!flushVars, W!headVars
  <2> QED
    BY <1>1, <2>1
<1>12. CASE Reopen
  <2>1. /\ record = "gone" /\ phase' = "reading" /\ UNCHANGED <<heads, record>>
        /\ write' = [w \in Writes |-> "none"] /\ flush' = [f \in W!Waiter |-> "none"]
        /\ closing' = [in |-> "no", next |-> FALSE, file |-> FALSE]
    BY <1>12 DEF Reopen
  <2>2. closing' \in [in : {"no", "queued", "done"}, next : BOOLEAN, file : BOOLEAN]
    BY <2>1
  <2>3. ~closing'.file /\ closing'.in = "no" /\ \A w \in Writes : write'[w] = "none"
    BY <2>1
  <2>4. flush'[W!Closer] # "answered" /\ Pending' = {}
    BY <1>0, <2>1 DEF Pending
  <2> QED
    BY <2>1, <2>2, <2>3, <2>4 DEF CloseShape
<1> QED
  BY <1>2, <1>3, <1>4, <1>5, <1>6, <1>7, <1>8, <1>9, <1>10, <1>11, <1>12, Zenon
     DEF StreamNext, WriterStep, W!Next

\* What a write does to the file: it keeps its length or is longer, the write is
\* in its place, and nothing else moves.
LEMMA WrittenFile ==
  ASSUME NEW w \in Writes, NEW p \in Nat, file \in Seq(Writes \cup {Hole})
  PROVE  /\ W!Written(w, p) \in Seq(Writes \cup {Hole})
         /\ Len(W!Written(w, p)) = IF p < Len(file) THEN Len(file) ELSE p + 1
         /\ \A i \in 1..Len(W!Written(w, p)) :
              W!Written(w, p)[i] = IF i = p + 1 THEN w
                                   ELSE IF i <= Len(file) THEN file[i] ELSE Hole
<1> DEFINE n == IF p < Len(file) THEN Len(file) ELSE p + 1
           e(i) == IF i = p + 1 THEN w ELSE IF i <= Len(file) THEN file[i] ELSE Hole
           new == [i \in 1..n |-> e(i)]
<1>1. W!Written(w, p) = new
  BY DEF W!Written
<1>2. Len(file) \in Nat /\ n \in Nat
  BY LenProperties
<1>3. \A i \in 1..n : e(i) \in Writes \cup {Hole}
  BY <1>2, ElementOfSeq
<1> HIDE DEF n, e
<1>4. new \in Seq(Writes \cup {Hole}) /\ DOMAIN new = 1..n
  BY <1>2, <1>3, IsASeq
<1>5. Len(new) = n
  BY <1>2, <1>4, LenProperties
<1> HIDE DEF new
<1>6. \A i \in 1..n : new[i] = e(i)
  BY DEF new
<1> QED
  BY <1>1, <1>4, <1>5, <1>6 DEF n, e

\* Putn keeps the places in order.
LEMMA PutnInOrder ==
  ASSUME InOrder, NEW w \in Writes, write[w] = "none",
         write \in [Writes -> {"none", "put", "placed", "written", "done"}],
         at \in [Writes -> {W!End} \cup Nat], order \in Seq(Writes),
         write' = [write EXCEPT ![w] = "put"], at' = [at EXCEPT ![w] = wrpos],
         wrpos' = IF wrpos = W!End THEN W!End ELSE wrpos + 1,
         order' = Append(order, w), file' = file, file \in Seq(Writes \cup {Hole})
  PROVE  InOrder'
<1>1. /\ Len(order) \in Nat /\ Len(file) \in Nat /\ wrpos = Len(order) /\ wrpos # W!End
      /\ Len(file) =< Len(order)
  BY LenProperties DEF InOrder, W!End
<1>2. /\ Len(order') = Len(order) + 1 /\ order'[Len(order) + 1] = w
      /\ \A i \in 1..Len(order) : order'[i] = order[i] /\ order[i] \in Writes
  BY <1>1, AppendProperties, ElementOfSeq
<1>3. \A i \in 1..Len(order') : i \in 1..Len(order) \/ i = Len(order) + 1
  BY <1>1, <1>2
<1>4. \A v \in Writes : v # w => write'[v] = write[v] /\ at'[v] = at[v]
  OBVIOUS
<1>5. write'[w] = "put" /\ at'[w] = Len(order)
  BY <1>1
<1>6. \A i \in 1..Len(order) : order[i] # w
  BY DEF InOrder
<1>7. \A i \in 1..Len(order') : at'[order'[i]] = i - 1 /\ write'[order'[i]] # "none"
  <2> SUFFICES ASSUME NEW i \in 1..Len(order')
               PROVE  at'[order'[i]] = i - 1 /\ write'[order'[i]] # "none"
    OBVIOUS
  <2>1. CASE i = Len(order) + 1
    BY <1>1, <1>2, <1>5, <2>1
  <2>2. CASE i \in 1..Len(order)
    BY <1>2, <1>4, <1>6, <2>2 DEF InOrder
  <2> QED
    BY <1>3, <2>1, <2>2
<1>8. \A v \in Writes : write'[v] # "none" => \E i \in 1..Len(order') : order'[i] = v
  <2> SUFFICES ASSUME NEW v \in Writes, write'[v] # "none"
               PROVE  \E i \in 1..Len(order') : order'[i] = v
    OBVIOUS
  <2>1. CASE v = w
    <3>1. Len(order) + 1 \in 1..Len(order')
      BY <1>1, <1>2
    <3> QED
      BY <1>2, <2>1, <3>1
  <2>2. CASE v # w
    <3>1. PICK i \in 1..Len(order) : order[i] = v
      BY <1>4, <2>2 DEF InOrder
    <3>2. i \in 1..Len(order')
      BY <1>1, <1>2
    <3> QED
      BY <1>2, <3>1, <3>2
  <2> QED
    BY <2>1, <2>2
<1>9. \A v \in Writes : write'[v] \in {"written", "done"} =>
        at'[v] + 1 \in 1..Len(file') /\ file'[at'[v] + 1] = v
  <2> SUFFICES ASSUME NEW v \in Writes, write'[v] \in {"written", "done"}
               PROVE  at'[v] + 1 \in 1..Len(file') /\ file'[at'[v] + 1] = v
    OBVIOUS
  <2>1. v # w
    BY <1>5
  <2> QED
    BY <1>4, <2>1 DEF InOrder
<1>10. wrpos' = Len(order') /\ Len(file') =< Len(order')
  BY <1>1, <1>2
<1> QED
  BY <1>7, <1>8, <1>9, <1>10 DEF InOrder

\* So does a write that is made, for no other write has its place.
LEMMA PwriteInOrder ==
  ASSUME InOrder, NEW w \in Writes, write[w] # "none", at[w] # W!End,
         write \in [Writes -> {"none", "put", "placed", "written", "done"}],
         at \in [Writes -> {W!End} \cup Nat], order \in Seq(Writes),
         write' = [write EXCEPT ![w] = "written"], UNCHANGED <<at, wrpos, order>>,
         file' = W!Written(w, at[w]), file \in Seq(Writes \cup {Hole})
  PROVE  InOrder'
<1>1. Len(order) \in Nat /\ Len(file) \in Nat /\ Len(file) =< Len(order)
  BY LenProperties DEF InOrder
<1>2. PICK i \in 1..Len(order) : order[i] = w
  BY DEF InOrder
<1>3. at[w] = i - 1 /\ at[w] \in Nat
  BY <1>1, <1>2 DEF InOrder
<1>4. /\ Len(file') = IF at[w] < Len(file) THEN Len(file) ELSE at[w] + 1
      /\ \A j \in 1..Len(file') : file'[j] = IF j = at[w] + 1 THEN w
                                             ELSE IF j <= Len(file) THEN file[j] ELSE Hole
  <2>1. /\ Len(W!Written(w, at[w])) = IF at[w] < Len(file) THEN Len(file) ELSE at[w] + 1
        /\ \A j \in 1..Len(W!Written(w, at[w])) :
             W!Written(w, at[w])[j] = IF j = at[w] + 1 THEN w
                                      ELSE IF j <= Len(file) THEN file[j] ELSE Hole
    BY <1>3, WrittenFile
  <2> HIDE DEF InOrder
  <2> QED
    BY ONLY <2>1, file' = W!Written(w, at[w])
<1>5. /\ at[w] + 1 \in 1..Len(file') /\ Len(file') =< Len(order')
      /\ Len(file) =< Len(file') /\ Len(file') \in Nat
  BY <1>1, <1>3, <1>4
<1>6. \A v \in Writes : v # w => write'[v] = write[v]
  OBVIOUS
<1>7. write'[w] = "written"
  OBVIOUS
<1>8. \A v \in Writes : write'[v] \in {"written", "done"} =>
        at'[v] + 1 \in 1..Len(file') /\ file'[at'[v] + 1] = v
  <2> SUFFICES ASSUME NEW v \in Writes, write'[v] \in {"written", "done"}
               PROVE  at[v] + 1 \in 1..Len(file') /\ file'[at[v] + 1] = v
    OBVIOUS
  <2>1. CASE v = w
    BY <1>4, <1>5, <2>1
  <2>2. CASE v # w
    <3>1. at[v] + 1 \in 1..Len(file) /\ file[at[v] + 1] = v
      BY <1>6, <2>2 DEF InOrder
    <3>2. PICK k \in 1..Len(order) : order[k] = v
      BY <1>6, <2>2 DEF InOrder
    <3>3. at[v] = k - 1 /\ k # i
      BY <1>2, <2>2, <3>2 DEF InOrder
    <3>4. at[v] + 1 # at[w] + 1 /\ at[v] + 1 =< Len(file) /\ at[v] + 1 \in 1..Len(file')
      BY <1>1, <1>3, <1>5, <3>1, <3>3
    <3> QED
      BY <1>4, <3>1, <3>4
  <2> QED
    BY <2>1, <2>2
<1>9. \A j \in 1..Len(order) : order[j] \in Writes /\ write'[order[j]] # "none"
  <2>1. \A j \in 1..Len(order) : order[j] \in Writes /\ write[order[j]] # "none"
    BY ElementOfSeq DEF InOrder
  <2> QED
    BY <1>6, <1>7, <2>1
<1>10. \A v \in Writes : write'[v] # "none" => write[v] # "none"
  BY <1>6
<1> QED
  BY <1>5, <1>8, <1>9, <1>10 DEF InOrder

\* The steps that move what PlaceShape speaks of.
placeVars == <<phase, mode, file, order, wrpos, at, sought, write, size>>

PlacingStep ==
  \/ Reopen
  \/ \E w \in Writes : WriterStep /\ (W!Putn(w) \/ W!Place(w) \/ W!Pwrite(w) \/ W!Finish(w))
  \/ \E p \in 0..MaxSeek \cup {W!End} : WriterStep /\ W!SeekWrite(p)

LEMMA PlaceLeft ==
  ASSUME [StreamNext]_streamVars, ~PlacingStep
  PROVE  UNCHANGED placeVars
<1> USE DEF placeVars, W!fileVars, W!flushVars, vars
<1>1. CASE UNCHANGED streamVars
  BY <1>1 DEF streamVars, writerVars
<1>2. CASE ReaderStep
  <2>1. size' = size
    BY <1>2 DEF ReaderStep, Next, Call, GetChar, Getn, GetnSync, GetCharSync, NextChar,
                UngetChar, Seek, SeekToEnd, GetSize, Unbuffer, Close
  <2> QED
    BY <1>2, <2>1 DEF ReaderStep, writerVars
<1>3. CASE WriterStep
  <2>1. ASSUME NEW w \in Writes, W!PwriteFails(w) \/ W!WriteOrphaned(w)
        PROVE  UNCHANGED placeVars
    BY <1>3, <2>1 DEF WriterStep, W!PwriteFails, W!WriteOrphaned
  <2>2. ASSUME NEW f \in Flushes, W!Sync(f)
        PROVE  UNCHANGED placeVars
    BY <1>3, <2>2 DEF WriterStep, W!Sync
  <2>3. CASE W!BeginRead \/ W!EndRead \/ W!CloseWrite
    BY <1>3, <2>3, Zenon DEF WriterStep, W!BeginRead, W!EndRead, W!CloseWrite
  <2>4. CASE W!CloseRead \/ W!CloseStream \/ W!CloseFsb
    BY <1>3, <2>4, Zenon DEF WriterStep, W!CloseRead, W!CloseStream, W!CloseFsb
  <2>5. ASSUME NEW both \in BOOLEAN, W!CloseIn(both)
        PROVE  UNCHANGED placeVars
    BY <1>3, <2>5 DEF WriterStep, W!CloseIn
  <2> QED
    BY <1>3, <2>1, <2>2, <2>3, <2>4, <2>5, Zenon DEF WriterStep, W!Next, PlacingStep
<1> QED
  BY <1>1, <1>2, <1>3 DEF StreamNext, PlacingStep

\* Where the writes go.
LEMMA PlaceStep ==
  ASSUME FlushShape, CloseShape, PlaceShape, [StreamNext]_streamVars
  PROVE  PlaceShape'
<1>0. /\ file \in Seq(Writes \cup {Hole}) /\ Len(file) \in Nat /\ order \in Seq(Writes)
      /\ at \in [Writes -> {W!End} \cup Nat]
      /\ write \in [Writes -> {"none", "put", "placed", "written", "done"}]
      /\ W!End = -1 /\ wrpos \in {W!End} \cup Nat
  BY LenProperties DEF PlaceShape, FlushShape, W!End
<1>1. CASE UNCHANGED placeVars
  BY <1>1 DEF placeVars, PlaceShape, InOrder
<1>2. CASE Reopen
  <2>1. /\ phase = "writing" /\ phase' = "reading" /\ size' = Len(file) /\ wrpos' = 0
        /\ write' = [w \in Writes |-> "none"] /\ at' = [w \in Writes |-> 0]
        /\ UNCHANGED <<mode, file, order, sought>>
        /\ \A w \in Writes : write[w] \in {"none", "done"}
    BY <1>2 DEF Reopen
  <2>2. \A w \in Writes : write'[w] = "none"
    BY <2>1
  <2>3. at' \in [Writes -> {W!End} \cup Nat]
    BY <2>1
  <2>4. ASSUME mode.place = "start", ~sought
        PROVE  file = order
    <3>1. InOrder
      BY <2>1, <2>4 DEF PlaceShape
    <3>2. Len(order) \in Nat
      BY <1>0, LenProperties
    <3>3. \A i \in 1..Len(order) : i \in 1..Len(file) /\ file[i] = order[i]
      <4> SUFFICES ASSUME NEW i \in 1..Len(order)
                   PROVE  i \in 1..Len(file) /\ file[i] = order[i]
        OBVIOUS
      <4>1. order[i] \in Writes /\ at[order[i]] + 1 = i /\ write[order[i]] # "none"
        BY <1>0, <3>1, <3>2, ElementOfSeq DEF InOrder
      <4>2. write[order[i]] = "done"
        BY <2>1, <4>1
      <4> QED
        BY <3>1, <4>1, <4>2 DEF InOrder
    <3>4. Len(file) = Len(order)
      <4>1. Len(file) =< Len(order)
        BY <3>1 DEF InOrder
      <4>2. CASE Len(order) = 0
        BY <1>0, <4>1, <4>2
      <4>3. CASE Len(order) # 0
        <5>1. Len(order) \in 1..Len(order)
          BY <3>2, <4>3
        <5>2. Len(order) \in 1..Len(file)
          BY <3>3, <5>1
        <5> QED
          BY <1>0, <3>2, <4>1, <5>2
      <4> QED
        BY <4>2, <4>3
    <3>5. order \in Seq(Writes \cup {Hole})
      BY <1>0, SeqMonotonic
    <3> QED
      BY <1>0, <3>3, <3>4, <3>5, SeqEqual
  <2> QED
    BY <1>0, <2>1, <2>2, <2>3, <2>4 DEF PlaceShape
<1>3. ASSUME NEW w \in Writes, WriterStep, W!Putn(w)
      PROVE  PlaceShape'
  <2>1. /\ write[w] = "none" /\ write' = [write EXCEPT ![w] = "put"]
        /\ at' = [at EXCEPT ![w] = wrpos]
        /\ wrpos' = IF wrpos = W!End THEN W!End ELSE wrpos + 1
        /\ order' = Append(order, w) /\ UNCHANGED <<phase, mode, file, sought, size>>
        /\ heads.out
    BY <1>3 DEF WriterStep, W!Putn, vars
  <2>2. phase = "writing"
    BY <2>1 DEF CloseShape
  <2>3. /\ order' \in Seq(Writes) /\ wrpos' \in {W!End} \cup Nat
        /\ at' \in [Writes -> {W!End} \cup Nat]
    BY <1>0, <2>1, AppendProperties
  <2>4. /\ \A v \in Writes : v # w => write'[v] = write[v] /\ at'[v] = at[v]
        /\ write'[w] = "put"
    BY <1>0, <2>1
  <2>5. ASSUME mode.place = "start", ~sought
        PROVE  InOrder'
    BY <1>0, <2>1, <2>2, <2>5, PutnInOrder DEF PlaceShape
  <2> QED
    BY <2>1, <2>2, <2>3, <2>4, <2>5 DEF PlaceShape
<1>4. ASSUME NEW w \in Writes, WriterStep, W!Place(w)
      PROVE  PlaceShape'
  <2>1. /\ write[w] = "put" /\ at[w] = W!End /\ at' = [at EXCEPT ![w] = Len(file)]
        /\ write' = [write EXCEPT ![w] = "placed"]
        /\ UNCHANGED <<phase, mode, wrpos, file, order, sought, size>>
    BY <1>4 DEF WriterStep, W!Place, vars
  <2>2. phase = "writing"
    BY <2>1 DEF CloseShape
  <2>3. ~(mode.place = "start" /\ ~sought)
    <3> SUFFICES ASSUME mode.place = "start", ~sought
                 PROVE  FALSE
      OBVIOUS
    <3>1. InOrder
      BY <2>2 DEF PlaceShape
    <3>2. PICK i \in 1..Len(order) : order[i] = w
      BY <2>1, <3>1 DEF InOrder
    <3>3. at[w] = i - 1
      BY <3>1, <3>2 DEF InOrder
    <3> QED
      BY <1>0, <2>1, <3>3
  <2>4. at' \in [Writes -> {W!End} \cup Nat] /\ at'[w] # W!End
    BY <1>0, <2>1
  <2>5. \A v \in Writes : v # w => write'[v] = write[v] /\ at'[v] = at[v]
    BY <1>0, <2>1
  <2>6. write'[w] = "placed"
    BY <1>0, <2>1
  <2> QED
    BY <2>1, <2>2, <2>3, <2>4, <2>5, <2>6 DEF PlaceShape
<1>5. ASSUME NEW w \in Writes, WriterStep, W!Pwrite(w)
      PROVE  PlaceShape'
  <2> DEFINE p == IF mode.place = "app" THEN Len(file) ELSE at[w]
  <2>1. /\ write[w] \in {"put", "placed"} /\ write' = [write EXCEPT ![w] = "written"]
        /\ UNCHANGED <<phase, mode, wrpos, at, order, sought, size>>
        /\ file' = W!Written(w, p)
        /\ write[w] = "placed" \/ at[w] # W!End
    BY <1>5 DEF WriterStep, W!Pwrite, W!Positioned, vars
  <2>2. phase = "writing"
    BY <2>1 DEF CloseShape
  <2>3. at[w] # W!End /\ p \in Nat
    BY <1>0, <2>1 DEF PlaceShape
  <2>4. W!Written(w, p) \in Seq(Writes \cup {Hole})
    BY <1>0, <2>3, WrittenFile
  <2>5. /\ \A v \in Writes : v # w => write'[v] = write[v]
        /\ write'[w] = "written"
    BY <1>0, <2>1
  <2>6. ASSUME mode.place = "start", ~sought
        PROVE  InOrder'
    <3>1. p = at[w]
      BY <2>6
    <3> QED
      BY <1>0, <2>1, <2>2, <2>3, <2>6, <3>1, PwriteInOrder DEF PlaceShape
  <2>7. ASSUME mode.place = "app", NEW v \in Writes, write'[v] \in {"written", "done"}
        PROVE  \E i \in 1..Len(file') : file'[i] = v
    <3>1. p = Len(file)
      BY <2>7
    <3>2. /\ Len(file') = Len(file) + 1 /\ file'[Len(file) + 1] = w
          /\ \A i \in 1..Len(file) : file'[i] = file[i] /\ i \in 1..Len(file')
      <4> DEFINE new == W!Written(w, p)
      <4>1. /\ Len(new) = IF p < Len(file) THEN Len(file) ELSE p + 1
            /\ \A i \in 1..Len(new) :
                 new[i] = IF i = p + 1 THEN w ELSE IF i <= Len(file) THEN file[i] ELSE Hole
        <5>1. p \in Nat /\ file \in Seq(Writes \cup {Hole})
          BY <1>0, <2>3
        <5> HIDE DEF p
        <5> QED
          BY <5>1, WrittenFile
      <4>2. file' = new
        BY <2>1
      <4> HIDE DEF new, p
      <4> QED
        BY <1>0, <3>1, <4>1, <4>2
    <3>3. CASE v = w
      <4>1. Len(file) + 1 \in 1..Len(file')
        BY <1>0, <3>2
      <4> QED
        BY <3>2, <3>3, <4>1
    <3>4. CASE v # w
      <4>1. PICK i \in 1..Len(file) : file[i] = v
        BY <2>5, <2>7, <3>4 DEF PlaceShape
      <4> QED
        BY <3>2, <4>1
    <3> QED
      BY <3>3, <3>4
  <2>8. \A v \in Writes : write'[v] = "placed" => at'[v] # W!End
    BY <2>1, <2>5 DEF PlaceShape
  <2> HIDE DEF p
  <2> QED
    BY <2>1, <2>2, <2>4, <2>6, <2>7, <2>8 DEF PlaceShape
<1>6. ASSUME NEW w \in Writes, WriterStep, W!Finish(w)
      PROVE  PlaceShape'
  <2>1. /\ write[w] = "written" /\ write' = [write EXCEPT ![w] = "done"]
        /\ UNCHANGED <<phase, mode, wrpos, file, at, order, sought, size>>
    BY <1>6 DEF WriterStep, W!Finish, vars
  <2>2. \A v \in Writes : \/ write'[v] = write[v]
                          \/ write[v] = "written" /\ write'[v] = "done"
    BY <1>0, <2>1
  <2>3. InOrder => InOrder'
    <3>1. \A i \in 1..Len(order) : order[i] \in Writes
      BY <1>0, ElementOfSeq
    <3> QED
      BY <2>1, <2>2, <3>1 DEF InOrder
  <2> QED
    BY <2>1, <2>2, <2>3 DEF PlaceShape
<1>7. ASSUME NEW p \in 0..MaxSeek \cup {W!End}, WriterStep, W!SeekWrite(p)
      PROVE  PlaceShape'
  <2>1. /\ wrpos' = p /\ sought' /\ UNCHANGED <<phase, mode, file, at, order, size, write>>
    BY <1>7 DEF WriterStep, W!SeekWrite, W!fileVars, vars
  <2>2. p \in {W!End} \cup Nat
    OBVIOUS
  <2> QED
    BY <2>1, <2>2 DEF PlaceShape
<1> QED
  BY <1>1, <1>2, <1>3, <1>4, <1>5, <1>6, <1>7, PlaceLeft DEF PlacingStep

\* The positions of an answer are numbers.
Numbered(a) == a.from \in Int /\ DOMAIN a.chars \subseteq Int

LEMMA TakeNumbered ==
  ASSUME NEW b, NEW p \in Int, NEW count, NEW n, Take(b, p, count, n)
  PROVE  Numbered(answer')
BY DEF Take, Copied, Numbered

LEMMA NothingNumbered ==
  ASSUME NEW p \in Int, NEW count, NEW kind, Nothing(p, count, kind)
  PROVE  Numbered(answer')
<1>1. answer'.from = p /\ answer'.chars = <<>>
  BY DEF Nothing
<1>2. DOMAIN <<>> = {}
  OBVIOUS
<1> QED
  BY <1>1, <1>2 DEF Numbered

LEMMA NoAnswerNumbered == Numbered(NoAnswer)
<1>1. NoAnswer.from = 0 /\ NoAnswer.chars = <<>>
  BY DEF NoAnswer
<1>2. DOMAIN <<>> = {}
  OBVIOUS
<1> QED
  BY <1>1, <1>2 DEF Numbered

\* What a read from the file leaves.
LEMMA GetnFsbNumbered ==
  ASSUME NEW b, b.off \in Int, b.fill \in Int, size \in Int, NEW p \in Int,
         NEW count \in Int, NEW advance \in BOOLEAN, GetnFsb(b, p, count, advance)
  PROVE  /\ rdpos' \in Int /\ buf'.off \in Int /\ buf'.fill \in Int /\ Numbered(answer')
<1> DEFINE filled == Filled(b, p, count)
           copy == Smaller(filled.result, count)
<1>1. Page \in Int /\ Word \in Int
  BY ReaderAssumption
<1>2. ASSUME NEW kept \in Int
      PROVE  Loaded(b, p, count, kept).fill \in Int /\ Loaded(b, p, count, kept).off = p
  <2>1. Larger(Page, count) \in Int
    BY <1>1 DEF Larger
  <2>2. Transferred(p + kept, Larger(Page, count) - kept) \in Int
    BY <2>1 DEF Transferred, Smaller, Larger
  <2> QED
    BY <2>2 DEF Loaded
<1>3. Minus(b.fill, Minus(p, b.off)) \in Int /\ 0 \in Int
  BY <1>1 DEF Minus
<1>4. filled.result \in Int /\ filled.buf.off \in Int /\ filled.buf.fill \in Int
  <2> DEFINE kept == Minus(b.fill, Minus(p, b.off))
             L(k) == Loaded(b, p, count, k)
  <2>1. L(0).fill \in Int /\ L(0).off = p /\ L(kept).fill \in Int /\ L(kept).off = p
    BY <1>2, <1>3
  <2>2. \/ filled = [buf |-> L(0), result |-> L(0).fill + 0]
        \/ filled = [buf |-> L(kept), result |-> L(kept).fill + kept]
        \/ filled = [buf |-> b, result |-> count]
    BY DEF Filled
  <2> HIDE DEF L, kept, filled
  <2>3. kept \in Int
    BY <1>3 DEF kept
  <2> QED
    BY <2>1, <2>2, <2>3
<1>5. copy \in Int
  BY <1>4 DEF Smaller
<1>6. /\ buf' = filled.buf /\ rdpos' = IF advance THEN p + copy ELSE p
      /\ Take(filled.buf, p, count, copy)
  BY DEF GetnFsb
<1> HIDE DEF filled, copy
<1> QED
  BY <1>4, <1>5, <1>6, TakeNumbered

LEMMA GetCharAtNumbered ==
  ASSUME NEW b, b.off \in Int, b.fill \in Int, size \in Int, NEW p \in Int,
         NEW advance \in BOOLEAN, GetCharAt(b, p, advance)
  PROVE  /\ rdpos' \in Int /\ buf'.off \in Int /\ buf'.fill \in Int /\ Numbered(answer')
<1>1. CASE InAvail(b, p) > 0
  BY <1>1, TakeNumbered DEF GetCharAt, FromBuffer
<1>2. CASE ~(InAvail(b, p) > 0)
  BY <1>2, GetnFsbNumbered DEF GetCharAt
<1> QED
  BY <1>1, <1>2

\* The stream that reads.
LEMMA ReadStep ==
  ASSUME ReaderShape, PlaceShape, [StreamNext]_streamVars
  PROVE  ReaderShape'
<1> DEFINE Ints == /\ size' \in Int /\ rdpos' \in Int /\ buf'.off \in Int /\ buf'.fill \in Int
                   /\ Numbered(answer')
<1>0. /\ size \in Int /\ rdpos \in Int /\ buf.off \in Int /\ buf.fill \in Int
      /\ Numbered(answer) /\ MaxPos \in Int /\ \A n \in Counts : n \in Int
      /\ NoBuffer.off = 0 /\ NoBuffer.fill = 0
  BY ReaderAssumption DEF ReaderShape, Numbered, NoBuffer
<1>1. CASE UNCHANGED <<vars, phase>>
  BY <1>1 DEF ReaderShape, vars
<1>2. CASE Reopen
  <2>1. Len(file) \in Int
    BY LenProperties DEF PlaceShape
  <2> QED
    BY <1>2, <2>1 DEF Reopen, ReaderShape
<1>3. CASE ReaderStep
  <2>1. \A p \in Int : Positioned(p).off \in Int /\ Positioned(p).fill \in Int
    BY <1>0 DEF Positioned
  <2>2. ASSUME NEW advance \in BOOLEAN, GetChar(advance)
        PROVE  Ints
    BY <1>0, <2>2, GetCharAtNumbered DEF GetChar, Call
  <2>3. ASSUME NEW count \in Counts, Getn(count)
        PROVE  Ints
    <3>1. CASE FromBuffer(buf, rdpos, count, TRUE)
      BY <1>0, <2>3, <3>1, TakeNumbered DEF Getn, Call, FromBuffer
    <3>2. CASE GetnFsb(buf, rdpos, count, TRUE)
      BY <1>0, <2>3, <3>2, GetnFsbNumbered DEF Getn, Call
    <3>3. CASE Nothing(rdpos, count, "end") /\ UNCHANGED <<rdpos, buf>>
      BY <1>0, <2>3, <3>3, NothingNumbered DEF Getn, Call
    <3> QED
      BY <2>3, <3>1, <3>2, <3>3 DEF Getn
  <2>4. ASSUME NEW count \in Counts, GetnSync(count)
        PROVE  Ints
    <3> DEFINE copy == Smaller(count, InAvail(buf, rdpos))
    <3>1. copy \in Int
      BY <1>0 DEF Smaller, InAvail
    <3>2. size' = size /\ buf' = buf
      BY <2>4 DEF GetnSync, Call
    <3>3. CASE UNCHANGED rdpos /\ (Nothing(rdpos, count, "end") \/ Nothing(rdpos, count, "async"))
      BY <1>0, <3>2, <3>3, NothingNumbered
    <3>4. CASE rdpos' = rdpos + copy /\ Take(buf, rdpos, count, copy)
      BY <1>0, <3>1, <3>2, <3>4, TakeNumbered
    <3> QED
      BY <2>4, <3>3, <3>4 DEF GetnSync
  <2>5. ASSUME GetCharSync
        PROVE  Ints
    <3>1. UNCHANGED <<size, rdpos, buf>>
      BY <2>5 DEF GetCharSync, Call
    <3>2. \/ Nothing(rdpos, 1, "end") \/ Nothing(rdpos, 1, "async")
          \/ Take(buf, rdpos, 1, 1)
      BY <2>5 DEF GetCharSync, FromBuffer
    <3> QED
      BY <1>0, <3>1, <3>2, NothingNumbered, TakeNumbered
  <2>6. ASSUME NextChar
        PROVE  Ints
    <3>1. rdpos + 1 \in Int /\ size' = size
      BY <1>0, <2>6 DEF NextChar, Call
    <3>2. CASE GetCharAt(Positioned(rdpos + 1), rdpos + 1, FALSE)
      BY <1>0, <2>1, <3>1, <3>2, GetCharAtNumbered
    <3>3. CASE /\ rdpos' = rdpos + 1 /\ buf' = Positioned(rdpos + 1)
               /\ Nothing(rdpos + 1, 1, "end")
      BY <1>0, <2>1, <3>1, <3>3, NothingNumbered
    <3> QED
      BY <2>6, <3>2, <3>3 DEF NextChar
  <2>7. ASSUME UngetChar
        PROVE  Ints
    <3>1. rdpos - 1 \in Int /\ size' = size
      BY <1>0, <2>7 DEF UngetChar, Call
    <3> QED
      BY <1>0, <2>1, <2>7, <3>1, GetCharAtNumbered DEF UngetChar
  <2>8. ASSUME NEW p \in 0..MaxPos, Seek(p)
        PROVE  Ints
    BY <1>0, <2>1, <2>8, NoAnswerNumbered DEF Seek, Call
  <2>9. ASSUME SeekToEnd \/ GetSize
        PROVE  Ints
    BY <1>0, <2>9, NoAnswerNumbered DEF SeekToEnd, GetSize, Discard, Call
  <2>10. ASSUME Unbuffer
        PROVE  Ints
    <3>1. /\ buf' = [NoBuffer EXCEPT !.size = buf.size, !.off = buf.off, !.fill = buf.fill]
          /\ answer' = NoAnswer /\ UNCHANGED <<size, rdpos>>
      BY <2>10 DEF Unbuffer, Call
    <3>2. buf'.off = buf.off /\ buf'.fill = buf.fill
      BY <3>1 DEF NoBuffer
    <3> QED
      BY <1>0, <3>1, <3>2, NoAnswerNumbered
  <2>11. ASSUME Close
        PROVE  Ints
    BY <1>0, <2>11, NoAnswerNumbered DEF Close
  <2>12. Ints
    BY <1>3, <2>2, <2>3, <2>4, <2>5, <2>6, <2>7, <2>8, <2>9, <2>10, <2>11 DEF ReaderStep, Next
  <2>13. open
    BY <1>3 DEF ReaderStep, Next, GetChar, Getn, GetnSync, GetCharSync, NextChar, UngetChar,
                Seek, SeekToEnd, GetSize, Unbuffer, Close, Call
  <2>14. phase' = phase
    BY <1>3 DEF ReaderStep
  <2> QED
    BY <2>12, <2>13, <2>14 DEF ReaderShape, Numbered
<1> QED
  BY <1>1, <1>2, <1>3 DEF StreamNext, WriterStep, streamVars

\* StreamInv holds initially, of a file that is given and of one that is created.
LEMMA StreamInvInit == StreamInit => StreamInv
<1>1. IsFiniteSet(Writes) /\ Cardinality({}) = 0
  BY StreamAssumption, FS_EmptySet
<1>2. NoAnswer.from = 0 /\ NoAnswer.chars = <<>> /\ NoBuffer.off = 0 /\ NoBuffer.fill = 0
      /\ DOMAIN <<>> = {}
  BY DEF NoAnswer, NoBuffer
<1>3. ASSUME Given
      PROVE  StreamInv
  <2> USE <1>3 DEF Given, NoWriter
  <2>1. Pending = {}
    BY DEF Pending
  <2>2. FlushShape
    BY <1>1, <2>1 DEF FlushShape
  <2>3. CloseShape
    BY <2>1 DEF CloseShape, W!Waiter, W!Closer
  <2>4. ReaderShape
    BY <1>2, ReaderAssumption DEF ReaderShape, Init
  <2>5. file \in Seq(Writes \cup {Hole})
    <3>1. size \in Nat
      BY ReaderAssumption DEF Init
    <3> QED
      BY <3>1
  <2>6. PlaceShape
    BY <2>5 DEF PlaceShape
  <2> QED
    BY <2>2, <2>3, <2>4, <2>6 DEF StreamInv
<1>4. ASSUME Created
      PROVE  StreamInv
  <2> USE <1>4 DEF Created, W!Init
  <2>1. Pending = {}
    BY DEF Pending
  <2>2. FlushShape
    BY <1>1, <2>1 DEF FlushShape
  <2>3. CloseShape
    <3>1. mode.read \in BOOLEAN
      BY DEF W!Modes
    <3> QED
      BY <2>1, <3>1 DEF CloseShape, W!Waiter, W!Closer
  <2>4. ReaderShape
    BY <1>2 DEF ReaderShape
  <2>5. PlaceShape
    <3>1. mode.place \in {"start", "ate", "app"}
      BY DEF W!Modes
    <3>2. file \in Seq(Writes \cup {Hole}) /\ order \in Seq(Writes) /\ Len(file) = 0 /\ Len(order) = 0
      OBVIOUS
    <3>3. mode.place = "start" => InOrder
      BY <3>2 DEF InOrder
    <3> QED
      BY <3>1, <3>2, <3>3 DEF PlaceShape
  <2> QED
    BY <2>2, <2>3, <2>4, <2>5 DEF StreamInv
<1> QED
  BY <1>3, <1>4 DEF StreamInit

\* The inductive invariant.
LEMMA StreamInvariant == StreamSpec => []StreamInv
<1>1. ASSUME StreamInv, [StreamNext]_streamVars
      PROVE  StreamInv'
  BY <1>1, FlushStep, CloseStep, PlaceStep, ReadStep DEF StreamInv
<1> QED
  BY <1>1, StreamInvInit, PTL DEF StreamSpec

\* A flush is answered when every write put before it is in the file: the count
\* comes to zero only when all of them are done, whatever writes joined them.
THEOREM FlushesAreBarriers == StreamSpec => []FlushIsBarrier
<1>1. StreamInv => FlushIsBarrier
  BY DEF StreamInv, FlushShape, FlushIsBarrier, W!FlushIsBarrier
<1> QED
  BY <1>1, StreamInvariant, PTL

\* No flush that waits is out of the list, and none waits when nothing is
\* outstanding.
THEOREM NoFlushIsForgotten == StreamSpec => []NoFlushForgotten
<1>1. StreamInv => NoFlushForgotten
  BY DEF StreamInv, FlushShape, NoFlushForgotten, W!NoFlushForgotten
<1> QED
  BY <1>1, StreamInvariant, PTL

\* When the close of the write head decides to free the file record, no task of a
\* write is left to use it.
THEOREM RecordIsKept == StreamSpec => []RecordOutlivesWrites
<1>1. ASSUME StreamInv
      PROVE  RecordOutlivesWrites
  <2>1. /\ write \in [Writes -> {"none", "put", "placed", "written", "done"}]
        /\ record = "outCloses" => Pending = {}
    BY <1>1 DEF StreamInv, FlushShape, CloseShape
  <2> QED
    BY <2>1 DEF Pending, RecordOutlivesWrites, W!RecordOutlivesWrites
<1> QED
  BY <1>1, StreamInvariant, PTL

\* No write that was made is lost, from the start of the file without a seek and
\* in append mode, in whatever order the tasks make them.
THEOREM NoWriteIsLost == StreamSpec => []WritesKept
<1>1. ASSUME StreamInv
      PROVE  WritesKept
  <2> SUFFICES ASSUME ~sought, mode.place # "ate", NEW w \in Writes,
                      write[w] \in {"written", "done"}
               PROVE  \E i \in DOMAIN file : file[i] = w
    BY DEF WritesKept, W!WritesKept, W!Kept
  <2>1. DOMAIN file = 1..Len(file) /\ mode.place \in {"start", "app"}
    BY <1>1, LenProperties DEF StreamInv, PlaceShape
  <2>2. phase = "writing"
    BY <1>1 DEF StreamInv, CloseShape
  <2>3. CASE mode.place = "start"
    BY <1>1, <2>1, <2>2, <2>3 DEF StreamInv, PlaceShape, InOrder
  <2>4. CASE mode.place = "app"
    BY <1>1, <2>1, <2>4 DEF StreamInv, PlaceShape
  <2> QED
    BY <2>1, <2>3, <2>4
<1> QED
  BY <1>1, StreamInvariant, PTL

\* What was written from the start of a file and closed reads back, through
\* another stream, as it was put: in the order of the calls of putn.
THEOREM WhatIsWrittenReadsBack == StreamSpec => []ReadBack
<1>1. ASSUME StreamInv
      PROVE  ReadBack
  <2> SUFFICES ASSUME phase = "reading", mode.place = "start", ~sought
               PROVE  /\ size = Len(order)
                      /\ Faithful(answer) =>
                           Text(answer) = [k \in DOMAIN answer.chars |-> order[answer.from + k]]
    BY DEF ReadBack
  <2>1. file = order /\ size = Len(order)
    BY <1>1 DEF StreamInv, PlaceShape
  <2>2. answer.from \in Int /\ \A k \in DOMAIN answer.chars : k \in Int
    BY <1>1 DEF StreamInv, ReaderShape
  <2>3. ASSUME Faithful(answer)
        PROVE  Text(answer) = [k \in DOMAIN answer.chars |-> order[answer.from + k]]
    <3>1. \A k \in DOMAIN answer.chars : answer.chars[k] + 1 = answer.from + k
      BY <2>2, <2>3 DEF Faithful
    <3> QED
      BY <2>1, <3>1 DEF Text
  <2> QED
    BY <2>1, <2>3
<1> QED
  BY <1>1, StreamInvariant, PTL

=============================================================================
