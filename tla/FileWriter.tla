------------------------------ MODULE FileWriter ------------------------------
(***************************************************************************)
(* A file stream buffer that writes (basic_file_buffer over fileio_posix.cpp *)
(* opened with out, with in|out, or with app or ate besides): the write      *)
(* position, the writes under way on the threads of the pool, the flushes    *)
(* that wait for them, and the close, which frees the file record that they  *)
(* all use.                                                                *)
(*                                                                         *)
(* A write is one character long, and the file a sequence of writes.  The    *)
(* buffer of the stream that fileio keeps for reading is not there: it is    *)
(* used if the file is opened with in alone (FileReader).                    *)
(***************************************************************************)
EXTENDS Integers, Sequences, FiniteSets

CONSTANTS
  Writes,    \* the calls of putn
  Flushes,   \* the calls of sync
  Hole,      \* what is in a file where nothing was written
  MaxSeek    \* bound on the positions sought

VARIABLES
  mode,        \* how the file was opened
  wrpos,       \* m_wrpos
  file,        \* what the file holds
  write,       \* where each write is
  at,          \* the position each write goes to
  outstanding, \* m_outstanding_writes
  waiters,     \* m_sync_waiters
  flush,       \* where each flush is; one of them is the close's
  heads,       \* m_stream_can_read and m_stream_can_write
  reading,     \* a read is under way
  closing,     \* close() and what it waits for
  record,      \* the file record: there, about to be freed, or gone, and by whom
  order,       \* the order of the calls of putn (history)
  due,         \* the writes put before each flush (history)
  sought,      \* the client has moved the write position (history)
  broken       \* the undefined behaviour met, after which nothing is known

fileVars == <<file, write, at, outstanding>>
flushVars == <<waiters, flush, due>>
headVars == <<heads, reading, closing, record>>
vars == <<mode, wrpos, fileVars, flushVars, headVars, order, sought, broken>>

\* m_wrpos of size_t(-1): the end of the file, wherever that is.
End == -1

\* The flush of _close_write.
Closer == "closer"
Waiter == Flushes \cup {Closer}

Modes == [place : {"start", "ate", "app"}, read : BOOLEAN]

\* The types of the variables.
TypeOK ==
  /\ mode \in Modes
  /\ wrpos \in {End} \cup Nat
  /\ file \in Seq(Writes \cup {Hole})
  /\ write \in [Writes -> {"none", "put", "placed", "written", "done"}]
  /\ at \in [Writes -> {End} \cup Nat]
  /\ outstanding \in 0..Cardinality(Writes)
  /\ waiters \subseteq Waiter
  /\ flush \in [Waiter -> {"none", "waiting", "answered"}]
  /\ heads \in [in : BOOLEAN, out : BOOLEAN]
  /\ reading \in BOOLEAN
  /\ closing \in [in : {"no", "queued", "done"}, next : BOOLEAN, file : BOOLEAN]
  /\ record \in {"there", "inCloses", "outCloses", "gone"}
  /\ order \in Seq(Writes)
  /\ due \in [Waiter -> SUBSET Writes]
  /\ sought \in BOOLEAN
  /\ broken \in {"no", "callback", "record"}

\* _finish_create
Init ==
  /\ mode \in Modes
  /\ wrpos = IF mode.place = "start" THEN 0 ELSE End
  /\ file = <<>>
  /\ write = [w \in Writes |-> "none"] /\ at = [w \in Writes |-> 0]
  /\ outstanding = 0
  /\ waiters = {} /\ flush = [f \in Waiter |-> "none"]
  /\ heads = [in |-> mode.read, out |-> TRUE]
  /\ reading = FALSE
  /\ closing = [in |-> "no", next |-> FALSE, file |-> FALSE]
  /\ record = "there"
  /\ order = <<>> /\ due = [f \in Waiter |-> {}]
  /\ sought = FALSE /\ broken = "no"

Sane == broken = "no"

----------------------------------------------------------------------------
(* Writes *)

\* _putn_fsb: the position is taken and moved under the lock, the write is left
\* to a task.
Putn(w) ==
  /\ Sane /\ heads.out /\ write[w] = "none"
  /\ write' = [write EXCEPT ![w] = "put"]
  /\ at' = [at EXCEPT ![w] = wrpos]
  /\ wrpos' = IF wrpos = End THEN End ELSE wrpos + 1
  /\ outstanding' = outstanding + 1
  /\ order' = Append(order, w)
  /\ UNCHANGED <<mode, file, flushVars, headVars, sought, broken>>

\* The task of a write finds the end of the file with lseek.
Place(w) ==
  /\ Sane /\ write[w] = "put" /\ at[w] = End
  /\ at' = [at EXCEPT ![w] = Len(file)]
  /\ write' = [write EXCEPT ![w] = "placed"]
  /\ UNCHANGED <<mode, wrpos, file, outstanding, flushVars, headVars, order,
                 sought, broken>>

Positioned(w) == write[w] = "placed" \/ (write[w] = "put" /\ at[w] # End)

\* The file with w at position p, beyond the end or not.
Written(w, p) ==
  [i \in 1..(IF p < Len(file) THEN Len(file) ELSE p + 1) |->
     IF i = p + 1 THEN w ELSE IF i <= Len(file) THEN file[i] ELSE Hole]

\* Mutant of Pwrite: the file was opened without O_APPEND.
PwriteAt(w) ==
  /\ Sane /\ Positioned(w) /\ record # "gone"
  /\ file' = Written(w, at[w])
  /\ write' = [write EXCEPT ![w] = "written"]
  /\ UNCHANGED <<mode, wrpos, at, outstanding, flushVars, headVars, order,
                 sought, broken>>

\* Mutant of Pwrite: the task writes at the end, not where putn told it to.
PwriteAppends(w) ==
  /\ Sane /\ Positioned(w) /\ record # "gone"
  /\ file' = Written(w, Len(file))
  /\ write' = [write EXCEPT ![w] = "written"]
  /\ UNCHANGED <<mode, wrpos, at, outstanding, flushVars, headVars, order,
                 sought, broken>>

\* pwrite, which O_APPEND makes write at the end; then on_completed.
Pwrite(w) ==
  /\ Sane /\ Positioned(w) /\ record # "gone"
  /\ file' = Written(w, IF mode.place = "app" THEN Len(file) ELSE at[w])
  /\ write' = [write EXCEPT ![w] = "written"]
  /\ UNCHANGED <<mode, wrpos, at, outstanding, flushVars, headVars, order,
                 sought, broken>>

\* A pwrite that fails calls on_error, and then on_completed of the callback
\* that on_error deleted.
PwriteFails(w) ==
  /\ Sane /\ Positioned(w) /\ record # "gone"
  /\ broken' = "callback"
  /\ UNCHANGED <<mode, wrpos, fileVars, flushVars, headVars, order, sought>>

\* Answers the flushes that wait, if the count has come to zero.
Signal(n) ==
  IF n = 0
    THEN /\ waiters' = {}
         /\ flush' = [f \in Waiter |-> IF f \in waiters THEN "answered" ELSE flush[f]]
    ELSE UNCHANGED <<waiters, flush>>

\* Mutant of Finish: the flushes are answered by any write.
FinishSignals(w) ==
  /\ Sane /\ write[w] = "written" /\ record # "gone"
  /\ write' = [write EXCEPT ![w] = "done"]
  /\ outstanding' = outstanding - 1
  /\ Signal(0)
  /\ UNCHANGED <<mode, wrpos, file, at, due, headVars, order, sought, broken>>

\* Mutant of Finish: the flushes are not answered.
FinishSilently(w) ==
  /\ Sane /\ write[w] = "written" /\ record # "gone"
  /\ write' = [write EXCEPT ![w] = "done"]
  /\ outstanding' = outstanding - 1
  /\ UNCHANGED <<mode, wrpos, file, at, flushVars, headVars, order, sought, broken>>

\* The end of the task of a write, under the lock.
Finish(w) ==
  /\ Sane /\ write[w] = "written" /\ record # "gone"
  /\ write' = [write EXCEPT ![w] = "done"]
  /\ outstanding' = outstanding - 1
  /\ Signal(outstanding - 1)
  /\ UNCHANGED <<mode, wrpos, file, at, due, headVars, order, sought, broken>>

\* The task uses the file record that is gone.
WriteOrphaned(w) ==
  /\ Sane /\ record = "gone" /\ write[w] \in {"put", "placed", "written"}
  /\ broken' = "record"
  /\ UNCHANGED <<mode, wrpos, fileVars, flushVars, headVars, order, sought>>

\* seekpos, and seekoff from the end; refused in append mode.
SeekWrite(p) ==
  /\ Sane /\ heads.out /\ mode.place # "app"
  /\ wrpos' = p /\ sought' = TRUE
  /\ UNCHANGED <<mode, fileVars, flushVars, headVars, order, broken>>

----------------------------------------------------------------------------
(* Flushes and the close *)

\* _sync_fsb: wait for the writes that are outstanding, if any.
SyncFsb(f) ==
  /\ due' = [due EXCEPT ![f] = {w \in Writes : write[w] # "none"}]
  /\ IF outstanding > 0
       THEN /\ flush' = [flush EXCEPT ![f] = "waiting"]
            /\ waiters' = waiters \cup {f}
       ELSE /\ flush' = [flush EXCEPT ![f] = "answered"]
            /\ UNCHANGED waiters

Sync(f) ==
  /\ Sane /\ heads.out /\ flush[f] = "none"
  /\ SyncFsb(f)
  /\ UNCHANGED <<mode, wrpos, fileVars, headVars, order, sought, broken>>

\* A read of a file that is also read, by m_readOps.
BeginRead ==
  /\ Sane /\ heads.in /\ ~reading /\ closing.in = "no"
  /\ reading' = TRUE
  /\ UNCHANGED <<mode, wrpos, fileVars, flushVars, heads, closing, record, order,
                 sought, broken>>

EndRead ==
  /\ Sane /\ reading
  /\ reading' = FALSE
  /\ UNCHANGED <<mode, wrpos, fileVars, flushVars, heads, closing, record, order,
                 sought, broken>>

\* close(in), the first half of close(in|out): queued behind the reads.
CloseIn(both) ==
  /\ Sane /\ heads.in /\ closing.in = "no"
  /\ closing' = [closing EXCEPT !.in = "queued", !.next = both]
  /\ UNCHANGED <<mode, wrpos, fileVars, flushVars, heads, reading, record, order,
                 sought, broken>>

\* _close_read, when m_readOps comes to it: the last head closes the file.
CloseRead ==
  /\ Sane /\ closing.in = "queued" /\ ~reading
  /\ closing' = [closing EXCEPT !.in = "done"]
  /\ heads' = [heads EXCEPT !.in = FALSE]
  /\ record' = IF heads.out THEN record ELSE "inCloses"
  /\ UNCHANGED <<mode, wrpos, fileVars, flushVars, reading, order, sought, broken>>

\* Mutant of CloseWrite: the flush is not waited for.
CloseWriteUnflushed ==
  /\ Sane /\ heads.out
  /\ closing.next => closing.in = "done"
  /\ heads' = [heads EXCEPT !.out = FALSE]
  /\ SyncFsb(Closer)
  /\ closing' = [closing EXCEPT !.file = FALSE]
  /\ record' = IF heads.in THEN record ELSE "outCloses"
  /\ UNCHANGED <<mode, wrpos, fileVars, reading, order, sought, broken>>

\* _close_write: close(out), or the second half of close(in|out).  It flushes,
\* and then closes the file if the other head was closed when it was called.
CloseWrite ==
  /\ Sane /\ heads.out
  /\ closing.next => closing.in = "done"
  /\ heads' = [heads EXCEPT !.out = FALSE]
  /\ SyncFsb(Closer)
  /\ closing' = [closing EXCEPT !.file = ~heads.in]
  /\ UNCHANGED <<mode, wrpos, fileVars, reading, record, order, sought, broken>>

\* The continuation of that flush.
CloseStream ==
  /\ Sane /\ closing.file /\ flush[Closer] = "answered" /\ record = "there"
  /\ record' = "outCloses"
  /\ UNCHANGED <<mode, wrpos, fileVars, flushVars, heads, reading, closing, order,
                 sought, broken>>

\* The task of _close_fsb_nolock closes the file and deletes the record.
CloseFsb ==
  /\ Sane /\ record \in {"inCloses", "outCloses"}
  /\ record' = "gone"
  /\ UNCHANGED <<mode, wrpos, fileVars, flushVars, heads, reading, closing, order,
                 sought, broken>>

----------------------------------------------------------------------------
(* The specification *)

WriteStep(w) == Place(w) \/ Pwrite(w) \/ PwriteFails(w) \/ Finish(w) \/ WriteOrphaned(w)
CloseStep == EndRead \/ CloseRead \/ CloseStream \/ CloseFsb
             \/ (closing.next /\ CloseWrite)

Next ==
  \/ \E w \in Writes : \/ Putn(w) \/ Place(w) \/ Pwrite(w) \/ PwriteFails(w)
                       \/ Finish(w) \/ WriteOrphaned(w)
  \/ \E p \in 0..MaxSeek \cup {End} : SeekWrite(p)
  \/ \E f \in Flushes : Sync(f)
  \/ BeginRead \/ EndRead
  \/ \E both \in BOOLEAN : CloseIn(both)
  \/ CloseRead \/ CloseWrite \/ CloseStream \/ CloseFsb

Spec == Init /\ [][Next]_vars

\* The threads of the pool take the steps they can take.
Fairness == WF_vars(CloseStep) /\ \A w \in Writes : WF_vars(WriteStep(w))

FairSpec == Spec /\ Fairness

----------------------------------------------------------------------------
(* Properties *)

\* A flush is answered when every write put before it is in the file, whatever
\* writes come after and however they overtake one another (_sync_fsb).
FlushIsBarrier ==
  \A f \in Waiter :
    flush[f] = "answered" => \A w \in due[f] : write[w] \in {"written", "done"}

\* No flush is forgotten: one that waits is in the list, and the list is empty
\* once nothing is outstanding.
NoFlushForgotten ==
  /\ waiters = {f \in Waiter : flush[f] = "waiting"}
  /\ outstanding = 0 => waiters = {}

\* The file record outlives the writes when the close of the write head frees it
\* ("We need to flush all writes if the file was opened for writing").
RecordOutlivesWrites ==
  record = "outCloses" => \A w \in Writes : write[w] \in {"none", "done"}

\* The same however the file is closed.
RecordAlwaysOutlives ==
  record # "there" => \A w \in Writes : write[w] \in {"none", "done"}

Kept(w) == \E i \in DOMAIN file : file[i] = w

\* A write that was made is in the file, if the client has not moved the write
\* position and the file was not opened at its end without O_APPEND.
WritesKept ==
  ~sought /\ mode.place # "ate" =>
    \A w \in Writes : write[w] \in {"written", "done"} => Kept(w)

\* The same wherever the writes began ("To preserve the async write order, we
\* have to move the write head before read").
WritesAlwaysKept ==
  ~sought => \A w \in Writes : write[w] \in {"written", "done"} => Kept(w)

\* A flush is answered and a close of both heads frees the record.
FlushAnswered ==
  /\ \A f \in Waiter : flush[f] = "waiting" ~> flush[f] = "answered" \/ ~Sane
  /\ closing.next ~> record = "gone" \/ ~Sane

=============================================================================
