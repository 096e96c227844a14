----------------------------- MODULE FileStream -----------------------------
(***************************************************************************)
(* A client of file streams that either reads a file that exists            *)
(* (FileReader), or writes a file through one stream (FileWriter), closes   *)
(* it, and reads it back through another.                                   *)
(*                                                                         *)
(* FileReader knows the characters of a file by their offset, FileWriter by *)
(* the write they come from; `file` says which is where.                    *)
(***************************************************************************)
EXTENDS FileReader, Sequences, FiniteSets

CONSTANTS Writes, Flushes, Hole, MaxSeek

ASSUME StreamAssumption == IsFiniteSet(Writes)

VARIABLES
  phase,   \* which of the streams exists
  mode, wrpos, file, write, at, outstanding, waiters, flush, heads, reading,
  closing, record, order, due, sought, broken

W == INSTANCE FileWriter

writerVars == <<mode, wrpos, file, write, at, outstanding, waiters, flush, heads,
                reading, closing, record, order, due, sought, broken>>
streamVars == <<vars, phase, writerVars>>

\* There is no stream to write with, nor a record of its file.
NoWriter ==
  /\ wrpos = 0
  /\ write = [w \in Writes |-> "none"] /\ at = [w \in Writes |-> 0]
  /\ outstanding = 0
  /\ waiters = {} /\ flush = [f \in W!Waiter |-> "none"]
  /\ heads = [in |-> FALSE, out |-> FALSE]
  /\ reading = FALSE
  /\ closing = [in |-> "no", next |-> FALSE, file |-> FALSE]
  /\ record = "gone"
  /\ due = [f \in W!Waiter |-> {}]
  /\ broken = "no"

\* The file exists, and nobody knows who wrote it.
Given ==
  /\ phase = "given"
  /\ Init
  /\ NoWriter
  /\ mode = [place |-> "start", read |-> FALSE]
  /\ file = [i \in 1..size |-> Hole]
  /\ order = <<>> /\ sought = FALSE

\* The file is created; the stream that will read it is not.
Created ==
  /\ phase = "writing"
  /\ W!Init
  /\ size = 0 /\ rdpos = 0 /\ atend = FALSE /\ buf = NoBuffer
  /\ open = FALSE /\ answer = NoAnswer

StreamInit == Given \/ Created

\* The client has closed the stream it wrote with, and opens one that reads.
Reopen ==
  /\ phase = "writing"
  /\ W!Sane /\ record = "gone"
  /\ \A w \in Writes : write[w] \in {"none", "done"}
  /\ phase' = "reading"
  /\ size' = Len(file)
  /\ open' = TRUE
  /\ wrpos' = 0
  /\ write' = [w \in Writes |-> "none"] /\ at' = [w \in Writes |-> 0]
  /\ flush' = [f \in W!Waiter |-> "none"] /\ due' = [f \in W!Waiter |-> {}]
  /\ closing' = [in |-> "no", next |-> FALSE, file |-> FALSE]
  /\ UNCHANGED <<rdpos, atend, buf, answer, mode, file, outstanding, waiters, heads,
                 reading, record, order, sought, broken>>

WriterStep == W!Next /\ UNCHANGED <<vars, phase>>
ReaderStep == Next /\ UNCHANGED <<phase, writerVars>>

StreamNext == WriterStep \/ Reopen \/ ReaderStep

StreamSpec == StreamInit /\ [][StreamNext]_streamVars /\ W!Fairness

----------------------------------------------------------------------------
(* Properties *)

\* A flush is answered when every write put before it is in the file, whatever
\* writes come after and however they overtake one another (_sync_fsb).
FlushIsBarrier == W!FlushIsBarrier

\* No flush is forgotten: one that waits is in the list, and the list is empty
\* once nothing is outstanding (the end of the task of a write).
NoFlushForgotten == W!NoFlushForgotten

\* The file record outlives the writes when the close of the write head frees it
\* (_close_write: "We need to flush all writes if the file was opened for
\* writing").
RecordOutlivesWrites == W!RecordOutlivesWrites

\* A write that was made is in the file, if the client has not moved the write
\* position and the file was not opened at its end without O_APPEND.
WritesKept == W!WritesKept

\* The same however the file was opened ("To preserve the async write order, we
\* have to move the write head before read", fileio_posix.cpp).
WritesAlwaysKept == W!WritesAlwaysKept

\* A flush is answered, and a close of both heads frees the record, though a
\* write under way delays them.
FlushAnswered == W!FlushAnswered

\* What the reader answered, as the writes it comes from.
Text(a) == [k \in DOMAIN a.chars |-> file[a.chars[k] + 1]]

\* What was written from the start of a file without a seek and closed reads
\* back in the order of the calls of putn, though the writes may have been made
\* in another: every answer is the right piece of it, as far as the reader can
\* be trusted (WrongOnlyPast), and the file ends where the writes do.
ReadBack ==
  phase = "reading" /\ mode.place = "start" /\ ~sought =>
    /\ size = Len(order)
    /\ Faithful(answer) =>
         Text(answer) = [k \in DOMAIN answer.chars |-> order[answer.from + k]]

=============================================================================
