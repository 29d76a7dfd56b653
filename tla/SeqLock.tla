------------------------------- MODULE SeqLock -------------------------------
(***************************************************************************)
(* library::seq_lock (library/lock.h) as iocp::monitor uses it: one thread  *)
(* writes a group of counters between write_start and write_end, others     *)
(* copy them between read_start and read_end and start over when read_end   *)
(* answers no.  The words of the group are written and copied one by one,   *)
(* in any order; the barriers keep them between the two ends.               *)
(***************************************************************************)
EXTENDS Naturals

CONSTANTS
  Words,      \* the words the lock guards
  Readers,
  WriteLimit  \* groups the writer publishes in a run

SeqLockAssumption == WriteLimit \in Nat

VARIABLES
  sequence,   \* _sequence
  data,       \* the guarded words; every write stores its own number
  writing,    \* words the writer has still to store
  round,      \* number of the write in progress, or of the last one (history)
  inside,     \* whether the writer is between write_start and write_end
  pc,         \* of the readers
  start,      \* what read_start returned
  copied,     \* words a reader has copied so far
  copy        \* their values

vars == <<sequence, data, writing, round, inside, pc, start, copied, copy>>

TypeOK ==
  /\ sequence \in Nat
  /\ data \in [Words -> Nat]
  /\ writing \subseteq Words
  /\ round \in Nat
  /\ inside \in BOOLEAN
  /\ pc \in [Readers -> {"idle", "copy", "accepted"}]
  /\ start \in [Readers -> Nat]
  /\ copied \in [Readers -> SUBSET Words]
  /\ copy \in [Readers -> [Words -> Nat]]

Init ==
  /\ sequence = 0
  /\ data = [w \in Words |-> 0]
  /\ writing = {}
  /\ round = 0
  /\ inside = FALSE
  /\ pc = [r \in Readers |-> "idle"]
  /\ start = [r \in Readers |-> 0]
  /\ copied = [r \in Readers |-> {}]
  /\ copy = [r \in Readers |-> [w \in Words |-> 0]]

readerVars == <<pc, start, copied, copy>>

WriteStart ==
  /\ ~inside
  /\ round < WriteLimit
  /\ sequence' = sequence + 1
  /\ round' = round + 1
  /\ writing' = Words
  /\ inside' = TRUE
  /\ UNCHANGED <<data, readerVars>>

WriteWord(w) ==
  /\ inside
  /\ w \in writing
  /\ data' = [data EXCEPT ![w] = round]
  /\ writing' = writing \ {w}
  /\ UNCHANGED <<sequence, round, inside, readerVars>>

WriteEnd ==
  /\ inside
  /\ writing = {}
  /\ sequence' = sequence + 1
  /\ inside' = FALSE
  /\ UNCHANGED <<data, writing, round, readerVars>>

\* read_start does not wait for an even sequence.
ReadStart(r) ==
  /\ pc[r] = "idle"
  /\ start' = [start EXCEPT ![r] = sequence]
  /\ copied' = [copied EXCEPT ![r] = {}]
  /\ pc' = [pc EXCEPT ![r] = "copy"]
  /\ UNCHANGED <<sequence, data, writing, round, inside, copy>>

ReadWord(r, w) ==
  /\ pc[r] = "copy"
  /\ w \notin copied[r]
  /\ copy' = [copy EXCEPT ![r][w] = data[w]]
  /\ copied' = [copied EXCEPT ![r] = @ \union {w}]
  /\ UNCHANGED <<sequence, data, writing, round, inside, pc, start>>

ValidIfSame(first) == first = sequence

Valid(first) == first = sequence /\ first % 2 = 0

ReadEnd(r) ==
  /\ pc[r] = "copy"
  /\ copied[r] = Words
  /\ pc' = [pc EXCEPT ![r] = IF Valid(start[r]) THEN "accepted" ELSE "idle"]
  /\ UNCHANGED <<sequence, data, writing, round, inside, start, copied, copy>>

\* The caller goes its way with the copy.
Done(r) ==
  /\ pc[r] = "accepted"
  /\ pc' = [pc EXCEPT ![r] = "idle"]
  /\ UNCHANGED <<sequence, data, writing, round, inside, start, copied, copy>>

Read(r) == ReadStart(r) \/ (\E w \in Words : ReadWord(r, w)) \/ ReadEnd(r) \/ Done(r)

Next ==
  \/ WriteStart \/ (\E w \in Words : WriteWord(w)) \/ WriteEnd
  \/ \E r \in Readers : Read(r)

\* The writer finishes a write it has begun; readers keep reading.
Spec ==
  /\ Init /\ [][Next]_vars
  /\ WF_vars((\E w \in Words : WriteWord(w)) \/ WriteEnd)
  /\ \A r \in Readers : WF_vars(Read(r))

-----------------------------------------------------------------------------

\* What a reader is about to accept is what the words hold at that moment:
\* the copy is not merely consistent, it is the latest complete write.
AcceptedIsCurrent ==
  /\ TypeOK
  /\ \A r \in Readers :
       pc[r] = "copy" /\ copied[r] = Words /\ Valid(start[r]) =>
         copy[r] = data /\ \A w \in Words : data[w] = round

\* A writer that pauses lets every reader through: the writer never has to
\* wait and readers repeat only while writes go on.
ReaderGetsThrough ==
  \A r \in Readers : []<>(pc[r] = "accepted")

=============================================================================
