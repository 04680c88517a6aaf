------------------------------ MODULE AuditLog ------------------------------
(***************************************************************************)
(* JsonlAuditLog (audit.rs): the append-only file of audit records that    *)
(* all runs of a runtime share.  Each run's engine thread takes a sequence *)
(* number from an atomic counter, then, under the file lock, writes the    *)
(* record and its newline (two writes: the file is unbuffered).  A write   *)
(* may fail part way, the process may die anywhere, and `open` continues   *)
(* the numbering from what it can decode.                                  *)
(***************************************************************************)
EXTENDS Integers, FiniteSets, Sequences

CONSTANTS Threads,     \* threads that record
          MaxRecords,  \* bound on the calls of record
          MaxFaults,   \* bound on failed writes and crashes
          CharCuts     \* whether a failed write may end inside a character

ASSUME AuditAssumption == /\ MaxRecords \in Nat /\ MaxFaults \in Nat
                          /\ CharCuts \in BOOLEAN /\ IsFiniteSet(Threads)
                          /\ "no thread" \notin Threads

VARIABLES
    up,      \* the process that has the log open is running
    seq,     \* the counter
    held,    \* the record each thread has numbered and not written, or NoRecord
    writer,  \* who holds the file lock between the two writes, or NoThread
    lines,   \* the lines of the file
    \* History variables.
    calls,   \* calls of record so far; each record has the number of its call
    kept,    \* calls that returned without reporting an error
    faults   \* failed writes and crashes so far

auditVars == <<up, seq, held, writer, lines, calls, kept, faults>>

Record == [call : Nat, seq : Nat]
NoRecord == [call |-> -1, seq |-> -1]
NoThread == "no thread"

\* A line of the file, by what a reader makes of it: the one record on it, or
\* nothing; "cut" is a line that is not UTF-8.
Line == [call : Nat, seq : Nat, text : {"whole", "broken", "cut"}, ended : BOOLEAN]

AuditTypeOK ==
    /\ up \in BOOLEAN /\ seq \in Nat
    /\ held \in [Threads -> Record \cup {NoRecord}]
    /\ writer \in Threads \cup {NoThread}
    /\ lines \in Seq(Line)
    /\ calls \in Nat /\ kept \in SUBSET Nat /\ faults \in Nat

AuditInit ==
    /\ up = TRUE /\ seq = 0 /\ lines = <<>>
    /\ held = [t \in Threads |-> NoRecord] /\ writer = NoThread
    /\ calls = 0 /\ kept = {} /\ faults = 0

-----------------------------------------------------------------------------

\* The file after `text` of a record is appended: to a line of its own, or to
\* what a failed write has left, where neither is decoded any more.
LineOf(record, text) == [call |-> record.call, seq |-> record.seq,
                         text |-> text, ended |-> FALSE]
Joined(line, text) == [line EXCEPT !.text =
                          IF "cut" \in {line.text, text} THEN "cut" ELSE "broken"]
Appended(record, text) ==
    IF lines = <<>> \/ lines[Len(lines)].ended
    THEN Append(lines, LineOf(record, text))
    ELSE [lines EXCEPT ![Len(lines)] = Joined(@, text)]

Idle(t) == held' = [held EXCEPT ![t] = NoRecord]

\* The number is taken before the lock.
TakeNumber(t) ==
    /\ up /\ held[t] = NoRecord /\ calls < MaxRecords
    /\ held' = [held EXCEPT ![t] = [call |-> calls, seq |-> seq]]
    /\ seq' = seq + 1 /\ calls' = calls + 1
    /\ UNCHANGED <<up, writer, lines, kept, faults>>

WriteText(t) ==
    /\ up /\ held[t] # NoRecord /\ writer = NoThread
    /\ lines' = Appended(held[t], "whole")
    /\ writer' = t
    /\ UNCHANGED <<up, seq, held, calls, kept, faults>>

\* Mutant: the newline is forgotten.
ForgetNewline(t) ==
    /\ writer = t
    /\ writer' = NoThread
    /\ Idle(t)
    /\ kept' = kept \cup {held[t].call}
    /\ UNCHANGED <<up, seq, lines, calls, faults>>

WriteNewline(t) ==
    /\ writer = t
    /\ lines' = [lines EXCEPT ![Len(lines)].ended = TRUE]
    /\ writer' = NoThread
    /\ Idle(t)
    /\ kept' = kept \cup {held[t].call}
    /\ UNCHANGED <<up, seq, calls, faults>>

\* A write fails, after a part of the text or before the newline.  The error
\* goes to stderr and the log stays open.
WriteFails(t) ==
    /\ up /\ held[t] # NoRecord /\ writer \in {NoThread, t} /\ faults < MaxFaults
    /\ IF writer = t THEN UNCHANGED lines
       ELSE \/ UNCHANGED lines
            \/ lines' = Appended(held[t], "broken")
            \/ CharCuts /\ lines' = Appended(held[t], "cut")
    /\ writer' = NoThread
    /\ Idle(t)
    /\ faults' = faults + 1
    /\ UNCHANGED <<up, seq, calls, kept>>

Crash == /\ up /\ faults < MaxFaults
         /\ up' = FALSE
         /\ held' = [t \in Threads |-> NoRecord] /\ writer' = NoThread
         /\ faults' = faults + 1
         /\ UNCHANGED <<seq, lines, calls, kept>>

\* records and open read the whole file as UTF-8 and skip the lines that do
\* not decode; a file that is not UTF-8 counts as empty.
Decoded == {i \in DOMAIN lines : lines[i].text = "whole"}
ReadBack == IF \E i \in DOMAIN lines : lines[i].text = "cut" THEN {} ELSE Decoded

\* Mutant: the counter starts again at zero.
OpenAnew == /\ ~up
            /\ up' = TRUE
            /\ seq' = 0
            /\ UNCHANGED <<held, writer, lines, calls, kept, faults>>

\* The next number is one more than the largest that is read back.
Open ==
    /\ ~up
    /\ up' = TRUE
    /\ \E next \in {0} \cup {lines[i].seq + 1 : i \in ReadBack} :
          /\ \A i \in ReadBack : lines[i].seq < next
          /\ seq' = next
    /\ UNCHANGED <<held, writer, lines, calls, kept, faults>>

AuditNext == \/ \E t \in Threads : \/ TakeNumber(t) \/ WriteText(t)
                                   \/ WriteNewline(t) \/ WriteFails(t)
             \/ Crash \/ Open

AuditSpec == AuditInit /\ [][AuditNext]_auditVars

-----------------------------------------------------------------------------
\* Properties

\* No two records on file have one number, whatever failed and however often
\* the log was reopened ("reopening the same file after a restart must not
\* produce duplicate sequence numbers").
NumbersAreUnique ==
    \A i, j \in Decoded : lines[i].seq = lines[j].seq => i = j

\* A failed write or a crash costs at most one record that was reported kept:
\* the one that is appended to the line it left behind.
Readable == {lines[i].call : i \in ReadBack}
LossIsBounded == Cardinality(kept \ Readable) <= faults

\* A record is overtaken, between its number and its line, by no more records
\* than there are other threads: one thread alone keeps the file in order.
Overtaking(i) == {j \in Decoded : j > i /\ lines[j].seq < lines[i].seq}
FileNearlyInOrder ==
    \A i \in Decoded : Cardinality(Overtaking(i)) < Cardinality(Threads)

\* What is on file after failed writes, crashes and reopenings is what was reported
\* kept, in order but for the writers that were between their two steps
\* (audit.rs:172-234).
FileKeepsTheRecord == LossIsBounded /\ FileNearlyInOrder
=============================================================================
