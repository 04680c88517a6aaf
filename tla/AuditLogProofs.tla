--------------------------- MODULE AuditLogProofs ---------------------------
(***************************************************************************)
(* The numbers on file stay unique through failed writes, crashes and      *)
(* reopenings, a fault costs at most one record that was reported kept,    *)
(* and the file is in order but for the records in hand, for any number of *)
(* threads, as long as no failed write ends inside a character.            *)
(***************************************************************************)
EXTENDS AuditLog, FiniteSetTheorems, TLAPS

\* Every number in use is below the counter of the running process: those on
\* file and those taken and not yet written, which no other record shares.
BelowCounter ==
    /\ up => \A i \in Decoded : lines[i].seq < seq
    /\ \A t \in Threads : held[t] # NoRecord => up /\ held[t].seq < seq
HeldApart ==
    /\ \A t, u \in Threads :
          held[t] # NoRecord /\ held[u] # NoRecord /\ held[t].seq = held[u].seq => t = u
    /\ \A t \in Threads : held[t] # NoRecord /\ writer # t =>
          \A i \in Decoded : lines[i].seq # held[t].seq
WriterInv == writer # NoThread => writer \in Threads /\ held[writer] # NoRecord /\ lines # <<>>
NoCut == \A i \in DOMAIN lines : lines[i].text # "cut"

\* A record is reported kept once, when its line is ended; only the last line may
\* be open, and that of the writer at work is.
LastLine == lines[Len(lines)]
KeptInv ==
    /\ IsFiniteSet(kept) /\ \A c \in kept : c < calls
    /\ \A t \in Threads : held[t] # NoRecord =>
          /\ held[t].call < calls /\ held[t].call \notin kept
          /\ \A u \in Threads : held[u] # NoRecord /\ held[u].call = held[t].call => t = u
    /\ \A i \in DOMAIN lines : ~lines[i].ended =>
          i = Len(lines) /\ (lines[i].text = "whole" => lines[i].call \notin kept)
    /\ writer # NoThread =>
          /\ ~LastLine.ended
          /\ LastLine.text = "whole" => LastLine.call = held[writer].call

\* An open line that nobody is ending, or that somebody has joined, costs the record
\* that is appended to it: a fault pays for it in advance.
Owed == lines # <<>> /\ ~LastLine.ended /\ (writer = NoThread \/ LastLine.text # "whole")
LossInv == Cardinality(kept \ Readable) + (IF Owed THEN 1 ELSE 0) <= faults

\* Those who took a smaller number and have no line yet: with those that have
\* overtaken the record, fewer than there are threads.
Behind(i) == {t \in Threads : held[t] # NoRecord /\ writer # t /\ held[t].seq < lines[i].seq}
OrderInv ==
    \A i \in Decoded :
       Cardinality(Overtaking(i)) + Cardinality(Behind(i)) < Cardinality(Threads)

Numbering == /\ AuditTypeOK /\ NumbersAreUnique
             /\ BelowCounter /\ HeldApart /\ WriterInv /\ NoCut

\* The file after an append: one more line at the end, or a last line that no
\* longer decodes; the lines that decode otherwise stay as they are.
LEMMA AppendedFacts ==
    ASSUME AuditTypeOK, NEW record \in Record, NEW text \in {"whole", "broken", "cut"},
           lines' = Appended(record, text)
    PROVE  /\ lines' \in Seq(Line) /\ lines' # <<>>
           /\ \A i \in Decoded' :
                 \/ i \in Decoded /\ lines'[i] = lines[i]
                 \/ /\ text = "whole" /\ i = Len(lines) + 1 /\ i \notin DOMAIN lines
                    /\ lines'[i].seq = record.seq
           /\ NoCut /\ text # "cut" => NoCut'
<1>t. lines \in Seq(Line) /\ record.seq \in Nat /\ record.call \in Nat /\ Len(lines) \in Nat
  BY DEF AuditTypeOK, Record
<1>1. CASE lines = <<>> \/ lines[Len(lines)].ended
  <2>1. lines' = Append(lines, LineOf(record, text))
    BY <1>1 DEF Appended
  <2>2. LineOf(record, text) \in Line
    BY <1>t DEF LineOf, Line
  <2>3. /\ lines' \in Seq(Line) /\ Len(lines') = Len(lines) + 1
        /\ \A i \in 1..Len(lines) : lines'[i] = lines[i]
        /\ lines'[Len(lines) + 1] = LineOf(record, text)
        /\ DOMAIN lines = 1..Len(lines) /\ DOMAIN lines' = 1..(Len(lines) + 1)
    BY <1>t, <2>1, <2>2
  <2> QED
    BY <1>t, <2>3 DEF Decoded, LineOf, NoCut
<1>2. CASE ~(lines = <<>> \/ lines[Len(lines)].ended)
  <2>1. lines' = [lines EXCEPT ![Len(lines)] = Joined(@, text)]
    BY <1>2 DEF Appended
  <2>2. Len(lines) \in 1..Len(lines) /\ DOMAIN lines = 1..Len(lines)
    BY <1>t, <1>2
  <2>3. lines[Len(lines)] \in Line
    BY <1>t, <2>2
  <2>4. /\ Joined(lines[Len(lines)], text) \in Line
        /\ Joined(lines[Len(lines)], text).text # "whole"
        /\ lines[Len(lines)].text # "cut" /\ text # "cut" =>
              Joined(lines[Len(lines)], text).text # "cut"
    BY <2>3 DEF Joined, Line
  <2>5. /\ lines' \in Seq(Line) /\ DOMAIN lines' = DOMAIN lines /\ lines' # <<>>
        /\ \A i \in DOMAIN lines : i # Len(lines) => lines'[i] = lines[i]
        /\ lines'[Len(lines)] = Joined(lines[Len(lines)], text)
    BY <1>t, <2>1, <2>2, <2>4
  <2> QED
    BY <2>2, <2>4, <2>5 DEF Decoded, NoCut
<1> QED
  BY <1>1, <1>2

LEMMA NumberingInit == AuditInit => Numbering
<1> SUFFICES ASSUME AuditInit PROVE Numbering
    OBVIOUS
<1>1. AuditTypeOK
  <2>1. /\ up = TRUE /\ seq = 0 /\ lines = <<>> /\ calls = 0 /\ kept = {} /\ faults = 0
        /\ held = [t \in Threads |-> NoRecord] /\ writer = NoThread
    BY DEF AuditInit
  <2> QED
    BY <2>1 DEF AuditTypeOK
<1>2. lines = <<>> /\ Decoded = {} /\ DOMAIN lines = {}
  BY DEF AuditInit, Decoded
<1> QED
  BY <1>1, <1>2 DEF AuditInit, Numbering, NumbersAreUnique, BelowCounter, HeldApart,
                    WriterInv, NoCut

LEMMA NumberingStep ==
    ASSUME ~CharCuts, Numbering, AuditNext PROVE Numbering'
<1>t. /\ AuditTypeOK /\ seq \in Nat /\ calls \in Nat /\ faults \in Nat
      /\ held \in [Threads -> Record \cup {NoRecord}] /\ lines \in Seq(Line)
      /\ writer \in Threads \cup {NoThread} /\ up \in BOOLEAN /\ kept \in SUBSET Nat
      /\ NoThread \notin Threads
  BY AuditAssumption DEF Numbering, AuditTypeOK, NoThread
<1>i. NumbersAreUnique /\ BelowCounter /\ HeldApart /\ WriterInv /\ NoCut
  BY DEF Numbering
<1>r. NoRecord \notin Record
  BY DEF NoRecord, Record
<1>l. /\ \A i \in DOMAIN lines : lines[i] \in Line /\ lines[i].seq \in Nat
      /\ \A t \in Threads : held[t] # NoRecord =>
            held[t] \in Record /\ held[t].seq \in Nat /\ held[t].call \in Nat
  <2>1. \A i \in DOMAIN lines : lines[i] \in Line
    BY <1>t
  <2>2. \A t \in Threads : held[t] # NoRecord => held[t] \in Record
    BY <1>t
  <2> QED
    BY <2>1, <2>2 DEF Line, Record
<1>1. ASSUME NEW t \in Threads, TakeNumber(t) PROVE Numbering'
  <2>1. /\ held' = [held EXCEPT ![t] = [call |-> calls, seq |-> seq]]
        /\ up /\ held[t] = NoRecord /\ seq' = seq + 1 /\ calls' = calls + 1
        /\ UNCHANGED <<up, writer, lines, kept, faults>> /\ Decoded' = Decoded
    BY <1>1 DEF TakeNumber, Decoded
  <2>2. [call |-> calls, seq |-> seq] \in Record
    BY <1>t DEF Record
  <2>3. AuditTypeOK'
    BY <1>t, <2>1, <2>2 DEF AuditTypeOK
  <2>4. /\ held'[t].seq = seq /\ held'[t] # NoRecord
        /\ \A u \in Threads : u # t => held'[u] = held[u]
    BY <1>t, <1>r, <2>1, <2>2
  <2>5. \A i \in Decoded : lines[i].seq < seq /\ lines[i].seq \in Nat
    BY <1>i, <1>l, <2>1 DEF BelowCounter, Decoded
  <2>6. \A u \in Threads : u # t /\ held[u] # NoRecord => held[u].seq < seq
    BY <1>i DEF BelowCounter
  <2>7. NumbersAreUnique' /\ NoCut'
    BY <1>i, <2>1 DEF NumbersAreUnique, NoCut
  <2>8. BelowCounter'
    BY <1>t, <1>l, <2>1, <2>4, <2>5, <2>6 DEF BelowCounter
  <2>9. HeldApart'
    BY <1>i, <1>t, <1>l, <2>1, <2>4, <2>5, <2>6 DEF HeldApart
  <2>10. WriterInv'
    BY <1>i, <1>t, <2>1, <2>4 DEF WriterInv
  <2> QED
    BY <2>3, <2>7, <2>8, <2>9, <2>10 DEF Numbering
<1>2. ASSUME NEW t \in Threads, WriteText(t) PROVE Numbering'
  <2>1. /\ up /\ held[t] \in Record /\ held[t] # NoRecord /\ writer = NoThread /\ writer' = t
        /\ lines' = Appended(held[t], "whole")
        /\ UNCHANGED <<up, seq, held, calls, kept, faults>>
    BY <1>2, <1>l DEF WriteText
  <2>2. /\ lines' \in Seq(Line) /\ lines' # <<>> /\ NoCut'
        /\ \A i \in Decoded' :
              \/ i \in Decoded /\ lines'[i] = lines[i]
              \/ i = Len(lines) + 1 /\ lines'[i].seq = held[t].seq
    BY <1>i, <1>t, <2>1, AppendedFacts
  <2>3. AuditTypeOK'
    BY <1>t, <2>1, <2>2 DEF AuditTypeOK
  <2>4. \A u \in Threads : held[u] # NoRecord =>
           /\ held[u].seq < seq /\ \A i \in Decoded : lines[i].seq # held[u].seq
    BY <1>i, <1>t, <2>1 DEF BelowCounter, HeldApart
  <2>5. NumbersAreUnique'
    BY <1>i, <2>1, <2>2, <2>4 DEF NumbersAreUnique
  <2>6. BelowCounter'
    BY <1>i, <2>1, <2>2, <2>4 DEF BelowCounter
  <2>7. HeldApart'
    BY <1>i, <2>1, <2>2, <2>4 DEF HeldApart
  <2> QED
    BY <2>1, <2>2, <2>3, <2>5, <2>6, <2>7 DEF Numbering, WriterInv
\* Some lines stop decoding, the others stay; whoever held a number drops it.
<1>3. ASSUME AuditTypeOK', seq' = seq, NoCut',
             \A i \in Decoded' : i \in Decoded /\ lines'[i].seq = lines[i].seq,
             up' => up,
             \A u \in Threads : held'[u] # NoRecord =>
                 held'[u] = held[u] /\ writer # u /\ up',
             writer' = NoThread
      PROVE  Numbering'
  <2>1. NumbersAreUnique'
    BY <1>i, <1>3 DEF NumbersAreUnique
  <2>2. BelowCounter'
    BY <1>i, <1>3 DEF BelowCounter
  <2>3. HeldApart'
    BY <1>i, <1>3 DEF HeldApart
  <2> QED
    BY <1>3, <2>1, <2>2, <2>3 DEF Numbering, WriterInv
<1>4. ASSUME NEW t \in Threads, WriteNewline(t) PROVE Numbering'
  <2>1. /\ writer = t /\ lines' = [lines EXCEPT ![Len(lines)].ended = TRUE]
        /\ writer' = NoThread /\ held' = [held EXCEPT ![t] = NoRecord]
        /\ kept' = kept \cup {held[t].call}
        /\ UNCHANGED <<up, seq, calls, faults>>
    BY <1>4 DEF WriteNewline, Idle
  <2>2. held[t] # NoRecord /\ lines # <<>> /\ held[t].call \in Nat /\ up
    BY <1>i, <1>l, <1>t, <2>1 DEF WriterInv, BelowCounter
  <2>3. Len(lines) \in DOMAIN lines /\ lines[Len(lines)] \in Line
    BY <1>t, <2>2
  <2>4. /\ [lines[Len(lines)] EXCEPT !.ended = TRUE] \in Line
        /\ [lines[Len(lines)] EXCEPT !.ended = TRUE].seq = lines[Len(lines)].seq
        /\ [lines[Len(lines)] EXCEPT !.ended = TRUE].text = lines[Len(lines)].text
    BY <2>3 DEF Line
  <2>5. lines' = [lines EXCEPT ![Len(lines)] = [lines[Len(lines)] EXCEPT !.ended = TRUE]]
    BY <2>1, <2>3
  <2>6. /\ lines' \in Seq(Line) /\ DOMAIN lines' = DOMAIN lines
        /\ \A i \in DOMAIN lines : lines'[i].seq = lines[i].seq /\ lines'[i].text = lines[i].text
    BY <1>t, <2>3, <2>4, <2>5
  <2>7. /\ NoCut' /\ \A i \in Decoded' : i \in Decoded /\ lines'[i].seq = lines[i].seq
    BY <1>i, <2>6 DEF Decoded, NoCut
  <2>8. AuditTypeOK'
    BY <1>t, <2>1, <2>2, <2>6 DEF AuditTypeOK
  <2>9. \A u \in Threads : held'[u] # NoRecord => held'[u] = held[u] /\ writer # u /\ up'
    BY <1>t, <2>1, <2>2
  <2> QED
    BY <1>3, <2>1, <2>7, <2>8, <2>9
<1>5. ASSUME NEW t \in Threads, WriteFails(t) PROVE Numbering'
  <2>1. /\ held' = [held EXCEPT ![t] = NoRecord] /\ writer' = NoThread
        /\ writer \in {NoThread, t} /\ faults' = faults + 1 /\ up /\ held[t] \in Record
        /\ UNCHANGED <<up, seq, calls, kept>>
        /\ UNCHANGED lines \/ lines' = Appended(held[t], "broken")
    BY <1>5, <1>l DEF WriteFails, Idle
  <2>2. /\ lines' \in Seq(Line) /\ NoCut'
        /\ \A i \in Decoded' : i \in Decoded /\ lines'[i].seq = lines[i].seq
    <3>1. CASE UNCHANGED lines
      BY <1>i, <1>t, <3>1 DEF Decoded, NoCut
    <3>2. CASE lines' = Appended(held[t], "broken")
      BY <1>i, <1>t, <2>1, <3>2, AppendedFacts
    <3> QED
      BY <2>1, <3>1, <3>2
  <2>3. AuditTypeOK'
    BY <1>t, <2>1, <2>2 DEF AuditTypeOK
  <2>4. \A u \in Threads : held'[u] # NoRecord => held'[u] = held[u] /\ writer # u /\ up'
    BY <1>t, <2>1
  <2> QED
    BY <1>3, <2>1, <2>2, <2>3, <2>4
<1>6. CASE Crash
  <2>1. /\ held' = [t \in Threads |-> NoRecord] /\ writer' = NoThread /\ up' = FALSE
        /\ faults' = faults + 1 /\ UNCHANGED <<seq, lines, calls, kept>>
    BY <1>6 DEF Crash
  <2>2. AuditTypeOK'
    <3>1. held' \in [Threads -> Record \cup {NoRecord}]
      BY <2>1
    <3>2. UNCHANGED <<seq, lines, calls, kept>> /\ faults' \in Nat
      BY <1>t, <2>1
    <3>3. writer' \in Threads \cup {NoThread} /\ up' \in BOOLEAN
      BY <2>1
    <3> QED
      BY <1>t, <3>1, <3>2, <3>3 DEF AuditTypeOK
  <2>3. NoCut' /\ \A i \in Decoded' : i \in Decoded /\ lines'[i].seq = lines[i].seq
    BY <1>i, <2>1 DEF Decoded, NoCut
  <2> QED
    BY <1>3, <2>1, <2>2, <2>3
<1>7. CASE Open
  <2>1. /\ ~up /\ up' = TRUE /\ UNCHANGED <<held, writer, lines, calls, kept, faults>>
        /\ Decoded' = Decoded /\ ReadBack = Decoded
    BY <1>7, <1>i DEF Open, Decoded, ReadBack, NoCut
  <2>2. seq' \in Nat /\ \A i \in Decoded : lines[i].seq < seq'
    BY <1>7, <1>l, <2>1 DEF Open, Decoded
  <2>3. \A t \in Threads : held[t] = NoRecord
    BY <1>i, <2>1 DEF BelowCounter
  <2>4. AuditTypeOK'
    BY <1>t, <2>1, <2>2 DEF AuditTypeOK
  <2> QED
    BY <1>i, <2>1, <2>2, <2>3, <2>4
       DEF Numbering, NumbersAreUnique, BelowCounter, HeldApart, WriterInv, NoCut
<1> QED
  BY <1>1, <1>2, <1>4, <1>5, <1>6, <1>7 DEF AuditNext

-----------------------------------------------------------------------------
\* What becomes of the records reported kept.

\* The two ways a text is appended, line by line.
Fresh(record, text) ==
    /\ lines = <<>> \/ LastLine.ended
    /\ Len(lines') = Len(lines) + 1 /\ DOMAIN lines' = DOMAIN lines \cup {Len(lines) + 1}
    /\ \A i \in DOMAIN lines : lines'[i] = lines[i] /\ i < Len(lines')
    /\ lines'[Len(lines')] = LineOf(record, text)
Joining ==
    /\ lines # <<>> /\ ~LastLine.ended
    /\ Len(lines') = Len(lines) /\ DOMAIN lines' = DOMAIN lines
    /\ \A i \in DOMAIN lines : i # Len(lines) => lines'[i] = lines[i]
    /\ lines'[Len(lines)].text # "whole" /\ ~lines'[Len(lines)].ended

LEMMA AppendCases ==
    ASSUME AuditTypeOK, NEW record, NEW text \in {"whole", "broken"},
           lines' = Appended(record, text)
    PROVE  Fresh(record, text) \/ Joining
<1>t. lines \in Seq(Line) /\ Len(lines) \in Nat /\ DOMAIN lines = 1..Len(lines)
  BY DEF AuditTypeOK
<1>1. CASE lines = <<>> \/ lines[Len(lines)].ended
  <2>1. lines' = Append(lines, LineOf(record, text))
    BY <1>1 DEF Appended
  <2>2. /\ Len(lines') = Len(lines) + 1 /\ DOMAIN lines' = 1..(Len(lines) + 1)
        /\ \A i \in 1..Len(lines) : lines'[i] = lines[i]
        /\ lines'[Len(lines) + 1] = LineOf(record, text)
    BY <1>t, <2>1
  <2> QED
    BY <1>t, <1>1, <2>2 DEF Fresh, LastLine
<1>2. CASE ~(lines = <<>> \/ lines[Len(lines)].ended)
  <2>1. lines' = [lines EXCEPT ![Len(lines)] = Joined(@, text)]
    BY <1>2 DEF Appended
  <2>2. Len(lines) \in DOMAIN lines /\ lines[Len(lines)] \in Line
    BY <1>t, <1>2
  <2>3. /\ Joined(lines[Len(lines)], text).text # "whole"
        /\ Joined(lines[Len(lines)], text).ended = lines[Len(lines)].ended
    BY <2>2 DEF Joined, Line
  <2>4. /\ DOMAIN lines' = DOMAIN lines /\ Len(lines') = Len(lines)
        /\ \A i \in DOMAIN lines : i # Len(lines) => lines'[i] = lines[i]
        /\ lines'[Len(lines)] = Joined(lines[Len(lines)], text)
    BY <1>t, <2>1, <2>2
  <2> QED
    BY <1>2, <2>3, <2>4 DEF Joining, LastLine
<1> QED
  BY <1>1, <1>2

\* The newline ends the last line and touches nothing else of the file.
LEMMA NewlineEnds ==
    ASSUME Numbering, NEW t \in Threads, WriteNewline(t)
    PROVE  /\ lines # <<>> /\ Len(lines) \in DOMAIN lines
           /\ Len(lines') = Len(lines) /\ DOMAIN lines' = DOMAIN lines
           /\ \A i \in DOMAIN lines : /\ lines'[i].call = lines[i].call
                                      /\ lines'[i].seq = lines[i].seq
                                      /\ lines'[i].text = lines[i].text
                                      /\ i # Len(lines) => lines'[i] = lines[i]
           /\ lines'[Len(lines)].ended
<1>t. lines \in Seq(Line) /\ Len(lines) \in Nat /\ DOMAIN lines = 1..Len(lines)
  BY DEF Numbering, AuditTypeOK
<1>1. lines' = [lines EXCEPT ![Len(lines)].ended = TRUE] /\ writer = t
  BY DEF WriteNewline
<1>2. lines # <<>>
  BY <1>1, AuditAssumption DEF Numbering, WriterInv, NoThread
<1>3. Len(lines) \in DOMAIN lines /\ lines[Len(lines)] \in Line
  BY <1>t, <1>2
<1> DEFINE last == [lines[Len(lines)] EXCEPT !.ended = TRUE]
<1>4. /\ last.call = lines[Len(lines)].call /\ last.seq = lines[Len(lines)].seq
      /\ last.text = lines[Len(lines)].text /\ last.ended
  BY <1>3 DEF Line
<1>5. lines' = [lines EXCEPT ![Len(lines)] = last]
  BY <1>1, <1>3
<1> HIDE DEF last
<1>6. /\ DOMAIN lines' = DOMAIN lines /\ Len(lines') = Len(lines)
      /\ \A i \in DOMAIN lines : i # Len(lines) => lines'[i] = lines[i]
      /\ lines'[Len(lines)] = last
  BY <1>t, <1>3, <1>5
<1> QED
  BY <1>2, <1>3, <1>4, <1>6

\* What a thread holds, before and after.
LEMMA HeldFacts ==
    ASSUME Numbering
    PROVE  /\ \A t \in Threads : held[t] # NoRecord =>
                 held[t] \in Record /\ held[t].call \in Nat /\ held[t].seq \in Nat
           /\ \A t \in Threads : Idle(t) =>
                 held'[t] = NoRecord /\ \A u \in Threads : u # t => held'[u] = held[u]
           /\ NoThread \notin Threads
           /\ writer # NoThread => writer \in Threads /\ held[writer] # NoRecord /\ lines # <<>>
<1>1. held \in [Threads -> Record \cup {NoRecord}]
  BY DEF Numbering, AuditTypeOK
<1>2. \A t \in Threads : held[t] # NoRecord => held[t] \in Record
  BY <1>1
<1>3. ASSUME NEW t \in Threads, Idle(t)
      PROVE  held'[t] = NoRecord /\ \A u \in Threads : u # t => held'[u] = held[u]
  BY <1>1, <1>3 DEF Idle
<1>4. writer # NoThread => writer \in Threads /\ held[writer] # NoRecord /\ lines # <<>>
  BY DEF Numbering, WriterInv
<1> QED
  BY <1>2, <1>3, <1>4, AuditAssumption DEF Record, NoThread

\* The writers: what WriteFails does besides the file, and with it.
LEMMA FailureCases ==
    ASSUME ~CharCuts, Numbering, NEW t \in Threads, WriteFails(t)
    PROVE  /\ Idle(t) /\ writer' = NoThread /\ faults' = faults + 1 /\ held[t] # NoRecord
           /\ UNCHANGED <<up, seq, calls, kept>>
           /\ UNCHANGED lines \/ (writer = NoThread /\ (Fresh(held[t], "broken") \/ Joining))
<1>1. UNCHANGED lines \/ (writer = NoThread /\ lines' = Appended(held[t], "broken"))
  BY DEF WriteFails
<1>2. AuditTypeOK
  BY DEF Numbering
<1> QED
  BY <1>1, <1>2, AppendCases DEF WriteFails

LEMMA KeptStep ==
    ASSUME ~CharCuts, Numbering, KeptInv, AuditNext PROVE KeptInv'
<1>t. /\ calls \in Nat /\ kept \in SUBSET Nat /\ lines \in Seq(Line) /\ Len(lines) \in Nat
      /\ DOMAIN lines = 1..Len(lines) /\ AuditTypeOK /\ writer \in Threads \cup {NoThread}
      /\ held \in [Threads -> Record \cup {NoRecord}]
  BY DEF Numbering, AuditTypeOK
<1>h. /\ \A t \in Threads : held[t] # NoRecord => held[t].call \in Nat
      /\ NoThread \notin Threads
      /\ writer # NoThread => writer \in Threads /\ held[writer] # NoRecord /\ lines # <<>>
  BY HeldFacts
<1>k. /\ IsFiniteSet(kept) /\ \A c \in kept : c < calls
      /\ \A t \in Threads : held[t] # NoRecord =>
            /\ held[t].call < calls /\ held[t].call \notin kept
            /\ \A u \in Threads : held[u] # NoRecord /\ held[u].call = held[t].call => t = u
      /\ \A i \in DOMAIN lines : ~lines[i].ended =>
            i = Len(lines) /\ (lines[i].text = "whole" => lines[i].call \notin kept)
      /\ writer # NoThread => /\ ~lines[Len(lines)].ended
                              /\ lines[Len(lines)].text = "whole" =>
                                    lines[Len(lines)].call = held[writer].call
  BY DEF KeptInv, LastLine
\* Appending a record that is not reported kept.
<1>a. ASSUME NEW t \in Threads, held[t] # NoRecord, NEW text \in {"whole", "broken"},
             Fresh(held[t], text) \/ Joining
      PROVE  /\ \A i \in DOMAIN lines' : ~lines'[i].ended =>
                   i = Len(lines') /\ (lines'[i].text = "whole" => lines'[i].call \notin kept)
             /\ ~lines'[Len(lines')].ended
             /\ lines'[Len(lines')].text = "whole" => lines'[Len(lines')].call = held[t].call
  <2>1. CASE Fresh(held[t], text)
    <3>1. /\ lines'[Len(lines')].call = held[t].call /\ ~lines'[Len(lines')].ended
          /\ \A i \in DOMAIN lines : lines'[i] = lines[i]
          /\ DOMAIN lines' = DOMAIN lines \cup {Len(lines')}
      BY <2>1 DEF Fresh, LineOf
    <3>2. \A i \in DOMAIN lines : lines[i].ended
      BY <1>k, <1>t, <2>1 DEF Fresh, LastLine
    <3> QED
      BY <1>a, <1>k, <3>1, <3>2
  <2>2. CASE Joining
    BY <1>k, <1>t, <2>2 DEF Joining
  <2> QED
    BY <1>a, <2>1, <2>2
<1>1. ASSUME NEW t \in Threads, TakeNumber(t) PROVE KeptInv'
  <2>1. /\ held' = [held EXCEPT ![t] = [call |-> calls, seq |-> seq]] /\ held[t] = NoRecord
        /\ calls' = calls + 1 /\ UNCHANGED <<writer, lines, kept>>
    BY <1>1 DEF TakeNumber
  <2>2. /\ held'[t].call = calls /\ \A u \in Threads : u # t => held'[u] = held[u]
    BY <1>t, <2>1
  <2>3. writer # t
    BY <1>h, <2>1
  <2>4. /\ IsFiniteSet(kept') /\ \A c \in kept' : c < calls'
        /\ \A u \in Threads : held'[u] # NoRecord => held'[u].call < calls' /\ held'[u].call \notin kept'
    BY <1>h, <1>k, <1>t, <2>1, <2>2
  <2>5. \A u, v \in Threads :
           held'[u] # NoRecord /\ held'[v] # NoRecord /\ held'[u].call = held'[v].call => v = u
    BY <1>k, <1>h, <1>t, <2>2
  <2> QED
    BY <1>k, <1>h, <2>1, <2>2, <2>3, <2>4, <2>5 DEF KeptInv, LastLine
<1>2. ASSUME NEW t \in Threads, WriteText(t) PROVE KeptInv'
  <2>1. /\ held[t] # NoRecord /\ writer' = t /\ lines' = Appended(held[t], "whole")
        /\ UNCHANGED <<held, calls, kept>>
    BY <1>2 DEF WriteText
  <2>2. Fresh(held[t], "whole") \/ Joining
    BY <1>t, <2>1, AppendCases
  <2> QED
    BY <1>a, <1>k, <2>1, <2>2 DEF KeptInv, LastLine
\* Nobody is at work any more.
<1>3. ASSUME UNCHANGED <<calls, kept>>, writer' = NoThread,
             \A u \in Threads : held'[u] # NoRecord => held'[u] = held[u],
             \/ UNCHANGED lines
             \/ \E t \in Threads : held[t] # NoRecord /\ (Fresh(held[t], "broken") \/ Joining)
      PROVE  KeptInv'
  <2>1. \A i \in DOMAIN lines' : ~lines'[i].ended =>
           i = Len(lines') /\ (lines'[i].text = "whole" => lines'[i].call \notin kept)
    BY <1>a, <1>k, <1>3
  <2> QED
    BY <1>k, <1>3, <2>1 DEF KeptInv
<1>4. ASSUME NEW t \in Threads, WriteNewline(t) PROVE KeptInv'
  <2>1. /\ writer = t /\ writer' = NoThread /\ Idle(t) /\ kept' = kept \cup {held[t].call}
        /\ calls' = calls
    BY <1>4 DEF WriteNewline
  <2>2. /\ held[t] # NoRecord /\ held'[t] = NoRecord
        /\ \A u \in Threads : u # t => held'[u] = held[u]
    BY <1>h, <2>1, HeldFacts
  <2>3. \A i \in DOMAIN lines' : lines'[i].ended
    BY <1>k, <1>4, NewlineEnds
  <2>4. IsFiniteSet(kept')
    BY <1>k, <2>1, FS_AddElement
  <2>5. \A u \in Threads : held'[u] # NoRecord => held'[u] = held[u] /\ held[u].call # held[t].call
    BY <1>k, <2>2
  <2> QED
    BY <1>k, <2>1, <2>2, <2>3, <2>4, <2>5 DEF KeptInv
<1>5. ASSUME NEW t \in Threads, WriteFails(t) PROVE KeptInv'
  <2>1. /\ Idle(t) /\ writer' = NoThread /\ UNCHANGED <<calls, kept>> /\ held[t] # NoRecord
        /\ UNCHANGED lines \/ Fresh(held[t], "broken") \/ Joining
    BY <1>5, FailureCases
  <2>2. \A u \in Threads : held'[u] # NoRecord => held'[u] = held[u]
    BY <2>1, HeldFacts
  <2> QED
    BY <1>3, <2>1, <2>2
<1>6. CASE Crash
  <2>1. /\ UNCHANGED <<calls, kept, lines>> /\ writer' = NoThread
        /\ \A u \in Threads : held'[u] = NoRecord
    BY <1>6 DEF Crash
  <2> QED
    BY <1>3, <2>1
<1>7. CASE Open
  <2>1. UNCHANGED <<held, writer, lines, calls, kept>>
    BY <1>7 DEF Open
  <2> QED
    BY <2>1 DEF KeptInv, LastLine
<1> QED
  BY <1>1, <1>2, <1>4, <1>5, <1>6, <1>7 DEF AuditNext

LEMMA AtMostOneMore ==
    ASSUME NEW S, NEW x, IsFiniteSet(S)
    PROVE  IsFiniteSet(S \cup {x}) /\ Cardinality(S \cup {x}) <= Cardinality(S) + 1
<1>1. Cardinality(S) \in Nat
  BY FS_CardinalityType
<1> QED
  BY <1>1, FS_AddElement

LEMMA LossStep ==
    ASSUME ~CharCuts, Numbering, Numbering', KeptInv, LossInv, AuditNext PROVE LossInv'
<1> DEFINE lost == kept \ Readable
           owed == IF Owed THEN 1 ELSE 0
<1>t. /\ faults \in Nat /\ lines \in Seq(Line) /\ Len(lines) \in Nat
      /\ DOMAIN lines = 1..Len(lines) /\ AuditTypeOK
  BY DEF Numbering, AuditTypeOK
<1>r. /\ \A c : c \in Readable <=> \E i \in DOMAIN lines : lines[i].text = "whole" /\ lines[i].call = c
      /\ \A c : c \in Readable' <=>
            \E i \in DOMAIN lines' : lines'[i].text = "whole" /\ lines'[i].call = c
  BY DEF Numbering, NoCut, Readable, ReadBack, Decoded
<1>f. IsFiniteSet(lost) /\ Cardinality(lost) \in Nat /\ Cardinality(lost) + owed <= faults
  <2>1. IsFiniteSet(lost)
    BY FS_Subset DEF KeptInv
  <2> QED
    BY <2>1, FS_CardinalityType DEF LossInv
\* No more is lost than was; what is owed then is what matters.
<1>a. ASSUME UNCHANGED kept, lost' \subseteq lost,
             (faults' = faults /\ (Owed' => Owed)) \/ faults' = faults + 1
      PROVE  LossInv'
  <2>1. IsFiniteSet(lost') /\ Cardinality(lost') <= Cardinality(lost)
    BY <1>a, <1>f, FS_Subset
  <2>2. Cardinality(lost') \in Nat
    BY <2>1, FS_CardinalityType
  <2> HIDE DEF lost
  <2>3. owed' \in {0, 1} /\ owed \in {0, 1} /\ (faults' = faults => owed' <= owed)
    BY <1>a, <1>t
  <2>4. Cardinality(lost') + owed' <= faults'
    BY <1>a, <1>f, <1>t, <2>1, <2>2, <2>3
  <2> QED
    BY <2>4 DEF lost, LossInv
\* An append makes nothing unreadable that was reported kept.
<1>b. ASSUME NEW record, NEW text, Fresh(record, text) \/ Joining, UNCHANGED kept
      PROVE  lost' \subseteq lost
  <2>1. ASSUME NEW c \in kept, c \in Readable PROVE c \in Readable'
    <3>1. PICK i \in DOMAIN lines : lines[i].text = "whole" /\ lines[i].call = c
      BY <1>r, <2>1
    <3>2. lines[i].ended
      BY <2>1, <3>1 DEF KeptInv
    <3>3. i \in DOMAIN lines' /\ lines'[i] = lines[i]
      BY <1>b, <3>2 DEF Fresh, Joining, LastLine
    <3> QED
      BY <1>r, <3>1, <3>3
  <2> QED
    BY <1>b, <2>1
<1>1. CASE (\E t \in Threads : TakeNumber(t)) \/ Open
  <2>1. UNCHANGED <<lines, kept, writer, faults>>
    BY <1>1 DEF TakeNumber, Open
  <2>2. lost' = lost /\ Owed' = Owed
    BY <1>r, <2>1 DEF Owed, LastLine
  <2> QED
    BY <1>a, <2>1, <2>2
<1>2. ASSUME NEW t \in Threads, WriteText(t) PROVE LossInv'
  <2>1. /\ writer = NoThread /\ writer' = t /\ t # NoThread
        /\ lines' = Appended(held[t], "whole") /\ UNCHANGED <<kept, faults>>
    BY <1>2, HeldFacts DEF WriteText
  <2>2. Fresh(held[t], "whole") \/ Joining
    BY <1>t, <2>1, AppendCases
  <2>3. Owed' => Owed
    <3>1. Fresh(held[t], "whole") => LastLine'.text = "whole"
      BY DEF Fresh, LineOf, LastLine
    <3> QED
      BY <2>1, <2>2, <3>1 DEF Owed, Joining
  <2> QED
    BY <1>a, <1>b, <2>1, <2>2, <2>3
<1>3. ASSUME NEW t \in Threads, WriteNewline(t) PROVE LossInv'
  <2>1. writer = t /\ kept' = kept \cup {held[t].call} /\ faults' = faults /\ t # NoThread
    BY <1>3, HeldFacts DEF WriteNewline
  <2>2. /\ lines # <<>> /\ ~LastLine.ended
        /\ LastLine.text = "whole" => LastLine.call = held[t].call
    BY <1>3, <2>1, NewlineEnds DEF KeptInv
  <2>3. Readable' = Readable /\ ~Owed'
    <3>1. \A c : c \in Readable' <=> c \in Readable
      BY <1>3, <1>r, NewlineEnds
    <3>2. Readable' = Readable
      BY <3>1
    <3>3. ~Owed'
      BY <1>3, NewlineEnds DEF Owed, LastLine
    <3> QED
      BY <3>2, <3>3
  <2>4. CASE LastLine.text = "whole"
    <3>1. held[t].call \in Readable
      BY <1>3, <1>r, <2>2, <2>4, NewlineEnds DEF LastLine
    <3>2. lost' = lost
      BY <2>1, <2>3, <3>1
    <3> HIDE DEF lost
    <3>3. Cardinality(lost') + 0 <= faults'
      BY <1>f, <1>t, <2>1, <3>2
    <3> QED
      BY <2>3, <3>3 DEF lost, LossInv
  <2>5. CASE LastLine.text # "whole"
    <3>1. lost' \subseteq lost \cup {held[t].call}
      BY <2>1, <2>3
    <3>2. /\ IsFiniteSet(lost \cup {held[t].call})
          /\ Cardinality(lost \cup {held[t].call}) <= Cardinality(lost) + 1
      BY <1>f, AtMostOneMore
    <3>3. IsFiniteSet(lost') /\ Cardinality(lost') <= Cardinality(lost \cup {held[t].call})
      BY <3>1, <3>2, FS_Subset
    <3>4. Owed
      BY <2>2, <2>5 DEF Owed
    <3>5. /\ Cardinality(lost') \in Nat
          /\ Cardinality(lost \cup {held[t].call}) \in Nat
      BY <3>2, <3>3, FS_CardinalityType
    <3> HIDE DEF lost
    <3>6. Cardinality(lost') <= faults
      BY <1>f, <1>t, <3>2, <3>3, <3>4, <3>5
    <3>7. Cardinality(lost') + 0 <= faults'
      BY <1>t, <2>1, <3>5, <3>6
    <3> QED
      BY <2>3, <3>7 DEF lost, LossInv
  <2> QED
    BY <2>4, <2>5
<1>4. ASSUME NEW t \in Threads, WriteFails(t) PROVE LossInv'
  <2>1. /\ faults' = faults + 1 /\ UNCHANGED kept
        /\ UNCHANGED lines \/ Fresh(held[t], "broken") \/ Joining
    BY <1>4, FailureCases
  <2>2. UNCHANGED lines => lost' = lost
    BY <1>r, <2>1
  <2> QED
    BY <1>a, <1>b, <2>1, <2>2
<1>5. CASE Crash
  <2>1. faults' = faults + 1 /\ UNCHANGED <<kept, lines>>
    BY <1>5 DEF Crash
  <2>2. lost' = lost
    BY <1>r, <2>1
  <2> QED
    BY <1>a, <2>1, <2>2
<1> QED
  BY <1>1, <1>2, <1>3, <1>4, <1>5 DEF AuditNext

-----------------------------------------------------------------------------
\* How far the file is out of order.

LEMMA Finite ==
    ASSUME Numbering
    PROVE  /\ IsFiniteSet(Threads) /\ Cardinality(Threads) \in Nat
           /\ \A i : /\ IsFiniteSet(Overtaking(i)) /\ Cardinality(Overtaking(i)) \in Nat
                     /\ IsFiniteSet(Behind(i)) /\ Cardinality(Behind(i)) \in Nat
<1>1. IsFiniteSet(Threads) /\ IsFiniteSet(DOMAIN lines)
  <2>1. DOMAIN lines = 1..Len(lines) /\ Len(lines) \in Int
    BY DEF Numbering, AuditTypeOK
  <2>2. IsFiniteSet(1..Len(lines))
    BY <2>1, FS_Interval
  <2> QED
    BY <2>1, <2>2, AuditAssumption
<1>2. \A i : Overtaking(i) \subseteq DOMAIN lines /\ Behind(i) \subseteq Threads
  BY DEF Overtaking, Decoded, Behind
<1> QED
  BY <1>1, <1>2, FS_Subset, FS_CardinalityType

\* Nobody comes between, and nobody falls behind: the record keeps its place.
LEMMA PlaceKept ==
    ASSUME Numbering, Numbering', OrderInv, NEW i \in Decoded,
           Overtaking(i)' \subseteq Overtaking(i), Behind(i)' \subseteq Behind(i)
    PROVE  Cardinality(Overtaking(i)') + Cardinality(Behind(i)') < Cardinality(Threads)
<1> DEFINE a == Cardinality(Overtaking(i)) b == Cardinality(Behind(i))
           c == Cardinality(Overtaking(i)') d == Cardinality(Behind(i)')
<1>1. a \in Nat /\ b \in Nat /\ c <= a /\ d <= b /\ Cardinality(Threads) \in Nat
  BY Finite, FS_Subset
<1>2. c \in Nat /\ d \in Nat
  BY Finite, FS_Subset, FS_CardinalityType
<1>3. a + b < Cardinality(Threads)
  BY DEF OrderInv
<1> QED
  BY <1>1, <1>2, <1>3

LEMMA OrderStep ==
    ASSUME ~CharCuts, Numbering, Numbering', OrderInv, AuditNext PROVE OrderInv'
<1>t. /\ lines \in Seq(Line) /\ Len(lines) \in Nat /\ DOMAIN lines = 1..Len(lines)
      /\ AuditTypeOK /\ held \in [Threads -> Record \cup {NoRecord}]
  BY DEF Numbering, AuditTypeOK
<1>h. /\ \A t \in Threads : held[t] # NoRecord => held[t].seq \in Nat
      /\ NoThread \notin Threads
  BY HeldFacts
<1>s. \A i \in Decoded : lines[i].seq \in Nat
  <2>1. \A i \in DOMAIN lines : lines[i] \in Line
    BY <1>t
  <2> QED
    BY <2>1 DEF Decoded, Line
\* Lines stop decoding and threads drop what they hold, if anything.
<1>a. ASSUME \A i \in Decoded' : i \in Decoded /\ lines'[i].seq = lines[i].seq,
             \A u \in Threads : held'[u] # NoRecord /\ writer' # u =>
                 held'[u] = held[u] /\ writer # u
      PROVE  OrderInv'
  <2> SUFFICES ASSUME NEW i \in Decoded'
               PROVE  Cardinality(Overtaking(i)') + Cardinality(Behind(i)') < Cardinality(Threads)
    BY DEF OrderInv
  <2>1. Overtaking(i)' \subseteq Overtaking(i) /\ Behind(i)' \subseteq Behind(i)
    BY <1>a DEF Overtaking, Behind
  <2> QED
    BY <1>a, <2>1, PlaceKept
<1>1. ASSUME NEW t \in Threads, TakeNumber(t) PROVE OrderInv'
  <2>1. /\ held' = [held EXCEPT ![t] = [call |-> calls, seq |-> seq]] /\ up
        /\ UNCHANGED <<writer, lines>>
    BY <1>1 DEF TakeNumber
  <2>2. held'[t].seq = seq /\ \A u \in Threads : u # t => held'[u] = held[u]
    BY <1>t, <2>1
  <2> SUFFICES ASSUME NEW i \in Decoded'
               PROVE  Cardinality(Overtaking(i)') + Cardinality(Behind(i)') < Cardinality(Threads)
    BY DEF OrderInv
  <2>3. i \in Decoded /\ lines[i].seq < seq
    BY <2>1 DEF Decoded, Numbering, BelowCounter
  <2>4. seq \in Nat
    BY DEF Numbering, AuditTypeOK
  <2>5. Behind(i)' \subseteq Behind(i)
    BY <1>s, <2>1, <2>2, <2>3, <2>4 DEF Behind
  <2>6. Overtaking(i)' = Overtaking(i)
    BY <2>1 DEF Overtaking, Decoded
  <2> QED
    BY <2>3, <2>5, <2>6, PlaceKept
<1>2. ASSUME NEW t \in Threads, WriteText(t) PROVE OrderInv'
  <2>1. /\ writer = NoThread /\ writer' = t /\ held[t] # NoRecord /\ UNCHANGED held
        /\ lines' = Appended(held[t], "whole")
    BY <1>2 DEF WriteText
  <2>2. CASE Joining
    <3>1. \A i \in Decoded' : i \in Decoded /\ lines'[i].seq = lines[i].seq
      BY <2>2 DEF Joining, Decoded
    <3> QED
      BY <1>a, <1>h, <2>1, <3>1
  <2>3. CASE Fresh(held[t], "whole")
    <3> DEFINE k == Len(lines) + 1
    <3>1. /\ Decoded' = Decoded \cup {k} /\ k \notin Decoded
          /\ \A i \in Decoded : lines'[i] = lines[i] /\ i < k
          /\ lines'[k].seq = held[t].seq
      BY <1>t, <2>3 DEF Fresh, LineOf, Decoded
    <3> SUFFICES ASSUME NEW i \in Decoded'
                 PROVE  Cardinality(Overtaking(i)') + Cardinality(Behind(i)') < Cardinality(Threads)
      BY DEF OrderInv
    <3>2. CASE i = k
      <4>1. Overtaking(i)' = {}
        <5>1. \A j \in Decoded' : j \in Nat /\ j <= k
          BY <1>t, <3>1 DEF Decoded
        <5> HIDE DEF k
        <5> QED
          BY <3>2, <5>1 DEF Overtaking
      <4>2. Behind(i)' \subseteq Threads \ {t}
        BY <2>1 DEF Behind
      <4>r. IsFiniteSet(Threads \ {t}) /\ Cardinality(Threads \ {t}) = Cardinality(Threads) - 1
        BY Finite, FS_RemoveElement
      <4>3. Cardinality(Behind(i)') <= Cardinality(Threads) - 1
        BY <4>2, <4>r, FS_Subset
      <4>4. Cardinality(Behind(i)') \in Nat
        BY <4>2, <4>r, FS_Subset, FS_CardinalityType
      <4>5. Cardinality(Overtaking(i)') = 0
        BY <4>1, FS_EmptySet
      <4> QED
        BY <4>3, <4>4, <4>5, Finite
    <3>3. CASE i \in Decoded /\ ~(held[t].seq < lines[i].seq)
      <4>1. Overtaking(i)' \subseteq Overtaking(i)
        BY <3>1, <3>3 DEF Overtaking
      <4>2. Behind(i)' \subseteq Behind(i)
        BY <1>h, <2>1, <3>1, <3>3 DEF Behind
      <4> QED
        BY <3>3, <4>1, <4>2, PlaceKept
    <3>4. CASE i \in Decoded /\ held[t].seq < lines[i].seq
      <4>1. Overtaking(i)' \subseteq Overtaking(i) \cup {k}
        BY <3>1, <3>4 DEF Overtaking
      <4>2. t \in Behind(i) /\ Behind(i)' \subseteq Behind(i) \ {t}
        BY <1>h, <2>1, <3>1, <3>4 DEF Behind
      <4> DEFINE o == Overtaking(i) b == Behind(i) p == Overtaking(i)' q == Behind(i)'
      <4>3. /\ IsFiniteSet(o) /\ Cardinality(o) \in Nat /\ IsFiniteSet(b) /\ Cardinality(b) \in Nat
            /\ Cardinality(Threads) \in Nat /\ Cardinality(o) + Cardinality(b) < Cardinality(Threads)
        BY <3>4, Finite DEF OrderInv
      <4>s. p \subseteq o \cup {k} /\ t \in b /\ q \subseteq b \ {t}
        BY <4>1, <4>2
      <4> HIDE DEF o, b, p, q, k
      <4>4. IsFiniteSet(o \cup {k}) /\ Cardinality(o \cup {k}) <= Cardinality(o) + 1
        BY <4>3, AtMostOneMore
      <4>5. IsFiniteSet(b \ {t}) /\ Cardinality(b \ {t}) = Cardinality(b) - 1
        BY <4>3, <4>s, FS_RemoveElement
      <4>6. /\ Cardinality(p) <= Cardinality(o \cup {k}) /\ Cardinality(p) \in Nat
            /\ Cardinality(o \cup {k}) \in Nat
        BY <4>4, <4>s, FS_Subset, FS_CardinalityType
      <4>7. Cardinality(q) <= Cardinality(b) - 1 /\ Cardinality(q) \in Nat
        BY <4>5, <4>s, FS_Subset, FS_CardinalityType
      <4>8. Cardinality(p) + Cardinality(q) < Cardinality(Threads)
        BY <4>3, <4>4, <4>6, <4>7
      <4> QED
        BY <4>8 DEF p, q
    <3> QED
      BY <3>1, <3>2, <3>3, <3>4
  <2> QED
    BY <1>t, <2>1, <2>2, <2>3, AppendCases
<1>3. ASSUME NEW t \in Threads, WriteNewline(t) PROVE OrderInv'
  <2>1. writer = t /\ Idle(t)
    BY <1>3 DEF WriteNewline
  <2>2. \A i \in Decoded' : i \in Decoded /\ lines'[i].seq = lines[i].seq
    BY <1>3, NewlineEnds DEF Decoded
  <2> QED
    BY <1>a, <2>1, <2>2, HeldFacts
<1>4. ASSUME NEW t \in Threads, WriteFails(t) PROVE OrderInv'
  <2>1. Idle(t) /\ (UNCHANGED lines \/ Fresh(held[t], "broken") \/ Joining)
    BY <1>4, FailureCases
  <2>2. writer \in {NoThread, t}
    BY <1>4 DEF WriteFails
  <2>3. \A i \in Decoded' : i \in Decoded /\ lines'[i].seq = lines[i].seq
    BY <1>t, <2>1 DEF Decoded, Fresh, LineOf, Joining
  <2> QED
    BY <1>a, <1>h, <2>1, <2>2, <2>3, HeldFacts
<1>5. CASE Crash
  <2>1. UNCHANGED lines /\ \A u \in Threads : held'[u] = NoRecord
    BY <1>5 DEF Crash
  <2> QED
    BY <1>a, <2>1 DEF Decoded
<1>6. CASE Open
  <2>1. UNCHANGED <<lines, held, writer>>
    BY <1>6 DEF Open
  <2> QED
    BY <1>a, <2>1 DEF Decoded
<1> QED
  BY <1>1, <1>2, <1>3, <1>4, <1>5, <1>6 DEF AuditNext

-----------------------------------------------------------------------------
\* No two records on file share a number: reopening the file after a restart
\* produces no duplicates (JsonlAuditLog::open), unless a failed write has left
\* a file that is not UTF-8.
THEOREM UniqueNumbers ==
    ASSUME ~CharCuts
    PROVE  AuditSpec => []NumbersAreUnique
<1>1. Numbering /\ [AuditNext]_auditVars => Numbering'
  <2>1. CASE UNCHANGED auditVars
    BY <2>1 DEF auditVars, Numbering, AuditTypeOK, NumbersAreUnique, BelowCounter,
                HeldApart, WriterInv, NoCut, Decoded
  <2> QED
    BY <2>1, NumberingStep
<1>2. Numbering => NumbersAreUnique
  BY DEF Numbering
<1> QED
  BY NumberingInit, <1>1, <1>2, PTL DEF AuditSpec

\* What was reported kept is read back, but for one record per failed write or
\* crash, and a record is overtaken on its way into the file by fewer others
\* than there are threads (JsonlAuditLog::record, records and open), unless a
\* failed write has left a file that is not UTF-8.
THEOREM FileIsFaithful ==
    ASSUME ~CharCuts
    PROVE  AuditSpec => []FileKeepsTheRecord
<1> DEFINE Inv == Numbering /\ KeptInv /\ LossInv /\ OrderInv
<1>1. AuditInit => Inv
  <2> SUFFICES ASSUME AuditInit PROVE Inv
    OBVIOUS
  <2>1. /\ lines = <<>> /\ kept = {} /\ faults = 0 /\ writer = NoThread
        /\ \A t \in Threads : held[t] = NoRecord
    BY DEF AuditInit
  <2>2. DOMAIN lines = {} /\ Decoded = {}
    BY <2>1 DEF Decoded
  <2>3. KeptInv
    BY <2>1, <2>2, FS_EmptySet DEF KeptInv
  <2>4. LossInv
    <3>1. kept \ Readable = {}
      BY <2>1
    <3> QED
      BY <2>1, <3>1, FS_EmptySet DEF LossInv, Owed
  <2>5. OrderInv
    BY <2>2 DEF OrderInv
  <2> QED
    BY <2>3, <2>4, <2>5, NumberingInit
<1>2. Inv /\ [AuditNext]_auditVars => Inv'
  <2> SUFFICES ASSUME Inv, [AuditNext]_auditVars PROVE Inv'
    OBVIOUS
  <2>1. CASE AuditNext
    BY <2>1, NumberingStep, KeptStep, LossStep, OrderStep
  <2>2. CASE UNCHANGED auditVars
    <3>1. Numbering'
      BY <2>2 DEF auditVars, Numbering, AuditTypeOK, NumbersAreUnique, BelowCounter, HeldApart,
                  WriterInv, NoCut, Decoded
    <3>2. KeptInv' /\ LossInv' /\ OrderInv'
      BY <2>2 DEF auditVars, KeptInv, LossInv, OrderInv, LastLine, Owed, Readable, ReadBack,
                  Decoded, Overtaking, Behind
    <3> QED
      BY <3>1, <3>2
  <2> QED
    BY <2>1, <2>2
<1>3. Inv => FileKeepsTheRecord
  <2> SUFFICES ASSUME Inv PROVE FileKeepsTheRecord
    OBVIOUS
  <2>1. LossIsBounded
    <3>1. IsFiniteSet(kept \ Readable) /\ faults \in Nat
      BY FS_Subset DEF KeptInv, Numbering, AuditTypeOK
    <3>2. Cardinality(kept \ Readable) \in Nat
      BY <3>1, FS_CardinalityType
    <3> QED
      BY <3>1, <3>2 DEF LossInv, LossIsBounded
  <2>2. FileNearlyInOrder
    <3>1. \A i \in Decoded : /\ Cardinality(Overtaking(i)) \in Nat /\ Cardinality(Behind(i)) \in Nat
                             /\ Cardinality(Overtaking(i)) + Cardinality(Behind(i)) < Cardinality(Threads)
      BY Finite DEF OrderInv
    <3>2. Cardinality(Threads) \in Nat
      BY Finite
    <3> QED
      BY <3>1, <3>2 DEF FileNearlyInOrder
  <2> QED
    BY <2>1, <2>2 DEF FileKeepsTheRecord
<1> QED
  <2> HIDE DEF Inv
  <2> QED
    BY <1>1, <1>2, <1>3, PTL DEF AuditSpec
=============================================================================
