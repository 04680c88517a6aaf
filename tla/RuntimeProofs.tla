---------------------------- MODULE RuntimeProofs ----------------------------
(***************************************************************************)
(* What the runtime promises its clients.                                  *)
(*                                                                         *)
(* A subscriber of the event stream, while publications do not overlap,    *)
(* for any number of publishers, clients and events and any capacity of    *)
(* the channel: the log and the broadcast are numbered without gaps, and a *)
(* client has everything up to its frontier, the larger of what was        *)
(* replayed and what it has received, but for what the channel had dropped *)
(* by then.                                                                *)
(*                                                                         *)
(* An approver, for any number of sessions, runs, deciders and requests: a *)
(* run thread holds the request it raised, a waiter is there only until    *)
(* the first decision, and no approval is in a channel or on its way that  *)
(* was not that decision.                                                  *)
(***************************************************************************)
EXTENDS EventStream, AgentSessions, SequenceTheorems, TLAPS

\* The log and the broadcast, between and inside the statements of publish.
Numbered(envelopes) == \A i \in 1..Len(envelopes) : envelopes[i].seq = i - 1
LogInv ==
    /\ \A p, q \in Publishers : ~Idle(p) /\ ~Idle(q) => p = q
    /\ Numbered(history) /\ Numbered(sent)
    /\ Quiet => Len(history) = nextSeq /\ Len(sent) = nextSeq
    /\ \A p \in Publishers : ~Idle(p) =>
          /\ pub[p].envelope.seq = nextSeq - 1 /\ Len(sent) = nextSeq - 1
          /\ Len(history) = IF pub[p].at = "send" THEN nextSeq ELSE nextSeq - 1

Frontier(c) == IF c.replayed >= c.next - 2 THEN c.replayed ELSE c.next - 2
Ordered(c) == /\ Increasing(c.got)
              /\ \A k \in 1..Len(c.got) : c.got[k] <= Frontier(c)
Complete(c) == \A i \in 0..Frontier(c) :
                  ~c.lagged \/ i >= Len(sent) - Capacity => \E k \in 1..Len(c.got) : c.got[k] = i
ClientInv(c) ==
    /\ c.next <= Len(sent) + 1
    /\ c.at # "away" => c.next >= 1
    /\ c.at # "live" => c.got = <<>>
    /\ c.at = "live" => c.replayed < Len(history) /\ Ordered(c) /\ Complete(c)

StreamInv == /\ StreamTypeOK
             /\ ~overlapped => LogInv /\ \A s \in Subscribers : ClientInv(client[s])

-----------------------------------------------------------------------------
\* What a sequence of envelopes is numbered by.
LEMMA SeqsFacts ==
    ASSUME NEW es \in Seq(Envelopes)
    PROVE  /\ Seqs(es) \in Seq(Nat) /\ Len(Seqs(es)) = Len(es)
           /\ \A i \in 1..Len(es) : Seqs(es)[i] = es[i].seq
<1>1. es \in [1..Len(es) -> Envelopes] /\ Len(es) \in Nat /\ DOMAIN es = 1..Len(es)
  BY LenProperties
<1>2. Seqs(es) = [i \in 1..Len(es) |-> es[i].seq]
  BY <1>1 DEF Seqs
<1>3. \A i \in 1..Len(es) : es[i].seq \in Nat
  BY <1>1 DEF Envelopes
<1> QED
  BY <1>1, <1>2, <1>3, IsASeq, LenProperties

\* Lengths in every state of the log.
LEMMA LogFacts ==
    ASSUME StreamTypeOK, LogInv
    PROVE  /\ Len(history) \in Nat /\ Len(sent) \in Nat /\ nextSeq \in Nat
           /\ Len(sent) <= Len(history) /\ Len(history) <= nextSeq
<1>1. history \in Seq(Envelopes) /\ sent \in Seq(Envelopes) /\ nextSeq \in Nat
  BY DEF StreamTypeOK, HandleTypeOK
<1>2. CASE Quiet
  BY <1>1, <1>2 DEF LogInv
<1>3. CASE ~Quiet
  BY <1>1, <1>3 DEF LogInv, Quiet
<1> QED
  BY <1>2, <1>3

-----------------------------------------------------------------------------
\* Publishing.

LEMMA TypeOfPublish ==
    ASSUME StreamTypeOK, NEW p \in Publishers, Publish(p), UNCHANGED client
    PROVE  StreamTypeOK'
<1>1. CASE TakeSeq(p, "NodeStarted")
  <2> DEFINE e == [seq |-> nextSeq, event |-> "NodeStarted"]
  <2>1. e \in Envelopes
    BY DEF StreamTypeOK, HandleTypeOK, Envelopes, RunEvents
  <2>2. pub' = [pub EXCEPT ![p] = [at |-> "apply", envelope |-> e]]
    BY <1>1 DEF TakeSeq
  <2> HIDE DEF e
  <2>3. pub' \in [Publishers -> Publication]
    BY <2>1, <2>2 DEF StreamTypeOK, HandleTypeOK, Publication
  <2>4. overlapped' \in BOOLEAN
    BY <1>1 DEF TakeSeq, Overlaps
  <2> QED
    BY <1>1, <2>3, <2>4 DEF TakeSeq, StreamTypeOK, HandleTypeOK, stateVars
<1>2. ASSUME ~Idle(p) PROVE pub[p].envelope \in Envelopes
  BY <1>2 DEF Idle, StreamTypeOK, HandleTypeOK, Publication
<1>3. CASE Apply(p)
  <2>1. pub[p].envelope \in Envelopes
    BY <1>2, <1>3 DEF Apply, Idle
  <2>2. status' \in RunStatus
    BY <1>3 DEF Apply, StatusAfter, StreamTypeOK, HandleTypeOK, RunStatus, TerminalStatus
  <2>3. counted' \in Nat /\ stamped' \in BOOLEAN
    BY <1>3 DEF Apply, StreamTypeOK, HandleTypeOK
  <2>4. pub' \in [Publishers -> Publication]
    BY <1>3, <2>1 DEF Apply, StreamTypeOK, HandleTypeOK, Publication
  <2> QED
    BY <1>3, <2>2, <2>3, <2>4 DEF Apply, StreamTypeOK, HandleTypeOK
<1>4. CASE PushHistory(p)
  <2>1. pub[p].envelope \in Envelopes
    BY <1>2, <1>4 DEF PushHistory, Idle
  <2>2. pub' \in [Publishers -> Publication]
    BY <1>4, <2>1 DEF PushHistory, StreamTypeOK, HandleTypeOK, Publication
  <2>3. history' \in Seq(Envelopes)
    BY <1>4, <2>1 DEF PushHistory, StreamTypeOK, HandleTypeOK
  <2> QED
    BY <1>4, <2>2, <2>3 DEF PushHistory, StreamTypeOK, HandleTypeOK, stateVars
<1>5. CASE Broadcast(p)
  <2>1. pub[p].envelope \in Envelopes
    BY <1>2, <1>5 DEF Broadcast, Idle
  <2>2. pub' \in [Publishers -> Publication]
    BY <1>5 DEF Broadcast, StreamTypeOK, HandleTypeOK, Publication
  <2>3. sent' \in Seq(Envelopes)
    BY <1>5, <2>1 DEF Broadcast, StreamTypeOK, HandleTypeOK
  <2> QED
    BY <1>5, <2>2, <2>3 DEF Broadcast, StreamTypeOK, HandleTypeOK, stateVars
<1> QED
  BY <1>1, <1>3, <1>4, <1>5 DEF Publish

\* One envelope more.
LEMMA NumberedAppend ==
    ASSUME NEW es \in Seq(Envelopes), NEW e \in Envelopes, Numbered(es), e.seq = Len(es)
    PROVE  Numbered(Append(es, e)) /\ Len(Append(es, e)) = Len(es) + 1
<1>1. /\ Len(Append(es, e)) = Len(es) + 1 /\ Len(es) \in Nat
      /\ \A i \in 1..Len(es) : Append(es, e)[i] = es[i]
      /\ Append(es, e)[Len(es) + 1] = e
  BY AppendProperties, LenProperties
<1> QED
  BY <1>1 DEF Numbered

LEMMA LogOfPublish ==
    ASSUME StreamTypeOK, LogInv, NEW p \in Publishers, Publish(p), ~overlapped'
    PROVE  /\ LogInv' /\ Len(sent) <= Len(sent') /\ Len(history) <= Len(history')
           /\ Len(sent') \in Nat /\ Len(history') \in Nat
<1>1. /\ pub \in [Publishers -> Publication] /\ nextSeq \in Nat
      /\ history \in Seq(Envelopes) /\ sent \in Seq(Envelopes)
      /\ Len(history) \in Nat /\ Len(sent) \in Nat
  BY DEF StreamTypeOK, HandleTypeOK
<1>2. ASSUME ~Idle(p) PROVE pub[p].envelope \in Envelopes
  BY <1>2 DEF Idle, StreamTypeOK, HandleTypeOK, Publication
<1>3. CASE TakeSeq(p, "NodeStarted")
  <2>1. Quiet
    BY <1>3 DEF TakeSeq, Overlaps, Quiet
  <2>2. /\ ~Idle(p)' /\ pub'[p].envelope.seq = nextSeq /\ pub'[p].at = "apply"
        /\ \A q \in Publishers \ {p} : Idle(q)'
    BY <1>1, <1>3, <2>1 DEF TakeSeq, Quiet, Idle
  <2>3. UNCHANGED <<history, sent>> /\ nextSeq' = nextSeq + 1
    BY <1>3 DEF TakeSeq
  <2> QED
    BY <1>1, <2>1, <2>2, <2>3 DEF LogInv, Quiet
<1>4. CASE Apply(p)
  <2>1. /\ ~Idle(p) /\ ~Idle(p)' /\ pub'[p].envelope = pub[p].envelope
        /\ pub[p].at = "apply" /\ pub'[p].at = "push"
        /\ \A q \in Publishers \ {p} : pub'[q] = pub[q]
    BY <1>1, <1>4 DEF Apply, Idle
  <2>2. UNCHANGED <<history, sent, nextSeq>>
    BY <1>4 DEF Apply
  <2> QED
    BY <1>1, <2>1, <2>2 DEF LogInv, Quiet, Idle
<1>5. CASE PushHistory(p)
  <2>1. /\ ~Idle(p) /\ ~Idle(p)' /\ pub'[p].envelope = pub[p].envelope
        /\ pub[p].at = "push" /\ pub'[p].at = "send"
        /\ \A q \in Publishers \ {p} : pub'[q] = pub[q]
    BY <1>1, <1>5 DEF PushHistory, Idle
  <2>2. UNCHANGED <<sent, nextSeq>> /\ history' = Append(history, pub[p].envelope)
    BY <1>5 DEF PushHistory
  <2>3. pub[p].envelope.seq = Len(history) /\ Len(history) = nextSeq - 1
    BY <2>1 DEF LogInv
  <2>4. Numbered(history)' /\ Len(history') = Len(history) + 1
    BY <1>1, <1>2, <2>1, <2>2, <2>3, NumberedAppend DEF LogInv
  <2>5. \A q \in Publishers : ~Idle(q)' => q = p
    BY <2>1 DEF LogInv, Idle
  <2>6. Len(history') = nextSeq /\ Len(sent) = nextSeq - 1 /\ pub'[p].envelope.seq = nextSeq - 1
    BY <1>1, <2>1, <2>3, <2>4 DEF LogInv
  <2>7. Numbered(sent)'
    BY <2>2 DEF LogInv
  <2> QED
    BY <1>1, <2>1, <2>2, <2>3, <2>4, <2>5, <2>6, <2>7 DEF LogInv, Quiet
<1>6. CASE Broadcast(p)
  <2>1. /\ ~Idle(p) /\ pub[p].at = "send" /\ Idle(p)'
        /\ \A q \in Publishers \ {p} : pub'[q] = pub[q]
    BY <1>1, <1>6 DEF Broadcast, Idle
  <2>2. UNCHANGED <<history, nextSeq>> /\ sent' = Append(sent, pub[p].envelope)
    BY <1>6 DEF Broadcast
  <2>3. pub[p].envelope.seq = Len(sent) /\ Len(sent) = nextSeq - 1 /\ Len(history) = nextSeq
    BY <2>1 DEF LogInv
  <2>4. Numbered(sent)' /\ Len(sent') = Len(sent) + 1
    BY <1>1, <1>2, <2>1, <2>2, <2>3, NumberedAppend DEF LogInv
  <2>5. \A q \in Publishers : Idle(q)'
    BY <2>1 DEF LogInv, Idle
  <2> QED
    BY <1>1, <2>2, <2>3, <2>4, <2>5 DEF LogInv, Quiet
<1> QED
  BY <1>3, <1>4, <1>5, <1>6 DEF Publish

\* A longer log takes nothing from a client.
LEMMA ClientsOfPublish ==
    ASSUME StreamAssumption, NEW c \in Pump, ClientInv(c), NEW n \in Nat, NEW h \in Nat,
           sent' \in Seq(Envelopes), Len(sent) \in Nat, Len(history) \in Nat,
           Len(sent') = n, Len(history') = h, Len(sent) <= n, Len(history) <= h
    PROVE  /\ c.next <= n + 1
           /\ c.at # "away" => c.next >= 1
           /\ c.at # "live" => c.got = <<>>
           /\ c.at = "live" => /\ c.replayed < h /\ Ordered(c)
                               /\ \A i \in 0..Frontier(c) :
                                    ~c.lagged \/ i >= n - Capacity =>
                                       \E k \in 1..Len(c.got) : c.got[k] = i
<1>1. c.next \in Nat /\ c.replayed \in Nat \cup {-1} /\ Capacity \in Nat
  BY DEF Pump, StreamAssumption
<1>2. Frontier(c) \in Int
  BY <1>1 DEF Frontier
<1> QED
  BY <1>1, <1>2 DEF ClientInv, Complete

-----------------------------------------------------------------------------
\* Subscribing.

\* The client's next state, by what it does.
LEMMA TypeOfClient ==
    ASSUME StreamAssumption, StreamTypeOK, NEW s \in Subscribers,
           Attach(s) \/ Replay(s) \/ Receive(s), UNCHANGED handleVars
    PROVE  /\ StreamTypeOK' /\ client'[s] \in Pump
           /\ \A t \in Subscribers \ {s} : client'[t] = client[t]
<1> DEFINE c == client[s]
<1>1. /\ client \in [Subscribers -> Pump] /\ c \in Pump
      /\ history \in Seq(Envelopes) /\ sent \in Seq(Envelopes) /\ Len(sent) \in Nat
      /\ Capacity \in Nat
  BY DEF StreamTypeOK, HandleTypeOK, StreamAssumption
<1>2. ASSUME NEW d \in Pump, client' = [client EXCEPT ![s] = d]
      PROVE  /\ StreamTypeOK' /\ client'[s] \in Pump
             /\ \A t \in Subscribers \ {s} : client'[t] = client[t]
  BY <1>1, <1>2 DEF StreamTypeOK, HandleTypeOK, handleVars, stateVars
<1>3. CASE Attach(s)
  <2> DEFINE n == Len(sent) + 1
             d == [c EXCEPT !.at = "attached", !.next = n]
  <2>1. n \in Nat
    BY <1>1
  <2>2. client' = [client EXCEPT ![s] = d]
    BY <1>1, <1>3 DEF Attach
  <2> HIDE DEF n
  <2>3. d \in Pump
    BY <1>1, <2>1 DEF Pump
  <2> QED
    BY <1>2, <2>2, <2>3
<1>4. CASE Replay(s)
  <2> DEFINE last == IF history = <<>> THEN -1 ELSE Last(history).seq
             d == [c EXCEPT !.at = "live", !.got = Seqs(history), !.replayed = last]
  <2>1. last \in Nat \cup {-1}
    <3>1. CASE history # <<>>
      <4>1. Len(history) \in 1..Len(history)
        BY <1>1, <3>1, EmptySeq
      <4>2. history[Len(history)] \in Envelopes
        BY <1>1, <4>1, ElementOfSeq
      <4> QED
        BY <3>1, <4>2 DEF Last, Envelopes
    <3> QED
      BY <3>1
  <2>2. client' = [client EXCEPT ![s] = d]
    BY <1>1, <1>4 DEF Replay
  <2>3. Seqs(history) \in Seq(Nat)
    BY <1>1, SeqsFacts
  <2> HIDE DEF last
  <2>4. d \in Pump
    BY <1>1, <2>1, <2>3 DEF Pump
  <2> QED
    BY <1>2, <2>2, <2>4
<1>5. CASE Receive(s)
  <2>1. CASE c.next < Len(sent) - Capacity + 1
    <3> DEFINE oldest == Len(sent) - Capacity + 1
               d == [c EXCEPT !.next = oldest, !.lagged = TRUE]
    <3>1. oldest \in Nat
      BY <1>1, <2>1 DEF Pump
    <3>2. client' = [client EXCEPT ![s] = d]
      BY <1>1, <1>5, <2>1 DEF Receive
    <3> HIDE DEF oldest
    <3>3. d \in Pump
      BY <1>1, <3>1 DEF Pump
    <3> QED
      BY <1>2, <3>2, <3>3
  <2>2. CASE ~(c.next < Len(sent) - Capacity + 1)
    <3> DEFINE seq == sent[c.next].seq
               got == IF seq <= c.replayed THEN c.got ELSE Append(c.got, seq)
               n == c.next + 1
               d == [c EXCEPT !.next = n, !.got = got]
    <3>1. got \in Seq(Nat)
      <4>1. CASE ~(seq <= c.replayed)
        <5>1. seq \in Nat
          BY <1>1, <1>5, <2>2, <4>1 DEF Receive, Envelopes, Pump, StreamAssumption
        <5> QED
          BY <1>1, <4>1, <5>1 DEF Pump
      <4>2. CASE seq <= c.replayed
        BY <1>1, <4>2 DEF Pump
      <4> QED
        BY <4>1, <4>2
    <3>2. client' = [client EXCEPT ![s] = d]
      BY <1>1, <1>5, <2>2 DEF Receive
    <3>3. n \in Nat
      BY <1>1 DEF Pump
    <3> HIDE DEF got, n
    <3>4. d \in Pump
      BY <1>1, <3>1, <3>3 DEF Pump
    <3> QED
      BY <1>2, <3>2, <3>4
  <2> QED
    BY <2>1, <2>2
<1> QED
  BY <1>3, <1>4, <1>5

\* Frontier, completeness and order survive each step of a client.
LEMMA InvOfReplay ==
    ASSUME StreamAssumption, StreamTypeOK, LogInv, NEW s \in Subscribers,
           ClientInv(client[s]), Replay(s), UNCHANGED handleVars
    PROVE  ClientInv(client[s])'
<1> DEFINE c == client[s]
           d == client'[s]
<1>1. /\ client \in [Subscribers -> Pump] /\ c \in Pump
      /\ history \in Seq(Envelopes) /\ sent \in Seq(Envelopes) /\ nextSeq \in Nat
      /\ Len(sent) \in Nat /\ Len(history) \in Nat /\ Capacity \in Nat
  BY DEF StreamTypeOK, HandleTypeOK, StreamAssumption
<1>2. /\ d.at = "live" /\ d.next = c.next /\ d.got = Seqs(history)
      /\ d.replayed = IF history = <<>> THEN -1 ELSE Last(history).seq
      /\ c.at = "attached"
  BY <1>1 DEF Replay, Pump
<1>3. /\ Len(d.got) = Len(history)
      /\ \A i \in 1..Len(history) : d.got[i] = i - 1
  BY <1>1, <1>2, SeqsFacts DEF LogInv, Numbered
<1>4. d.replayed = Len(history) - 1
  <2>1. CASE history = <<>>
    BY <1>2, <2>1
  <2>2. CASE history # <<>>
    <3>1. Len(history) \in 1..Len(history)
      BY <1>1, <2>2, EmptySeq
    <3> QED
      BY <1>2, <2>2, <3>1 DEF LogInv, Numbered, Last
  <2> QED
    BY <2>1, <2>2
<1>5. d.next >= 1 /\ d.next <= Len(sent) + 1 /\ d.next \in Nat
  BY <1>1, <1>2 DEF ClientInv, Pump
<1>6. Frontier(d) = Len(history) - 1
  <2>1. Len(sent) <= Len(history)
    BY LogFacts
  <2> QED
    BY <1>1, <1>4, <1>5, <2>1 DEF Frontier
<1>7. Ordered(d)
  BY <1>1, <1>3, <1>6 DEF Ordered, Increasing
<1>8. \A i \in 0..Frontier(d) : \E k \in 1..Len(d.got) : d.got[k] = i
  <2> SUFFICES ASSUME NEW i \in 0..Frontier(d) PROVE \E k \in 1..Len(d.got) : d.got[k] = i
    OBVIOUS
  <2>1. i + 1 \in 1..Len(d.got) /\ d.got[i + 1] = i
    BY <1>1, <1>3, <1>6
  <2> QED
    BY <2>1
<1>9. UNCHANGED <<sent, history>>
  BY DEF handleVars
<1> HIDE DEF d
<1>10. /\ d.next <= Len(sent) + 1 /\ d.next >= 1 /\ d.at = "live"
       /\ d.replayed < Len(history) /\ Ordered(d)
  BY <1>1, <1>2, <1>4, <1>5, <1>7
<1> QED
  BY <1>8, <1>9, <1>10 DEF ClientInv, Complete, d

LEMMA InvOfReceive ==
    ASSUME StreamAssumption, StreamTypeOK, LogInv, NEW s \in Subscribers,
           ClientInv(client[s]), Receive(s), UNCHANGED handleVars
    PROVE  ClientInv(client[s])'
<1> DEFINE c == client[s]
           d == client'[s]
           n == Len(sent)
<1>1. /\ client \in [Subscribers -> Pump] /\ c \in Pump
      /\ sent \in Seq(Envelopes) /\ n \in Nat /\ Capacity \in Nat \ {0}
      /\ c.next \in Nat /\ c.replayed \in Nat \cup {-1} /\ c.got \in Seq(Nat)
      /\ Len(c.got) \in Nat /\ Len(history) \in Nat
  BY DEF StreamTypeOK, HandleTypeOK, StreamAssumption, Pump
<1>2. /\ c.at = "live" /\ c.next >= 1 /\ c.next <= n /\ c.replayed < Len(history)
      /\ Ordered(c) /\ Complete(c)
  BY <1>1 DEF Receive, ClientInv
<1>3. UNCHANGED <<sent, history>> /\ d.at = "live" /\ d.replayed = c.replayed
  BY <1>1, <1>2 DEF handleVars, Receive, Pump
<1>4. Frontier(c) \in Int /\ c.replayed <= Frontier(c) /\ c.next - 2 <= Frontier(c)
  BY <1>1 DEF Frontier
<1>5. sent[c.next].seq = c.next - 1
  BY <1>1, <1>2 DEF LogInv, Numbered
<1>6. CASE c.next < n - Capacity + 1
  <2>1. d.next = n - Capacity + 1 /\ d.got = c.got /\ d.lagged = TRUE
    BY <1>1, <1>6 DEF Receive, Pump
  <2>2. /\ Frontier(d) \in Int /\ Frontier(c) <= Frontier(d)
        /\ Frontier(d) = Frontier(c) \/ Frontier(d) = n - Capacity - 1
    BY <1>1, <1>3, <1>6, <2>1 DEF Frontier
  <2>3. Ordered(d)
    BY <1>1, <1>2, <1>4, <2>1, <2>2 DEF Ordered
  <2>4. Complete(d)
    <3> SUFFICES ASSUME NEW i \in 0..Frontier(d), i >= n - Capacity
                 PROVE  \E k \in 1..Len(d.got) : d.got[k] = i
      BY <2>1 DEF Complete
    <3> HIDE DEF c, d, n
    <3>1. i \in 0..Frontier(c)
      BY <1>1, <1>4, <2>2
    <3>2. \E k \in 1..Len(c.got) : c.got[k] = i
      BY <1>2, <3>1 DEF Complete, n
    <3> QED
      BY <2>1, <3>2
  <2>5. d.next <= n + 1 /\ d.next >= 1
    BY <1>1, <1>2, <1>6, <2>1
  <2> HIDE DEF d, c
  <2> QED
    BY <1>2, <1>3, <2>3, <2>4, <2>5 DEF ClientInv, Complete, d
<1>7. CASE c.next >= n - Capacity + 1 /\ c.next - 1 <= c.replayed
  <2>1. d.next = c.next + 1 /\ d.got = c.got /\ d.lagged = c.lagged
    BY <1>1, <1>5, <1>7 DEF Receive, Pump
  <2>2. Frontier(d) = Frontier(c)
    BY <1>1, <1>3, <1>7, <2>1 DEF Frontier
  <2>3. Ordered(d) /\ Complete(d)
    BY <1>2, <2>1, <2>2 DEF Ordered, Complete
  <2>4. d.next <= n + 1 /\ d.next >= 1
    BY <1>1, <1>2, <2>1
  <2> HIDE DEF d, c
  <2> QED
    BY <1>2, <1>3, <2>3, <2>4 DEF ClientInv, Complete, d
<1>8. CASE c.next >= n - Capacity + 1 /\ ~(c.next - 1 <= c.replayed)
  <2>1. d.next = c.next + 1 /\ d.got = Append(c.got, c.next - 1) /\ d.lagged = c.lagged
    BY <1>1, <1>5, <1>8 DEF Receive, Pump
  <2>2. Frontier(d) = c.next - 1 /\ Frontier(c) = c.next - 2
    <3> HIDE DEF c, d, n
    <3>1. c.replayed \in Int /\ c.replayed < c.next - 1
      BY <1>1, <1>8
    <3> QED
      BY <1>1, <1>3, <2>1, <3>1 DEF Frontier
  <2>3. /\ Len(d.got) = Len(c.got) + 1 /\ d.got[Len(c.got) + 1] = c.next - 1
        /\ \A k \in 1..Len(c.got) : d.got[k] = c.got[k]
    <3>1. c.next - 1 \in Nat
      BY <1>1, <1>2
    <3> QED
      BY <1>1, <2>1, <3>1, AppendProperties
  <2>4. \A k \in 1..Len(c.got) : c.got[k] \in Nat /\ c.got[k] <= c.next - 2
    BY <1>1, <1>2, <2>2, ElementOfSeq DEF Ordered
  <2>5. Ordered(d)
    <3> HIDE DEF c, d, n
    <3>0. Len(c.got) \in Nat /\ c.next \in Nat
      BY <1>1
    <3>1. \A k \in 1..(Len(c.got) - 1) : c.got[k] < c.got[k + 1]
      BY <1>2 DEF Ordered, Increasing
    <3>2. \A k \in 1..(Len(d.got) - 1) : d.got[k] < d.got[k + 1]
      <4> SUFFICES ASSUME NEW k \in 1..Len(c.got) PROVE d.got[k] < d.got[k + 1]
        BY <1>1, <2>3
      <4>1. CASE k = Len(c.got)
        <5>1. d.got[k] = c.got[k] /\ d.got[k + 1] = c.next - 1
          BY <2>3, <4>1
        <5>2. c.got[k] \in Nat /\ c.got[k] <= c.next - 2
          BY <2>4
        <5> QED
          BY <3>0, <5>1, <5>2
      <4>2. CASE k # Len(c.got)
        <5>1. k \in 1..(Len(c.got) - 1) /\ k + 1 \in 1..Len(c.got)
          BY <3>0, <4>2
        <5> QED
          BY <2>3, <3>1, <5>1
      <4> QED
        BY <4>1, <4>2
    <3>3. \A k \in 1..Len(d.got) : d.got[k] <= c.next - 1
      <4> SUFFICES ASSUME NEW k \in 1..(Len(c.got) + 1) PROVE d.got[k] <= c.next - 1
        BY <2>3
      <4>1. CASE k = Len(c.got) + 1
        BY <2>3, <3>0, <4>1
      <4>2. CASE k \in 1..Len(c.got)
        <5>1. d.got[k] = c.got[k]
          BY <2>3, <4>2
        <5>2. c.got[k] \in Nat /\ c.got[k] <= c.next - 2
          BY <2>4, <4>2
        <5> QED
          BY <3>0, <5>1, <5>2
      <4> QED
        BY <3>0, <4>1, <4>2
    <3> QED
      BY <2>2, <3>2, <3>3 DEF Ordered, Increasing
  <2>6. Complete(d)
    <3> SUFFICES ASSUME NEW i \in 0..Frontier(d), ~d.lagged \/ i >= n - Capacity
                 PROVE  \E k \in 1..Len(d.got) : d.got[k] = i
      BY DEF Complete
    <3>1. CASE i = c.next - 1
      BY <1>1, <2>3, <3>1
    <3>2. CASE i # c.next - 1
      <4>1. i \in 0..Frontier(c)
        BY <1>1, <2>2, <3>2
      <4>2. PICK k \in 1..Len(c.got) : c.got[k] = i
        BY <1>2, <2>1, <4>1 DEF Complete
      <4> HIDE DEF c, d, n
      <4>3. k \in 1..Len(d.got) /\ d.got[k] = i
        BY <1>1, <2>3, <4>2
      <4> QED
        BY <4>3
    <3> QED
      BY <3>1, <3>2
  <2>7. d.next <= n + 1 /\ d.next >= 1
    BY <1>1, <1>2, <2>1
  <2> HIDE DEF d, c
  <2> QED
    BY <1>2, <1>3, <2>5, <2>6, <2>7 DEF ClientInv, Complete, d
<1> QED
  BY <1>1, <1>6, <1>7, <1>8

LEMMA InvOfAttach ==
    ASSUME StreamTypeOK, NEW s \in Subscribers, ClientInv(client[s]), Attach(s),
           UNCHANGED handleVars
    PROVE  ClientInv(client[s])'
<1> DEFINE c == client[s]
           d == client'[s]
<1>1. client \in [Subscribers -> Pump] /\ c \in Pump /\ Len(sent) \in Nat
  BY DEF StreamTypeOK, HandleTypeOK
<1>2. d.at = "attached" /\ d.next = Len(sent) + 1 /\ d.got = c.got /\ c.at = "away"
  BY <1>1 DEF Attach, Pump
<1>3. UNCHANGED sent
  BY DEF handleVars
<1> QED
  BY <1>1, <1>2, <1>3 DEF ClientInv

-----------------------------------------------------------------------------
THEOREM StreamInvariant == StreamSpec => []StreamInv
<1>1. StreamInit => StreamInv
  <2> SUFFICES ASSUME StreamInit PROVE StreamInv
    OBVIOUS
  <2>1. HandleTypeOK
    BY EmptySeq DEF StreamInit, HandleInit, HandleTypeOK, RunStatus, Publication
  <2>2. client \in [Subscribers -> Pump]
    BY DEF StreamInit, Pump
  <2>3. LogInv
    BY DEF StreamInit, HandleInit, LogInv, Idle, Quiet, Numbered
  <2>4. \A s \in Subscribers : ClientInv(client[s])
    BY DEF StreamInit, HandleInit, ClientInv
  <2> QED
    BY <2>1, <2>2, <2>3, <2>4 DEF StreamInv, StreamTypeOK
<1>2. StreamInv /\ [StreamNext]_streamVars => StreamInv'
  <2> SUFFICES ASSUME StreamInv, [StreamNext]_streamVars PROVE StreamInv'
    OBVIOUS
  <2>1. ASSUME NEW p \in Publishers, Publish(p), UNCHANGED client PROVE StreamInv'
    <3>1. StreamTypeOK /\ StreamTypeOK'
      BY <2>1, TypeOfPublish DEF StreamInv
    <3>2. ASSUME ~overlapped' PROVE LogInv' /\ \A s \in Subscribers : ClientInv(client[s])'
      <4>1. ~overlapped
        BY <2>1, <3>2 DEF Publish, TakeSeq, Overlaps, Apply, PushHistory, Broadcast
      <4>2. /\ LogInv' /\ Len(sent) <= Len(sent') /\ Len(history) <= Len(history')
            /\ Len(sent') \in Nat /\ Len(history') \in Nat
        BY <2>1, <3>1, <3>2, <4>1, LogOfPublish DEF StreamInv
      <4>3. Len(sent) \in Nat /\ Len(history) \in Nat /\ sent' \in Seq(Envelopes)
        BY <3>1 DEF StreamTypeOK, HandleTypeOK
      <4>4. ASSUME NEW s \in Subscribers PROVE ClientInv(client[s])'
        <5> DEFINE c == client[s]
        <5>1. c \in Pump /\ ClientInv(c)
          BY <3>1, <4>1 DEF StreamInv, StreamTypeOK
        <5>2. client' = client
          BY <2>1
        <5> HIDE DEF c
        <5>3. /\ c.next <= Len(sent') + 1
              /\ c.at # "away" => c.next >= 1
              /\ c.at # "live" => c.got = <<>>
              /\ c.at = "live" => /\ c.replayed < Len(history') /\ Ordered(c)
                                  /\ \A i \in 0..Frontier(c) :
                                       ~c.lagged \/ i >= Len(sent') - Capacity =>
                                          \E k \in 1..Len(c.got) : c.got[k] = i
          BY <4>2, <4>3, <5>1, ClientsOfPublish, StreamAssumption
        <5> QED
          BY <5>2, <5>3 DEF ClientInv, Complete, c
      <4> QED
        BY <4>2, <4>4
    <3> QED
      BY <3>1, <3>2 DEF StreamInv
  <2>2. ASSUME NEW s \in Subscribers, Attach(s) \/ Replay(s) \/ Receive(s),
               UNCHANGED handleVars
        PROVE  StreamInv'
    <3>1. /\ StreamTypeOK /\ StreamTypeOK'
          /\ \A t \in Subscribers \ {s} : client'[t] = client[t]
      BY <2>2, TypeOfClient, StreamAssumption DEF StreamInv
    <3>2. ASSUME ~overlapped PROVE LogInv' /\ \A t \in Subscribers : ClientInv(client[t])'
      <4>1. LogInv'
        BY <2>2, <3>2 DEF StreamInv, LogInv, Idle, Quiet, Numbered, handleVars
      <4>2. ClientInv(client[s])'
        BY <2>2, <3>1, <3>2, InvOfAttach, InvOfReplay, InvOfReceive, StreamAssumption
           DEF StreamInv
      <4>3. ASSUME NEW t \in Subscribers \ {s} PROVE ClientInv(client[t])'
        BY <2>2, <3>1, <3>2 DEF StreamInv, ClientInv, Complete, Ordered, handleVars
      <4> QED
        BY <4>1, <4>2, <4>3
    <3>3. overlapped' = overlapped
      BY <2>2 DEF handleVars
    <3> QED
      BY <3>1, <3>2, <3>3 DEF StreamInv
  <2>3. CASE UNCHANGED streamVars
    <3>1. client' = client /\ overlapped' = overlapped
      BY <2>3 DEF streamVars, handleVars
    <3>2. StreamTypeOK => StreamTypeOK'
      BY <2>3 DEF StreamTypeOK, HandleTypeOK, streamVars, handleVars, stateVars
    <3>3. LogInv => LogInv'
      BY <2>3 DEF LogInv, Idle, Quiet, Numbered, streamVars, handleVars, stateVars
    <3>4. ASSUME NEW s \in Subscribers, ClientInv(client[s]) PROVE ClientInv(client[s])'
      BY <2>3, <3>4 DEF ClientInv, Ordered, Complete, streamVars, handleVars, stateVars
    <3> QED
      BY <3>1, <3>2, <3>3, <3>4 DEF StreamInv
  <2> QED
    BY <2>1, <2>2, <2>3 DEF StreamNext
<1> QED
  BY <1>1, <1>2, PTL DEF StreamSpec

\* A client that has caught up: everything is behind its frontier.
LEMMA CaughtUpFacts ==
    ASSUME StreamAssumption, StreamInv, ~overlapped, NEW s \in Subscribers, CaughtUp(s)
    PROVE  /\ Frontier(client[s]) = nextSeq - 1 /\ Complete(client[s]) /\ Ordered(client[s])
           /\ Len(history) = nextSeq /\ Len(sent) = nextSeq /\ nextSeq \in Nat
           /\ client[s].got \in Seq(Nat)
<1> DEFINE c == client[s]
<1>1. c.next \in Nat /\ c.replayed \in Nat \cup {-1} /\ c.got \in Seq(Nat) /\ nextSeq \in Nat
  BY DEF StreamInv, StreamTypeOK, HandleTypeOK, Pump
<1>2. Len(history) = nextSeq /\ Len(sent) = nextSeq
  BY DEF StreamInv, LogInv, CaughtUp
<1>3. /\ ClientInv(c) /\ c.at = "live" /\ c.next > Len(sent)
  BY DEF StreamInv, CaughtUp
<1>4. c.next = nextSeq + 1 /\ c.replayed < nextSeq /\ Complete(c) /\ Ordered(c)
  BY <1>1, <1>2, <1>3 DEF ClientInv
<1> QED
  BY <1>1, <1>2, <1>4 DEF Frontier

\* While publications do not overlap, a subscriber that never lagged misses
\* nothing of the log (runs.rs:151-170, api.rs:629-661).
THEOREM NothingIsMissed == StreamSpec => []StreamMatchesLog
<1>1. StreamInv => StreamMatchesLog
  <2> SUFFICES ASSUME StreamInv, ~overlapped, NEW s \in Subscribers, CaughtUp(s),
                      ~client[s].lagged
               PROVE  ToSet(client[s].got) = ToSet(Seqs(history))
    BY DEF StreamMatchesLog, NothingMissed
  <2> DEFINE got == client[s].got
  <2>1. /\ Frontier(client[s]) = nextSeq - 1 /\ Complete(client[s]) /\ Ordered(client[s])
        /\ Len(history) = nextSeq /\ nextSeq \in Nat /\ got \in Seq(Nat)
    BY CaughtUpFacts, StreamAssumption
  <2>2. history \in Seq(Envelopes) /\ Numbered(history)
    BY DEF StreamInv, StreamTypeOK, HandleTypeOK, LogInv
  <2>3. /\ Seqs(history) \in Seq(Nat) /\ Len(Seqs(history)) = nextSeq
        /\ \A i \in 1..nextSeq : Seqs(history)[i] = i - 1
    BY <2>1, <2>2, SeqsFacts DEF Numbered
  <2>4. ToSet(Seqs(history)) = 0..(nextSeq - 1)
    <3>1. DOMAIN Seqs(history) = 1..nextSeq
      BY <2>3, LenProperties
    <3>2. \A i \in 0..(nextSeq - 1) : i + 1 \in 1..nextSeq /\ Seqs(history)[i + 1] = i
      BY <2>1, <2>3
    <3>3. \A i \in 1..nextSeq : Seqs(history)[i] \in 0..(nextSeq - 1)
      BY <2>1, <2>3
    <3> QED
      BY <3>1, <3>2, <3>3 DEF ToSet
  <2>5. DOMAIN got = 1..Len(got) /\ \A k \in 1..Len(got) : got[k] \in Nat
    BY <2>1, LenProperties, ElementOfSeq
  <2>6. \A k \in 1..Len(got) : got[k] \in 0..(nextSeq - 1)
    BY <2>1, <2>5 DEF Ordered
  <2>7. \A i \in 0..(nextSeq - 1) : \E k \in 1..Len(got) : got[k] = i
    BY <2>1 DEF Complete
  <2> QED
    BY <2>4, <2>5, <2>6, <2>7 DEF ToSet
<1> QED
  BY <1>1, StreamInvariant, PTL

\* What a slow subscriber gets is in order, without repetition, and complete but
\* for what the channel dropped (runs.rs:151-170, api.rs:629-661).
THEOREM StreamIsConsistent == StreamSpec => []StreamConsistent
<1>1. StreamInv => SeqsIncrease
  <2> SUFFICES ASSUME StreamInv, ~overlapped
               PROVE  Increasing(Seqs(history)) /\ \A s \in Subscribers : Increasing(client[s].got)
    BY DEF SeqsIncrease
  <2>1. history \in Seq(Envelopes) /\ Numbered(history) /\ Len(history) \in Nat
    BY DEF StreamInv, StreamTypeOK, HandleTypeOK, LogInv
  <2>2. Increasing(Seqs(history))
    <3>1. /\ Len(Seqs(history)) = Len(history)
          /\ \A i \in 1..Len(history) : Seqs(history)[i] = i - 1
      BY <2>1, SeqsFacts DEF Numbered
    <3> QED
      BY <2>1, <3>1 DEF Increasing
  <2>3. ASSUME NEW s \in Subscribers PROVE Increasing(client[s].got)
    BY DEF StreamInv, ClientInv, Ordered, Increasing
  <2> QED
    BY <2>2, <2>3
<1>2. StreamInv => LagDropsOnlyOldest
  <2> SUFFICES ASSUME StreamInv, ~overlapped, NEW s \in Subscribers, CaughtUp(s),
                      NEW i \in 0..(nextSeq - 1), i >= nextSeq - Capacity
               PROVE  i \in ToSet(client[s].got)
    BY DEF LagDropsOnlyOldest
  <2>1. /\ Frontier(client[s]) = nextSeq - 1 /\ Complete(client[s]) /\ Len(sent) = nextSeq
        /\ client[s].got \in Seq(Nat)
    BY CaughtUpFacts, StreamAssumption
  <2>2. PICK k \in 1..Len(client[s].got) : client[s].got[k] = i
    BY <2>1 DEF Complete
  <2>3. k \in DOMAIN client[s].got
    BY <2>1, <2>2, LenProperties
  <2> QED
    BY <2>2, <2>3 DEF ToSet
<1>3. StreamInv => StreamConsistent
  BY <1>1, <1>2 DEF StreamInv, StreamConsistent
<1> QED
  BY <1>3, StreamInvariant, PTL

-----------------------------------------------------------------------------
\* Approvals.

Holds(r) == thread[r].at \in {"waiting", "leaving"}

\* The request a run thread waits for is its own.
HoldInv == \A r \in Runs :
              Holds(r) => thread[r].id \in Ids /\ requests[thread[r].id].run = r

\* Nothing is decided of a request before it is raised, nor while it has a waiter.
FirstInv ==
    /\ Len(requests) <= MaxRequests
    /\ \A i \in IdBound : i \notin Ids \/ i \in waiters => first[i] = "None"
    /\ \A d \in Deciders : decider[d].at = "sending" =>
                              decider[d].id \in Ids /\ decider[d].decision \in Decisions

\* An approval on its way or in a channel is the first decision.
AnswerInv ==
    /\ \A i \in IdBound : channel[i] = "Approved" => first[i] = "Approved"
    /\ \A d \in Deciders :
          decider[d].at = "sending" /\ decider[d].decision = "Approved" =>
              first[decider[d].id] = "Approved"

SessionsInv == /\ SessionsTypeOK /\ HoldInv /\ FirstInv /\ AnswerInv
               /\ ToldFirstDecision /\ NoWaiterLeak
               /\ BlockedIsAnswerable /\ BlockedShowsAwaiting

RequestRecord == [session : Sessions, run : Runs, decision : Decisions \cup {"None"}]
SessionRecord == [status : SessionStatus, run : Runs \cup {NoRun}]

-----------------------------------------------------------------------------
\* One session's status replaced.
LEMMA StatusSet ==
    ASSUME session \in [Sessions -> SessionRecord], NEW s \in Sessions,
           NEW given \in SessionStatus
    PROVE  [session EXCEPT ![s].status = given] \in [Sessions -> SessionRecord]
  BY DEF SessionRecord

\* The types.
LEMMA TypeStep ==
    ASSUME SessionsAssumption, SessionsTypeOK, HoldInv, FirstInv, SessionsNext
    PROVE  SessionsTypeOK'
<1>1. ASSUME NEW s \in Sessions, NEW r \in Runs, AttachRun(s, r) PROVE SessionsTypeOK'
  <2>1. session' \in [Sessions -> SessionRecord]
    BY <1>1, SessionsAssumption DEF AttachRun, SessionsTypeOK, SessionRecord,
         SessionStatus
  <2> QED
    BY <1>1, <2>1 DEF AttachRun, Overrule, SessionRecord, SessionsTypeOK, Threads, Ids,
         historyVars
<1>2. ASSUME NEW r \in Runs, StartUnowned(r) PROVE SessionsTypeOK'
  BY <1>2 DEF StartUnowned, SessionsTypeOK, Threads, Ids, storeVars, historyVars
<1>3. ASSUME NEW s \in Sessions, NEW valid \in BOOLEAN, SetPlan(s, valid)
      PROVE SessionsTypeOK'
  <2>1. session' \in [Sessions -> SessionRecord]
    BY <1>3, StatusSet DEF SetPlan, SessionsTypeOK, SessionRecord, SessionStatus
  <2> QED
    BY <1>3, <2>1 DEF SetPlan, SessionRecord, SessionsTypeOK, Threads, Ids, historyVars
<1>4. ASSUME NEW s \in Sessions, NEW given \in SessionStatus, SetStatus(s, given)
      PROVE SessionsTypeOK'
  <2>1. session' \in [Sessions -> SessionRecord]
    BY <1>4, StatusSet DEF SetStatus, SessionsTypeOK, SessionRecord
  <2> QED
    BY <1>4, <2>1 DEF SetStatus, Overrule, SessionRecord, SessionsTypeOK, Threads, Ids,
         historyVars
<1>5. ASSUME NEW r \in Runs, Raise(r) PROVE SessionsTypeOK'
  <2>1. PICK s \in Sessions :
          /\ requests' = Append(requests, [session |-> s, run |-> r, decision |-> "None"])
          /\ session' = [session EXCEPT ![s].status = "AwaitingApproval"]
    BY <1>5 DEF Raise, Owners
  <2>2. session' \in [Sessions -> SessionRecord]
    BY <2>1, StatusSet DEF SessionsTypeOK, SessionRecord, SessionStatus
  <2> DEFINE request == [session |-> s, run |-> r, decision |-> "None"]
  <2>3. request \in RequestRecord /\ requests \in Seq(RequestRecord)
    BY <2>1 DEF RequestRecord, SessionsTypeOK
  <2> HIDE DEF request
  <2>4. Append(requests, request) \in Seq(RequestRecord)
        /\ Len(Append(requests, request)) = Len(requests) + 1
    BY <2>3
  <2>5. requests' \in Seq(RequestRecord) /\ Len(requests') = Len(requests) + 1
    BY <2>1, <2>4 DEF request
  <2>6. Len(requests) \in Nat
    BY <2>3
  <2>7. waiters' \in SUBSET Ids' /\ thread' \in [Runs -> Threads]
    BY <1>5, <2>5, <2>6 DEF Raise, SessionsTypeOK, Ids, Threads
  <2> QED
    BY <1>5, <2>2, <2>5, <2>7 DEF Raise, SessionsTypeOK, SessionRecord, RequestRecord,
         historyVars
<1>6. ASSUME NEW r \in Runs, RefuseUnowned(r) PROVE SessionsTypeOK'
  BY <1>6 DEF RefuseUnowned, SessionsTypeOK, Ids, storeVars
<1>7. ASSUME NEW r \in Runs, ReceiveDecision(r) PROVE SessionsTypeOK'
  BY <1>7 DEF ReceiveDecision, Leave, SessionsTypeOK, Threads, Ids, IdBound, HoldInv,
       Holds, FirstInv
<1>8. ASSUME NEW r \in Runs, Timeout(r) PROVE SessionsTypeOK'
  BY <1>8 DEF Timeout, Leave, SessionsTypeOK, Threads, Ids, Decisions
<1>9. ASSUME NEW r \in Runs, ResumeRun(r) PROVE SessionsTypeOK'
  BY <1>9 DEF ResumeRun, SessionsTypeOK, Threads, Ids, historyVars
<1>10. ASSUME NEW d \in Deciders, NEW id \in Ids, NEW decision \in Decisions,
              Decide(d, id, decision)
       PROVE SessionsTypeOK'
  <2>1. id \in 1..Len(requests) /\ requests \in Seq(RequestRecord)
    BY <1>10 DEF SessionsTypeOK, Ids, RequestRecord
  <2>2. requests[id] \in RequestRecord
    BY <2>1, ElementOfSeq
  <2>3. requests[id].session \in Sessions
    BY <2>2 DEF RequestRecord
  <2>4. AfterDecision(requests[id].session, id) \in SessionStatus
    BY <2>3 DEF AfterDecision, SessionsTypeOK, SessionStatus
  <2>5. session' \in [Sessions -> SessionRecord]
    BY <1>10, <2>3, <2>4, StatusSet DEF Decide, SessionsTypeOK, SessionRecord
  <2> DEFINE request == [requests[id] EXCEPT !.decision = decision]
  <2>6. request \in RequestRecord
    BY <1>10, <2>2 DEF RequestRecord
  <2>7. requests' = [requests EXCEPT ![id] = request]
    BY <1>10 DEF Decide
  <2> HIDE DEF request
  <2>8. requests' \in Seq(RequestRecord) /\ Len(requests') = Len(requests)
    BY <2>1, <2>6, <2>7, ExceptSeq
  <2>9. waiters' \in SUBSET Ids'
    BY <1>10, <2>8 DEF Decide, SessionsTypeOK, Ids
  <2>10. decider' \in [Deciders -> [at : {"free"}]
                            \cup [at : {"sending"}, id : Nat, decision : Decisions]]
    BY <1>10, <2>1 DEF Decide, SessionsTypeOK
  <2>11. first' \in [IdBound -> Decisions \cup {"None"}]
    BY <1>10, <2>1 DEF Decide, SessionsTypeOK, FirstInv, IdBound
  <2> QED
    BY <1>10, <2>5, <2>8, <2>9, <2>10, <2>11
       DEF Decide, SessionsTypeOK, SessionRecord, RequestRecord
<1>11. ASSUME NEW d \in Deciders, SendDecision(d) PROVE SessionsTypeOK'
  BY <1>11 DEF SendDecision, SessionsTypeOK, Ids, historyVars
<1> QED
  BY <1>1, <1>2, <1>3, <1>4, <1>5, <1>6, <1>7, <1>8, <1>9, <1>10, <1>11
       DEF SessionsNext, Api, RunThread

\* A thread's request stays its own.
LEMMA HoldStep ==
    ASSUME SessionsAssumption, SessionsTypeOK, HoldInv, SessionsNext
    PROVE  HoldInv'
<1>1. ASSUME NEW s \in Sessions, NEW r \in Runs, AttachRun(s, r) PROVE HoldInv'
  BY <1>1 DEF AttachRun, HoldInv, Holds, Ids
<1>2. ASSUME NEW r \in Runs, StartUnowned(r) PROVE HoldInv'
  BY <1>2 DEF StartUnowned, HoldInv, Holds, Ids, storeVars
<1>3. ASSUME NEW s \in Sessions, NEW valid \in BOOLEAN, SetPlan(s, valid) PROVE HoldInv'
  BY <1>3 DEF SetPlan, HoldInv, Holds, Ids
<1>4. ASSUME NEW s \in Sessions, NEW given \in SessionStatus, SetStatus(s, given)
      PROVE HoldInv'
  BY <1>4 DEF SetStatus, HoldInv, Holds, Ids
<1>5. ASSUME NEW r \in Runs, Raise(r) PROVE HoldInv'
  BY <1>5 DEF Raise, HoldInv, Holds, Ids
<1>6. ASSUME NEW r \in Runs, RefuseUnowned(r) PROVE HoldInv'
  BY <1>6 DEF RefuseUnowned, HoldInv, Holds, Ids, storeVars
<1>7. ASSUME NEW r \in Runs, ReceiveDecision(r) PROVE HoldInv'
  BY <1>7 DEF ReceiveDecision, Leave, HoldInv, Holds, Ids
<1>8. ASSUME NEW r \in Runs, Timeout(r) PROVE HoldInv'
  BY <1>8 DEF Timeout, Leave, HoldInv, Holds, Ids
<1>9. ASSUME NEW r \in Runs, ResumeRun(r) PROVE HoldInv'
  BY <1>9 DEF ResumeRun, HoldInv, Holds, Ids
<1>10. ASSUME NEW d \in Deciders, NEW id \in Ids, NEW decision \in Decisions,
              Decide(d, id, decision)
       PROVE HoldInv'
  BY <1>10 DEF Decide, HoldInv, Holds, Ids
<1>11. ASSUME NEW d \in Deciders, SendDecision(d) PROVE HoldInv'
  BY <1>11 DEF SendDecision, HoldInv, Holds, Ids
<1> QED
  BY <1>1, <1>2, <1>3, <1>4, <1>5, <1>6, <1>7, <1>8, <1>9, <1>10, <1>11
       DEF SessionsNext, Api, RunThread

\* The first decision ends the wait in the map.
LEMMA FirstStep ==
    ASSUME SessionsAssumption, SessionsTypeOK, HoldInv, FirstInv, SessionsNext
    PROVE  FirstInv'
<1>1. ASSUME NEW s \in Sessions, NEW r \in Runs, AttachRun(s, r) PROVE FirstInv'
  BY <1>1 DEF AttachRun, FirstInv, Ids
<1>2. ASSUME NEW r \in Runs, StartUnowned(r) PROVE FirstInv'
  BY <1>2 DEF StartUnowned, FirstInv, Ids, storeVars, historyVars
<1>3. ASSUME NEW s \in Sessions, NEW valid \in BOOLEAN, SetPlan(s, valid)
      PROVE FirstInv'
  BY <1>3 DEF SetPlan, FirstInv, Ids, historyVars
<1>4. ASSUME NEW s \in Sessions, NEW given \in SessionStatus, SetStatus(s, given)
      PROVE FirstInv'
  BY <1>4 DEF SetStatus, FirstInv, Ids
<1>5. ASSUME NEW r \in Runs, Raise(r) PROVE FirstInv'
  BY <1>5 DEF Raise, FirstInv, Ids, historyVars
<1>6. ASSUME NEW r \in Runs, RefuseUnowned(r) PROVE FirstInv'
  BY <1>6 DEF RefuseUnowned, FirstInv, Ids, storeVars
<1>7. ASSUME NEW r \in Runs, ReceiveDecision(r) PROVE FirstInv'
  BY <1>7 DEF ReceiveDecision, Leave, FirstInv, Ids
<1>8. ASSUME NEW r \in Runs, Timeout(r) PROVE FirstInv'
  BY <1>8 DEF Timeout, Leave, FirstInv, Ids
<1>9. ASSUME NEW r \in Runs, ResumeRun(r) PROVE FirstInv'
  BY <1>9 DEF ResumeRun, FirstInv, Ids, historyVars
<1>10. ASSUME NEW d \in Deciders, NEW id \in Ids, NEW decision \in Decisions,
              Decide(d, id, decision)
       PROVE FirstInv'
  BY <1>10 DEF Decide, FirstInv, Ids
<1>11. ASSUME NEW d \in Deciders, SendDecision(d) PROVE FirstInv'
  BY <1>11 DEF SendDecision, FirstInv, Ids, historyVars
<1> QED
  BY <1>1, <1>2, <1>3, <1>4, <1>5, <1>6, <1>7, <1>8, <1>9, <1>10, <1>11
       DEF SessionsNext, Api, RunThread

\* What is sent, and what is told.
LEMMA AnswerStep ==
    ASSUME SessionsAssumption, SessionsTypeOK, HoldInv, FirstInv, AnswerInv,
           ToldFirstDecision, SessionsNext
    PROVE  (AnswerInv /\ ToldFirstDecision)'
<1>1. ASSUME NEW s \in Sessions, NEW r \in Runs, AttachRun(s, r)
      PROVE (AnswerInv /\ ToldFirstDecision)'
  BY <1>1 DEF AttachRun, AnswerInv, ToldFirstDecision
<1>2. ASSUME NEW r \in Runs, StartUnowned(r) PROVE (AnswerInv /\ ToldFirstDecision)'
  BY <1>2 DEF StartUnowned, AnswerInv, ToldFirstDecision, storeVars, historyVars
<1>3. ASSUME NEW s \in Sessions, NEW valid \in BOOLEAN, SetPlan(s, valid)
      PROVE (AnswerInv /\ ToldFirstDecision)'
  BY <1>3 DEF SetPlan, AnswerInv, ToldFirstDecision, historyVars
<1>4. ASSUME NEW s \in Sessions, NEW given \in SessionStatus, SetStatus(s, given)
      PROVE (AnswerInv /\ ToldFirstDecision)'
  BY <1>4 DEF SetStatus, AnswerInv, ToldFirstDecision
<1>5. ASSUME NEW r \in Runs, Raise(r) PROVE (AnswerInv /\ ToldFirstDecision)'
  BY <1>5 DEF Raise, AnswerInv, ToldFirstDecision, historyVars
<1>6. ASSUME NEW r \in Runs, RefuseUnowned(r) PROVE (AnswerInv /\ ToldFirstDecision)'
  BY <1>6 DEF RefuseUnowned, AnswerInv, ToldFirstDecision, storeVars
<1>7. ASSUME NEW r \in Runs, ReceiveDecision(r) PROVE (AnswerInv /\ ToldFirstDecision)'
  BY <1>7 DEF ReceiveDecision, Leave, AnswerInv, ToldFirstDecision
<1>8. ASSUME NEW r \in Runs, Timeout(r) PROVE (AnswerInv /\ ToldFirstDecision)'
  BY <1>8 DEF Timeout, Leave, AnswerInv, ToldFirstDecision
<1>9. ASSUME NEW r \in Runs, ResumeRun(r) PROVE (AnswerInv /\ ToldFirstDecision)'
  BY <1>9 DEF ResumeRun, AnswerInv, ToldFirstDecision, historyVars
<1>10. ASSUME NEW d \in Deciders, NEW id \in Ids, NEW decision \in Decisions,
              Decide(d, id, decision)
       PROVE (AnswerInv /\ ToldFirstDecision)'
  BY <1>10 DEF Decide, SessionsTypeOK, FirstInv, AnswerInv, ToldFirstDecision, Ids,
       IdBound
<1>11. ASSUME NEW d \in Deciders, SendDecision(d)
       PROVE (AnswerInv /\ ToldFirstDecision)'
  BY <1>11 DEF SendDecision, AnswerInv, ToldFirstDecision, historyVars
<1> QED
  BY <1>1, <1>2, <1>3, <1>4, <1>5, <1>6, <1>7, <1>8, <1>9, <1>10, <1>11
       DEF SessionsNext, Api, RunThread

\* A waiter goes with its run.
LEMMA WaiterStep ==
    ASSUME SessionsAssumption, SessionsTypeOK, HoldInv, NoWaiterLeak, SessionsNext
    PROVE  NoWaiterLeak'
<1>1. ASSUME NEW s \in Sessions, NEW r \in Runs, AttachRun(s, r) PROVE NoWaiterLeak'
  BY <1>1 DEF AttachRun, NoWaiterLeak
<1>2. ASSUME NEW r \in Runs, StartUnowned(r) PROVE NoWaiterLeak'
  BY <1>2 DEF StartUnowned, NoWaiterLeak, storeVars
<1>3. ASSUME NEW s \in Sessions, NEW valid \in BOOLEAN, SetPlan(s, valid)
      PROVE NoWaiterLeak'
  BY <1>3 DEF SetPlan, NoWaiterLeak
<1>4. ASSUME NEW s \in Sessions, NEW given \in SessionStatus, SetStatus(s, given)
      PROVE NoWaiterLeak'
  BY <1>4 DEF SetStatus, NoWaiterLeak
<1>5. ASSUME NEW r \in Runs, Raise(r) PROVE NoWaiterLeak'
  BY <1>5 DEF Raise, SessionsTypeOK, NoWaiterLeak
<1>6. ASSUME NEW r \in Runs, RefuseUnowned(r) PROVE NoWaiterLeak'
  BY <1>6 DEF RefuseUnowned, NoWaiterLeak, storeVars
<1>7. ASSUME NEW r \in Runs, ReceiveDecision(r) PROVE NoWaiterLeak'
  BY <1>7 DEF ReceiveDecision, Leave, NoWaiterLeak
<1>8. ASSUME NEW r \in Runs, Timeout(r) PROVE NoWaiterLeak'
  BY <1>8 DEF Timeout, Leave, NoWaiterLeak
<1>9. ASSUME NEW r \in Runs, ResumeRun(r) PROVE NoWaiterLeak'
  BY <1>9 DEF ResumeRun, NoWaiterLeak
<1>10. ASSUME NEW d \in Deciders, NEW id \in Ids, NEW decision \in Decisions,
              Decide(d, id, decision)
       PROVE NoWaiterLeak'
  BY <1>10 DEF Decide, NoWaiterLeak
<1>11. ASSUME NEW d \in Deciders, SendDecision(d) PROVE NoWaiterLeak'
  BY <1>11 DEF SendDecision, NoWaiterLeak
<1> QED
  BY <1>1, <1>2, <1>3, <1>4, <1>5, <1>6, <1>7, <1>8, <1>9, <1>10, <1>11
       DEF SessionsNext, Api, RunThread

\* Until it is told, a run can be answered.
LEMMA AnswerableStep ==
    ASSUME SessionsAssumption, SessionsTypeOK, HoldInv, FirstInv, BlockedIsAnswerable,
           SessionsNext
    PROVE  BlockedIsAnswerable'
<1>1. ASSUME NEW s \in Sessions, NEW r \in Runs, AttachRun(s, r)
      PROVE BlockedIsAnswerable'
  BY <1>1 DEF AttachRun, BlockedIsAnswerable, Blocked
<1>2. ASSUME NEW r \in Runs, StartUnowned(r) PROVE BlockedIsAnswerable'
  BY <1>2 DEF StartUnowned, BlockedIsAnswerable, Blocked, storeVars
<1>3. ASSUME NEW s \in Sessions, NEW valid \in BOOLEAN, SetPlan(s, valid)
      PROVE BlockedIsAnswerable'
  BY <1>3 DEF SetPlan, BlockedIsAnswerable, Blocked
<1>4. ASSUME NEW s \in Sessions, NEW given \in SessionStatus, SetStatus(s, given)
      PROVE BlockedIsAnswerable'
  BY <1>4 DEF SetStatus, BlockedIsAnswerable, Blocked
<1>5. ASSUME NEW r \in Runs, Raise(r) PROVE BlockedIsAnswerable'
  BY <1>5 DEF Raise, SessionsTypeOK, BlockedIsAnswerable, Blocked, Ids
<1>6. ASSUME NEW r \in Runs, RefuseUnowned(r) PROVE BlockedIsAnswerable'
  BY <1>6 DEF RefuseUnowned, BlockedIsAnswerable, Blocked, storeVars
<1>7. ASSUME NEW r \in Runs, ReceiveDecision(r) PROVE BlockedIsAnswerable'
  <2> SUFFICES ASSUME NEW q \in Runs, Blocked(q)'
               PROVE  \/ requests'[thread'[q].id].decision = "None" /\ thread'[q].id \in waiters'
                      \/ channel'[thread'[q].id] # "None"
                      \/ \E d \in Deciders : decider'[d].at = "sending"
                                              /\ decider'[d].id = thread'[q].id
    BY DEF BlockedIsAnswerable
  <2>1. q # r /\ thread'[q] = thread[q]
    BY <1>7 DEF ReceiveDecision, Leave, SessionsTypeOK, Blocked
  <2>2. thread[q].id # thread[r].id
    BY <1>7, <2>1 DEF ReceiveDecision, HoldInv, Holds, Blocked
  <2>3. channel'[thread[q].id] = channel[thread[q].id]
    BY <1>7, <2>2 DEF ReceiveDecision, SessionsTypeOK
  <2>4. UNCHANGED <<requests, waiters, decider>>
    BY <1>7 DEF ReceiveDecision, Leave
  <2> QED
    BY <2>1, <2>3, <2>4 DEF BlockedIsAnswerable, Blocked
<1>8. ASSUME NEW r \in Runs, Timeout(r) PROVE BlockedIsAnswerable'
  BY <1>8 DEF Timeout, Leave, BlockedIsAnswerable, Blocked
<1>9. ASSUME NEW r \in Runs, ResumeRun(r) PROVE BlockedIsAnswerable'
  BY <1>9 DEF ResumeRun, BlockedIsAnswerable, Blocked, HoldInv, Holds, Decisions
<1>10. ASSUME NEW d \in Deciders, NEW id \in Ids, NEW decision \in Decisions,
              Decide(d, id, decision)
       PROVE BlockedIsAnswerable'
  BY <1>10 DEF Decide, SessionsTypeOK, BlockedIsAnswerable, Blocked
<1>11. ASSUME NEW d \in Deciders, SendDecision(d) PROVE BlockedIsAnswerable'
  <2> SUFFICES ASSUME NEW q \in Runs, Blocked(q)'
               PROVE  \/ requests'[thread'[q].id].decision = "None" /\ thread'[q].id \in waiters'
                      \/ channel'[thread'[q].id] # "None"
                      \/ \E e \in Deciders : decider'[e].at = "sending"
                                              /\ decider'[e].id = thread'[q].id
    BY DEF BlockedIsAnswerable
  <2>1. Blocked(q) /\ UNCHANGED <<requests, waiters, thread>>
    BY <1>11 DEF SendDecision, Blocked
  <2>2. decider[d].id \in IdBound /\ decider[d].decision # "None"
    BY <1>11 DEF SendDecision, FirstInv, SessionsTypeOK, SessionsAssumption, Ids,
         IdBound, Decisions
  <2>3. \A i \in IdBound : channel[i] # "None" => channel'[i] # "None"
    BY <1>11, <2>2 DEF SendDecision, SessionsTypeOK
  <2>4. channel'[decider[d].id] # "None"
    BY <1>11, <2>2 DEF SendDecision, SessionsTypeOK
  <2>5. thread[q].id \in IdBound
    BY <2>1 DEF HoldInv, Holds, Blocked, FirstInv, SessionsTypeOK, SessionsAssumption,
         Ids, IdBound
  <2>6. \A e \in Deciders : e # d => decider'[e] = decider[e]
    BY <1>11 DEF SendDecision, SessionsTypeOK
  <2> QED
    BY <2>1, <2>3, <2>4, <2>5, <2>6 DEF BlockedIsAnswerable, Blocked
<1> QED
  BY <1>1, <1>2, <1>3, <1>4, <1>5, <1>6, <1>7, <1>8, <1>9, <1>10, <1>11
       DEF SessionsNext, Api, RunThread

\* The session of a blocked run shows it.
LEMMA AwaitingStep ==
    ASSUME SessionsAssumption, SessionsTypeOK, HoldInv, FirstInv, BlockedShowsAwaiting,
           SessionsNext
    PROVE  BlockedShowsAwaiting'
<1>1. ASSUME NEW s \in Sessions, NEW r \in Runs, AttachRun(s, r)
      PROVE BlockedShowsAwaiting'
  BY <1>1 DEF AttachRun, Overrule, BlockedShowsAwaiting, Blocked, HoldInv, Holds,
       NeedsAttention, Pending
<1>2. ASSUME NEW r \in Runs, StartUnowned(r) PROVE BlockedShowsAwaiting'
  BY <1>2 DEF StartUnowned, BlockedShowsAwaiting, Blocked, storeVars, historyVars
<1>3. ASSUME NEW s \in Sessions, NEW valid \in BOOLEAN, SetPlan(s, valid)
      PROVE BlockedShowsAwaiting'
  BY <1>3 DEF SetPlan, BlockedShowsAwaiting, Blocked, HoldInv, Holds, NeedsAttention,
       Pending, historyVars
<1>4. ASSUME NEW s \in Sessions, NEW given \in SessionStatus, SetStatus(s, given)
      PROVE BlockedShowsAwaiting'
  BY <1>4 DEF SetStatus, Overrule, BlockedShowsAwaiting, Blocked, HoldInv, Holds,
       NeedsAttention, Pending
<1>5. ASSUME NEW r \in Runs, Raise(r) PROVE BlockedShowsAwaiting'
  <2> SUFFICES ASSUME NEW q \in Runs, Blocked(q)',
                      requests'[thread'[q].id].decision = "None"
               PROVE  LET s == requests'[thread'[q].id].session
                      IN  session'[s].status = "AwaitingApproval" \/ s \in overruled'
    BY DEF BlockedShowsAwaiting
  <2>1. PICK s \in Sessions :
          /\ requests' = Append(requests, [session |-> s, run |-> r, decision |-> "None"])
          /\ session' = [session EXCEPT ![s].status = "AwaitingApproval"]
    BY <1>5 DEF Raise, Owners
  <2>2. \A t \in Sessions : session[t].status = "AwaitingApproval" =>
                              session'[t].status = "AwaitingApproval"
    BY <2>1 DEF SessionsTypeOK
  <2>3. CASE q = r
    <3>1. thread'[q].id = Len(requests) + 1
      BY <1>5, <2>3 DEF Raise, SessionsTypeOK
    <3>2. requests'[thread'[q].id].session = s
      BY <2>1, <3>1 DEF SessionsTypeOK
    <3>3. session'[s].status = "AwaitingApproval"
      BY <2>1 DEF SessionsTypeOK
    <3> QED
      BY <3>2, <3>3
  <2>4. CASE q # r
    <3>1. thread'[q] = thread[q] /\ Blocked(q)
      BY <1>5, <2>4 DEF Raise, SessionsTypeOK, Blocked
    <3>2. thread[q].id \in 1..Len(requests)
      BY <3>1 DEF HoldInv, Holds, Blocked, Ids
    <3>3. requests'[thread[q].id] = requests[thread[q].id]
      BY <2>1, <3>2 DEF SessionsTypeOK
    <3>4. requests \in Seq(RequestRecord)
      BY DEF SessionsTypeOK, RequestRecord
    <3>5. requests[thread[q].id] \in RequestRecord
      BY <3>2, <3>4, ElementOfSeq
    <3>6. requests[thread[q].id].session \in Sessions
      BY <3>5 DEF RequestRecord
    <3>7. overruled' = overruled
      BY <1>5 DEF Raise, historyVars
    <3> QED
      BY <2>2, <3>1, <3>3, <3>6, <3>7 DEF BlockedShowsAwaiting
  <2> QED
    BY <2>3, <2>4
<1>6. ASSUME NEW r \in Runs, RefuseUnowned(r) PROVE BlockedShowsAwaiting'
  BY <1>6 DEF RefuseUnowned, BlockedShowsAwaiting, Blocked, storeVars
<1>7. ASSUME NEW r \in Runs, ReceiveDecision(r) PROVE BlockedShowsAwaiting'
  BY <1>7 DEF ReceiveDecision, Leave, BlockedShowsAwaiting, Blocked
<1>8. ASSUME NEW r \in Runs, Timeout(r) PROVE BlockedShowsAwaiting'
  BY <1>8 DEF Timeout, Leave, BlockedShowsAwaiting, Blocked
<1>9. ASSUME NEW r \in Runs, ResumeRun(r) PROVE BlockedShowsAwaiting'
  BY <1>9 DEF ResumeRun, BlockedShowsAwaiting, Blocked, historyVars
<1>10. ASSUME NEW d \in Deciders, NEW id \in Ids, NEW decision \in Decisions,
              Decide(d, id, decision)
       PROVE BlockedShowsAwaiting'
  BY <1>10 DEF Decide, BlockedShowsAwaiting, Blocked, HoldInv, Holds, Pending,
       AfterDecision, Ids, Decisions
<1>11. ASSUME NEW d \in Deciders, SendDecision(d) PROVE BlockedShowsAwaiting'
  BY <1>11 DEF SendDecision, BlockedShowsAwaiting, Blocked, historyVars
<1> QED
  BY <1>1, <1>2, <1>3, <1>4, <1>5, <1>6, <1>7, <1>8, <1>9, <1>10, <1>11
       DEF SessionsNext, Api, RunThread

-----------------------------------------------------------------------------
THEOREM SessionsInvariant == SessionsSpec => []SessionsInv
<1>1. SessionsInit => SessionsInv
  BY SessionsAssumption DEF SessionsInit, SessionsInv, SessionsTypeOK, HoldInv, Holds,
       FirstInv, AnswerInv, ToldFirstDecision, NoWaiterLeak, BlockedIsAnswerable,
       BlockedShowsAwaiting, Blocked, Ids, IdBound, Threads, SessionStatus,
       SessionsAssumption
<1>2. SessionsInv /\ [SessionsNext]_sessionsVars => SessionsInv'
  <2> SUFFICES ASSUME SessionsInv, [SessionsNext]_sessionsVars PROVE SessionsInv'
    OBVIOUS
  <2>1. CASE SessionsNext
    BY <2>1, SessionsAssumption, TypeStep, HoldStep, FirstStep, AnswerStep, WaiterStep,
       AnswerableStep, AwaitingStep DEF SessionsInv
  <2>2. CASE UNCHANGED sessionsVars
    BY <2>2 DEF SessionsInv, sessionsVars, storeVars, historyVars, SessionsTypeOK,
         HoldInv, Holds, FirstInv, AnswerInv, ToldFirstDecision, NoWaiterLeak,
         BlockedIsAnswerable, BlockedShowsAwaiting, Blocked, Ids
  <2> QED
    BY <2>1, <2>2
<1> QED
  BY <1>1, <1>2, PTL DEF SessionsSpec

\* No run is told an approval that was not given first (approval.rs:30-51).
THEOREM FirstDecisionIsTold == SessionsSpec => []ToldFirstDecision
<1> QED
  BY SessionsInvariant, PTL DEF SessionsInv

\* The waiter map names only runs that have not returned (sessions.rs:198-250).
THEOREM WaitersAreFew == SessionsSpec => []SessionsConsistent
<1>1. SessionsInv => SessionsConsistent
  BY DEF SessionsInv, SessionsConsistent
<1> QED
  BY <1>1, SessionsInvariant, PTL

\* A blocked run is found by who looks for it, and can be answered
\* (session.rs:194-204, sessions.rs:254-286).
THEOREM BlockedRunIsFound == SessionsSpec => []BlockedIsFound
<1>1. SessionsInv => BlockedIsFound
  BY DEF SessionsInv, BlockedIsFound
<1> QED
  BY <1>1, SessionsInvariant, PTL
=============================================================================
