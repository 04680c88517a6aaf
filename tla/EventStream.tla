----------------------------- MODULE EventStream -----------------------------
(***************************************************************************)
(* The two ways to observe a run's events: the WebSocket pump (api.rs),    *)
(* which replays the history and then forwards live envelopes, and the     *)
(* polled event log, which is the history itself.  Threads publish through *)
(* RunHandle; which events they publish does not matter here.              *)
(***************************************************************************)
EXTENDS RunHandle, SequencesExt

CONSTANTS Subscribers,  \* WebSocket clients
          Capacity,     \* EVENT_CHANNEL_CAPACITY
          MaxEvents     \* bound on the events published

ASSUME StreamAssumption == Capacity \in Nat \ {0} /\ MaxEvents \in Nat

VARIABLE client  \* each subscriber's pump: Pump

Pump == [at : {"away", "attached", "live"},
         next : Nat,               \* the receiver's position in `sent`
         replayed : Nat \cup {-1}, \* last_replayed_seq, -1 for none
         got : Seq(Nat),           \* sequence numbers written to the socket
         lagged : BOOLEAN]         \* history variable: an envelope was dropped

streamVars == <<handleVars, client>>

StreamTypeOK == HandleTypeOK /\ client \in [Subscribers -> Pump]

StreamInit ==
    /\ HandleInit
    /\ client = [s \in Subscribers |-> [at |-> "away", next |-> 0,
                                        replayed |-> -1, got |-> <<>>,
                                        lagged |-> FALSE]]

Seqs(envelopes) == [i \in DOMAIN envelopes |-> envelopes[i].seq]

-----------------------------------------------------------------------------

Publish(p) == \/ nextSeq < MaxEvents /\ TakeSeq(p, "NodeStarted")
              \/ Apply(p) \/ PushHistory(p) \/ Broadcast(p)

\* subscribe: the receiver first ...
Attach(s) ==
    /\ client[s].at = "away"
    /\ client' = [client EXCEPT ![s].at = "attached", ![s].next = Len(sent) + 1]

\* ... then the history, which the pump writes out before anything live.
Replay(s) ==
    /\ client[s].at = "attached"
    /\ client' = [client EXCEPT
                    ![s].at = "live",
                    ![s].got = Seqs(history),
                    ![s].replayed = IF history = <<>> THEN -1 ELSE Last(history).seq]

\* Mutants: the overlap of replay and stream is not skipped; one event too many
\* is.
ReceiveAll(s) ==
    /\ client[s].at = "live" /\ client[s].next <= Len(sent)
    /\ client' = [client EXCEPT ![s].next = @ + 1,
                                ![s].got = Append(@, sent[client[s].next].seq)]
ReceiveSkipsMore(s) ==
    LET seq == sent[client[s].next].seq IN
    /\ client[s].at = "live" /\ client[s].next <= Len(sent)
    /\ client' = [client EXCEPT
                    ![s].next = @ + 1,
                    ![s].got = IF seq <= client[s].replayed + 1 THEN @
                               ELSE Append(@, seq)]

\* receiver.recv: the channel keeps the last Capacity envelopes; a receiver
\* that fell further behind is moved up to the oldest one kept.
Receive(s) ==
    LET c == client[s]
        oldest == Len(sent) - Capacity + 1
    IN  /\ c.at = "live" /\ c.next <= Len(sent)
        /\ IF c.next < oldest
           THEN client' = [client EXCEPT ![s].next = oldest, ![s].lagged = TRUE]
           ELSE LET seq == sent[c.next].seq IN
                client' = [client EXCEPT
                             ![s].next = @ + 1,
                             ![s].got = IF seq <= c.replayed THEN @
                                        ELSE Append(@, seq)]

StreamNext ==
    \/ \E p \in Publishers : Publish(p) /\ UNCHANGED client
    \/ \E s \in Subscribers : (Attach(s) \/ Replay(s) \/ Receive(s)) /\ UNCHANGED handleVars

StreamSpec == StreamInit /\ [][StreamNext]_streamVars

-----------------------------------------------------------------------------
\* Properties

\* Two threads inside publish at once may push and broadcast in two orders; the
\* guarantees to a subscriber hold for as long as that has not happened.

\* A subscriber that has caught up and was never skipped ahead has seen every
\* event of the log ("neither can miss an event the other saw", api.rs).
CaughtUp(s) == Quiet /\ client[s].at = "live" /\ client[s].next > Len(sent)
NothingMissed ==
    \A s \in Subscribers : CaughtUp(s) /\ ~client[s].lagged =>
        ToSet(client[s].got) = ToSet(Seqs(history))

\* It has, while publications do not overlap.
StreamMatchesLog == ~overlapped => NothingMissed

\* A subscriber that was skipped ahead has still seen the newest events: what
\* it misses is older than what the channel can hold.
LagDropsOnlyOldest ==
    ~overlapped => \A s \in Subscribers : CaughtUp(s) =>
        \A i \in 0..(nextSeq - 1) :
            i >= nextSeq - Capacity => i \in ToSet(client[s].got)

\* Sequence numbers increase, in the log and on the socket ("strictly increasing
\* within a run", protocol/runtime-api.md): the replay and the stream overlap,
\* but a subscriber sees no event twice.
Increasing(seqs) == \A i \in 1..(Len(seqs) - 1) : seqs[i] < seqs[i + 1]
SeqsIncrease == ~overlapped => /\ Increasing(Seqs(history))
                               /\ \A s \in Subscribers : Increasing(client[s].got)

\* What a slow subscriber gets is in order, without repetition, and complete but
\* for what the channel dropped (runs.rs:151-170, api.rs:629-661).
StreamConsistent == StreamTypeOK /\ SeqsIncrease /\ LagDropsOnlyOldest

=============================================================================
