-------------------------- MODULE PluginLinkProofs --------------------------
(***************************************************************************)
(* The safety of the plugin link, for any number of runs, cancellations    *)
(* and attempts: an id names one call, what is on the way with an id is    *)
(* that call's request, and whoever waits is in the pending table or has   *)
(* his answer until the transport is dead.                                 *)
(***************************************************************************)
EXTENDS PluginLink, TLAPS

Active(c) == call[c].at \in {"inserted", "waiting", "expired"}

\* Calls have ids of their own, and those that need one have one.
CallInv ==
    /\ \A c \in Callers : call[c].id <= nextId /\ (Active(c) => call[c].id >= 1)
    /\ \A c, d \in Callers : c # d => call[c].id # call[d].id \/ call[c].id = 0

\* A request on the way: if the caller with its id is still in the call, then it is
\* what that caller asked.
Known(q) == /\ q.id \in 1..nextId
            /\ \A c \in Callers : Active(c) /\ call[c].id = q.id => q = Asked(c)
LetterInv ==
    /\ \A i \in 1..Len(stdin) : Known(stdin[i])
    /\ \A h \in served : Known(h.request) /\ (h.at = "finished" => h.result # "none")
    /\ \A i \in 1..Len(stdout) : stdout[i] # Garbage => Known(stdout[i].to)
    /\ \A m \in mailbox : Known(m.to)

\* Nobody is forgotten while the transport is alive.
HasMail(c) == \E m \in mailbox : m.to.id = call[c].id
WaitInv ==
    /\ reader \in {"dead", "gone"} => ~alive
    /\ \A c \in Callers : call[c].at \in {"inserted", "waiting"} /\ alive =>
                             call[c].id \in pending \/ HasMail(c)

\* An execution that was alone in its run since it began is the one in the table.
LoneInv ==
    /\ missed \subseteq shared
    /\ \A r \in Runs : \A e \in Running(r) :
          e.request.id \notin shared => table[r] = e.request.id /\ Running(r) = {e}

LinkInv == /\ LinkTypeOK /\ CallInv /\ LetterInv /\ WaitInv /\ LoneInv
           /\ PendingAwaited /\ DisconnectedMeansDead /\ NoRunLeak

CallType == [at : {"free", "entered", "checked", "inserted", "waiting", "expired"},
             run : Runs, id : Nat, got : Results \cup Errors \cup {"nothing"}]

-----------------------------------------------------------------------------
\* One entry of `call` replaced.
LEMMA OneCall ==
    ASSUME call \in [Callers -> CallType], NEW c \in Callers, NEW r \in CallType,
           call' = [call EXCEPT ![c] = r]
    PROVE  /\ call' \in [Callers -> CallType] /\ call'[c] = r
           /\ \A d \in Callers : d # c => call'[d] = call[d]
  OBVIOUS

LEMMA GoesFacts ==
    ASSUME LinkTypeOK, NEW c \in Callers, NEW where \in {"entered", "checked", "waiting", "expired"},
           Goes(c, where)
    PROVE  /\ call' \in [Callers -> CallType]
           /\ call'[c].at = where /\ call'[c].id = call[c].id
           /\ call'[c].run = call[c].run /\ call'[c].got = call[c].got
           /\ \A d \in Callers : d # c => call'[d] = call[d]
<1> DEFINE r == [call[c] EXCEPT !.at = where]
<1>1. call \in [Callers -> CallType]
  BY DEF LinkTypeOK, CallType
<1>2. call' = [call EXCEPT ![c] = r]
  BY DEF Goes
<1>3. r \in CallType /\ r.at = where /\ r.id = call[c].id /\ r.run = call[c].run
      /\ r.got = call[c].got
  BY <1>1 DEF CallType
<1> HIDE DEF r
<1> QED
  BY <1>1, <1>2, <1>3, OneCall

LEMMA ReturnsFacts ==
    ASSUME LinkTypeOK, NEW c \in Callers, NEW what \in Results \cup Errors, Returns(c, what)
    PROVE  /\ call' \in [Callers -> CallType]
           /\ call'[c].at = "free" /\ call'[c].id = call[c].id
           /\ call'[c].run = call[c].run /\ call'[c].got = what
           /\ \A d \in Callers : d # c => call'[d] = call[d]
<1> DEFINE r == [[call[c] EXCEPT !.at = "free"] EXCEPT !.got = what]
<1>1. call \in [Callers -> CallType]
  BY DEF LinkTypeOK, CallType
<1>2. call' = [call EXCEPT ![c] = r]
  BY <1>1 DEF Returns
<1>3. r \in CallType /\ r.at = "free" /\ r.id = call[c].id /\ r.run = call[c].run
      /\ r.got = what
  BY <1>1 DEF CallType
<1> HIDE DEF r
<1> QED
  BY <1>1, <1>2, <1>3, OneCall

LEMMA InsertFacts ==
    ASSUME LinkTypeOK, NEW c \in Callers, Insert(c)
    PROVE  /\ call' \in [Callers -> CallType]
           /\ call'[c].at = "inserted" /\ call'[c].id = nextId + 1
           /\ call'[c].run = call[c].run /\ call'[c].got = call[c].got
           /\ \A d \in Callers : d # c => call'[d] = call[d]
<1> DEFINE r == [[call[c] EXCEPT !.at = "inserted"] EXCEPT !.id = nextId + 1]
<1>1. call \in [Callers -> CallType] /\ nextId \in Nat
  BY DEF LinkTypeOK, CallType
<1>2. call' = [call EXCEPT ![c] = r]
  BY <1>1 DEF Insert
<1>3. r \in CallType /\ r.at = "inserted" /\ r.id = nextId + 1 /\ r.run = call[c].run
      /\ r.got = call[c].got
  <2> DEFINE n == nextId + 1
  <2>1. n \in Nat /\ call[c] \in CallType
    BY <1>1
  <2> HIDE DEF n
  <2>2. [[call[c] EXCEPT !.at = "inserted"] EXCEPT !.id = n] \in CallType
    BY <2>1 DEF CallType
  <2> QED
    BY <2>1, <2>2 DEF CallType, n
<1> HIDE DEF r
<1> QED
  BY <1>1, <1>2, <1>3, OneCall
\* What a step does to the callers: nothing; or one of them leaves or enters
\* without an id on the way, takes a fresh id, or goes on in the call.
Elsewhere(c) ==
    /\ call' \in [Callers -> CallType] /\ call'[c].run = call[c].run
    /\ \A d \in Callers : d # c => call'[d] = call[d]
    /\ attempts' \in [Runs -> Nat] /\ nextId' \in Nat
    /\ \A d \in Runs : d # c => attempts'[d] = attempts[d]
Away(c) == ~Active(c)' /\ call'[c].id = call[c].id /\ nextId' = nextId
Fresh(c) == call'[c].id = nextId + 1 /\ nextId' = nextId + 1 /\ attempts' = attempts
Onward(c) == /\ Active(c) /\ Active(c)' /\ call'[c].id = call[c].id
             /\ nextId' = nextId /\ attempts' = attempts

LEMMA CallerFacts ==
    ASSUME LinkTypeOK, LinkNext
    PROVE  \/ UNCHANGED <<call, attempts, nextId>>
           \/ \E c \in Callers : Elsewhere(c) /\ (Away(c) \/ Fresh(c) \/ Onward(c))
<1> USE DEF Elsewhere, Active
<1>t. /\ attempts \in [Runs -> Nat] /\ nextId \in Nat
      /\ Runs \subseteq Callers /\ Cancellers \subseteq Callers
  BY DEF LinkTypeOK, Callers
<1>1. ASSUME NEW r \in Runs, Execute(r) PROVE Elsewhere(r) /\ Away(r)
  BY <1>t, <1>1, GoesFacts DEF Execute, Away
<1>2. ASSUME NEW k \in Cancellers, CancelRun(k) PROVE Elsewhere(k) /\ Away(k)
  BY <1>t, <1>2, GoesFacts DEF CancelRun, Away
<1>3. ASSUME NEW c \in Callers, Caller(c)
      PROVE  Elsewhere(c) /\ (Away(c) \/ Fresh(c) \/ Onward(c))
  <2>1. CASE CheckAlive(c)
    BY <1>t, <2>1, GoesFacts, ReturnsFacts DEF CheckAlive, Away, Errors
  <2>2. CASE Insert(c)
    <3>1. attempts' = attempts /\ nextId' = nextId + 1
      BY <2>2 DEF Insert
    <3> QED
      BY <1>t, <2>2, <3>1, InsertFacts DEF Fresh
  <2>3. CASE Write(c)
    <3>1. attempts' = attempts /\ nextId' = nextId /\ At(c, "inserted")
          /\ (Goes(c, "waiting") \/ Returns(c, "broken"))
      BY <2>3 DEF Write
    <3> QED
      BY <1>t, <3>1, GoesFacts, ReturnsFacts DEF Away, Onward, Errors, At
  <2>4. CASE Receive(c)
    <3>1. PICK m \in mailbox : Returns(c, m.result)
      BY <2>4 DEF Receive
    <3>2. m.result \in Results
      BY DEF LinkTypeOK, Response
    <3> QED
      BY <1>t, <2>4, <3>1, <3>2, ReturnsFacts DEF Receive, Away
  <2>5. CASE Disconnect(c)
    BY <1>t, <2>5, ReturnsFacts DEF Disconnect, Away, Errors
  <2>6. CASE Expire(c)
    BY <1>t, <2>6, GoesFacts DEF Expire, Onward, At
  <2>7. CASE GiveUp(c)
    BY <1>t, <2>7, ReturnsFacts DEF GiveUp, Away, Errors
  <2> QED
    BY <1>3, <2>1, <2>2, <2>3, <2>4, <2>5, <2>6, <2>7 DEF Caller
<1>4. CASE Reader \/ Close \/ Plugin
  BY <1>4 DEF Reader, ReadResponse, ReadEnds, LeaveLoop, Close, Plugin, Dispatch, Babble, Die,
     Register, Finish, ServeCancel, Respond, runtimeVars
<1> QED
  BY <1>t, <1>1, <1>2, <1>3, <1>4 DEF LinkNext

\* Ids stay apart, and a request on the way stays what it is.
LEMMA CallKeeps == ASSUME LinkTypeOK, CallInv, LinkNext PROVE CallInv'
<1>t. nextId \in Nat /\ \A c \in Callers : call[c].id \in Nat
  BY DEF LinkTypeOK
<1>1. CASE UNCHANGED <<call, attempts, nextId>>
  BY <1>1 DEF CallInv, Active
<1>2. ASSUME NEW c \in Callers, Elsewhere(c), Away(c) \/ Fresh(c) \/ Onward(c)
      PROVE  CallInv'
  BY <1>t, <1>2 DEF CallInv, Elsewhere, Away, Fresh, Onward, Active
<1> QED
  BY <1>1, <1>2, CallerFacts

LEMMA KnownKeeps ==
    ASSUME LinkTypeOK, LinkNext, NEW q, Known(q)
    PROVE  Known(q)'
<1>t. nextId \in Nat
  BY DEF LinkTypeOK
<1>1. CASE UNCHANGED <<call, attempts, nextId>>
  BY <1>1 DEF Known, Active, Asked
<1>2. ASSUME NEW c \in Callers, Elsewhere(c), Away(c) \/ Fresh(c) \/ Onward(c)
      PROVE  Known(q)'
  <2>1. \A d \in Callers : d # c => (Active(d)' <=> Active(d)) /\ Asked(d)' = Asked(d)
    BY <1>2 DEF Elsewhere, Active, Asked
  <2>2. Onward(c) => Asked(c)' = Asked(c)
    BY <1>2 DEF Elsewhere, Onward, Asked
  <2> QED
    BY <1>t, <1>2, <2>1, <2>2 DEF Known, Elsewhere, Away, Fresh, Onward
<1> QED
  BY <1>1, <1>2, CallerFacts

-----------------------------------------------------------------------------
\* Every action that is not named keeps the letters where they are or drops some;
\* those that are named put one somewhere.
LEMMA LetterKeeps ==
    ASSUME LinkTypeOK, CallInv, LetterInv, LinkNext
    PROVE  LetterInv'
<1>t. /\ stdin \in Seq(Request) /\ Len(stdin) \in Nat
      /\ stdout \in Seq(Response \cup {Garbage}) /\ Len(stdout) \in Nat
      /\ nextId \in Nat
  BY DEF LinkTypeOK
<1>k. \A q : Known(q) => Known(q)'
  BY KnownKeeps
<1>1. CASE UNCHANGED <<stdin, served, stdout>> /\ mailbox' \subseteq mailbox
  BY <1>k, <1>1 DEF LetterInv
<1>2. ASSUME NEW c \in Callers, Write(c), up PROVE LetterInv'
  <2>1. stdin' = Append(stdin, Asked(c)) /\ UNCHANGED <<served, stdout, mailbox>>
    BY <1>2 DEF Write, pluginVars
  <2>2. Known(Asked(c))
    BY <1>2, <1>t DEF Write, At, Known, Asked, Active, CallInv, LinkTypeOK
  <2>3. \A i \in 1..Len(stdin') : Known(stdin'[i])
    <3>1. Len(stdin') = Len(stdin) + 1 /\ stdin'[Len(stdin) + 1] = Asked(c)
          /\ \A i \in 1..Len(stdin) : stdin'[i] = stdin[i]
      <4> DEFINE a == Asked(c)
      <4> HIDE DEF a
      <4> QED
        BY <1>t, <2>1 DEF a
    <3> QED
      BY <1>t, <2>2, <3>1 DEF LetterInv
  <2> QED
    BY <1>k, <2>1, <2>3 DEF LetterInv
<1>3. CASE ReadResponse
  <2>1. /\ stdout # <<>> /\ Head(stdout) # Garbage /\ stdout' = Tail(stdout)
        /\ UNCHANGED <<stdin, served>>
        /\ mailbox' \subseteq mailbox \cup {Head(stdout)}
    BY <1>3 DEF ReadResponse, pluginVars
  <2>2. /\ Head(stdout) = stdout[1] /\ Len(stdout) >= 1
        /\ Len(stdout') = Len(stdout) - 1
        /\ \A i \in 1..Len(stdout') : stdout'[i] = stdout[i + 1]
    BY <1>t, <2>1
  <2>3. Known(Head(stdout).to)
    BY <1>t, <2>1, <2>2 DEF LetterInv
  <2>4. \A i \in 1..Len(stdout') : stdout'[i] # Garbage => Known(stdout'[i].to)
    BY <1>t, <2>2 DEF LetterInv
  <2> QED
    BY <1>k, <2>1, <2>3, <2>4 DEF LetterInv
<1>4. CASE Dispatch
  <2> DEFINE h == [request |-> Head(stdin), result |-> "none", at |-> "spawned"]
  <2>1. /\ stdin # <<>> /\ stdin' = Tail(stdin) /\ served' = served \cup {h}
        /\ UNCHANGED <<stdout, mailbox>>
    BY <1>4 DEF Dispatch, runtimeVars
  <2>2. /\ Head(stdin) = stdin[1] /\ Len(stdin) >= 1
        /\ Len(stdin') = Len(stdin) - 1
        /\ \A i \in 1..Len(stdin') : stdin'[i] = stdin[i + 1]
    BY <1>t, <2>1
  <2>3. Known(h.request) /\ h.at # "finished"
    BY <1>t, <2>2 DEF LetterInv
  <2>4. \A i \in 1..Len(stdin') : Known(stdin'[i])
    BY <1>t, <2>2 DEF LetterInv
  <2> HIDE DEF h
  <2> QED
    BY <1>k, <2>1, <2>3, <2>4 DEF LetterInv
<1>5. ASSUME NEW h \in served, NEW at \in {"running", "finished"},
             NEW result \in Results \cup {"none"}, at = "finished" => result # "none",
             Moves(h, at, result), UNCHANGED <<stdin, stdout, mailbox>>
      PROVE  LetterInv'
  <2> DEFINE g == [h EXCEPT !.at = at, !.result = result]
  <2>1. g.request = h.request /\ g.at = at /\ g.result = result
    BY DEF LinkTypeOK
  <2>2. served' \subseteq served \cup {g}
    BY <1>5 DEF Moves
  <2> HIDE DEF g
  <2> QED
    BY <1>k, <1>5, <2>1, <2>2 DEF LetterInv
<1>6. ASSUME NEW h \in served, Respond(h) PROVE LetterInv'
  <2> DEFINE m == [to |-> h.request, result |-> h.result]
  <2>1. stdout' = Append(stdout, m) /\ served' \subseteq served /\ UNCHANGED <<stdin, mailbox>>
    BY <1>6 DEF Respond, runtimeVars
  <2>2. Known(m.to)
    BY DEF LetterInv
  <2> HIDE DEF m
  <2>3. /\ Len(stdout') = Len(stdout) + 1 /\ stdout'[Len(stdout) + 1] = m
        /\ \A i \in 1..Len(stdout) : stdout'[i] = stdout[i]
    BY <1>t, <2>1
  <2>4. \A i \in 1..Len(stdout') : stdout'[i] # Garbage => Known(stdout'[i].to)
    BY <1>t, <2>2, <2>3 DEF LetterInv
  <2> QED
    BY <1>k, <2>1, <2>4 DEF LetterInv
<1>7. CASE Babble
  <2>1. stdout' = Append(stdout, Garbage) /\ UNCHANGED <<stdin, served, mailbox>>
    BY <1>7 DEF Babble, runtimeVars, pluginVars
  <2> DEFINE m == Garbage
  <2>2. stdout' = Append(stdout, m) /\ m = Garbage
    BY <2>1
  <2> HIDE DEF m
  <2>3. /\ Len(stdout') = Len(stdout) + 1 /\ stdout'[Len(stdout) + 1] = m
        /\ \A i \in 1..Len(stdout) : stdout'[i] = stdout[i]
    BY <1>t, <2>2
  <2>4. \A i \in 1..Len(stdout') : stdout'[i] # Garbage => Known(stdout'[i].to)
    BY <1>t, <2>2, <2>3 DEF LetterInv
  <2> QED
    BY <1>k, <2>1, <2>4 DEF LetterInv
<1>8. CASE Die
  <2>1. served' = {} /\ stdin' = <<>> /\ UNCHANGED <<stdout, mailbox>>
    BY <1>8 DEF Die, runtimeVars
  <2> QED
    BY <1>k, <2>1 DEF LetterInv
<1>9. ASSUME NEW h \in served, Register(h) \/ Finish(h) \/ ServeCancel(h)
      PROVE  LetterInv'
  BY <1>5, <1>9 DEF Register, Finish, ServeCancel, Results, runtimeVars
<1>10. ASSUME NEW c \in Callers, Caller(c) PROVE LetterInv'
  BY <1>1, <1>2, <1>10 DEF Caller, CheckAlive, Insert, Write, Receive, Disconnect, Expire, GiveUp,
     pluginVars
<1>11. CASE \/ \E r \in Runs : Execute(r)
            \/ \E k \in Cancellers : CancelRun(k)
            \/ ReadEnds \/ LeaveLoop \/ Close
  BY <1>1, <1>11 DEF Execute, CancelRun, ReadEnds, LeaveLoop, Close, pluginVars
<1> QED
  BY <1>3, <1>4, <1>6, <1>7, <1>8, <1>9, <1>10, <1>11 DEF LinkNext, Reader, Plugin

\* Who waits is in the table or has mail; a table entry has a caller and no mail.
LEMMA WaitKeeps ==
    ASSUME LinkTypeOK, CallInv, LetterInv, WaitInv, PendingAwaited, DisconnectedMeansDead, LinkNext
    PROVE  WaitInv' /\ PendingAwaited' /\ DisconnectedMeansDead'
<1>t. /\ nextId \in Nat /\ \A c \in Callers : call[c].id \in Nat
      /\ \A c, d \in Callers : c # d => call[c].id # call[d].id \/ call[c].id = 0
      /\ \A c \in Callers : Active(c) => call[c].id >= 1
      /\ \A m \in mailbox : m.to.id \in 1..nextId
      /\ pending \subseteq 1..nextId
      /\ \A c \in Callers : call[c].id <= nextId
  BY DEF LinkTypeOK, CallInv, LetterInv, Known
<1>n. Runs \subseteq Callers /\ Cancellers \subseteq Callers
  BY DEF Callers
<1> USE DEF WaitInv, PendingAwaited, DisconnectedMeansDead, HasMail, Active
<1>1. ASSUME NEW c \in Callers, Caller(c)
      PROVE  WaitInv' /\ PendingAwaited' /\ DisconnectedMeansDead'
  <2>1. CASE CheckAlive(c)
    <3>1. CASE Goes(c, "checked")
      BY <1>t, <2>1, <3>1, GoesFacts DEF CheckAlive, At
    <3>2. CASE Returns(c, "disconnected") /\ ~alive
      BY <1>t, <2>1, <3>2, ReturnsFacts DEF CheckAlive, At, Errors
    <3> QED
      BY <2>1, <3>1, <3>2 DEF CheckAlive
  <2>2. CASE Insert(c)
    <3>1. /\ pending' = pending \cup {nextId + 1} /\ UNCHANGED <<mailbox, alive, reader>>
          /\ At(c, "checked")
      BY <2>2 DEF Insert
    <3> QED
      BY <1>t, <2>2, <3>1, InsertFacts DEF At
  <2>3. CASE Write(c)
    <3>1. /\ UNCHANGED <<mailbox, alive, reader>> /\ At(c, "inserted")
          /\ \/ Goes(c, "waiting") /\ pending' = pending
             \/ Returns(c, "broken") /\ pending' = pending \ {call[c].id}
      BY <2>3 DEF Write
    <3>2. CASE Goes(c, "waiting") /\ pending' = pending
      BY <1>t, <3>1, <3>2, GoesFacts DEF At
    <3>3. CASE Returns(c, "broken") /\ pending' = pending \ {call[c].id}
      BY <1>t, <3>1, <3>3, ReturnsFacts DEF At, Errors
    <3> QED
      BY <3>1, <3>2, <3>3
  <2>4. CASE Receive(c)
    <3>1. PICK m \in mailbox : /\ m.to.id = call[c].id /\ Returns(c, m.result)
                               /\ mailbox' = mailbox \ {m}
      BY <2>4 DEF Receive
    <3>2. m.result \in Results /\ m.result # "disconnected"
      BY DEF LinkTypeOK, Response, Results
    <3>3. UNCHANGED <<pending, alive, reader>> /\ At(c, "waiting")
      BY <2>4 DEF Receive
    <3>4. /\ call'[c].at = "free" /\ call'[c].got # "disconnected"
          /\ \A d \in Callers : d # c => call'[d] = call[d]
      BY <3>1, <3>2, ReturnsFacts
    <3>5. WaitInv'
      BY <1>t, <3>1, <3>3, <3>4
    <3>6. PendingAwaited'
      <4> SUFFICES ASSUME NEW id \in pending
                   PROVE  /\ \E d \in Callers : call'[d].id = id /\ Active(d)'
                          /\ \A n \in mailbox' : n.to.id # id
        BY <3>3
      <4>1. PICK d \in Callers : call[d].id = id /\ Active(d)
        OBVIOUS
      <4>2. d # c
        BY <3>1, <4>1
      <4> QED
        BY <3>1, <3>4, <4>1, <4>2
    <3>7. DisconnectedMeansDead'
      BY <3>3, <3>4
    <3> QED
      BY <3>5, <3>6, <3>7
  <2>5. CASE Disconnect(c)
    <3>1. UNCHANGED <<pending, mailbox, alive, reader>> /\ At(c, "waiting") /\ ~alive
      BY <2>5 DEF Disconnect, At
    <3> QED
      BY <1>t, <2>5, <3>1, ReturnsFacts DEF Disconnect, At, Errors
  <2>6. CASE Expire(c)
    BY <1>t, <2>6, GoesFacts DEF Expire, At
  <2>7. CASE GiveUp(c)
    <3>1. /\ UNCHANGED <<alive, reader>> /\ At(c, "expired") /\ Returns(c, "timeout")
          /\ pending' = pending \ {call[c].id}
          /\ mailbox' = {m \in mailbox : m.to.id # call[c].id}
      BY <2>7 DEF GiveUp
    <3> QED
      BY <1>t, <3>1, ReturnsFacts DEF At, Errors
  <2> QED
    BY <1>1, <2>1, <2>2, <2>3, <2>4, <2>5, <2>6, <2>7 DEF Caller
<1>2. ASSUME NEW c \in Callers, Goes(c, "entered"), At(c, "free"),
             UNCHANGED <<pending, mailbox, alive, reader>>
      PROVE  WaitInv' /\ PendingAwaited' /\ DisconnectedMeansDead'
  BY <1>t, <1>2, GoesFacts DEF At
<1>3. CASE ReadResponse
  <2>1. /\ UNCHANGED <<call, alive, reader>>
        /\ \/ UNCHANGED <<pending, mailbox>>
           \/ \E m : pending' = pending \ {m.to.id} /\ mailbox' = mailbox \cup {m}
    BY <1>3 DEF ReadResponse
  <2>2. CASE UNCHANGED <<pending, mailbox>>
    BY <2>1, <2>2
  <2>3. ASSUME NEW m, pending' = pending \ {m.to.id}, mailbox' = mailbox \cup {m}
        PROVE  WaitInv' /\ PendingAwaited'
    BY <2>1, <2>3
  <2>4. DisconnectedMeansDead'
    BY <2>1
  <2> QED
    BY <2>1, <2>2, <2>3, <2>4
<1>4. CASE LeaveLoop
  <2>1. /\ UNCHANGED <<call, mailbox>>
        /\ \/ reader' = "dead" /\ alive' = FALSE /\ pending' = pending
           \/ reader = "dead" /\ alive' = alive /\ pending' = {}
    BY <1>4 DEF LeaveLoop
  <2>2. alive' = FALSE
    BY <2>1 DEF LinkTypeOK
  <2> QED
    BY <2>1, <2>2
<1>5. CASE ReadEnds \/ Close
  <2>1. /\ UNCHANGED <<call, mailbox, pending>>
        /\ \/ reader' = "broken" /\ alive' = alive
           \/ alive' = FALSE /\ reader' = reader
    BY <1>5 DEF ReadEnds, Close
  <2> QED
    BY <2>1
<1>6. CASE UNCHANGED runtimeVars
  BY <1>6 DEF runtimeVars
<1>7. CASE Plugin
  BY <1>6, <1>7 DEF Plugin, Dispatch, Babble, Die, Register, Finish, ServeCancel, Respond
<1> QED
  BY <1>n, <1>1, <1>2, <1>3, <1>4, <1>5, <1>7 DEF LinkNext, Reader, Execute, CancelRun

\* The plugin's table names executions that run.
LEMMA TableKeeps == ASSUME LinkTypeOK, NoRunLeak, LinkNext PROVE NoRunLeak'
<1>t. /\ table \in [Runs -> Nat]
      /\ \A h \in served : h.request.run \in Runs
  BY DEF LinkTypeOK, Request
<1>1. CASE UNCHANGED <<table, served>>
  BY <1>1 DEF NoRunLeak, Running, IdsOf
<1>2. CASE Dispatch
  BY <1>2 DEF Dispatch, NoRunLeak, Running, IdsOf
<1>3. CASE Die
  BY <1>3 DEF Die, NoRunLeak
<1>4. ASSUME NEW h \in served, NEW at \in {"running", "finished"},
             NEW result \in Results \cup {"none"}, Moves(h, at, result),
             at = "running" => table' = [table EXCEPT ![h.request.run] = h.request.id],
             at = "finished" => \/ h.at = "running" /\ table' = [table EXCEPT ![h.request.run] = 0]
                                \/ h.at = "spawned" /\ table' = table
      PROVE  NoRunLeak'
  <2> DEFINE g == [h EXCEPT !.at = at, !.result = result]
  <2>1. g.request = h.request /\ g.at = at
    BY DEF LinkTypeOK
  <2>2. served' = (served \ {h}) \cup {g}
    BY <1>4 DEF Moves
  <2> HIDE DEF g
  <2> SUFFICES ASSUME NEW r \in Runs, table'[r] # 0
               PROVE  \E e \in served' : /\ e.at = "running" /\ e.request.run = r
                                         /\ e.request.id = table'[r]
    BY DEF NoRunLeak, Running, IdsOf
  <2>3. CASE at = "running" /\ r = h.request.run
    BY <1>t, <1>4, <2>1, <2>2, <2>3
  <2>4. CASE ~(at = "running" /\ r = h.request.run)
    <3>1. table'[r] = table[r] /\ (h.at = "running" => r # h.request.run \/ at # "finished")
      BY <1>t, <1>4, <2>4
    <3>2. PICK e \in served : e.at = "running" /\ e.request.run = r /\ e.request.id = table[r]
      BY <3>1 DEF NoRunLeak, Running, IdsOf
    <3>3. e # h
      BY <1>4, <2>4, <3>1, <3>2
    <3> QED
      BY <2>2, <3>1, <3>2, <3>3
  <2> QED
    BY <2>3, <2>4
<1>5. ASSUME NEW h \in served, Register(h) \/ Finish(h) \/ ServeCancel(h)
      PROVE  NoRunLeak'
  BY <1>4, <1>5 DEF Register, Finish, ServeCancel, Results
<1>6. ASSUME NEW h \in served, Respond(h) PROVE NoRunLeak'
  BY <1>6 DEF Respond, NoRunLeak, Running, IdsOf
<1>7. CASE Babble
  BY <1>1, <1>7 DEF Babble, pluginVars
<1>8. CASE \/ \E r \in Runs : Execute(r)
           \/ \E k \in Cancellers : CancelRun(k)
           \/ \E c \in Callers : Caller(c)
           \/ Reader \/ Close
  BY <1>1, <1>8 DEF Execute, CancelRun, Caller, CheckAlive, Insert, Write, Receive, Disconnect,
     Expire, GiveUp, Reader, ReadResponse, ReadEnds, LeaveLoop, Close, pluginVars
<1> QED
  BY <1>2, <1>3, <1>5, <1>6, <1>7, <1>8 DEF LinkNext, Plugin

LEMMA LoneKeeps == ASSUME LinkTypeOK, LetterInv, LoneInv, LinkNext PROVE LoneInv'
<1>t. /\ table \in [Runs -> Nat]
      /\ \A h \in served : h.request.run \in Runs
  BY DEF LinkTypeOK, Request
<1>1. CASE /\ UNCHANGED <<table, shared, missed>>
           /\ \A r \in Runs : Running(r)' = Running(r)
  BY <1>1 DEF LoneInv
<1>2. ASSUME NEW h \in served, NEW at \in {"running", "finished"},
             NEW result \in Results \cup {"none"}, Moves(h, at, result)
      PROVE  \E g : /\ g.request = h.request /\ g.at = at
                    /\ served' = (served \ {h}) \cup {g}
  <2> DEFINE g == [h EXCEPT !.at = at, !.result = result]
  <2>1. g.request = h.request /\ g.at = at
    BY DEF LinkTypeOK
  <2>2. served' = (served \ {h}) \cup {g}
    BY <1>2 DEF Moves
  <2> QED
    BY <2>1, <2>2
<1>3. ASSUME NEW h \in served, Register(h) PROVE LoneInv'
  <2>1. PICK g : /\ g.request = h.request /\ g.at = "running"
                 /\ served' = (served \ {h}) \cup {g}
    BY <1>2, <1>3 DEF Register
  <2> DEFINE r == h.request.run
  <2>2. /\ Running(r)' = Running(r) \cup {g}
        /\ \A q \in Runs \ {r} : Running(q)' = Running(q)
    BY <1>3, <2>1 DEF Register, Running
  <2>3. /\ table' = [table EXCEPT ![r] = g.request.id] /\ missed' = missed
        /\ shared' = IF Running(r) = {} THEN shared
                     ELSE shared \cup IdsOf(Running(r)) \cup {g.request.id}
    BY <1>3, <2>1 DEF Register
  <2>4. \A q \in Runs \ {r} : \A e \in Running(q)' :
           e.request.id \notin shared' => table'[q] = e.request.id /\ Running(q)' = {e}
    BY <1>t, <2>2, <2>3 DEF LoneInv
  <2>5. \A e \in Running(r)' :
           e.request.id \notin shared' => table'[r] = e.request.id /\ Running(r)' = {e}
    <3>1. CASE Running(r) = {}
      BY <1>t, <2>2, <2>3, <3>1
    <3>2. CASE Running(r) # {}
      BY <2>2, <2>3, <3>2 DEF IdsOf
    <3> QED
      BY <3>1, <3>2
  <2>6. missed' \subseteq shared'
    BY <2>3 DEF LoneInv
  <2> HIDE DEF r
  <2> QED
    BY <2>4, <2>5, <2>6 DEF LoneInv
<1>4. ASSUME NEW h \in served, Finish(h) PROVE LoneInv'
  <2>1. PICK g : /\ g.request = h.request /\ g.at = "finished"
                 /\ served' = (served \ {h}) \cup {g}
    BY <1>2, <1>4 DEF Finish, Results
  <2> DEFINE r == h.request.run
  <2>2. /\ Running(r)' = Running(r) \ {h} /\ h \in Running(r)
        /\ \A q \in Runs \ {r} : Running(q)' = Running(q)
    BY <1>4, <2>1 DEF Finish, Running
  <2>3. table' = [table EXCEPT ![r] = 0] /\ missed' = missed /\ shared' = shared
    BY <1>4 DEF Finish
  <2>4. \A e \in Running(r)' : e.request.id \in shared'
    BY <1>t, <2>2, <2>3 DEF LoneInv
  <2> HIDE DEF r
  <2> QED
    BY <1>t, <2>2, <2>3, <2>4 DEF LoneInv
<1>5. ASSUME NEW h \in served, ServeCancel(h) PROVE LoneInv'
  <2>1. PICK g : /\ g.request = h.request /\ g.at = "finished"
                 /\ served' = (served \ {h}) \cup {g}
    BY <1>2, <1>5 DEF ServeCancel, Results
  <2> DEFINE r == h.request.run
  <2>2. \A q \in Runs : Running(q)' = Running(q)
    BY <1>5, <2>1 DEF ServeCancel, Running
  <2>3. /\ UNCHANGED <<table, shared>> /\ table[r] \in flagged' \cup {0}
        /\ missed' = missed \cup (IdsOf({e \in Running(r) : Awaited(e)}) \ flagged')
    BY <1>5 DEF ServeCancel
  <2>4. \A e \in Running(r) : e.request.id \notin flagged' => e.request.id \in shared
    BY <1>t, <2>3 DEF LoneInv, LetterInv, Known, Running
  <2>5. missed' \subseteq shared'
    BY <2>3, <2>4 DEF LoneInv, IdsOf
  <2> HIDE DEF r
  <2> QED
    BY <2>2, <2>3, <2>5 DEF LoneInv
<1>6. ASSUME NEW h \in served, Respond(h) PROVE LoneInv'
  BY <1>1, <1>6 DEF Respond, Running
<1>7. CASE Dispatch
  BY <1>1, <1>7 DEF Dispatch, Running
<1>8. CASE Die
  BY <1>8 DEF Die, LoneInv, Running
<1>9. CASE \/ \E r \in Runs : Execute(r)
           \/ \E k \in Cancellers : CancelRun(k)
           \/ \E c \in Callers : Caller(c)
           \/ Reader \/ Close \/ Babble
  BY <1>1, <1>9 DEF Execute, CancelRun, Caller, CheckAlive, Insert, Write, Receive, Disconnect,
     Expire, GiveUp, Reader, ReadResponse, ReadEnds, LeaveLoop, Close, Babble, pluginVars, Running
<1> QED
  BY <1>3, <1>4, <1>5, <1>6, <1>7, <1>8, <1>9 DEF LinkNext, Plugin

-----------------------------------------------------------------------------
\* The types.
RuntimeTypes ==
    /\ cancelled \in SUBSET Runs /\ attempts \in [Runs -> Nat]
    /\ call \in [Callers -> CallType] /\ nextId \in Nat
    /\ alive \in BOOLEAN /\ reader \in {"reading", "broken", "dead", "gone"}
TableTypes == pending \in SUBSET (1..nextId) /\ mailbox \in SUBSET Response
PipeTypes == stdin \in Seq(Request) /\ stdout \in Seq(Response \cup {Garbage})
Service == [request : Request, result : Results \cup {"none"},
            at : {"spawned", "running", "finished"}]
PluginTypes == /\ up \in BOOLEAN /\ served \in SUBSET Service /\ table \in [Runs -> Nat]
               /\ flagged \in SUBSET Nat /\ shared \in SUBSET Nat /\ missed \in SUBSET Nat

LEMMA TypeParts == LinkTypeOK <=> RuntimeTypes /\ TableTypes /\ PipeTypes /\ PluginTypes
  BY DEF LinkTypeOK, RuntimeTypes, TableTypes, PipeTypes, PluginTypes, CallType, Service

LEMMA RuntimeTypesKept == ASSUME LinkTypeOK, LinkNext PROVE RuntimeTypes'
<1>t. RuntimeTypes
  BY TypeParts
<1>1. call' \in [Callers -> CallType] /\ attempts' \in [Runs -> Nat] /\ nextId' \in Nat
  <2>1. CASE UNCHANGED <<call, attempts, nextId>>
    BY <1>t, <2>1 DEF RuntimeTypes
  <2> QED
    BY <2>1, CallerFacts DEF Elsewhere
<1>2. cancelled' \in SUBSET Runs
  <2>1. ASSUME NEW k \in Cancellers, CancelRun(k) PROVE cancelled' \in SUBSET Runs
    <3>1. call[k].run \in Runs
      BY <1>t DEF RuntimeTypes, Callers, CallType
    <3> QED
      BY <1>t, <2>1, <3>1 DEF CancelRun, RuntimeTypes
  <2>2. (\A k \in Cancellers : ~CancelRun(k)) => cancelled' = cancelled
    BY DEF LinkNext, Execute, Caller, CheckAlive, Insert, Write, Receive, Disconnect, Expire,
       GiveUp, Reader, ReadResponse, ReadEnds, LeaveLoop, Close, Plugin, Dispatch, Babble, Die,
       Register, Finish, ServeCancel, Respond, runtimeVars
  <2> QED
    BY <1>t, <2>1, <2>2 DEF RuntimeTypes
<1>3. alive' \in BOOLEAN /\ reader' \in {"reading", "broken", "dead", "gone"}
  BY <1>t DEF RuntimeTypes, LinkNext, Execute, CancelRun, Caller, CheckAlive, Insert, Write,
     Receive, Disconnect, Expire, GiveUp, Reader, ReadResponse, ReadEnds, LeaveLoop, Close, Plugin,
     Dispatch, Babble, Die, Register, Finish, ServeCancel, Respond, runtimeVars
<1> QED
  BY <1>1, <1>2, <1>3 DEF RuntimeTypes

LEMMA TableTypesKept == ASSUME LinkTypeOK, LinkNext PROVE TableTypes'
<1>t. TableTypes /\ nextId \in Nat /\ PipeTypes
  BY TypeParts DEF RuntimeTypes
<1>1. ASSUME NEW c \in Callers, Insert(c) PROVE TableTypes'
  BY <1>t, <1>1 DEF Insert, TableTypes
<1>2. CASE ReadResponse
  <2>1. stdout # <<>> /\ Head(stdout) # Garbage
    BY <1>2 DEF ReadResponse
  <2>2. Head(stdout) \in Response
    BY <1>t, <2>1 DEF PipeTypes
  <2> QED
    BY <1>t, <1>2, <2>2 DEF ReadResponse, TableTypes
<1>3. CASE nextId' = nextId /\ pending' \subseteq pending /\ mailbox' \subseteq mailbox
  BY <1>t, <1>3 DEF TableTypes
<1>4. ASSUME NEW c \in Callers, Caller(c) PROVE TableTypes'
  BY <1>1, <1>3, <1>4 DEF Caller, CheckAlive, Write, Receive, Disconnect, Expire, GiveUp
<1>5. CASE \/ \E r \in Runs : Execute(r)
           \/ \E k \in Cancellers : CancelRun(k)
           \/ ReadEnds \/ LeaveLoop \/ Close \/ Plugin
  BY <1>3, <1>5 DEF Execute, CancelRun, ReadEnds, LeaveLoop, Close, Plugin, Dispatch, Babble, Die,
     Register, Finish, ServeCancel, Respond, runtimeVars
<1> QED
  BY <1>2, <1>4, <1>5 DEF LinkNext, Reader

LEMMA PipeTypesKept ==
    ASSUME LinkTypeOK, LetterInv, LinkNext
    PROVE  PipeTypes'
<1>t. RuntimeTypes /\ PipeTypes /\ PluginTypes
  BY TypeParts
<1>1. ASSUME NEW c \in Callers, Caller(c) PROVE PipeTypes'
  <2>1. Asked(c) \in Request
    BY <1>t DEF RuntimeTypes, Callers, CallType, Asked, Request
  <2>2. CASE stdin' = Append(stdin, Asked(c)) /\ stdout' = stdout
    <3> DEFINE a == Asked(c)
    <3> HIDE DEF a
    <3> QED
      BY <1>t, <2>1, <2>2 DEF PipeTypes, a
  <2>3. CASE UNCHANGED <<stdin, stdout>>
    BY <1>t, <2>3 DEF PipeTypes
  <2> QED
    BY <1>1, <2>2, <2>3 DEF Caller, CheckAlive, Insert, Write, Receive, Disconnect, Expire, GiveUp
<1>2. CASE ReadResponse
  BY <1>t, <1>2 DEF ReadResponse, PipeTypes
<1>3. CASE Dispatch
  BY <1>t, <1>3 DEF Dispatch, PipeTypes
<1>4. ASSUME NEW h \in served, Respond(h) PROVE PipeTypes'
  <2> DEFINE m == [to |-> h.request, result |-> h.result]
  <2>1. m \in Response
    BY <1>t, <1>4 DEF Respond, LetterInv, PluginTypes, Service, Response
  <2>2. stdout' = Append(stdout, m) /\ stdin' = stdin
    BY <1>4 DEF Respond
  <2> HIDE DEF m
  <2> QED
    BY <1>t, <2>1, <2>2 DEF PipeTypes
<1>5. CASE Babble
  <2> DEFINE m == Garbage
  <2>1. stdout' = Append(stdout, m) /\ stdin' = stdin /\ m \in Response \cup {Garbage}
    BY <1>5 DEF Babble
  <2> HIDE DEF m
  <2> QED
    BY <1>t, <2>1 DEF PipeTypes
<1>6. CASE Die
  BY <1>t, <1>6 DEF Die, PipeTypes
<1>7. CASE UNCHANGED <<stdin, stdout>>
  BY <1>t, <1>7 DEF PipeTypes
<1>8. CASE \/ \E r \in Runs : Execute(r)
           \/ \E k \in Cancellers : CancelRun(k)
           \/ \E h \in served : Register(h) \/ Finish(h) \/ ServeCancel(h)
           \/ ReadEnds \/ LeaveLoop \/ Close
  BY <1>7, <1>8 DEF Execute, CancelRun, Register, Finish, ServeCancel, ReadEnds, LeaveLoop, Close
<1> QED
  BY <1>1, <1>2, <1>3, <1>4, <1>5, <1>6, <1>8 DEF LinkNext, Reader, Plugin

LEMMA PluginTypesKept == ASSUME LinkTypeOK, LinkNext PROVE PluginTypes'
<1>t. PipeTypes /\ PluginTypes
  BY TypeParts
<1>r. \A r \in Runs : IdsOf(Running(r)) \subseteq Nat
  BY <1>t DEF PluginTypes, Service, Request, IdsOf, Running
<1>1. ASSUME NEW h \in served, NEW at \in {"running", "finished"},
             NEW result \in Results \cup {"none"}, Moves(h, at, result)
      PROVE  served' \in SUBSET Service
  <2> DEFINE g == [[h EXCEPT !.at = at] EXCEPT !.result = result]
  <2>1. g \in Service /\ g = [h EXCEPT !.at = at, !.result = result]
    BY <1>t DEF PluginTypes, Service
  <2>2. served' = (served \ {h}) \cup {g}
    BY <1>1, <2>1 DEF Moves
  <2> HIDE DEF g
  <2> QED
    BY <1>t, <2>1, <2>2 DEF PluginTypes
<1>2. ASSUME NEW h \in served, Register(h) \/ Finish(h) \/ ServeCancel(h) PROVE PluginTypes'
  <2>h. h.request.id \in Nat /\ h.request.run \in Runs /\ table[h.request.run] \in Nat
    BY <1>t DEF PluginTypes, Service, Request
  <2>1. served' \in SUBSET Service
    BY <1>1, <1>2 DEF Register, Finish, ServeCancel, Results
  <2>2. table' \in [Runs -> Nat] /\ up' \in BOOLEAN
    BY <1>t, <1>2, <2>h DEF Register, Finish, ServeCancel, PluginTypes
  <2>3. flagged' \in SUBSET Nat
    BY <1>t, <1>2, <2>h DEF Register, Finish, ServeCancel, PluginTypes
  <2>4. shared' \in SUBSET Nat
    BY <1>t, <1>r, <1>2, <2>h DEF Register, Finish, ServeCancel, PluginTypes
  <2>5. missed' \in SUBSET Nat
    <3>1. IdsOf({e \in Running(h.request.run) : Awaited(e)}) \subseteq Nat
      BY <1>r, <2>h DEF IdsOf
    <3> QED
      BY <1>t, <1>2, <3>1 DEF Register, Finish, ServeCancel, PluginTypes
  <2> QED
    BY <2>1, <2>2, <2>3, <2>4, <2>5 DEF PluginTypes
<1>3. CASE Dispatch
  <2> DEFINE h == [request |-> Head(stdin), result |-> "none", at |-> "spawned"]
  <2>1. stdin # <<>>
    BY <1>3 DEF Dispatch
  <2>2. Head(stdin) \in Request
    BY <1>t, <2>1 DEF PipeTypes
  <2>3. h \in Service
    BY <2>2 DEF Service
  <2> HIDE DEF h
  <2>4. served' = served \cup {h} /\ UNCHANGED <<up, table, flagged, shared, missed>>
    BY <1>3 DEF Dispatch, h
  <2> QED
    BY <1>t, <2>3, <2>4 DEF PluginTypes
<1>4. CASE Die
  BY <1>t, <1>4 DEF Die, PluginTypes
<1>5. ASSUME NEW h \in served, Respond(h) PROVE PluginTypes'
  BY <1>t, <1>5 DEF Respond, PluginTypes
<1>6. CASE UNCHANGED pluginVars
  BY <1>t, <1>6 DEF pluginVars, PluginTypes
<1>7. CASE \/ \E r \in Runs : Execute(r)
           \/ \E k \in Cancellers : CancelRun(k)
           \/ \E c \in Callers : Caller(c)
           \/ Reader \/ Close \/ Babble
  BY <1>6, <1>7 DEF Execute, CancelRun, Caller, CheckAlive, Insert, Write, Receive, Disconnect,
     Expire, GiveUp, Reader, ReadResponse, ReadEnds, LeaveLoop, Close, Babble
<1> QED
  BY <1>2, <1>3, <1>4, <1>5, <1>7 DEF LinkNext, Plugin

-----------------------------------------------------------------------------
LEMMA LinkInitially == LinkInit => LinkInv
<1> SUFFICES ASSUME LinkInit PROVE LinkInv
  OBVIOUS
<1>1. LinkTypeOK
  <2>1. RuntimeTypes
    <3>1. PICK r \in Runs :
             call = [c \in Callers |-> [at |-> "free", run |-> IF c \in Runs THEN c ELSE r,
                                        id |-> 0, got |-> "nothing"]]
      BY DEF LinkInit
    <3>2. call \in [Callers -> CallType]
      BY <3>1 DEF CallType
    <3> QED
      BY <3>2 DEF LinkInit, RuntimeTypes
  <2> QED
    BY <2>1, TypeParts DEF LinkInit, TableTypes, PipeTypes, PluginTypes
<1>2. \A c \in Callers : call[c].id = 0 /\ call[c].at = "free" /\ call[c].got = "nothing"
  BY DEF LinkInit
<1> QED
  BY <1>1, <1>2 DEF LinkInit, LinkInv, CallInv, LetterInv, WaitInv, PendingAwaited,
     DisconnectedMeansDead, NoRunLeak, LoneInv, Running, Active

LEMMA LinkInductive == LinkInv /\ [LinkNext]_linkVars => LinkInv'
<1> SUFFICES ASSUME LinkInv, [LinkNext]_linkVars PROVE LinkInv'
  OBVIOUS
<1> USE DEF LinkInv
<1>1. CASE LinkNext
  <2>1. RuntimeTypes' /\ TableTypes' /\ PipeTypes' /\ PluginTypes'
    BY <1>1, RuntimeTypesKept, TableTypesKept, PipeTypesKept, PluginTypesKept
  <2>2. LinkTypeOK'
    BY <2>1 DEF LinkTypeOK, RuntimeTypes, TableTypes, PipeTypes, PluginTypes, CallType, Service
  <2> QED
    BY <1>1, <2>2, CallKeeps, LetterKeeps, WaitKeeps, TableKeeps, LoneKeeps
<1>2. CASE UNCHANGED linkVars
  BY <1>2 DEF linkVars, runtimeVars, pluginVars, LinkTypeOK, CallInv, LetterInv, WaitInv,
     PendingAwaited, DisconnectedMeansDead, NoRunLeak, LoneInv, Active, Known, Asked, HasMail, Running, IdsOf
<1> QED
  BY <1>1, <1>2

\* Everything the theorems below follow from.
THEOREM LinkInvariant == LinkSpec => []LinkInv
  BY LinkInitially, LinkInductive, PTL DEF LinkSpec

\* Every variable has its type, an entry of the pending table has a caller that is
\* still in the call and no answer yet, and the plugin's run table names only
\* executions that run (StdioTransport::request, PluginServer::execute).
THEOREM TablesHold == LinkSpec => []LinkConsistent
<1>1. LinkInv => LinkConsistent
  BY DEF LinkInv, LinkConsistent
<1> QED
  BY <1>1, LinkInvariant, PTL

\* However late an answer comes, it is never taken for that of another call
\* (next_id, the pending table, executor.rs's retry).
THEOREM AnswersMatch == LinkSpec => []RightAnswer
<1>1. LinkInv => RightAnswer
  BY DEF LinkInv, LetterInv, Known, Active, RightAnswer
<1> QED
  BY <1>1, LinkInvariant, PTL

\* A caller told that the plugin is gone finds the transport dead when he tries
\* again (the reader thread lowers the flag before it wakes the waiters).
THEOREM GoneMeansGone == LinkSpec => []DisconnectedMeansDead
<1>1. LinkInv => DisconnectedMeansDead
  BY DEF LinkInv
<1> QED
  BY <1>1, LinkInvariant, PTL

\* A cancellation the plugin serves reaches the execution its run waits for, unless
\* another attempt of the run was executing beside it (PluginServer::cancel).
THEOREM LoneAttemptIsReached == LinkSpec => []CancelReachesLoneAttempt
<1>1. LinkInv => CancelReachesLoneAttempt
  BY DEF LinkInv, LoneInv, CancelReachesLoneAttempt
<1> QED
  BY <1>1, LinkInvariant, PTL
=============================================================================
