--------------------------- MODULE BrowserProofs ----------------------------
(***************************************************************************)
(* What a browser relies on: the events it is sent, and who it is signed   *)
(* in as.  Inv of EventHub is inductive, for any set of clients, any       *)
(* capacity and any number of runs and events.  SignInInv of SignIn is     *)
(* inductive, for any accounts, addresses, organizations and numbers of    *)
(* logins, sessions and requests, from which the identity behind a session *)
(* and the MFA gate follow.                                                *)
(***************************************************************************)
EXTENDS EventHub, SignIn, SequenceTheorems, TLAPS

\* The streams' half of Inv, for one stream.
StreamInv(c) ==
    Open(c) =>
        /\ streams[c].channel = entry /\ entry # 0
        /\ streams[c].start <= streams[c].next /\ streams[c].next <= Len(log)
        /\ ~streams[c].lagged => streams[c].sent = streams[c].next - streams[c].start

\* The initial state satisfies Inv: no channel, no stream, no run.
LEMMA InitInv == Init => Inv
  BY CapacityAssumption, BoundsAssumption
     DEF Init, Inv, TypeOK, Closed, Stream, Open, NoReceiverStranded,
         NothingMissedSilently, OneTerminalPerStream, TerminalAfterStatus, Event, Run

\* A publish keeps the hub's part of Inv, and takes the channel away from no
\* open stream.
LEMMA PublishKeepsHub ==
  ASSUME Inv, NEW event \in Event, Publish(event),
         event.type = "done" => event.run \in settled
  PROVE  /\ entry' \in Nat /\ channels' \in Nat /\ log' \in Seq(Event)
         /\ published' \in 0..MaxEvents
         /\ entry' <= channels'
         /\ entry' = 0 => log' = <<>>
         /\ (\E c \in Client : Open(c)) => entry' = entry /\ Len(log') >= Len(log)
         /\ \A i \in DOMAIN log' : log'[i].type = "done" => log'[i].run \in settled
  <1>1. CASE entry = 0
    BY <1>1, BoundsAssumption DEF Inv, TypeOK, Publish, hub, TerminalAfterStatus
  <1>2. CASE entry # 0 /\ \E c \in Client : Open(c)
    <2>1. log' = Append(log, event) /\ entry' = entry /\ channels' = channels
      BY <1>2 DEF Publish
    <2>2. log \in Seq(Event) /\ log' \in Seq(Event) /\ Len(log') = Len(log) + 1
      BY <2>1 DEF Inv, TypeOK
    <2>3. ASSUME NEW i \in DOMAIN log', log'[i].type = "done"
          PROVE  log'[i].run \in settled
      <3>1. CASE i \in DOMAIN log
        <4>1. log'[i] = log[i]
          BY <3>1, <2>1, <2>2
        <4> QED BY <3>1, <4>1, <2>3 DEF Inv, TerminalAfterStatus
      <3>2. CASE i \notin DOMAIN log
        <4>1. i = Len(log) + 1
          BY <3>2, <2>2, <2>3
        <4>2. log'[i] = event
          BY <4>1, <2>1, <2>2
        <4> QED BY <4>2, <2>3
      <3> QED BY <3>1, <3>2
    <2> QED BY <1>2, <2>1, <2>2, <2>3, BoundsAssumption DEF Inv, TypeOK, Publish
  <1>3. CASE entry # 0 /\ \A c \in Client : ~Open(c)
    <2>1. entry' = 0 /\ log' = <<>> /\ channels' = channels /\ published' = published + 1
          /\ published < MaxEvents
      BY <1>3 DEF Publish
    <2>2. log' \in Seq(Event) /\ DOMAIN log' = {}
      BY <2>1
    <2>3. channels \in Nat /\ published \in 0..MaxEvents
      BY DEF Inv, TypeOK
    <2> QED BY <1>3, <2>1, <2>2, <2>3, BoundsAssumption
  <1> QED BY <1>1, <1>2, <1>3

\* What Inv says of one stream.
LEMMA PartsFromInv ==
  ASSUME Inv, NEW c \in Client
  PROVE  StreamInv(c) /\ streams[c] \in Stream /\ streams[c].terminals <= 1
  BY DEF Inv, StreamInv, NoReceiverStranded, NothingMissedSilently, OneTerminalPerStream, TypeOK

\* A step that only changes one stream keeps Inv when it keeps that stream's part.
LEMMA StreamStep ==
  ASSUME Inv, NEW c \in Client, NEW x \in Stream,
         streams' = [streams EXCEPT ![c] = x],
         UNCHANGED <<hub, runner, published>>,
         x.terminals <= 1,
         x.pc = "open" =>
            /\ x.channel = entry /\ entry # 0
            /\ x.start <= x.next /\ x.next <= Len(log)
            /\ ~x.lagged => x.sent = x.next - x.start
  PROVE  Inv'
  <1>1. TypeOK'
    BY DEF Inv, TypeOK, hub, runner
  <1>2. ASSUME NEW d \in Client
        PROVE  StreamInv(d)' /\ streams'[d].terminals <= 1
    <2>1. CASE d = c
      <3>1. streams'[d] = x
        BY <2>1 DEF Inv, TypeOK
      <3> QED BY <3>1 DEF StreamInv, Open, hub
    <2>2. CASE d # c
      <3>1. streams'[d] = streams[d]
        BY <2>2 DEF Inv, TypeOK
      <3> QED BY <3>1, PartsFromInv DEF StreamInv, Open, hub
    <2> QED BY <2>1, <2>2
  <1>3. TerminalAfterStatus' /\ (entry <= channels)' /\ (entry = 0 => log = <<>>)'
        /\ (\A n \in Run : runs[n] = "written" => n \in settled)'
    BY DEF Inv, TerminalAfterStatus, hub, runner
  <1> QED BY <1>1, <1>2, <1>3
     DEF Inv, StreamInv, NoReceiverStranded, NothingMissedSilently,
         OneTerminalPerStream

\* A step that publishes and moves run n on keeps Inv.
LEMMA PublishStepKeepsInv ==
  ASSUME Inv, NEW n \in Run, NEW event \in Event, Publish(event),
         event.type = "done" => event.run \in settled,
         UNCHANGED <<streams, settled>>,
         runs' = runs \/ runs' = [runs EXCEPT ![n] = "ended"]
  PROVE  Inv'
  <1>1. /\ entry' \in Nat /\ channels' \in Nat /\ log' \in Seq(Event)
        /\ published' \in 0..MaxEvents
        /\ entry' <= channels'
        /\ entry' = 0 => log' = <<>>
        /\ (\E c \in Client : Open(c)) => entry' = entry /\ Len(log') >= Len(log)
        /\ \A i \in DOMAIN log' : log'[i].type = "done" => log'[i].run \in settled
    BY PublishKeepsHub
  <1>2. /\ runs' \in [Run -> {"idle", "working", "written", "failing", "ended"}]
        /\ \A m \in Run : runs'[m] = "written" => m \in settled'
    BY DEF Inv, TypeOK
  <1>3. TypeOK'
    BY <1>1, <1>2 DEF Inv, TypeOK
  <1>4. ASSUME NEW d \in Client
        PROVE  StreamInv(d)' /\ streams'[d].terminals <= 1
    <2>1. streams'[d] = streams[d] /\ streams[d] \in Stream /\ StreamInv(d)
          /\ streams[d].terminals <= 1
      BY PartsFromInv
    <2>2. CASE Open(d)
      <3>1. entry' = entry /\ Len(log') >= Len(log)
        BY <1>1, <2>2
      <3>2. Len(log) \in Nat /\ Len(log') \in Nat
        BY <1>1 DEF Inv, TypeOK
      <3> QED BY <2>1, <2>2, <3>1, <3>2 DEF StreamInv, Open, Stream
    <2>3. CASE ~Open(d)
      BY <2>1, <2>3 DEF StreamInv, Open
    <2> QED BY <2>2, <2>3
  <1>5. TerminalAfterStatus'
    BY <1>1 DEF TerminalAfterStatus
  <1> QED BY <1>1, <1>2, <1>3, <1>4, <1>5
     DEF Inv, StreamInv, NoReceiverStranded, NothingMissedSilently,
         OneTerminalPerStream

\* A step of the runner that does not publish keeps Inv.
LEMMA RunnerStepKeepsInv ==
  ASSUME Inv, NEW n \in Run, NEW to \in {"working", "written", "failing", "ended"},
         runs' = [runs EXCEPT ![n] = to],
         settled \subseteq settled', settled' \in SUBSET Run,
         to = "written" => n \in settled',
         UNCHANGED <<hub, streams, published>>
  PROVE  Inv'
  <1>1. TypeOK'
    BY DEF Inv, TypeOK, hub
  <1>2. ASSUME NEW d \in Client
        PROVE  StreamInv(d)' /\ streams'[d].terminals <= 1
    BY PartsFromInv DEF StreamInv, Open, hub
  <1>3. \A m \in Run : runs'[m] = "written" => m \in settled'
    BY DEF Inv, TypeOK
  <1>4. TerminalAfterStatus' /\ (entry <= channels)' /\ (entry = 0 => log = <<>>)'
    BY DEF Inv, TerminalAfterStatus, hub
  <1> QED BY <1>1, <1>2, <1>3, <1>4
     DEF Inv, StreamInv, NoReceiverStranded, NothingMissedSilently,
         OneTerminalPerStream

\* Every step keeps Inv.
LEMMA NextKeepsInv == Inv /\ [Next]_vars => Inv'
  <1> SUFFICES ASSUME Inv, [Next]_vars PROVE Inv'
    OBVIOUS
  <1>1. ASSUME NEW c \in Client, Admit(c) PROVE Inv'
    <2> DEFINE x == [streams[c] EXCEPT !.pc = "admitted"]
    <2>1. x \in Stream /\ x.pc # "open" /\ x.terminals <= 1
      BY PartsFromInv DEF Stream
    <2>2. streams' = [streams EXCEPT ![c] = x] /\ UNCHANGED <<hub, runner, published>>
      BY <1>1 DEF Admit
    <2> HIDE DEF x
    <2> QED BY <2>1, <2>2, StreamStep, Zenon
  <1>2. ASSUME NEW c \in Client, Subscribe(c) PROVE Inv'
    <2> DEFINE x == [Closed EXCEPT !.pc = "open", !.channel = entry',
                                   !.start = Len(log), !.next = Len(log)]
    <2>1. streams' = [streams EXCEPT ![c] = x] /\ UNCHANGED <<log, runner, published>>
      BY <1>2 DEF Subscribe
    <2>2. entry' \in Nat /\ channels' \in Nat /\ entry' # 0 /\ entry' <= channels'
          /\ (entry # 0 => entry' = entry)
      BY <1>2 DEF Subscribe, Inv, TypeOK
    <2>3. Len(log) \in Nat
      BY DEF Inv, TypeOK
    <2>4. x \in Stream /\ x.pc = "open" /\ x.terminals = 0 /\ x.channel = entry'
          /\ x.start = Len(log) /\ x.next = Len(log) /\ x.sent = 0
      BY <2>2, <2>3, Zenon DEF Closed, Stream
    <2> HIDE DEF x
    <2>5. TypeOK'
      BY <2>1, <2>2, <2>4 DEF Inv, TypeOK, runner
    <2>6. ASSUME NEW d \in Client
          PROVE  StreamInv(d)' /\ streams'[d].terminals <= 1
      <3>1. CASE d = c
        <4>1. streams'[d] = x
          BY <3>1, <2>1 DEF Inv, TypeOK
        <4> QED BY <4>1, <2>1, <2>2, <2>3, <2>4 DEF StreamInv, Open
      <3>2. CASE d # c
        <4>1. streams'[d] = streams[d]
          BY <3>2, <2>1 DEF Inv, TypeOK
        <4> QED BY <4>1, <2>1, <2>2, PartsFromInv DEF StreamInv, Open
      <3> QED BY <3>1, <3>2
    <2>7. TerminalAfterStatus' /\ (\A m \in Run : runs[m] = "written" => m \in settled)'
      BY <2>1 DEF Inv, TerminalAfterStatus, runner
    <2> QED BY <2>1, <2>2, <2>5, <2>6, <2>7
       DEF Inv, StreamInv, NoReceiverStranded, NothingMissedSilently,
         OneTerminalPerStream
  <1>3. ASSUME NEW c \in Client, Forward(c) PROVE Inv'
    <2> DEFINE k == IsTerminal(log[streams[c].next + 1])
               x == [streams[c] EXCEPT !.next = @ + 1, !.sent = @ + 1,
                                       !.terminals = @ + k]
    <2>1. streams[c] \in Stream /\ StreamInv(c) /\ Open(c) /\ streams[c].next < Len(log)
          /\ streams[c].terminals = 0 /\ Len(log) \in Nat
      BY <1>3, PartsFromInv DEF Forward, Inv, TypeOK
    <2>2. streams' = [streams EXCEPT ![c] = x] /\ UNCHANGED <<hub, runner, published>>
      BY <1>3 DEF Forward
    <2>0. k \in {0, 1}
      BY DEF IsTerminal
    <2> HIDE DEF k
    <2>3. x.pc = streams[c].pc /\ x.channel = streams[c].channel /\ x.start = streams[c].start
          /\ x.next = streams[c].next + 1 /\ x.sent = streams[c].sent + 1
          /\ x.lagged = streams[c].lagged /\ x.terminals \in {0, 1}
      BY <2>0, <2>1 DEF Stream
    <2>4. x \in Stream
      <3>1. streams[c].next + 1 \in Nat /\ streams[c].sent + 1 \in Nat
            /\ streams[c].terminals + k \in Nat
        BY <2>0, <2>1 DEF Stream
      <3>2. streams[c] \in Stream
        BY <2>1
      <3> QED BY <3>1, <3>2, Zenon DEF Stream
    <2> HIDE DEF x
    <2>5. /\ x.channel = entry /\ entry # 0
          /\ x.start <= x.next /\ x.next <= Len(log)
      BY <2>1, <2>3 DEF Stream, StreamInv
    <2>6. ~x.lagged => x.sent = x.next - x.start
      BY <2>1, <2>3 DEF Stream, StreamInv
    <2>7. x.terminals <= 1
      BY <2>3
    <2> QED BY <2>2, <2>4, <2>5, <2>6, <2>7, StreamStep, Zenon
  <1>4. ASSUME NEW c \in Client, Lagged(c) PROVE Inv'
    <2> DEFINE x == [streams[c] EXCEPT !.next = Len(log) - Capacity, !.lagged = TRUE]
    <2>1. streams[c] \in Stream /\ StreamInv(c) /\ Open(c) /\ Len(log) \in Nat
          /\ streams[c].terminals = 0 /\ Len(log) - streams[c].next > Capacity
      BY <1>4, PartsFromInv DEF Lagged, Lags, Inv, TypeOK
    <2>2. streams' = [streams EXCEPT ![c] = x] /\ UNCHANGED <<hub, runner, published>>
      BY <1>4, Zenon DEF Lagged
    <2>3. Len(log) - Capacity \in Nat /\ Len(log) - Capacity > streams[c].next
          /\ Len(log) - Capacity <= Len(log)
      BY <2>1, CapacityAssumption DEF Stream
    <2>4. x.channel = streams[c].channel /\ x.start = streams[c].start /\ x.lagged
          /\ x.next = Len(log) - Capacity /\ x.terminals = 0
      BY <2>1 DEF Stream
    <2>5. x \in Stream
      BY <2>1, <2>3, Zenon DEF Stream
    <2> HIDE DEF x
    <2>6. x.channel = entry /\ entry # 0 /\ x.start <= x.next /\ x.next <= Len(log)
      BY <2>1, <2>3, <2>4 DEF Stream, StreamInv
    <2>7. x.terminals <= 1 /\ (~x.lagged => x.sent = x.next - x.start)
      BY <2>4
    <2> QED BY <2>2, <2>5, <2>6, <2>7, StreamStep, Zenon
  <1>5. ASSUME NEW c \in Client, Finish(c) \/ Disconnect(c) PROVE Inv'
    <2>1. streams' = [streams EXCEPT ![c] = Closed] /\ UNCHANGED <<hub, runner, published>>
      BY <1>5 DEF Finish, Disconnect
    <2>2. Closed \in Stream /\ Closed.terminals <= 1 /\ Closed.pc # "open"
      BY DEF Closed, Stream
    <2> QED BY <2>1, <2>2, StreamStep, Zenon
  <1>6. ASSUME NEW n \in Run, StartRun(n) PROVE Inv'
    BY <1>6, RunnerStepKeepsInv, Zenon DEF StartRun, Move, Inv, TypeOK
  <1>7. ASSUME NEW n \in Run, PublishStep(n) PROVE Inv'
    <2> DEFINE e == [type |-> "step", run |-> n]
    <2>1. e \in Event /\ e.type # "done"
      BY DEF Event
    <2>2. Publish(e) /\ UNCHANGED <<streams, settled>> /\ runs' = runs
      BY <1>7 DEF PublishStep, runner
    <2> HIDE DEF e
    <2> QED BY <2>1, <2>2, PublishStepKeepsInv
  <1>8. ASSUME NEW n \in Run, WriteStatus(n) PROVE Inv'
    <2>1. runs' = [runs EXCEPT ![n] = "written"] /\ settled' = settled \cup {n}
          /\ UNCHANGED <<hub, streams, published>> /\ settled \in SUBSET Run
      BY <1>8 DEF WriteStatus, Move, Inv, TypeOK
    <2> QED BY <2>1, RunnerStepKeepsInv, Zenon
  <1>9. ASSUME NEW n \in Run, WriteFailure(n) PROVE Inv'
    <2>1. runs' = [runs EXCEPT ![n] = "failing"] /\ settled \subseteq settled'
          /\ settled' \in SUBSET Run /\ UNCHANGED <<hub, streams, published>>
      BY <1>9 DEF WriteFailure, Move, Inv, TypeOK
    <2> QED BY <2>1, RunnerStepKeepsInv, Zenon
  <1>10. ASSUME NEW n \in Run, PublishTerminal(n) PROVE Inv'
    <2> DEFINE e == [type |-> IF runs[n] = "failing" THEN "failed" ELSE "done", run |-> n]
    <2>1. e \in Event /\ (e.type = "done" => e.run \in settled)
      BY <1>10 DEF Event, PublishTerminal, Move, Inv
    <2>2. Publish(e) /\ UNCHANGED <<streams, settled>> /\ runs' = [runs EXCEPT ![n] = "ended"]
      BY <1>10 DEF PublishTerminal, Move
    <2> HIDE DEF e
    <2> QED BY <2>1, <2>2, PublishStepKeepsInv, Zenon
  <1>11. ASSUME NEW n \in Run, AbortRun(n) PROVE Inv'
    <2>1. runs' = [runs EXCEPT ![n] = "ended"] /\ settled' = settled
          /\ settled \in SUBSET Run /\ UNCHANGED <<hub, streams, published>>
      BY <1>11 DEF AbortRun, Move, Inv, TypeOK
    <2> QED BY <2>1, RunnerStepKeepsInv, Zenon
  <1>12. CASE Restart
    <2>1. entry' = 0 /\ log' = <<>> /\ streams' = [c \in Client |-> Closed]
          /\ UNCHANGED <<channels, settled, published>>
          /\ runs' = [n \in Run |-> IF runs[n] = "idle" THEN "idle" ELSE "ended"]
      BY <1>12 DEF Restart
    <2>2. Closed \in Stream /\ Closed.terminals = 0 /\ Closed.pc # "open"
      BY DEF Closed, Stream
    <2>3. log' \in Seq(Event) /\ DOMAIN log' = {}
      BY <2>1
    <2>4. TypeOK'
      BY <2>1, <2>2, <2>3 DEF Inv, TypeOK
    <2>5. \A c \in Client : ~Open(c)' /\ streams'[c].terminals = 0
      BY <2>1, <2>2 DEF Open
    <2>6. TerminalAfterStatus' /\ (\A m \in Run : runs[m] = "written" => m \in settled)'
      BY <2>1, <2>3 DEF TerminalAfterStatus
    <2> QED BY <2>1, <2>4, <2>5, <2>6
       DEF Inv, TypeOK, NoReceiverStranded, NothingMissedSilently, OneTerminalPerStream
  <1>13. CASE UNCHANGED vars
    BY <1>13 DEF vars, hub, runner, Inv, TypeOK, NoReceiverStranded, Open,
       NothingMissedSilently, OneTerminalPerStream, TerminalAfterStatus
  <1> QED BY <1>1, <1>2, <1>3, <1>4, <1>5, <1>6, <1>7, <1>8, <1>9, <1>10, <1>11, <1>12,
             <1>13 DEF Next, Read

\* Inv holds in every state the hub, its streams and the runner reach.
THEOREM InvHolds == Spec => []Inv
  <1>1. Inv /\ [Next]_vars => Inv'
    BY NextKeepsInv
  <1> QED BY InitInv, <1>1, PTL DEF Spec

\* No open stream is left on a channel the runner no longer publishes to.
THEOREM NeverStranded == Spec => []NoReceiverStranded
  <1>1. Inv => NoReceiverStranded
    BY DEF Inv
  <1> QED BY InvHolds, <1>1, PTL

\* A stream that did not report a lag forwarded every event since it subscribed.
THEOREM NeverSilent == Spec => []NothingMissedSilently
  <1>1. Inv => NothingMissedSilently
    BY DEF Inv
  <1> QED BY InvHolds, <1>1, PTL

\* A stream forwards one terminal event at most.
THEOREM TerminalOnce == Spec => []OneTerminalPerStream
  <1>1. Inv => OneTerminalPerStream
    BY DEF Inv
  <1> QED BY InvHolds, <1>1, PTL

\* A `ready` or `destroyed` terminal is only ever on a channel after the status
\* of its run was written.
THEOREM StatusBeforeTerminal == Spec => []TerminalAfterStatus
  <1>1. Inv => TerminalAfterStatus
    BY DEF Inv
  <1> QED BY InvHolds, <1>1, PTL

-----------------------------------------------------------------------------
(* SignIn *)

\* What every step but IssueSession does to the sessions: it ends them, or promotes
\* them by an assertion.
IssuedKept ==
    /\ sessions' \in Seq(SessionRow) /\ Len(sessions') = Len(sessions)
    /\ \A s \in 1..Len(sessions) :
         /\ sessions'[s].user = sessions[s].user /\ sessions'[s].account = sessions[s].account
         /\ sessions'[s].owed = sessions[s].owed
         /\ sessions[s].satisfied => sessions'[s].satisfied
         /\ sessions'[s].asserted \/ (sessions'[s].satisfied = sessions[s].satisfied
                                     /\ sessions'[s].asserted = sessions[s].asserted)

\* The types the invariant gives.
LEMMA SignTypes ==
  ASSUME SignInInv
  PROVE  /\ links \in [Account -> Email \cup {NoUser}]
         /\ roles \in [Organization -> Role] /\ requires \in BOOLEAN /\ enrolled \in BOOLEAN
         /\ sessions \in Seq(SessionRow) /\ Len(sessions) \in Nat /\ DOMAIN sessions = 1..Len(sessions)
         /\ \A s \in 1..Len(sessions) : sessions[s] \in SessionRow
         /\ requests \in [Request -> RequestRow]
         /\ \A r \in Request : requests[r] \in RequestRow /\ requests[r].session \in Nat
                                     /\ requests[r].account \in Account
  <1>1. /\ links \in [Account -> Email \cup {NoUser}]
        /\ roles \in [Organization -> Role] /\ requires \in BOOLEAN /\ enrolled \in BOOLEAN
        /\ sessions \in Seq(SessionRow) /\ requests \in [Request -> RequestRow]
    BY DEF SignInInv, SignInTypeOK
  <1>2. /\ Len(sessions) \in Nat /\ DOMAIN sessions = 1..Len(sessions)
        /\ \A s \in 1..Len(sessions) : sessions[s] \in SessionRow
    BY <1>1, LenProperties, ElementOfSeq
  <1>3. \A r \in Request : requests[r] \in RequestRow
    BY <1>1
  <1>4. \A r \in Request : requests[r].session \in Nat /\ requests[r].account \in Account
    BY <1>3 DEF RequestRow
  <1> QED BY <1>1, <1>2, <1>3, <1>4

\* Nothing happened to the sessions.
LEMMA IssuedSame ==
  ASSUME SignInInv, sessions' = sessions PROVE IssuedKept
  BY SignTypes DEF IssuedKept

\* The part of the invariant that is about the sessions alone.
LEMMA IssuedInv ==
  ASSUME SignInInv, IssuedKept, links' = links, overlap \subseteq overlap'
  PROVE  /\ DOMAIN sessions' = DOMAIN sessions
         /\ SessionsFollowTheLink'
         /\ "roles" \notin overlap' =>
              \A s \in DOMAIN sessions' : sessions'[s].owed /\ sessions'[s].satisfied => sessions'[s].asserted
  <1>1. DOMAIN sessions' = 1..Len(sessions) /\ DOMAIN sessions = 1..Len(sessions)
    BY SignTypes, LenProperties DEF IssuedKept
  <1>2. SessionsFollowTheLink'
    BY <1>1 DEF SignInInv, SessionsFollowTheLink, IssuedKept
  <1>3. ASSUME "roles" \notin overlap', NEW s \in DOMAIN sessions', sessions'[s].owed, sessions'[s].satisfied
        PROVE  sessions'[s].asserted
    BY <1>1, <1>3 DEF SignInInv, IssuedKept
  <1> QED BY <1>1, <1>2, <1>3

\* What RequestInv says of a request outlives every step but the request's own.
LEMMA RequestKept ==
  ASSUME SignInInv, IssuedKept, NEW p \in Request, requests'[p] = requests[p]
  PROVE  RequestInv(p)'
  <1>1. PICK q \in RequestRow : q = requests[p]
    BY SignTypes
  <1>2. /\ q.session <= Len(sessions)
        /\ q.pc \in {"policy", "issue"} => q.user \in Email
        /\ q.op = "change" /\ q.pc \in {"write", "update", "commit"} => q.org \in Organization
        /\ q.pc \in {"role", "admitted"} /\ q.session # 0 => sessions[q.session].satisfied
    BY <1>1, Zenon DEF SignInInv, RequestInv
  <1>3. q.session \in Nat /\ Len(sessions) \in Nat /\ Len(sessions') = Len(sessions)
    BY <1>1, SignTypes DEF IssuedKept
  <1>4. q.session # 0 => q.session \in 1..Len(sessions)
    BY <1>2, <1>3
  <1>5. q.session # 0 /\ sessions[q.session].satisfied => sessions'[q.session].satisfied
    BY <1>4, Zenon DEF IssuedKept
  <1>6. q.session <= Len(sessions')
    BY <1>2, <1>3
  <1> QED BY <1>1, <1>2, <1>5, <1>6, Zenon DEF RequestInv

\* A step that touches no request.
LEMMA SignQuiet ==
  ASSUME SignInInv, IssuedKept, UNCHANGED <<links, roles, requires, enrolled, key, requests, overlap>>
  PROVE  SignInInv'
  <1>1. SignInTypeOK'
    BY DEF SignInInv, SignInTypeOK, IssuedKept
  <1>2. ASSUME NEW r \in Request PROVE RequestInv(r)'
    BY RequestKept, Zenon
  <1>3. "identity" \notin overlap => \A r \in Request : LinkInv(r)'
    BY DEF SignInInv, LinkInv, InTransaction
  <1>4. "roles" \notin overlap => requires' = Administers' /\ \A r \in Request : PolicyInv(r)'
    BY Zenon DEF SignInInv, PolicyInv, RoleOpen, At, Due, Administers
  <1> QED BY <1>1, <1>2, <1>3, <1>4, IssuedInv DEF SignInInv

\* A step of one request that leaves the links and the policy alone: what the
\* invariant asks of its new row.
LEMMA CallStep ==
  ASSUME SignInInv, NEW r \in Request, NEW x \in RequestRow,
         requests' = [requests EXCEPT ![r] = x], IssuedKept, UNCHANGED <<links, roles, requires, enrolled>>,
         key' \in [state : {"none", "live", "revoked"}, org : Organization \cup {"none"}], overlap \subseteq overlap',
         x.session <= Len(sessions),
         x.pc \in {"policy", "issue"} => x.user \in Email,
         x.op = "change" /\ x.pc \in {"write", "update", "commit"} => x.org \in Organization,
         x.pc \in {"role", "admitted"} /\ x.session # 0 => sessions[x.session].satisfied,
         "identity" \notin overlap' /\ x.op = "callback" /\ x.pc \in {"lookup", "upsert", "policy", "issue"} =>
           /\ x.pc = "upsert" => links[x.account] = NoUser
           /\ x.pc \in {"policy", "issue"} => links[x.account] \in {NoUser, x.user}
           /\ \/ InTransaction(r) /\ x.account = requests[r].account
              \/ links[x.account] # NoUser
              \/ \A p \in Request : ~(InTransaction(p) /\ requests[p].account = x.account),
         "roles" \notin overlap' =>
           /\ x.op = "change" /\ x.pc \in {"update", "commit"} =>
                /\ x.flag = (x.role = "admin" \/ \E p \in Organization \ {x.org} : roles[p] = "admin")
                /\ x.locks = (x.flag # requires)
                /\ \A p \in Request \ {r} : ~RoleOpen(p)
           /\ x.op = "callback" /\ x.pc = "policy" /\ x.owed => x.user = Member /\ Due
           /\ x.op = "callback" /\ x.pc = "issue" /\ x.owed => x.flag
  PROVE  SignInInv'
  <1>1. /\ requests' \in [Request -> RequestRow] /\ requests'[r] = x
        /\ \A p \in Request \ {r} : requests'[p] = requests[p]
    BY SignTypes
  <1>2. SignInTypeOK'
    BY <1>1 DEF SignInInv, SignInTypeOK, IssuedKept
  <1>3. ASSUME NEW p \in Request PROVE RequestInv(p)'
    <2>1. CASE p = r
      <3>1. x.session \in Nat
        BY Zenon DEF RequestRow
      <3> QED BY <1>1, <2>1, <3>1, SignTypes, SMTT(30) DEF RequestInv, IssuedKept
    <2>2. CASE p # r
      BY <1>1, <2>2, RequestKept, Zenon
    <2> QED BY <2>1, <2>2
  <1>4. ASSUME "identity" \notin overlap', NEW p \in Request PROVE LinkInv(p)'
    <2>0. \A z \in Request : LinkInv(z)
      BY <1>4 DEF SignInInv
    <2>1. CASE p = r
      BY <1>1, <1>4, <2>0, <2>1, SMTT(30) DEF LinkInv, InTransaction
    <2>2. CASE p # r
      BY <1>1, <1>4, <2>0, <2>2, SMTT(30) DEF LinkInv, InTransaction
    <2> QED BY <2>1, <2>2
  <1>5. ASSUME "roles" \notin overlap', NEW p \in Request PROVE PolicyInv(p)'
    <2>0. \A z \in Request : PolicyInv(z)
      BY <1>5 DEF SignInInv
    <2>1. CASE p = r
      BY <1>1, <1>5, <2>1, Zenon DEF PolicyInv, RoleOpen, At, Due, Administers
    <2>2. CASE p # r
      BY <1>1, <1>5, <2>0, <2>2, SMTT(30) DEF PolicyInv, RoleOpen, At, Due, Administers
    <2> QED BY <2>1, <2>2
  <1>6. "roles" \notin overlap' => requires' = Administers'
    BY Zenon DEF SignInInv, Administers
  <1> QED BY <1>2, <1>3, <1>4, <1>5, <1>6, IssuedInv, Zenon DEF SignInInv

\* The same for a row in no transaction: only the gates ask something of it.
LEMMA CallPlain ==
  ASSUME SignInInv, NEW r \in Request, NEW x \in RequestRow,
         requests' = [requests EXCEPT ![r] = x], IssuedKept, UNCHANGED <<links, roles, requires, enrolled>>,
         key' \in [state : {"none", "live", "revoked"}, org : Organization \cup {"none"}], overlap \subseteq overlap',
         x.session <= Len(sessions),
         x.pc \notin {"lookup", "upsert", "policy", "issue", "write", "update", "commit"},
         x.pc \in {"role", "admitted"} /\ x.session # 0 => sessions[x.session].satisfied
  PROVE  SignInInv'
  BY CallStep, Zenon

\* The rows a request starts from and ends with.
LEMMA CallRows ==
  /\ Idle \in RequestRow /\ Idle.session = 0 /\ Idle.pc = "idle"
         /\ LET x == [Idle EXCEPT !.pc = "over"]
            IN  x \in RequestRow /\ x.session = 0 /\ x.pc = "over"
  <1>1. Idle \in RequestRow
    BY MemberAssumption DEF Idle, RequestRow, Role
  <1>2. Idle.session = 0 /\ Idle.pc = "idle"
    BY DEF Idle
  <1>3. LET x == [Idle EXCEPT !.pc = "over"]
        IN  x \in RequestRow /\ x.session = 0 /\ x.pc = "over"
    BY <1>1, <1>2 DEF RequestRow
  <1> QED BY <1>1, <1>2, <1>3

\* A request ends.
LEMMA EndCall ==
  ASSUME SignInInv, NEW r \in Request, End(r),
         UNCHANGED <<links, roles, requires, enrolled, sessions, overlap>>,
         key' \in [state : {"none", "live", "revoked"}, org : Organization \cup {"none"}]
  PROVE  SignInInv'
  <1> DEFINE x == [Idle EXCEPT !.pc = "over"]
  <1>1. x \in RequestRow /\ x.session = 0 /\ x.pc = "over" /\ requests' = [requests EXCEPT ![r] = x]
    BY CallRows DEF End
  <1>2. 0 <= Len(sessions)
    BY SignTypes
  <1> HIDE DEF x
  <1> QED BY <1>1, <1>2, CallPlain, IssuedSame, Zenon

\* The type of the key.
LEMMA KeyType ==
  ASSUME SignInInv
  PROVE  key \in [state : {"none", "live", "revoked"}, org : Organization \cup {"none"}]
  BY DEF SignInInv, SignInTypeOK

\* A session ends, or is promoted.
LEMMA SessionStep ==
  ASSUME SignInInv, NEW s \in DOMAIN sessions,
         \/ sessions' = [sessions EXCEPT ![s].live = FALSE]
         \/ sessions' = [sessions EXCEPT ![s].satisfied = TRUE, ![s].asserted = TRUE]
  PROVE  IssuedKept
  <1>1. sessions \in Seq(SessionRow) /\ s \in 1..Len(sessions) /\ sessions[s] \in SessionRow
    BY SignTypes
  <1>2. PICK x \in SessionRow :
          /\ sessions' = [sessions EXCEPT ![s] = x]
          /\ x.user = sessions[s].user /\ x.account = sessions[s].account /\ x.owed = sessions[s].owed
          /\ sessions[s].satisfied => x.satisfied
          /\ x.asserted \/ (x.satisfied = sessions[s].satisfied /\ x.asserted = sessions[s].asserted)
    <2>1. CASE sessions' = [sessions EXCEPT ![s].live = FALSE]
      <3> DEFINE x == [sessions[s] EXCEPT !.live = FALSE]
      <3>1. /\ x \in SessionRow /\ x.user = sessions[s].user /\ x.account = sessions[s].account
            /\ x.owed = sessions[s].owed /\ x.satisfied = sessions[s].satisfied /\ x.asserted = sessions[s].asserted
        BY <1>1, Zenon DEF SessionRow
      <3>2. sessions' = [sessions EXCEPT ![s] = x]
        BY <2>1
      <3> HIDE DEF x
      <3> QED BY <3>1, <3>2, Zenon
    <2>2. CASE sessions' = [sessions EXCEPT ![s].satisfied = TRUE, ![s].asserted = TRUE]
      <3> DEFINE x == [sessions[s] EXCEPT !.satisfied = TRUE, !.asserted = TRUE]
      <3>1. /\ x \in SessionRow /\ x.user = sessions[s].user /\ x.account = sessions[s].account
            /\ x.owed = sessions[s].owed /\ x.satisfied /\ x.asserted
        BY <1>1, Zenon DEF SessionRow
      <3>2. sessions' = [sessions EXCEPT ![s] = x]
        BY <1>1, <2>2, SignTypes, Zenon
      <3> HIDE DEF x
      <3> QED BY <3>1, <3>2, Zenon
    <2> QED BY <2>1, <2>2
  <1>3. /\ sessions' \in Seq(SessionRow) /\ Len(sessions') = Len(sessions) /\ sessions'[s] = x
        /\ \A z \in 1..Len(sessions) \ {s} : sessions'[z] = sessions[z]
    BY <1>1, <1>2, ExceptSeq
  <1> QED BY <1>2, <1>3 DEF IssuedKept

\* The callback up to its transaction.
LEMMA CallbackStarts ==
  ASSUME SignInInv, NEW r \in Request,
         Drop(r) \/ AcquireTimeout(r) \/ Consume(r) \/ Exchange(r)
  PROVE  SignInInv'
  <1>1. CASE Drop(r) \/ AcquireTimeout(r)
    BY <1>1, EndCall, KeyType DEF Drop, AcquireTimeout, identity, policy
  <1>2. CASE Consume(r)
    <2>1. PICK s \in 0..Len(sessions) :
            requests' = [requests EXCEPT ![r] = [Idle EXCEPT !.op = "callback", !.pc = "exchange", !.session = s]]
      BY <1>2, Zenon DEF Consume, Accept
    <2> DEFINE x == [Idle EXCEPT !.op = "callback", !.pc = "exchange", !.session = s]
    <2>2. s \in Nat /\ s <= Len(sessions)
      BY SignTypes
    <2>3. x \in RequestRow /\ x.pc = "exchange" /\ x.session = s
      BY <2>2, CallRows, Zenon DEF RequestRow
    <2>4. UNCHANGED <<links, roles, requires, enrolled, sessions, key, overlap>>
      BY <1>2, Zenon DEF Consume, identity, policy
    <2> HIDE DEF x
    <2>5. requests' = [requests EXCEPT ![r] = x]
      BY <2>1 DEF x
    <2> QED BY <2>2, <2>3, <2>4, <2>5, CallPlain, IssuedSame, KeyType, Zenon
  <1>3. CASE Exchange(r)
    <2>1. PICK a \in Account :
            requests' = [requests EXCEPT ![r] = [requests[r] EXCEPT !.pc = "begin", !.account = a, !.session = 0]]
      BY <1>3, Zenon DEF Exchange
    <2> DEFINE y(z) == [requests[r] EXCEPT !.pc = "begin", !.account = a, !.session = z]
    <2>2. \A z \in Nat : y(z) \in RequestRow /\ y(z).pc = "begin" /\ y(z).session = z
      <3>1. PICK q \in RequestRow : q = requests[r]
        BY SignTypes
      <3>2. ASSUME NEW z \in Nat, NEW x, x = [q EXCEPT !.pc = "begin", !.account = a, !.session = z]
            PROVE  x \in RequestRow /\ x.pc = "begin" /\ x.session = z
        BY <3>2, Zenon DEF RequestRow
      <3> QED BY <3>1, <3>2, Zenon
    <2>3. requests' = [requests EXCEPT ![r] = y(0)]
      BY <2>1
    <2> HIDE DEF y
    <2>4. y(0) \in RequestRow /\ y(0).pc = "begin" /\ y(0).session = 0 /\ 0 <= Len(sessions)
      BY <2>2, SignTypes
    <2>5. UNCHANGED <<links, roles, requires, enrolled, key, overlap>>
      BY <1>3, Zenon DEF Exchange, identity, policy
    <2>6. IssuedKept
      <3>1. requests[r].session # 0 => requests[r].session \in DOMAIN sessions
        BY SignTypes, SMTT(30) DEF SignInInv, RequestInv
      <3> QED BY <1>3, <3>1, IssuedSame, SessionStep, Zenon DEF Exchange
    <2> QED BY <2>3, <2>4, <2>5, <2>6, CallPlain, KeyType, Zenon
  <1> QED BY <1>1, <1>2, <1>3, Zenon

\* A step of the callback's transaction before its commit: its account and its
\* session stay.
LEMMA CallbackStep ==
  ASSUME SignInInv, NEW r \in Request, NEW x \in RequestRow,
         requests' = [requests EXCEPT ![r] = x], UNCHANGED <<links, roles, requires, enrolled, sessions, key, overlap>>,
         InTransaction(r),
         x.op = "callback", x.pc \in {"upsert", "policy", "issue"},
         x.account = requests[r].account, x.session = requests[r].session,
         x.pc \in {"policy", "issue"} => x.user \in Email,
         "identity" \notin overlap =>
           /\ x.pc = "upsert" => links[x.account] = NoUser
           /\ x.pc \in {"policy", "issue"} => links[x.account] \in {NoUser, x.user},
         "roles" \notin overlap =>
           /\ x.pc = "policy" /\ x.owed => x.user = Member /\ Due
           /\ x.pc = "issue" /\ x.owed => x.flag
  PROVE  SignInInv'
  <1>1. x.session <= Len(sessions)
    BY Zenon DEF SignInInv, RequestInv
  <1> QED BY <1>1, CallStep, IssuedSame, KeyType, Zenon

\* The transaction of the callback begins, and finds its user.
LEMMA CallbackSteps ==
  ASSUME SignInInv, NEW r \in Request,
         Begin(r) \/ LookupIdentity(r) \/ UpsertIdentity(r) \/ ReadPolicy(r)
  PROVE  SignInInv'
  <1> DEFINE q == requests[r]
             u == links[q.account]
  <1>1. /\ q \in RequestRow /\ q.account \in Account /\ q.session <= Len(sessions)
        /\ "identity" \notin overlap => LinkInv(r)
        /\ "roles" \notin overlap => PolicyInv(r) /\ requires = Administers
    BY SignTypes DEF SignInInv, RequestInv
  <1>2. UNCHANGED <<links, roles, requires, enrolled, sessions, key>>
    BY Zenon DEF Begin, LookupIdentity, UpsertIdentity, ReadPolicy, identity, policy
  <1>3. CASE Begin(r)
    <2> DEFINE x == [q EXCEPT !.pc = "lookup"]
    <2>1. x \in RequestRow /\ x.pc = "lookup" /\ x.account = q.account /\ x.session = q.session
      BY <1>1 DEF RequestRow
    <2>2. requests' = [requests EXCEPT ![r] = x] /\ overlap \subseteq overlap'
      BY <1>3, Zenon DEF Begin, Goto
    <2>3. "identity" \notin overlap' =>
            \/ u # NoUser
            \/ \A p \in Request : ~(InTransaction(p) /\ requests[p].account = q.account)
      BY <1>3 DEF Begin
    <2> HIDE DEF x
    <2> QED BY <1>1, <1>2, <2>1, <2>2, <2>3, CallStep, IssuedSame, KeyType, Zenon
  <1>4. CASE LookupIdentity(r)
    <2>0. InTransaction(r) /\ q.op = "callback" /\ overlap' = overlap
      BY <1>4 DEF LookupIdentity, InTransaction, At
    <2>1. CASE u # NoUser
      <3>1. PICK b \in BOOLEAN : b = (u = Member /\ Due)
        BY Zenon
      <3> DEFINE x == [q EXCEPT !.pc = "policy", !.user = u, !.owed = b]
      <3>2. u \in Email
        BY <1>1, <2>1, SignTypes
      <3>3. requests' = [requests EXCEPT ![r] = x]
        BY <1>4, <2>1, <3>1 DEF LookupIdentity
      <3> HIDE DEF u
      <3>4. /\ x \in RequestRow /\ x.op = q.op /\ x.pc = "policy" /\ x.account = q.account
            /\ x.session = q.session /\ x.user = u /\ x.owed = b
        BY <1>1, <3>2, Zenon DEF RequestRow
      <3> HIDE DEF x
      <3>5. links[x.account] = x.user
        BY <3>4 DEF u
      <3> QED BY <1>1, <1>2, <2>0, <3>1, <3>2, <3>3, <3>4, <3>5, CallbackStep, Zenon
    <2>2. CASE u = NoUser
      <3> DEFINE x == [q EXCEPT !.pc = "upsert"]
      <3>1. requests' = [requests EXCEPT ![r] = x]
        BY <1>4, <2>2 DEF LookupIdentity
      <3>2. /\ x \in RequestRow /\ x.op = q.op /\ x.pc = "upsert" /\ x.account = q.account
            /\ x.session = q.session
        BY <1>1 DEF RequestRow
      <3> HIDE DEF x
      <3> QED BY <1>1, <1>2, <2>0, <2>2, <3>1, <3>2, CallbackStep, Zenon
    <2> QED BY <2>1, <2>2
  <1>5. CASE UpsertIdentity(r)
    <2>0. InTransaction(r) /\ q.op = "callback" /\ q.pc = "upsert" /\ overlap' = overlap
      BY <1>5, Zenon DEF UpsertIdentity, InTransaction, At
    <2>1. PICK e \in Email : requests' = [requests EXCEPT ![r] =
            [q EXCEPT !.pc = "policy", !.user = e, !.locks = TRUE, !.owed = (e = Member /\ Due)]]
      BY <1>5, Zenon DEF UpsertIdentity
    <2>2. PICK b \in BOOLEAN : b = (e = Member /\ Due)
      BY Zenon
    <2> DEFINE x == [q EXCEPT !.pc = "policy", !.user = e, !.locks = TRUE, !.owed = b]
    <2>3. requests' = [requests EXCEPT ![r] = x]
      BY <2>1, <2>2
    <2>4. /\ x \in RequestRow /\ x.op = q.op /\ x.pc = "policy" /\ x.account = q.account
          /\ x.session = q.session /\ x.user = e /\ x.owed = b
      BY <1>1, Zenon DEF RequestRow
    <2>5. "identity" \notin overlap => u = NoUser
      BY <1>1, <2>0 DEF LinkInv
    <2> HIDE DEF x
    <2> QED BY <1>1, <1>2, <2>0, <2>2, <2>3, <2>4, <2>5, CallbackStep, Zenon
  <1>6. CASE ReadPolicy(r)
    <2>0. InTransaction(r) /\ q.op = "callback" /\ q.pc = "policy" /\ overlap' = overlap
      BY <1>6 DEF ReadPolicy, InTransaction, At
    <2>1. PICK b \in BOOLEAN : b = (q.user = Member /\ requires /\ enrolled)
      BY Zenon
    <2> DEFINE x == [q EXCEPT !.pc = "issue", !.flag = b]
    <2>2. requests' = [requests EXCEPT ![r] = x]
      BY <1>6, <2>1 DEF ReadPolicy
    <2>3. /\ x \in RequestRow /\ x.op = q.op /\ x.pc = "issue" /\ x.account = q.account
          /\ x.session = q.session /\ x.user = q.user /\ x.owed = q.owed /\ x.flag = b
      BY <1>1, Zenon DEF RequestRow
    <2>4. q.user \in Email
      BY <2>0, Zenon DEF SignInInv, RequestInv
    <2>5. "identity" \notin overlap => u \in {NoUser, q.user}
      BY <1>1, <2>0 DEF LinkInv
    <2>6. "roles" \notin overlap /\ q.owed => b
      <3> SUFFICES ASSUME "roles" \notin overlap, q.owed PROVE b
        OBVIOUS
      <3>1. q.user = Member /\ Administers /\ enrolled
        BY <1>1, <2>0 DEF PolicyInv, RoleOpen, At, Due
      <3>2. requires = Administers
        BY <1>1
      <3> QED BY <2>1, <3>1, <3>2, Zenon
    <2> HIDE DEF x
    <2> QED BY <1>1, <1>2, <2>0, <2>2, <2>3, <2>4, <2>5, <2>6, CallbackStep, Zenon
  <1> QED BY <1>3, <1>4, <1>5, <1>6

\* The commit of a sign-in: nobody else was about to link the account.
LEMMA IssueStep ==
  ASSUME SignInInv, NEW r \in Request, IssueSession(r)
  PROVE  SignInInv'
  <1>1. PICK q, a, u : q = requests[r] /\ a = q.account /\ u = q.user
    BY Zenon
  <1>2. /\ q \in RequestRow /\ a \in Account /\ u \in Email /\ q.op = "callback" /\ q.pc = "issue"
    BY <1>1, SignTypes, Zenon DEF SignInInv, RequestInv, IssueSession, At
  <1>3. PICK x \in SessionRow : /\ sessions' = Append(sessions, x)
                                     /\ x.user = u /\ x.account = a /\ x.satisfied = ~q.flag
                                     /\ x.owed = q.owed
    <2> DEFINE x == [user |-> u, account |-> a, satisfied |-> ~q.flag, live |-> TRUE, owed |-> q.owed,
                     asserted |-> FALSE]
    <2>1. sessions' = Append(sessions, x)
      BY <1>1 DEF IssueSession
    <2>2. q.flag \in BOOLEAN /\ q.owed \in BOOLEAN
      BY <1>2, Zenon DEF RequestRow
    <2>3. x \in SessionRow /\ x.user = u /\ x.account = a /\ x.satisfied = ~q.flag /\ x.owed = q.owed
      BY <1>2, <2>2 DEF SessionRow
    <2> HIDE DEF x
    <2> QED BY <2>1, <2>3
  <1>4. /\ sessions' \in Seq(SessionRow) /\ Len(sessions') = Len(sessions) + 1
        /\ DOMAIN sessions' = 1..(Len(sessions) + 1) /\ DOMAIN sessions = 1..Len(sessions) /\ Len(sessions) \in Nat
        /\ sessions'[Len(sessions) + 1] = x /\ \A s \in 1..Len(sessions) : sessions'[s] = sessions[s]
    BY <1>3, SignTypes, AppendProperties, LenProperties
  <1>domain. \A s \in DOMAIN sessions' : s = Len(sessions) + 1 \/ s \in 1..Len(sessions)
    BY <1>4
  <1>5. /\ UNCHANGED <<roles, requires, enrolled, key, overlap>>
        /\ links' = [links EXCEPT ![a] = IF links[a] = NoUser THEN u ELSE links[a]]
    BY <1>1, Zenon DEF IssueSession, policy
  <1>6. /\ links' \in [Account -> Email \cup {NoUser}]
        /\ \A b \in Account : links[b] # NoUser => links'[b] = links[b]
        /\ links[a] = NoUser => links'[a] = u
        /\ \A b \in Account \ {a} : links'[b] = links[b]
    BY <1>2, <1>5, SignTypes
  <1> DEFINE y == [Idle EXCEPT !.pc = "over"]
  <1>7. /\ requests' = [requests EXCEPT ![r] = y]
        /\ y \in RequestRow /\ y.session = 0 /\ y.pc = "over"
    BY CallRows DEF IssueSession, End
  <1> HIDE DEF y
  <1>8. /\ requests' \in [Request -> RequestRow] /\ requests'[r] = y
        /\ \A p \in Request \ {r} : requests'[p] = requests[p]
    BY <1>7, SignTypes, Zenon
  <1>9. SignInTypeOK'
    BY <1>4, <1>5, <1>6, <1>8 DEF SignInInv, SignInTypeOK
  <1>10. ASSUME NEW p \in Request PROVE RequestInv(p)'
    <2>1. CASE p = r
      <3>1. 0 <= Len(sessions')
        BY <1>4
      <3> QED BY <1>7, <1>8, <2>1, <3>1 DEF RequestInv
    <2>2. CASE p # r
      BY <1>4, <1>8, <2>2, SignTypes, SMTT(30) DEF SignInInv, RequestInv
    <2> QED BY <2>1, <2>2, Zenon
  <1>11. ASSUME "identity" \notin overlap PROVE links'[a] = u
    BY <1>1, <1>2, <1>6, <1>11, Zenon DEF SignInInv, LinkInv, InTransaction
  <1>12. SessionsFollowTheLink'
    <2> SUFFICES ASSUME "identity" \notin overlap, NEW s \in DOMAIN sessions'
                 PROVE  sessions'[s].user = links'[sessions'[s].account]
      BY <1>5 DEF SessionsFollowTheLink
    <2>1. CASE s = Len(sessions) + 1
      BY <1>3, <1>4, <1>11, <2>1, Zenon
    <2>2. CASE s \in 1..Len(sessions)
      <3>1. sessions[s].user = links[sessions[s].account] /\ sessions'[s] = sessions[s]
        BY <1>4, <2>2, Zenon DEF SignInInv, SessionsFollowTheLink
      <3>2. sessions[s].user \in Email /\ sessions[s].account \in Account
        BY <2>2, SignTypes DEF SessionRow
      <3>3. NoUser \notin Email
        BY NoUserAssumption, Zenon
      <3> QED BY <1>6, <3>1, <3>2, <3>3, Zenon
    <2>3. s = Len(sessions) + 1 \/ s \in 1..Len(sessions)
      BY <1>domain
    <2> QED BY <2>1, <2>2, <2>3, Zenon
  <1>13. ASSUME "identity" \notin overlap, NEW p \in Request PROVE LinkInv(p)'
    <2>1. CASE p = r
      BY <1>7, <1>8, <2>1, Zenon DEF LinkInv, InTransaction
    <2>2. CASE p # r
      <3>1. LinkInv(p) /\ requests'[p] = requests[p] /\ requests[p].account \in Account
        BY <1>8, <1>13, <2>2, SignTypes, Zenon DEF SignInInv
      <3>2. InTransaction(p) /\ requests[p].account = a => links'[a] = links[a]
        BY <1>1, <1>2, <1>6, <2>2, <3>1, Zenon DEF LinkInv, InTransaction
      <3>3. InTransaction(p) => links'[requests[p].account] = links[requests[p].account]
        BY <1>6, <3>1, <3>2
      <3>4. \A z \in Request : InTransaction(z)' => InTransaction(z) /\ requests'[z] = requests[z]
        BY <1>7, <1>8, Zenon DEF InTransaction
      <3> QED BY <3>1, <3>3, <3>4, Zenon DEF LinkInv
    <2> QED BY <2>1, <2>2
  <1>14. ASSUME "roles" \notin overlap, NEW p \in Request PROVE PolicyInv(p)'
    <2>1. CASE p = r
      BY <1>7, <1>8, <2>1 DEF PolicyInv, RoleOpen, At
    <2>2. CASE p # r
      BY <1>5, <1>7, <1>8, <1>14, <2>2, ZenonT(30) DEF SignInInv, PolicyInv, RoleOpen, At, Due, Administers
    <2> QED BY <2>1, <2>2
  <1>15. ASSUME "roles" \notin overlap, NEW s \in DOMAIN sessions', sessions'[s].owed, sessions'[s].satisfied
         PROVE  sessions'[s].asserted
    <2>1. CASE s = Len(sessions) + 1
      BY <1>1, <1>2, <1>3, <1>4, <1>15, <2>1, Zenon DEF SignInInv, PolicyInv, RoleOpen, At
    <2>2. CASE s \in 1..Len(sessions)
      BY <1>4, <1>15, <2>2, Zenon DEF SignInInv
    <2>3. s = Len(sessions) + 1 \/ s \in 1..Len(sessions)
      BY <1>domain
    <2> QED BY <2>1, <2>2, <2>3, Zenon
  <1>16. "roles" \notin overlap => requires' = Administers'
    BY <1>5 DEF SignInInv, Administers
  <1> QED BY <1>5, <1>9, <1>10, <1>12, <1>13, <1>14, <1>15, <1>16, Zenon DEF SignInInv

\* A change of a role begins.
LEMMA ChangeRoleStep ==
  ASSUME SignInInv, NEW r \in Request, ChangeRole(r)
  PROVE  SignInInv'
  <1>1. PICK o \in Organization, w \in Role :
          requests' = [requests EXCEPT ![r] = [Idle EXCEPT !.op = "change", !.pc = "write", !.org = o, !.role = w]]
    BY Zenon DEF ChangeRole, Accept
  <1> DEFINE x == [Idle EXCEPT !.op = "change", !.pc = "write", !.org = o, !.role = w]
  <1>2. x \in RequestRow /\ x.op = "change" /\ x.pc = "write" /\ x.org = o /\ x.session = 0
    BY CallRows, ZenonT(30) DEF RequestRow
  <1>3. UNCHANGED <<links, roles, requires, enrolled, sessions, key, overlap>>
    BY Zenon DEF ChangeRole, identity, policy
  <1>4. 0 <= Len(sessions)
    BY SignTypes
  <1> HIDE DEF x
  <1>5. requests' = [requests EXCEPT ![r] = x]
    BY <1>1 DEF x
  <1> QED BY <1>2, <1>3, <1>4, <1>5, CallStep, IssuedSame, KeyType, Zenon

\* The write of a membership: the trigger computes the policy bit from what is committed.
LEMMA WriteRoleStep ==
  ASSUME SignInInv, NEW r \in Request, WriteRole(r)
  PROVE  SignInInv'
  <1>1. PICK q : q = requests[r]
    OBVIOUS
  <1>2. /\ q \in RequestRow /\ q.op = "change" /\ q.pc = "write" /\ q.org \in Organization
        /\ q.session <= Len(sessions)
    BY <1>1, SignTypes, Zenon DEF SignInInv, RequestInv, WriteRole, At
  <1>3. PICK f \in BOOLEAN : f = (q.role = "admin" \/ \E p \in Organization \ {q.org} : roles[p] = "admin")
    BY Zenon
  <1>4. PICK l \in BOOLEAN, c \in {"update", "commit"} :
          l = (f # requires) /\ c = IF f # requires THEN "update" ELSE "commit"
    BY Zenon
  <1> DEFINE x == [q EXCEPT !.pc = c, !.flag = f, !.locks = l]
  <1>5. requests' = [requests EXCEPT ![r] = x]
    BY <1>1, <1>3, <1>4 DEF WriteRole
  <1>6. /\ x \in RequestRow /\ x.op = "change" /\ x.pc = c /\ x.org = q.org /\ x.role = q.role
        /\ x.flag = f /\ x.locks = l /\ x.session = q.session
    BY <1>2, ZenonT(30) DEF RequestRow
  <1>7. UNCHANGED <<links, roles, requires, enrolled, sessions, key>>
    BY DEF WriteRole, identity, policy
  <1>8. overlap \subseteq overlap' /\ ("roles" \notin overlap' => \A p \in Request : ~RoleOpen(p))
    BY DEF WriteRole
  <1> HIDE DEF x
  <1>9. x.pc \notin {"policy", "issue", "role", "admitted"} /\ x.op # "callback"
    BY <1>4, <1>6
  <1> QED BY <1>2, <1>3, <1>4, <1>5, <1>6, <1>7, <1>8, <1>9, CallStep, IssuedSame, KeyType, Zenon

\* The UPDATE of the policy bit: the transaction goes on with what it computed.
LEMMA UpdateMemberStep ==
  ASSUME SignInInv, NEW r \in Request, UpdateMember(r)
  PROVE  SignInInv'
  <1>1. PICK q : q = requests[r]
    OBVIOUS
  <1>2. /\ q \in RequestRow /\ q.op = "change" /\ q.pc = "update" /\ q.org \in Organization
        /\ q.session <= Len(sessions)
    BY <1>1, SignTypes, Zenon DEF SignInInv, RequestInv, UpdateMember, At
  <1> DEFINE x == [q EXCEPT !.pc = "commit"]
  <1>3. requests' = [requests EXCEPT ![r] = x]
    BY <1>1 DEF UpdateMember, Goto
  <1>4. /\ x \in RequestRow /\ x.op = "change" /\ x.pc = "commit" /\ x.org = q.org /\ x.role = q.role
        /\ x.flag = q.flag /\ x.locks = q.locks /\ x.session = q.session
    BY <1>2, ZenonT(30) DEF RequestRow
  <1>5. UNCHANGED <<links, roles, requires, enrolled, sessions, key, overlap>>
    BY DEF UpdateMember, identity, policy
  <1>6. "roles" \notin overlap =>
          /\ q.flag = (q.role = "admin" \/ \E p \in Organization \ {q.org} : roles[p] = "admin")
          /\ q.locks = (q.flag # requires)
          /\ \A p \in Request \ {r} : ~RoleOpen(p)
    <2> SUFFICES ASSUME "roles" \notin overlap
                 PROVE  /\ q.flag = (q.role = "admin" \/ \E p \in Organization \ {q.org} : roles[p] = "admin")
                        /\ q.locks = (q.flag # requires)
                        /\ \A p \in Request \ {r} : ~RoleOpen(p)
      OBVIOUS
    <2>1. PolicyInv(r) /\ RoleOpen(r)
      BY <1>1, <1>2 DEF SignInInv, RoleOpen
    <2> QED BY <1>1, <2>1, Zenon DEF PolicyInv
  <1> HIDE DEF x
  <1> QED BY <1>2, <1>3, <1>4, <1>5, <1>6, CallStep, IssuedSame, KeyType, Zenon

\* The rows of the other requests when what is owed to them changes.
OwedLess(p) ==
    /\ requests'[p] \in RequestRow
    /\ requests'[p].op = requests[p].op /\ requests'[p].pc = requests[p].pc /\ requests'[p].account = requests[p].account
    /\ requests'[p].user = requests[p].user /\ requests'[p].session = requests[p].session /\ requests'[p].org = requests[p].org
    /\ requests'[p].role = requests[p].role /\ requests'[p].flag = requests[p].flag /\ requests'[p].locks = requests[p].locks
    /\ requests'[p].owed => requests[p].owed

\* Clearing what is owed leaves the rest of a row.
LEMMA OwedRow ==
  ASSUME NEW p \in Request, NEW b \in BOOLEAN,
         requests[p] \in RequestRow, requests'[p] = [requests[p] EXCEPT !.owed = b], b => requests[p].owed
  PROVE  OwedLess(p) /\ requests'[p].owed = b
  <1>1. PICK q : q = requests[p]
    OBVIOUS
  <1>2. PICK x : x = [q EXCEPT !.owed = b]
    BY Zenon
  <1>3. /\ x \in RequestRow /\ x.op = q.op /\ x.pc = q.pc /\ x.account = q.account
        /\ x.user = q.user /\ x.session = q.session /\ x.org = q.org /\ x.role = q.role
        /\ x.flag = q.flag /\ x.locks = q.locks /\ x.owed = b
    BY <1>1, <1>2 DEF RequestRow
  <1> QED BY <1>1, <1>2, <1>3 DEF OwedLess

\* A passkey is registered or revoked: no sign-in under way is owed the policy.
LEMMA EnrolmentStep ==
  ASSUME SignInInv, ChangeEnrolment PROVE SignInInv'
  <1>1. UNCHANGED <<links, roles, requires, sessions, key, overlap>> /\ enrolled' \in BOOLEAN
    BY DEF ChangeEnrolment, identity
  <1>2. ASSUME NEW p \in Request PROVE OwedLess(p) /\ ~requests'[p].owed
    <2>1. requests'[p] = [requests[p] EXCEPT !.owed = FALSE] /\ requests[p] \in RequestRow /\ FALSE \in BOOLEAN
      BY SignTypes DEF ChangeEnrolment
    <2> QED BY <2>1, OwedRow, Zenon
  <1>3. requests' \in [Request -> RequestRow]
    <2>1. requests' = [p \in Request |-> requests'[p]]
      BY DEF ChangeEnrolment
    <2> QED BY <1>2, <2>1 DEF OwedLess
  <1>4. SignInTypeOK'
    BY <1>1, <1>3 DEF SignInInv, SignInTypeOK
  <1>5. ASSUME NEW p \in Request PROVE RequestInv(p)'
    <2>1. RequestInv(p)
      BY DEF SignInInv
    <2> QED BY <1>1, <1>2, <2>1, Zenon DEF RequestInv, OwedLess
  <1>6. ASSUME "identity" \notin overlap, NEW p \in Request PROVE LinkInv(p)'
    <2>1. LinkInv(p)
      BY <1>6 DEF SignInInv
    <2> QED BY <1>1, <1>2, <2>1, Zenon DEF LinkInv, InTransaction, OwedLess
  <1>7. "roles" \notin overlap => requires' = Administers'
    BY <1>1, Zenon DEF SignInInv, Administers
  <1>8. ASSUME "roles" \notin overlap, NEW p \in Request PROVE PolicyInv(p)'
    <2>1. PolicyInv(p)
      BY <1>8, Zenon DEF SignInInv
    <2> QED BY <1>1, <1>2, <2>1, SMTT(30) DEF PolicyInv, RoleOpen, At, OwedLess
  <1> QED BY <1>1, <1>4, <1>5, <1>6, <1>7, <1>8, IssuedInv, IssuedSame, Zenon DEF SignInInv

\* The commit of a role: the policy bit becomes what the roles are now.
LEMMA CommitRoleStep ==
  ASSUME SignInInv, NEW r \in Request, CommitRole(r) PROVE SignInInv'
  <1>1. PICK q, o, w : q = requests[r] /\ o = q.org /\ w = q.role
    OBVIOUS
  <1>2. /\ q \in RequestRow /\ o \in Organization /\ w \in Role /\ q.flag \in BOOLEAN
        /\ q.op = "change" /\ q.pc = "commit"
    BY <1>1, SignTypes DEF SignInInv, RequestInv, CommitRole, At, RequestRow
  <1>3. /\ UNCHANGED <<links, sessions, key, overlap, enrolled>> /\ roles' = [roles EXCEPT ![o] = w]
        /\ requires' = IF q.locks THEN q.flag ELSE requires
    BY <1>1 DEF CommitRole, identity
  <1>4. roles' \in [Organization -> Role] /\ requires' \in BOOLEAN
        /\ roles'[o] = w /\ \A p \in Organization \ {o} : roles'[p] = roles[p]
    BY <1>2, <1>3, SignTypes
  <1>5. requests'[r] = [Idle EXCEPT !.pc = "over"]
    BY DEF CommitRole
  <1>6. requests'[r] \in RequestRow /\ requests'[r].session = 0 /\ requests'[r].pc = "over"
    BY <1>5, CallRows
  <1>7. ASSUME NEW p \in Request \ {r}
        PROVE  OwedLess(p) /\ (requests'[p].owed => Administers')
    <2>1. PICK b \in BOOLEAN : b = (requests[p].owed /\ Administers')
      BY Zenon
    <2>2. requests'[p] = [requests[p] EXCEPT !.owed = b] /\ requests[p] \in RequestRow
      BY <2>1, SignTypes DEF CommitRole
    <2> QED BY <2>1, <2>2, OwedRow, Zenon
  <1>8. requests' \in [Request -> RequestRow]
    <2>1. requests' = [p \in Request |-> requests'[p]]
      BY DEF CommitRole
    <2> QED BY <1>6, <1>7, <2>1 DEF OwedLess
  <1>9. SignInTypeOK'
    BY <1>3, <1>4, <1>8 DEF SignInInv, SignInTypeOK
  <1>10. ASSUME NEW p \in Request PROVE RequestInv(p)'
    <2>1. CASE p = r
      BY <1>3, <1>6, <2>1, SignTypes, SMTT(30) DEF RequestInv
    <2>2. CASE p # r
      <3>1. RequestInv(p)
        BY Zenon DEF SignInInv
      <3> QED BY <1>3, <1>7, <2>2, <3>1, Zenon DEF RequestInv, OwedLess
    <2> QED BY <2>1, <2>2, Zenon
  <1>11. ASSUME "identity" \notin overlap, NEW p \in Request PROVE LinkInv(p)'
    <2>1. CASE p = r
      BY <1>6, <2>1 DEF LinkInv, InTransaction
    <2>2. CASE p # r
      <3>1. LinkInv(p)
        BY <1>11 DEF SignInInv
      <3>2. \A s \in Request : InTransaction(s)' =>
              InTransaction(s) /\ requests'[s].account = requests[s].account
        BY <1>6, <1>7, Zenon DEF InTransaction, OwedLess
      <3>3. /\ requests'[p].pc = requests[p].pc /\ requests'[p].user = requests[p].user
            /\ requests'[p].account = requests[p].account
        BY <1>7, <2>2 DEF OwedLess
      <3> QED BY <1>3, <3>1, <3>2, <3>3, Zenon DEF LinkInv
    <2> QED BY <2>1, <2>2
  <1>12. ASSUME "roles" \notin overlap PROVE requires' = Administers'
    <2>1. /\ q.flag = (w = "admin" \/ \E p \in Organization \ {o} : roles[p] = "admin")
          /\ q.locks = (q.flag # requires)
      BY <1>1, <1>2, <1>12 DEF SignInInv, PolicyInv, RoleOpen, At
    <2>2. Administers' = q.flag
      BY <1>2, <1>4, <2>1, Zenon DEF Administers
    <2> QED BY <1>2, <1>3, <2>1, <2>2, SignTypes, Zenon
  <1>13. ASSUME "roles" \notin overlap, NEW p \in Request PROVE PolicyInv(p)'
    <2>1. CASE p = r
      BY <1>6, <2>1 DEF PolicyInv, RoleOpen, At
    <2>2. CASE p # r
      <3>1. ~RoleOpen(p) /\ PolicyInv(p)
        BY <1>1, <1>2, <1>13, <2>2, Zenon DEF SignInInv, PolicyInv, RoleOpen, At
      <3> QED BY <1>3, <1>7, <2>2, <3>1, Zenon DEF PolicyInv, RoleOpen, At, Due, OwedLess
    <2> QED BY <2>1, <2>2
  <1> QED BY <1>3, <1>9, <1>10, <1>11, <1>12, <1>13, IssuedInv, IssuedSame, Zenon DEF SignInInv

\* The extractors: past the MFA gate the session of a request is satisfied.
LEMMA ExtractorSteps ==
  ASSUME SignInInv, NEW r \in Request,
         \/ Arrive(r) \/ Resolve(r) \/ ResolveOrganization(r)
         \/ MfaGate(r) \/ RoleGate(r) \/ BeginKey(r) \/ WriteKey(r)
  PROVE  SignInInv'
  <1> DEFINE q == requests[r]
  <1>1. q \in RequestRow /\ q.session \in Nat /\ q.session <= Len(sessions) /\ RequestInv(r)
    BY SignTypes, Zenon DEF SignInInv, RequestInv
  <1>2. UNCHANGED <<links, roles, requires, enrolled, sessions, overlap>>
    BY Zenon DEF Arrive, Resolve, ResolveOrganization, MfaGate, RoleGate, BeginKey,
           WriteKey, identity, policy
  <1>3. CASE Arrive(r)
    <2>1. PICK op \in {"owner", "create_key", "revoke_key"}, s \in 0..Len(sessions), b \in BOOLEAN :
            requests' = [requests EXCEPT ![r] = [Idle EXCEPT !.op = op, !.pc = "resolve", !.session = s, !.bearer = b]]
      BY <1>3, Zenon DEF Arrive, Accept
    <2> DEFINE x == [Idle EXCEPT !.op = op, !.pc = "resolve", !.session = s, !.bearer = b]
    <2>2. s \in Nat /\ s <= Len(sessions)
      BY SignTypes
    <2>3. x \in RequestRow /\ x.pc = "resolve" /\ x.session = s
      BY <2>2, CallRows, ZenonT(30) DEF RequestRow
    <2>4. key' = key
      BY <1>3, Zenon DEF Arrive
    <2> HIDE DEF x
    <2>5. requests' = [requests EXCEPT ![r] = x]
      BY <2>1 DEF x
    <2> QED BY <1>2, <2>2, <2>3, <2>4, <2>5, CallPlain, IssuedSame, KeyType, Zenon
  <1>4. CASE Resolve(r)
    <2>0. key' = key
      BY <1>4 DEF Resolve
    <2>1. CASE LiveSession(q.session)
      <3> DEFINE u == sessions[q.session].user
                 x == [q EXCEPT !.pc = "member", !.user = u, !.bearer = FALSE]
      <3>1. u \in Email
        BY <1>1, <2>1, SignTypes DEF LiveSession, SessionRow
      <3>2. requests' = [requests EXCEPT ![r] = x]
        BY <1>4, <2>1 DEF Resolve
      <3> HIDE DEF u
      <3>3. x \in RequestRow /\ x.pc = "member" /\ x.session = q.session
        BY <1>1, <3>1, Zenon DEF RequestRow
      <3> HIDE DEF x
      <3> QED BY <1>1, <1>2, <2>0, <3>2, <3>3, CallPlain, IssuedSame, KeyType, Zenon
    <2>2. CASE ~LiveSession(q.session) /\ q.bearer /\ key.state = "live"
      <3> DEFINE a(z) == [q EXCEPT !.session = z, !.bearer = FALSE, !.user = Member, !.org = key.org]
                 x == [a(0) EXCEPT !.pc = Extracted(a(0))]
      <3>1. key.org \in Organization \cup {"none"} /\ Member \in Email
        BY KeyType, MemberAssumption

      <3>2. \A z \in Nat : a(z) \in RequestRow /\ a(z).session = z
        BY <1>1, <3>1, Zenon DEF RequestRow
      <3>3. requests' = [requests EXCEPT ![r] = x]
        BY <1>4, <2>2 DEF Resolve
      <3> HIDE DEF a
      <3>4. a(0) \in RequestRow /\ a(0).session = 0
        BY <3>2
      <3>5. Extracted(a(0)) \in {"role", "key"}
        BY <3>4 DEF Extracted
      <3>6. x \in RequestRow /\ x.session = 0 /\ x.pc \in {"role", "key"}
        BY <3>4, <3>5 DEF RequestRow
      <3> HIDE DEF x
      <3>7. 0 <= Len(sessions)
        BY SignTypes
      <3> QED BY <1>2, <2>0, <3>3, <3>6, <3>7, CallPlain, IssuedSame, KeyType, Zenon
    <2>3. CASE End(r)
      BY <1>2, <2>0, <2>3, EndCall, KeyType
    <2> QED BY <1>4, <2>1, <2>2, <2>3 DEF Resolve
  <1>5. CASE ResolveOrganization(r)
    <2>0. key' = key
      BY <1>5, Zenon DEF ResolveOrganization
    <2>1. ASSUME NEW o \in Organization,
                 requests' = [requests EXCEPT ![r] = [q EXCEPT !.pc = Extracted(q), !.org = o]]
          PROVE  SignInInv'
      <3>1. PICK c \in {"mfa", "role", "key"} : c = Extracted(q) /\ (c = "role" => q.session = 0)
        BY DEF Extracted
      <3> DEFINE x == [q EXCEPT !.pc = c, !.org = o]
      <3>2. x \in RequestRow /\ x.pc = c /\ x.session = q.session
        BY <1>1, Zenon DEF RequestRow
      <3>3. requests' = [requests EXCEPT ![r] = x]
        BY <2>1, <3>1
      <3> HIDE DEF x
      <3> QED BY <1>1, <1>2, <2>0, <3>1, <3>2, <3>3, CallPlain, IssuedSame, KeyType, Zenon
    <2>2. CASE End(r)
      BY <1>2, <2>0, <2>2, EndCall, KeyType
    <2> QED BY <1>5, <2>1, <2>2, Zenon DEF ResolveOrganization
  <1>6. CASE MfaGate(r)
    <2>0. key' = key
      BY <1>6 DEF MfaGate
    <2>1. CASE Goto(r, "role") /\ sessions[q.session].satisfied
      <3> DEFINE x == [q EXCEPT !.pc = "role"]
      <3>1. x \in RequestRow /\ x.pc = "role" /\ x.session = q.session
        BY <1>1 DEF RequestRow
      <3>2. requests' = [requests EXCEPT ![r] = x]
        BY <2>1 DEF Goto
      <3> HIDE DEF x
      <3> QED BY <1>1, <1>2, <2>0, <2>1, <3>1, <3>2, CallPlain, IssuedSame, KeyType, Zenon
    <2>2. CASE End(r)
      BY <1>2, <2>0, <2>2, EndCall, KeyType
    <2> QED BY <1>6, <2>1, <2>2, Zenon DEF MfaGate
  <1>7. CASE RoleGate(r)
    <2>0. key' = key /\ q.pc = "role"
      BY <1>7 DEF RoleGate
    <2>1. CASE requests' = [requests EXCEPT ![r] = [q EXCEPT !.pc = "admitted", !.user = NoUser, !.org = "none"]]
      <3> DEFINE x == [q EXCEPT !.pc = "admitted", !.user = NoUser, !.org = "none"]
      <3>1. x \in RequestRow /\ x.pc = "admitted" /\ x.session = q.session
        BY <1>1, Zenon DEF RequestRow
      <3>2. q.session # 0 => sessions[q.session].satisfied
        BY <1>1, <2>0 DEF RequestInv
      <3> HIDE DEF x
      <3>3. requests' = [requests EXCEPT ![r] = x]
        BY <2>1 DEF x
      <3> QED BY <1>1, <1>2, <2>0, <3>1, <3>2, <3>3, CallPlain, IssuedSame, KeyType, Zenon
    <2>2. CASE End(r)
      BY <1>2, <2>0, <2>2, EndCall, KeyType, Zenon
    <2> QED BY <1>7, <2>1, <2>2 DEF RoleGate
  <1>8. CASE WriteKey(r)
    <2>1. q.org \in Organization \cup {"none"}
      BY <1>1 DEF RequestRow
    <2>2. key' \in {[state |-> "live", org |-> q.org], [key EXCEPT !.state = "revoked"], key}
      BY <1>8 DEF WriteKey
    <2>3. key' \in [state : {"none", "live", "revoked"}, org : Organization \cup {"none"}]
      BY <2>1, <2>2, KeyType
    <2> QED BY <1>2, <1>8, <2>3, EndCall, Zenon DEF WriteKey
  <1>9. CASE BeginKey(r)
    <2> DEFINE x == [q EXCEPT !.pc = "write"]
    <2>1. requests' = [requests EXCEPT ![r] = x] /\ key' = key /\ q.op \in {"create_key", "revoke_key"}
      BY <1>9 DEF BeginKey, Goto
    <2>2. x \in RequestRow /\ x.pc = "write" /\ x.session = q.session /\ x.op \in {"create_key", "revoke_key"}
      BY <1>1, <2>1 DEF RequestRow
    <2> HIDE DEF x
    <2>3. x.op \notin {"callback", "change"}
      BY <2>2
    <2> QED BY <1>1, <1>2, <2>1, <2>2, <2>3, CallStep, IssuedSame, KeyType, Zenon
  <1> QED BY <1>3, <1>4, <1>5, <1>6, <1>7, <1>8, <1>9

\* SignIn starts in its invariant: Member's policy bit is right, and no request runs.
LEMMA InitSign ==
  SignInInit => SignInInv
  <1> SUFFICES ASSUME SignInInit PROVE SignInInv
    OBVIOUS
  <1>1. /\ \A r \in Request : requests[r] = Idle /\ requests[r].pc = "idle" /\ requests[r].session = 0
        /\ requests \in [Request -> RequestRow]
    BY CallRows, Zenon DEF SignInInit
  <1>2. sessions = <<>> /\ sessions \in Seq(SessionRow) /\ Len(sessions) = 0
    BY DEF SignInInit
  <1>3. /\ links \in [Account -> Email \cup {NoUser}]
        /\ roles \in [Organization -> Role] /\ requires \in BOOLEAN /\ enrolled \in BOOLEAN
    BY MemberAssumption DEF SignInInit, Role, Administers
  <1>4. key \in [state : {"none", "live", "revoked"}, org : Organization \cup {"none"}]
    BY DEF SignInInit
  <1>5. SignInTypeOK
    BY <1>1, <1>2, <1>3, <1>4, Zenon DEF SignInTypeOK
  <1>6. requires = Administers
    BY Zenon DEF SignInInit
  <1>7. \A r \in Request : RequestInv(r) /\ LinkInv(r) /\ PolicyInv(r)
    BY <1>1, <1>2, SMTT(30) DEF RequestInv, LinkInv, InTransaction, PolicyInv, RoleOpen, At
  <1>8. SessionsFollowTheLink /\ DOMAIN sessions = {}
    BY <1>2 DEF SessionsFollowTheLink
  <1> QED BY <1>5, <1>6, <1>7, <1>8 DEF SignInInv

\* Inv of SignIn holds in every state.
LEMMA SignInInvHolds ==
  SignInSpec => []SignInInv
  <1>1. SignInInv /\ [SignInNext]_signInVars => SignInInv'
    <2> SUFFICES ASSUME SignInInv, [SignInNext]_signInVars PROVE SignInInv'
      OBVIOUS
    <2>1. ASSUME NEW i \in Login, Start(i) PROVE SignInInv'
      BY <2>1, SignQuiet, IssuedSame DEF Start, identity, policy
    <2>2. ASSUME NEW s \in DOMAIN sessions, Logout(s) \/ MarkSatisfied(s) PROVE SignInInv'
      <3>1. IssuedKept
        BY <2>2, SessionStep, Zenon DEF Logout, MarkSatisfied
      <3> QED BY <2>2, <3>1, SignQuiet DEF Logout, MarkSatisfied, identity, policy
    <2>3. ASSUME NEW r \in Request, Step(r) PROVE SignInInv'
      BY <2>3, CallbackStarts, CallbackSteps, IssueStep, WriteRoleStep, UpdateMemberStep,
         CommitRoleStep, ExtractorSteps, Zenon DEF Step
    <2>4. ASSUME NEW r \in Request, Drop(r) \/ Consume(r) \/ ChangeRole(r) \/ Arrive(r)
          PROVE  SignInInv'
      BY <2>4, CallbackStarts, ChangeRoleStep, ExtractorSteps, Zenon
    <2>5. CASE UNCHANGED signInVars
      BY <2>5, SignQuiet, IssuedSame DEF signInVars, identity, policy
    <2> QED BY <2>1, <2>2, <2>3, <2>4, <2>5, EnrolmentStep, Zenon DEF SignInNext
  <1> QED BY InitSign, <1>1, PTL DEF SignInSpec

\* upsert_identity: an account's sessions are those of the user it is linked to,
\* unless first sign-ins of the account overlap.
THEOREM SessionsFollow ==
  SignInSpec => []SessionsFollowTheLink
  <1>1. SignInInv => SessionsFollowTheLink
    BY Zenon DEF SignInInv
  <1> QED BY SignInInvHolds, <1>1, PTL

\* callback and OwnerActor: a session sessions while the policy was due all along
\* enters an Owner/Admin route only after an assertion, unless role changes overlap.
THEOREM GateAlwaysHolds ==
  SignInSpec => []GateHolds
  <1>1. SignInInv => GateHolds
    <2> SUFFICES ASSUME SignInInv, "roles" \notin overlap, NEW r \in Request, requests[r].pc = "admitted",
                        requests[r].session # 0, sessions[requests[r].session].owed
                 PROVE  sessions[requests[r].session].asserted
      BY Zenon DEF GateHolds
    <2>1. requests[r].session \in DOMAIN sessions /\ sessions[requests[r].session].satisfied
      BY SignTypes, SMTT(30) DEF SignInInv, RequestInv
    <2> QED BY <2>1, Zenon DEF SignInInv
  <1> QED BY SignInInvHolds, <1>1, PTL
=============================================================================
