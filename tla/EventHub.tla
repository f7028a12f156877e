------------------------------ MODULE EventHub ------------------------------
(***************************************************************************)
(* The ClusterEventHub entry of one cluster and the SSE streams that       *)
(* GET /v1/clusters/:id/events opens on it.  The runner publishes one      *)
(* event per workflow step and one per run that ends well or ends in its   *)
(* error arm; every stream reads the events from its own position in a     *)
(* tokio broadcast channel that keeps the last Capacity of them.           *)
(***************************************************************************)
EXTENDS Integers, Sequences

CONSTANTS
    Client,     \* connections a browser may open
    Capacity,   \* events the channel keeps for a slow reader
    MaxEvents,  \* bound: publishes
    MaxRuns     \* bound: workflow runs on the cluster

ASSUME CapacityAssumption == Capacity \in Nat \ {0}
ASSUME BoundsAssumption == MaxEvents \in Nat /\ MaxRuns \in Nat

VARIABLES
    entry,      \* the channel the hub's map holds for the cluster, 0 for none
    channels,   \* channels made so far
    log,        \* events sent on the channel of the entry
    streams,    \* the connections
    runs,       \* where the runner's task of each run is
    settled,    \* runs whose final status was written to the row
    published   \* calls of publish

hub == <<entry, channels, log>>
runner == <<runs, settled>>
vars == <<hub, streams, runner, published>>

Run == 1..MaxRuns

\* ClusterEvent: `done` is a Terminal with status ready or destroyed, `failed`
\* one with status failed.
Event == [type : {"step", "done", "failed"}, run : Run]

Terminal == {"done", "failed"}

Closed == [pc |-> "none", channel |-> 0, start |-> 0, next |-> 0,
           sent |-> 0, terminals |-> 0, lagged |-> FALSE]

(***************************************************************************)
(* A stream: `start` and `next` are positions in the channel, `sent` and   *)
(* `terminals` what it forwarded, `lagged` whether it forwarded the        *)
(* __lagged__ marker.                                                      *)
(***************************************************************************)
Stream == [pc : {"none", "admitted", "open"}, channel : Nat, start : Nat, next : Nat,
           sent : Nat, terminals : Nat, lagged : BOOLEAN]

TypeOK ==
    /\ entry \in Nat /\ channels \in Nat
    /\ log \in Seq(Event)
    /\ streams \in [Client -> Stream]
    /\ runs \in [Run -> {"idle", "working", "written", "failing", "ended"}]
    /\ settled \in SUBSET Run
    /\ published \in 0..MaxEvents

Init ==
    /\ entry = 0 /\ channels = 0 /\ log = <<>>
    /\ streams = [c \in Client |-> Closed]
    /\ runs = [n \in Run |-> "idle"] /\ settled = {}
    /\ published = 0

Open(c) == streams[c].pc = "open"

-----------------------------------------------------------------------------
(* ClusterEventHub *)

\* Mutant of Publish: the entry is removed after a terminal event.
PublishAndForget(event) ==
    /\ published < MaxEvents /\ published' = published + 1
    /\ \/ /\ entry = 0
          /\ UNCHANGED hub
       \/ /\ entry # 0 /\ event.type = "step"
          /\ log' = Append(log, event) /\ UNCHANGED <<entry, channels>>
       \/ /\ entry # 0 /\ event.type \in Terminal
          /\ entry' = 0 /\ log' = <<>> /\ UNCHANGED channels

\* publish, under the hub's mutex: without an entry nothing happens; `send`
\* fails when nobody listens, and then the entry goes.
Publish(event) ==
    /\ published < MaxEvents /\ published' = published + 1
    /\ \/ /\ entry = 0
          /\ UNCHANGED hub
       \/ /\ entry # 0 /\ \E c \in Client : Open(c)
          /\ log' = Append(log, event) /\ UNCHANGED <<entry, channels>>
       \/ /\ entry # 0 /\ \A c \in Client : ~Open(c)
          /\ entry' = 0 /\ log' = <<>> /\ UNCHANGED channels

\* stream_events up to the await: the cluster is looked up for the actor, and
\* nothing of the row is kept.
Admit(c) ==
    /\ streams[c].pc = "none"
    /\ streams' = [streams EXCEPT ![c].pc = "admitted"]
    /\ UNCHANGED <<hub, runner, published>>

\* subscribe: the first subscriber makes the channel; reading starts at its end.
Subscribe(c) ==
    /\ streams[c].pc = "admitted"
    /\ entry' = IF entry = 0 THEN channels + 1 ELSE entry
    /\ channels' = IF entry = 0 THEN channels + 1 ELSE channels
    /\ streams' = [streams EXCEPT ![c] =
         [Closed EXCEPT !.pc = "open", !.channel = entry',
                        !.start = Len(log), !.next = Len(log)]]
    /\ UNCHANGED <<log, runner, published>>

-----------------------------------------------------------------------------
(* The stream of one connection: BroadcastStream, filter_map, take_while. *)

IsTerminal(event) == IF event.type \in Terminal THEN 1 ELSE 0

Lags(c) == Len(log) - streams[c].next > Capacity

\* The next event of the channel is forwarded; take_while only looks at
\* terminal_seen when an item arrives.
Forward(c) ==
    /\ Open(c) /\ streams[c].next < Len(log) /\ ~Lags(c)
    /\ streams[c].terminals = 0
    /\ streams' = [streams EXCEPT ![c] =
         [streams[c] EXCEPT !.next = @ + 1, !.sent = @ + 1,
                            !.terminals = @ + IsTerminal(log[streams[c].next + 1])]]
    /\ UNCHANGED <<hub, runner, published>>

\* Mutant of Lagged: the error is filtered out.
LaggedDropped(c) ==
    /\ Open(c) /\ Lags(c) /\ streams[c].terminals = 0
    /\ streams' = [streams EXCEPT ![c].next = Len(log) - Capacity]
    /\ UNCHANGED <<hub, runner, published>>

\* The reader fell behind: the marker is forwarded as a step and reading goes
\* on at the oldest event kept.
Lagged(c) ==
    /\ Open(c) /\ Lags(c) /\ streams[c].terminals = 0
    /\ streams' = [streams EXCEPT ![c].next = Len(log) - Capacity,
                                  ![c].lagged = TRUE]
    /\ UNCHANGED <<hub, runner, published>>

\* An item after the terminal event ends the stream; the receiver is dropped.
Finish(c) ==
    /\ Open(c) /\ streams[c].next < Len(log) /\ streams[c].terminals > 0
    /\ streams' = [streams EXCEPT ![c] = Closed]
    /\ UNCHANGED <<hub, runner, published>>

\* The client goes away, or the lookup in stream_events fails.
Disconnect(c) ==
    /\ streams[c].pc # "none"
    /\ streams' = [streams EXCEPT ![c] = Closed]
    /\ UNCHANGED <<hub, runner, published>>

-----------------------------------------------------------------------------
(* The runner, seen from the hub: tasks of several runs may overlap. *)

Move(n, from, to) == runs[n] \in from /\ runs' = [runs EXCEPT ![n] = to]

StartRun(n) ==
    /\ Move(n, {"idle"}, "working")
    /\ UNCHANGED <<hub, streams, settled, published>>

\* ProgressSink::step.
PublishStep(n) ==
    /\ runs[n] = "working"
    /\ Publish([type |-> "step", run |-> n])
    /\ UNCHANGED <<streams, runner>>

\* The last update_status of a run that went well.
WriteStatus(n) ==
    /\ Move(n, {"working"}, "written") /\ settled' = settled \cup {n}
    /\ UNCHANGED <<hub, streams, published>>

\* The error arm: its update_status may fail, and the run goes on.
WriteFailure(n) ==
    /\ Move(n, {"working"}, "failing") /\ settled' \in {settled, settled \cup {n}}
    /\ UNCHANGED <<hub, streams, published>>

PublishTerminal(n) ==
    /\ Move(n, {"written", "failing"}, "ended")
    /\ Publish([type |-> IF runs[n] = "failing" THEN "failed" ELSE "done", run |-> n])
    /\ UNCHANGED <<streams, settled>>

\* The run returns through a `?` and publishes nothing.
AbortRun(n) ==
    /\ Move(n, {"working", "written"}, "ended")
    /\ UNCHANGED <<hub, streams, settled, published>>

\* The process restarts: the hub, its receivers and the tasks are in memory.
Restart ==
    /\ \E n \in Run : runs[n] \notin {"idle", "ended"}
    /\ entry' = 0 /\ log' = <<>> /\ UNCHANGED channels
    /\ streams' = [c \in Client |-> Closed]
    /\ runs' = [n \in Run |-> IF runs[n] = "idle" THEN "idle" ELSE "ended"]
    /\ UNCHANGED <<settled, published>>

Read(c) == Forward(c) \/ Lagged(c) \/ Finish(c)

Next ==
    \/ \E c \in Client : Admit(c) \/ Subscribe(c) \/ Read(c) \/ Disconnect(c)
    \/ \E n \in Run : \/ StartRun(n) \/ PublishStep(n) \/ WriteStatus(n)
                       \/ WriteFailure(n) \/ PublishTerminal(n) \/ AbortRun(n)
    \/ Restart

Spec == Init /\ [][Next]_vars

\* A connected stream is polled whenever its channel has an item.
FairSpec == Spec /\ \A c \in Client : WF_vars(Read(c))

-----------------------------------------------------------------------------
\* An open stream reads the channel the runner publishes to: publish never
\* drops the entry of a channel somebody subscribed to meanwhile.
NoReceiverStranded == \A c \in Client : Open(c) => streams[c].channel = entry

\* A stream forwards every event since it subscribed, unless it told the
\* browser that it lagged.
NothingMissedSilently ==
    \A c \in Client :
        Open(c) /\ ~streams[c].lagged => streams[c].sent = streams[c].next - streams[c].start

\* A stream forwards one terminal event at most (take_while in stream_events).
OneTerminalPerStream == \A c \in Client : streams[c].terminals <= 1

\* A browser that refetches on a `ready` or `destroyed` terminal finds the final
\* status of that run written: publish_terminal comes after the last
\* update_status.  (The error arm ignores a failed update.)
TerminalAfterStatus ==
    \A i \in DOMAIN log : log[i].type = "done" => log[i].run \in settled

\* A terminal event that reached the channel of a connected stream is forwarded,
\* or the lag marker is, or the connection ends.
TerminalIsForwarded ==
    \A c \in Client :
        (/\ Open(c)
         /\ \E i \in DOMAIN log : i > streams[c].next /\ log[i].type \in Terminal)
            ~> (streams[c].terminals > 0 \/ streams[c].lagged \/ ~Open(c))

\* The inductive invariant of the safety properties.
Inv ==
    /\ TypeOK
    /\ entry <= channels
    /\ entry = 0 => log = <<>>
    /\ NoReceiverStranded
    /\ \A c \in Client : Open(c) =>
         /\ entry # 0
         /\ streams[c].start <= streams[c].next /\ streams[c].next <= Len(log)
    /\ NothingMissedSilently /\ OneTerminalPerStream /\ TerminalAfterStatus
    /\ \A n \in Run : runs[n] = "written" => n \in settled
=============================================================================
