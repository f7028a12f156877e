----------------------------- MODULE AgentTunnel -----------------------------
(***************************************************************************)
(* The reverse tunnel of one cluster: the agent's reconnect loop with its  *)
(* backoff, the heartbeat task of each session, and the task the API runs  *)
(* for each stream, which stamps the row of the cluster a heartbeat names. *)
(* A stream is a place in a small set, free again when neither side holds  *)
(* it.  The agent only sends heartbeats today; metrics, which the API      *)
(* already handles, come from a later one.                                 *)
(***************************************************************************)
EXTENDS Integers, Sequences, FiniteSets

CONSTANTS
    Stream,        \* places for streams
    Cluster, Organization,
    OwnerOf,       \* clusters.organization_id
    Own,           \* the agent's KUBINATE__CLUSTER_ID
    Version,       \* releases of the agent
    Capacity,      \* capacity of the outbound channel and of the acknowledgements
    BaseMs, CapMs, \* base_ms and cap_ms of backoff_delay
    MaxExponent,   \* the exponent backoff_delay stops at
    MaxAttempt,    \* where the attempt counter saturates (u32::MAX)
    MaxErrors,     \* bound: errors in a row without a clean close
    MaxOthers      \* bound: other messages, deleted clusters and failed statements

ASSUME OwnerAssumption == OwnerOf \in [Cluster -> Organization] /\ Own \in Cluster
ASSUME BackoffAssumption ==
    /\ BaseMs \in Nat \ {0} /\ CapMs \in Nat /\ MaxExponent \in Nat
    /\ MaxAttempt \in Nat /\ MaxAttempt >= MaxExponent
ASSUME TunnelBoundsAssumption == Capacity \in Nat \ {0} /\ MaxErrors \in Nat /\ MaxOthers \in Nat

VARIABLES
    agent,    \* the reconnect loop: where it is, its stream, attempt and delay
    streams,  \* the streams, with the tasks at both ends
    deleted,  \* the clusters with a deleted_at
    version,  \* agent_version of the agent's own cluster, NeverSeen at first
    others    \* other messages, deleted clusters and failed statements so far

tunnelVars == <<agent, streams, deleted, version, others>>

NoStream == 0
Unresolved == "unresolved"
NeverSeen == "never"

\* cluster_org_id is an Option: None is no organization.
ASSUME UnresolvedAssumption == Unresolved \notin Organization

\* `beats`: the heartbeat task runs; `open`: the connection carries what it sends;
\* `server`: the task of the API runs; `org`: its cluster_org_id.  History: `owners`
\* has the organizations of the clusters that heartbeats of the stream named while
\* they were live, `written` those that metrics of the stream were written for.
NewStream == [beats |-> FALSE, open |-> FALSE, wire |-> <<>>, server |-> FALSE,
              acks |-> 0, org |-> Unresolved, owners |-> {}, written |-> {}]

\* A process of the agent.  `errors` is history: errors since the last clean close.
Started(v) == [pc |-> "connect", stream |-> NoStream, attempt |-> 0, delay |-> 0,
               errors |-> 0, version |-> v]

TunnelInit ==
    /\ \E v \in Version : agent = Started(v)
    /\ streams = [s \in Stream |-> NewStream]
    /\ deleted = {} /\ version = NeverSeen /\ others = 0

-----------------------------------------------------------------------------
(* The agent *)

Least(a, b) == IF a <= b THEN a ELSE b

\* backoff_delay: base_ms * (1 << attempt.min(7)), capped.
Ceiling(attempt) == Least(BaseMs * 2^Least(attempt, MaxExponent), CapMs)

\* run_connect_loop, after an error: a random delay up to the ceiling (the longest
\* stands for all of them), and the attempt counted.
BackOff ==
    /\ agent.errors < MaxErrors
    /\ agent' = [agent EXCEPT !.pc = "backoff", !.stream = NoStream, !.delay = Ceiling(agent.attempt),
                              !.attempt = Least(@ + 1, MaxAttempt), !.errors = @ + 1]

\* build_channel or open_stream fails.  Neither has a timeout: the loop may also
\* stay where it is.
ConnectFails ==
    /\ agent.pc = "connect" /\ BackOff
    /\ UNCHANGED <<streams, deleted, version, others>>

\* The sleep is over.
Retry ==
    /\ agent.pc = "backoff"
    /\ agent' = [agent EXCEPT !.pc = "connect", !.delay = 0]
    /\ UNCHANGED <<streams, deleted, version, others>>

\* run_session and open_stream: the stream opens, the heartbeat task and the task
\* of the API start.
Connect(s) ==
    /\ agent.pc = "connect" /\ streams[s] = NewStream
    /\ agent' = [agent EXCEPT !.pc = "session", !.stream = s]
    /\ streams' = [streams EXCEPT ![s] = [@ EXCEPT !.beats = TRUE, !.open = TRUE, !.server = TRUE]]
    /\ UNCHANGED <<deleted, version, others>>

Heartbeat(cluster) == [kind |-> "heartbeat", of |-> cluster, version |-> agent.version]
Metrics(org) == [kind |-> "metrics", of |-> org]

\* Mutant of Tick: one heartbeat when the stream opens, no ticker.
TickOnce(s) ==
    LET t == streams[s] IN
    /\ t.beats /\ (t.open /\ t.server => Len(t.wire) < Capacity)
    /\ streams' = [streams EXCEPT ![s] =
         IF t.open /\ t.server THEN [t EXCEPT !.wire = Append(@, Heartbeat(Own)), !.beats = FALSE]
         ELSE IF t.open \/ t.server THEN [t EXCEPT !.beats = FALSE] ELSE NewStream]
    /\ UNCHANGED <<agent, deleted, version, others>>

\* The heartbeat task: it sends, waiting for room in the channel, or finds the
\* channel closed at either end and ends.
Tick(s) ==
    LET t == streams[s] IN
    /\ t.beats /\ (t.open /\ t.server => Len(t.wire) < Capacity)
    /\ streams' = [streams EXCEPT ![s] =
         IF t.open /\ t.server THEN [t EXCEPT !.wire = Append(@, Heartbeat(Own))]
         ELSE IF t.open \/ t.server THEN [t EXCEPT !.beats = FALSE] ELSE NewStream]
    /\ UNCHANGED <<agent, deleted, version, others>>

\* What the API accepts besides: metrics for an organization, and a heartbeat that
\* names another cluster.
SendOther(s) ==
    /\ agent.stream = s /\ streams[s].server /\ Len(streams[s].wire) < Capacity
    /\ others < MaxOthers /\ others' = others + 1
    /\ \E m \in {Metrics(o) : o \in Organization} \cup {Heartbeat(c) : c \in Cluster \ {Own}} :
         streams' = [streams EXCEPT ![s].wire = Append(@, m)]
    /\ UNCHANGED <<agent, deleted, version>>

\* The session reads an acknowledgement.
ReadAck(s) ==
    /\ agent.pc = "session" /\ agent.stream = s /\ streams[s].acks > 0
    /\ streams' = [streams EXCEPT ![s].acks = @ - 1]
    /\ UNCHANGED <<agent, deleted, version, others>>

\* What is left of stream s when the agent lets go of it: the task of the API, and
\* the heartbeat task unless it is aborted.  What was on the wire is lost with the
\* connection, or the API has it already.
Abandoned(s, beats, open, wire) ==
    IF streams[s].server \/ beats
    THEN [streams[s] EXCEPT !.open = open, !.acks = 0, !.beats = beats, !.wire = wire]
    ELSE NewStream


\* The stream ended: the heartbeat task is aborted, and the loop connects anew.
SessionCloses(s) ==
    /\ agent.pc = "session" /\ agent.stream = s /\ ~streams[s].server /\ streams[s].acks = 0
    /\ agent' = [agent EXCEPT !.pc = "connect", !.stream = NoStream, !.attempt = 0, !.errors = 0]
    /\ streams' = [streams EXCEPT ![s] = NewStream]
    /\ UNCHANGED <<deleted, version, others>>

\* An inbound error: `?` leaves run_session before the abort.  The connection
\* broke, or it lives on (a message that cannot be decoded) and with it the
\* heartbeat task, whose messages still arrive.
SessionFails(s) ==
    /\ agent.pc = "session" /\ agent.stream = s
    /\ BackOff
    /\ \E open \in {FALSE, streams[s].open}, wire \in {<<>>, streams[s].wire} :
         /\ open => wire = streams[s].wire
         /\ streams' = [streams EXCEPT ![s] = Abandoned(s, @.beats, open, wire)]
    /\ UNCHANGED <<deleted, version, others>>

\* handle_command: a GracefulRestart.  The session reads nothing while it drains.
Drain(s) ==
    /\ agent.pc = "session" /\ agent.stream = s /\ streams[s].server
    /\ agent' = [agent EXCEPT !.pc = "drain"]
    /\ UNCHANGED <<streams, deleted, version, others>>

\* The process exits, after draining or by a crash, and is started again, perhaps
\* as another release.  Its connections break.
Restart ==
    /\ \E v \in Version : agent' = Started(v)
    /\ \E kept \in BOOLEAN : streams' = [s \in Stream |->
         Abandoned(s, FALSE, FALSE, IF kept THEN streams[s].wire ELSE <<>>)]
    /\ UNCHANGED <<deleted, version, others>>

-----------------------------------------------------------------------------
(* The task of the API for a stream *)

Live(c) == c \notin deleted

\* touch_cluster_agent_heartbeat: UPDATE ... WHERE deleted_at IS NULL.
Touched(m) == IF m.of = Own /\ Live(Own) THEN m.version ELSE version

\* The task ends; the agent, if it listens, will see the end of the stream.
Ended(t) ==
    IF t.open \/ t.beats THEN [NewStream EXCEPT !.open = t.open, !.beats = t.beats, !.acks = t.acks]
    ELSE NewStream

\* The acknowledgement is sent, waiting for room; nobody reads those of a stream the
\* loop has left.  The task ends if the connection is gone.
Acknowledged(s, t) ==
    IF ~t.open THEN Ended(t) ELSE IF agent.stream = s THEN [t EXCEPT !.acks = @ + 1] ELSE t

\* A heartbeat: touch_agent_heartbeat answers with the organization of the cluster
\* it names, or finds no live cluster or fails, which leaves what was resolved
\* before.
ReceiveHeartbeat(s) ==
    LET t == streams[s]
        c == Head(t.wire).of IN
    /\ t.server /\ t.wire # <<>> /\ Head(t.wire).kind = "heartbeat"
    /\ t.open /\ agent.stream = s => t.acks < Capacity
    /\ \E ok \in BOOLEAN :
         LET resolved == IF ok /\ Live(c) THEN OwnerOf[c] ELSE t.org
             named == t.owners \cup (IF Live(c) THEN {OwnerOf[c]} ELSE {}) IN
         /\ others' = others + (IF ok THEN 0 ELSE 1) /\ others' <= MaxOthers
         /\ version' = IF ok THEN Touched(Head(t.wire)) ELSE version
         /\ streams' = [streams EXCEPT ![s] = Acknowledged(s,
              [t EXCEPT !.wire = Tail(@), !.org = resolved, !.owners = named])]
    /\ UNCHANGED <<agent, deleted>>

\* Mutant of ReceiveMetrics: metrics are forwarded before a heartbeat resolved.
ForwardUnresolved(s) ==
    LET t == streams[s] IN
    /\ t.server /\ t.wire # <<>> /\ Head(t.wire).kind = "metrics"
    /\ streams' = [streams EXCEPT ![s] = [t EXCEPT !.wire = Tail(@),
         !.written = @ \cup (IF t.org \in {Unresolved, Head(t.wire).of} THEN {Head(t.wire).of} ELSE {})]]
    /\ UNCHANGED <<agent, deleted, version, others>>

\* Metrics: forwarded when the organization they claim is the resolved one.  A
\* failed write is only logged.
ReceiveMetrics(s) ==
    LET t == streams[s] IN
    /\ t.server /\ t.wire # <<>> /\ Head(t.wire).kind = "metrics"
    /\ streams' = [streams EXCEPT ![s] = [t EXCEPT !.wire = Tail(@),
         !.written = @ \cup (IF t.org = Head(t.wire).of THEN {t.org} ELSE {})]]
    /\ UNCHANGED <<agent, deleted, version, others>>

\* The inbound stream ends or fails, or the API goes away.
ServerEnds(s) ==
    /\ streams[s].server
    /\ streams' = [streams EXCEPT ![s] = Ended(@)]
    /\ UNCHANGED <<agent, deleted, version, others>>

\* soft_delete, at the end of a destroy run.
DeleteCluster(c) ==
    /\ Live(c) /\ others < MaxOthers
    /\ others' = others + 1 /\ deleted' = deleted \cup {c}
    /\ UNCHANGED <<agent, streams, version>>

-----------------------------------------------------------------------------
TunnelNext ==
    \/ ConnectFails \/ Retry \/ Restart
    \/ \E c \in Cluster : DeleteCluster(c)
    \/ \E s \in Stream :
         \/ Connect(s) \/ Tick(s) \/ SendOther(s) \/ ReadAck(s) \/ SessionCloses(s)
         \/ SessionFails(s) \/ Drain(s) \/ ReceiveHeartbeat(s) \/ ReceiveMetrics(s) \/ ServerEnds(s)

\* In a session the ticker fires and the tasks at both ends take what has arrived.
\* Nothing is assumed of connecting, which may hang.
TunnelSpec ==
    /\ TunnelInit /\ [][TunnelNext]_tunnelVars
    /\ \A s \in Stream :
         /\ WF_tunnelVars(Tick(s)) /\ WF_tunnelVars(ReadAck(s)) /\ WF_tunnelVars(SessionCloses(s))
         /\ WF_tunnelVars(ReceiveHeartbeat(s)) /\ WF_tunnelVars(ReceiveMetrics(s))

-----------------------------------------------------------------------------

\* open_stream: a stream's metrics are written for no organization but those of
\* the clusters its own heartbeats named while they were not deleted.
MetricsFollowHeartbeats == \A s \in Stream : streams[s].written \subseteq streams[s].owners

\* touch_agent_heartbeat: when a session lasts, agent_version comes to be the
\* version of the agent that holds it, although heartbeats of the process before
\* it, or of a session that failed, are handled later than its own.
VersionSettles ==
    <>[](agent.pc = "session" /\ Live(Own)) => <>[](version = agent.version)

-----------------------------------------------------------------------------
Message == [kind : {"heartbeat"}, of : Cluster, version : Version]
           \cup [kind : {"metrics"}, of : Organization]

TunnelTypeOK ==
    /\ agent \in [pc : {"connect", "backoff", "session", "drain"}, stream : {NoStream} \cup Stream,
                 attempt : Int, delay : Int, errors : Int, version : Version]
    /\ streams \in [Stream -> [beats : BOOLEAN, open : BOOLEAN, wire : Seq(Message), server : BOOLEAN,
                               acks : Int, org : Organization \cup {Unresolved},
                               owners : SUBSET Organization, written : SUBSET Organization]]

\* The inductive invariant: a task resolved only what its heartbeats named.
TunnelInv ==
    /\ TunnelTypeOK /\ MetricsFollowHeartbeats
    /\ \A s \in Stream : streams[s].org = Unresolved \/ streams[s].org \in streams[s].owners
=============================================================================
