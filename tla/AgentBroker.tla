------------------------------ MODULE AgentBroker ------------------------------
(***************************************************************************)
(* The task broker between the controller and the agent of one node        *)
(* (src/agent-broker.ts, the poll route of src/http/agent-routes.ts and    *)
(* the poll loop of agent/client.go and agent/main.go).  Every map of the  *)
(* broker is keyed by node and no operation below touches two nodes, so    *)
(* one node stands for all.                                                *)
(*                                                                         *)
(* The controller dispatches a task and waits for its answer; the agent    *)
(* fetches tasks by long polling, works on one at a time and sends back a  *)
(* result.  Connections break, responses and results get lost, deadlines   *)
(* pass and credentials are replaced while all this happens.               *)
(***************************************************************************)
EXTENDS Integers, FiniteSets, Sequences

CONSTANTS
    Task,           \* task ids
    Background,     \* the tasks with a method of BACKGROUND_METHODS
    Poll,           \* connections the agent polls on
    None,
    MaxTasks,       \* MAX_TASKS_PER_NODE
    MaxBackground,  \* MAX_BACKGROUND_TASKS_PER_NODE
    MaxTokens,      \* bound: number of tokens ever issued
    CredentialOps   \* which of "add", "reset", "revoke" happen

ASSUME TaskAssumption == IsFiniteSet(Task) /\ Background \subseteq Task
ASSUME NoneAssumption == None \notin Task
ASSUME LimitAssumption ==
    /\ MaxTasks \in Nat \ {0}
    /\ MaxBackground \in 1 .. MaxTasks
    /\ MaxTokens \in Nat \ {0}
ASSUME OpsAssumption == CredentialOps \subseteq {"add", "reset", "revoke"}

VARIABLES
    answer,     \* per task: how its dispatch was answered
    pending,    \* the broker's #pending
    queue,      \* #queues
    waiters,    \* #waiters: polls that wait for a task
    seen,       \* #agents: "none", "fresh" (seen within 45 s) or "stale"
    valid,      \* tokens that authenticate
    tokens,     \* number of tokens issued so far
    poll,       \* per connection: the poll request in the controller
    socket,     \* per connection: "open", "closing" (destroyed) or "closed"
    agent,      \* the agent process
    late,       \* tasks whose deadlineAt has passed
    runs,       \* per task: how often the agent started it
    lost        \* tasks whose response or result the network lost

broker == <<answer, pending, queue, waiters, seen>>
credentials == <<valid, tokens>>
world == <<late, runs, lost>>
vars == <<answer, pending, queue, waiters, seen, valid, tokens,
          poll, socket, agent, late, runs, lost>>

\* Answers that say the task was never given to the agent.
Refusal == {"AGENT_OFFLINE", "TASK_DEDUPED", "TASK_QUEUE_FULL",
            "TASK_EXPIRED", "TASK_PREEMPTED"}

Answer == Refusal \cup
    {"none", "waiting", "AGENT_TIMEOUT", "AGENT_CREDENTIAL_CHANGED", "result"}

Token == 1 .. MaxTokens

\* A poll request waits, or is "resumed" with a task (or with None) and about
\* to be answered by the route.
NoPoll == [state |-> "free", task |-> None, token |-> 1]
PollRequest == [state : {"free", "waiting", "resumed"},
                task : Task \cup {None}, token : Token]

\* "received": the response is in; "reporting" and "rejecting": the result, or
\* the agent's own TASK_EXPIRED, is on its way.
AgentState == [phase : {"unregistered", "idle", "polling", "received",
                        "working", "reporting", "rejecting"},
               poll : Poll \cup {None}, task : Task \cup {None}, token : Token]

Entries(s) == {s[i] : i \in DOMAIN s}

\* The types, and that the broker's maps agree: a task is pending exactly while
\* its caller waits, a poll is among the waiters exactly while it waits.
TypeOK ==
    /\ answer \in [Task -> Answer]
    /\ pending = {t \in Task : answer[t] = "waiting"}
    /\ queue \in Seq(Task)
    /\ waiters \in Seq(Poll)
    /\ seen \in {"none", "fresh", "stale"}
    /\ valid \subseteq Token
    /\ tokens \in Token
    /\ poll \in [Poll -> PollRequest]
    /\ Entries(waiters) = {p \in Poll : poll[p].state = "waiting"}
    /\ socket \in [Poll -> {"open", "closing", "closed"}]
    /\ agent \in AgentState
    /\ late \subseteq Task
    /\ runs \in [Task -> Nat]
    /\ lost \subseteq Task

Unregistered(token) ==
    [phase |-> "unregistered", poll |-> None, task |-> None, token |-> token]

Init ==
    /\ answer = [t \in Task |-> "none"]
    /\ pending = {}
    /\ queue = << >>
    /\ waiters = << >>
    /\ seen = "none"
    /\ valid = {1}
    /\ tokens = 1
    /\ poll = [p \in Poll |-> NoPoll]
    /\ socket = [p \in Poll |-> "closed"]
    /\ agent = Unregistered(1)
    /\ late = {}
    /\ runs = [t \in Task |-> 0]
    /\ lost = {}

-----------------------------------------------------------------------------
(* Helpers.                                                                *)

\* Array.filter: the elements of s that are in S, in their order.
Filter(s, S) ==
    LET F[i \in 0 .. Len(s)] ==
            IF i = 0 THEN << >>
            ELSE IF s[i] \in S THEN Append(F[i - 1], s[i]) ELSE F[i - 1]
    IN  F[Len(s)]

\* Array.sort by taskPriority: stable, control tasks first.
ByPriority(q) == Filter(q, Task \ Background) \o Filter(q, Background)

\* #resolveDroppedTask for every task of a set that still waits for its answer.
Resolved(dropped, code) ==
    [t \in Task |-> IF t \in dropped \cap pending THEN code ELSE answer[t]]

\* #pruneQueue drops the tasks past their deadline.
Pruned == Filter(queue, Task \ late)
Expired == Entries(queue) \cap late

\* The first n elements of s, or all of them.
First(s, n) == {s[i] : i \in {j \in DOMAIN s : j <= n}}

Without(s, p) == Filter(s, Poll \ {p})

-----------------------------------------------------------------------------
(* The controller's side: dispatch and deadlines.                          *)

Open == pending \ Expired

\* Variant: the limits count the queued tasks, not those in flight.
QueueVictims(t) == {}

\* #dropBackgroundTasks: a control task takes the place of queued background
\* tasks, oldest first, when the node is at its limit.
Victims(t) ==
    IF t \in Background THEN {}
    ELSE First(Filter(Pruned, Background), Cardinality(Open) - MaxTasks + 1)

Verdict(t) ==
    IF t \in Background /\ Cardinality(Open \cap Background) >= MaxBackground
    THEN "TASK_DEDUPED"
    ELSE IF Cardinality(Open \ Victims(t)) >= MaxTasks THEN "TASK_QUEUE_FULL"
    ELSE "waiting"

\* A poll's promise resolves (only a waiting one: finish() runs once); the
\* route has not resumed yet.
Hand(p, t) ==
    poll' = [poll EXCEPT ![p] =
                IF @.state = "waiting" THEN [@ EXCEPT !.state = "resumed", !.task = t]
                ELSE @]

\* The queue when t is admitted.
Kept(t) == Filter(Pruned, Task \ Victims(t))

DispatchOffline(t) ==
    /\ answer[t] = "none"
    /\ t \in Background
    /\ seen # "fresh"
    /\ answer' = [answer EXCEPT ![t] = "AGENT_OFFLINE"]
    /\ UNCHANGED <<pending, queue, waiters, seen, credentials, poll, socket,
                   agent, world>>

Dispatch(t) ==
    /\ answer[t] = "none"
    /\ t \in Background => seen = "fresh"
    /\ answer' = [u \in Task |-> IF u = t THEN Verdict(t)
                                 ELSE IF u \in Expired \cap pending THEN "TASK_EXPIRED"
                                 ELSE IF u \in Victims(t) \cap pending THEN "TASK_PREEMPTED"
                                 ELSE answer[u]]
    /\ IF Verdict(t) # "waiting"
       THEN /\ pending' = Open \ Victims(t)
            /\ queue' = Kept(t)
            /\ UNCHANGED <<waiters, poll>>
       ELSE /\ pending' = (Open \ Victims(t)) \cup {t}
            /\ IF waiters # << >>
               THEN /\ queue' = Kept(t)
                    /\ waiters' = Tail(waiters)
                    /\ Hand(Head(waiters), t)
               ELSE /\ queue' = ByPriority(Append(Kept(t), t))
                    /\ UNCHANGED <<waiters, poll>>
    /\ UNCHANGED <<seen, credentials, socket, agent, world>>

\* Variant: the timer of a task that is still queued is left to the pruning.
TimerOfDelivered(t) ==
    /\ t \in pending \cap late
    /\ t \notin Entries(queue)
    /\ answer' = [answer EXCEPT ![t] = "AGENT_TIMEOUT"]
    /\ pending' = pending \ {t}
    /\ UNCHANGED <<queue, waiters, seen, credentials, poll, socket, agent, world>>

\* The timer of dispatch: the task is answered, but stays wherever it is.
Timer(t) ==
    /\ t \in pending \cap late
    /\ answer' = [answer EXCEPT ![t] = "AGENT_TIMEOUT"]
    /\ pending' = pending \ {t}
    /\ UNCHANGED <<queue, waiters, seen, credentials, poll, socket, agent, world>>

\* Variant: the agent does not bound its work by the task's deadline.
DeadlineOnlyHere(t) ==
    /\ answer[t] # "none"
    /\ t \notin late
    /\ late' = late \cup {t}
    /\ UNCHANGED <<broker, credentials, poll, socket, agent, runs, lost>>

\* deadlineAt passes, on both sides: the agent stops a task it works on
\* (context.WithDeadline) and reports that.
Deadline(t) ==
    /\ answer[t] # "none"
    /\ t \notin late
    /\ late' = late \cup {t}
    /\ IF agent.phase = "working" /\ agent.task = t
       THEN agent' = [agent EXCEPT !.phase = "reporting"]
       ELSE UNCHANGED agent
    /\ UNCHANGED <<broker, credentials, poll, socket, runs, lost>>

-----------------------------------------------------------------------------
(* Long polling: the broker's poll and the route around it.                *)

Asked(p, state, t) ==
    poll' = [poll EXCEPT ![p] = [state |-> state, task |-> t, token |-> agent.token]]

\* #takeTask leaves the rest of the queue.
Rest == Tail(Pruned)

\* The agent polls on connection p.  With a valid token that is a heartbeat
\* too; it gets the first task that is still in time, or waits.  The agent may
\* have gone before the handler runs: then no close event will follow.
SendPoll(p) ==
    /\ agent.phase = "idle"
    /\ poll[p].state = "free" /\ socket[p] = "closed"
    /\ IF agent.token \notin valid
       THEN /\ agent' = Unregistered(agent.token)
            /\ UNCHANGED <<broker, poll, socket>>
       ELSE /\ \/ /\ agent' = [agent EXCEPT !.phase = "polling", !.poll = p]
                  /\ socket' = [socket EXCEPT ![p] = "open"]
               \/ /\ agent' = Unregistered(agent.token)
                  /\ UNCHANGED socket
            /\ seen' = IF seen = "none" THEN "none" ELSE "fresh"
            /\ answer' = Resolved(Expired, "TASK_EXPIRED")
            /\ pending' = Open
            /\ IF Pruned # << >>
               THEN /\ Asked(p, "resumed", Head(Pruned))
                    /\ queue' = Rest
                    /\ UNCHANGED waiters
               ELSE /\ Asked(p, "waiting", None)
                    /\ queue' = Pruned
                    /\ waiters' = Append(waiters, p)
    /\ UNCHANGED <<credentials, world>>

\* The poll has waited for 25 seconds.
PollTimeout(p) ==
    /\ poll[p].state = "waiting"
    /\ waiters' = Without(waiters, p)
    /\ Hand(p, None)
    /\ UNCHANGED <<answer, pending, queue, seen, credentials, socket, agent, world>>

\* The connection breaks and the controller notices; the close event follows.
ConnectionBreaks(p) ==
    /\ socket[p] = "open"
    /\ socket' = [socket EXCEPT ![p] = "closing"]
    /\ agent' = IF agent.phase = "polling" /\ agent.poll = p
                THEN Unregistered(agent.token) ELSE agent
    /\ UNCHANGED <<broker, credentials, poll, world>>

\* Variant: the aborted poll stays among the waiters.
CloseEventKeepsWaiter(p) ==
    /\ socket[p] = "closing"
    /\ socket' = [socket EXCEPT ![p] = "closed"]
    /\ Hand(p, None)
    /\ UNCHANGED <<broker, credentials, agent, world>>

\* onClose and onAbort: a waiting poll is withdrawn.
CloseEvent(p) ==
    /\ socket[p] = "closing"
    /\ socket' = [socket EXCEPT ![p] = "closed"]
    /\ waiters' = Without(waiters, p)
    /\ Hand(p, None)
    /\ UNCHANGED <<answer, pending, queue, seen, credentials, agent, world>>

\* requeue: a task nobody waits for any more is dropped.
Requeue(t) ==
    queue' = IF t \in pending THEN ByPriority(<<t>> \o queue) ELSE queue

\* The route resumes: a task goes back to the queue if the connection is gone,
\* else it is sent, to an agent that may have given up without a trace.
Respond(p) ==
    /\ poll[p].state = "resumed"
    /\ poll' = [poll EXCEPT ![p] = NoPoll]
    /\ socket' = [socket EXCEPT ![p] = "closed"]
    /\ IF poll[p].task # None /\ socket[p] # "open"
       THEN Requeue(poll[p].task) /\ UNCHANGED <<agent, lost>>
       ELSE /\ UNCHANGED queue
            /\ IF agent.phase = "polling" /\ agent.poll = p /\ socket[p] = "open"
               THEN /\ agent' = [agent EXCEPT !.poll = None, !.task = poll[p].task,
                                    !.phase = IF poll[p].task = None THEN "idle"
                                              ELSE "received"]
                    /\ UNCHANGED lost
               ELSE /\ lost' = lost \cup ({poll[p].task} \ {None})
                    /\ UNCHANGED agent
    /\ UNCHANGED <<answer, pending, waiters, seen, credentials, late, runs>>

-----------------------------------------------------------------------------
(* The agent: register, poll, work on one task, report (main, RunPoll).    *)

Register ==
    /\ agent.phase = "unregistered"
    /\ agent.token \in valid
    /\ agent' = [agent EXCEPT !.phase = "idle"]
    /\ seen' = "fresh"
    /\ UNCHANGED <<answer, pending, queue, waiters, credentials, poll, socket, world>>

\* The request fails on the agent's side only (its time-out, a half-open
\* connection).
AgentGivesUp ==
    /\ agent.phase = "polling"
    /\ agent' = Unregistered(agent.token)
    /\ UNCHANGED <<broker, credentials, poll, socket, world>>

Begin ==
    /\ agent.phase = "received"
    /\ IF agent.task \in late
       THEN agent' = [agent EXCEPT !.phase = "rejecting"] /\ UNCHANGED runs
       ELSE /\ agent' = [agent EXCEPT !.phase = "working"]
            /\ runs' = [runs EXCEPT ![agent.task] = @ + 1]
    /\ UNCHANGED <<broker, credentials, poll, socket, late, lost>>

Finish ==
    /\ agent.phase = "working"
    /\ agent' = [agent EXCEPT !.phase = "reporting"]
    /\ UNCHANGED <<broker, credentials, poll, socket, world>>

\* The heartbeat beside a running task.
Heartbeat ==
    /\ agent.phase = "working" /\ agent.token \in valid
    /\ seen = "stale"
    /\ seen' = "fresh"
    /\ UNCHANGED <<answer, pending, queue, waiters, credentials, poll, socket,
                   agent, world>>

\* Variant: a result is accepted whether or not its task is pending.
ResultForAny(t, code) ==
    /\ answer' = [answer EXCEPT ![t] = code]
    /\ pending' = pending \ {t}

\* result: it resolves a pending task, any other is ignored.
Result(t, code) ==
    /\ answer' = IF t \in pending THEN [answer EXCEPT ![t] = code] ELSE answer
    /\ pending' = pending \ {t}

\* deliverResult, once: the request is lost, or arrives and its reply may be
\* lost; an agent whose token was replaced is turned away.
Report ==
    /\ agent.phase \in {"reporting", "rejecting"}
    /\ \/ /\ agent.token \in valid
          /\ Result(agent.task, IF agent.phase = "reporting" THEN "result" ELSE "TASK_EXPIRED")
          /\ agent' \in {Unregistered(agent.token),
                         [Unregistered(agent.token) EXCEPT !.phase = "idle"]}
          /\ UNCHANGED lost
       \/ /\ agent' = Unregistered(agent.token)
          /\ lost' = lost \cup {agent.task}
          /\ UNCHANGED <<answer, pending>>
    /\ UNCHANGED <<queue, waiters, seen, credentials, poll, socket, late, runs>>

\* The agent process restarts, with its own token or the one of a new setup
\* script.
AgentRestart(token) ==
    /\ token \in {agent.token, tokens}
    /\ agent' = Unregistered(token)
    /\ lost' = lost \cup ({agent.task} \ {None})
    /\ UNCHANGED <<broker, credentials, poll, socket, late, runs>>

\* 45 seconds without a sign of life.
GoStale ==
    /\ seen = "fresh"
    /\ seen' = "stale"
    /\ UNCHANGED <<answer, pending, queue, waiters, credentials, poll, socket,
                   agent, world>>

-----------------------------------------------------------------------------
(* Credentials.                                                            *)

\* Variant: polls that wait with the old token stay.
DisconnectKeepsPolls ==
    /\ answer' = Resolved(pending, "AGENT_CREDENTIAL_CHANGED")
    /\ pending' = {}
    /\ queue' = << >>
    /\ seen' = "none"
    /\ UNCHANGED <<waiters, poll>>

\* #disconnect: forget the agent and its queue, end its polls and answer its
\* tasks, the running ones too.
Disconnect ==
    /\ answer' = Resolved(pending, "AGENT_CREDENTIAL_CHANGED")
    /\ pending' = {}
    /\ queue' = << >>
    /\ seen' = "none"
    /\ waiters' = << >>
    /\ poll' = [p \in Poll |->
                    IF p \in Entries(waiters) /\ poll[p].state = "waiting"
                    THEN [poll[p] EXCEPT !.state = "resumed"] ELSE poll[p]]

\* issueToken with preserveExisting (a reinstallation script).
AddToken ==
    /\ "add" \in CredentialOps
    /\ tokens < MaxTokens
    /\ tokens' = tokens + 1
    /\ valid' = valid \cup {tokens + 1}
    /\ UNCHANGED <<broker, poll, socket, agent, world>>

\* issueToken and rotateToken: the new token replaces all others.
ResetToken ==
    /\ "reset" \in CredentialOps
    /\ tokens < MaxTokens
    /\ tokens' = tokens + 1
    /\ valid' = {tokens + 1}
    /\ Disconnect
    /\ UNCHANGED <<socket, agent, world>>

Revoke ==
    /\ "revoke" \in CredentialOps
    /\ valid # {}
    /\ valid' = {}
    /\ Disconnect
    /\ UNCHANGED <<tokens, socket, agent, world>>

Next ==
    \/ \E t \in Task : DispatchOffline(t) \/ Dispatch(t) \/ Timer(t) \/ Deadline(t)
    \/ \E p \in Poll : \/ SendPoll(p) \/ PollTimeout(p) \/ ConnectionBreaks(p)
                       \/ CloseEvent(p) \/ Respond(p)
    \/ Register \/ AgentGivesUp \/ Begin \/ Finish \/ Heartbeat \/ Report
    \/ \E token \in Token : AgentRestart(token)
    \/ GoStale
    \/ AddToken \/ ResetToken \/ Revoke

Spec == Init /\ [][Next]_vars

\* Time passes and timers fire; nothing is asked of the agent or the network.
FairSpec ==
    /\ Spec
    /\ \A t \in Task : WF_vars(Deadline(t)) /\ WF_vars(Timer(t))

-----------------------------------------------------------------------------
(* Safety.                                                                 *)

\* A task somebody waits for is in the queue, in the hands of a poll, with the
\* agent, or lost by the network; the broker itself loses none.
NothingLost ==
    \A t \in pending :
        \/ t \in Entries(queue) \cup lost
        \/ \E p \in Poll : poll[p].state = "resumed" /\ poll[p].task = t
        \/ agent.task = t

\* After a reset nothing dispatched for the new agent reaches a poll that was
\* made with a replaced token.
OldPollsGetNothing ==
    \A p \in Poll :
        poll[p].state = "resumed" /\ poll[p].task \in pending => poll[p].token \in valid

\* A control task is turned away only when no queued background task could have
\* made room for it.
ControlHasPriority ==
    [][\A t \in Task \ Background :
        answer'[t] = "TASK_QUEUE_FULL" /\ answer[t] = "none" =>
            Entries(queue') \cap (Background \cup late) = {}]_vars

\* The agent works only on tasks the controller still waits for.
NoLateWork == agent.phase = "working" => agent.task \in pending

\* The broker, the network and the agent together are a remote call.
CallState(t) ==
    CASE answer[t] = "none" -> "new"
      [] answer[t] = "waiting" -> "open"
      [] answer[t] = "result" -> "done"
      [] answer[t] \in Refusal -> "refused"
      [] OTHER -> "unknown"

Call == INSTANCE RemoteCall WITH
    state <- [t \in Task |-> CallState(t)],
    ran <- runs

IsRemoteCall == Call!Spec

-----------------------------------------------------------------------------
(* Liveness.                                                               *)

\* Every dispatch is answered, also when no agent ever polls.
Answered == \A t \in Task : (answer[t] = "waiting") ~> (answer[t] # "waiting")

=============================================================================
