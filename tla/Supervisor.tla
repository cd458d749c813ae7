----------------------------- MODULE Supervisor -----------------------------
(***************************************************************************)
(* One run of the service supervisor (go/console/serve): prepare, serial   *)
(* start, the wait while services run, the ordered stop and the join, with *)
(* the Start and Stop goroutines of the services, the release of an        *)
(* optional service that missed its readiness budget, and signals.         *)
(*                                                                         *)
(* A service is its place in the order StartOrder returned.  What a        *)
(* service does is free: it may report ready or not, return at any time    *)
(* with or without an error, ignore cancellation, and hang in Stop.        *)
(* Budgets are timers that may fire at any time; only the order of events  *)
(* is kept.                                                                *)
(***************************************************************************)
EXTENDS Naturals, Sequences, FiniteSets

CONSTANTS
    N,          \* services selected
    Preparers,  \* the services that implement Prepare
    Optionals,  \* the sets of services a configuration may mark optional
    Policies    \* the failure policies a configuration may choose

ASSUME CountAssumption == N \in Nat \ {0}
ASSUME PreparersAssumption == Preparers \subseteq 1 .. N
ASSUME OptionalsAssumption == Optionals \subseteq SUBSET (1 .. N)
ASSUME PoliciesAssumption == Policies \subseteq {"fail-fast", "isolate"}

Services == 1 .. N

VARIABLES
    \* the configuration of the run
    optional,   \* the services marked optional
    policy,     \* failure_policy
    \* the goroutine of Run
    at, cur,    \* where it is, and the service it is at there
    toStart,    \* prepareAll: the services to start
    prepared,   \* prepareAll: the services whose Prepare succeeded
    running,    \* supervised.running
    exits,      \* supervised.exits
    \* runState
    started, ready, failed, stopped, released, abandoned,
    outcome,    \* WorstOutcome(observed): the first failure recorded
    \* the goroutines of the services, timers and signals
    start,      \* per service: its Start, before, while and after it runs
    reported,   \* the service awaited has called ready
    stop,       \* per service: its Stop, before, while and after it runs
    release,    \* per service: the goroutine of its release
    deadline,   \* the shutdown deadline
    signals,    \* signals received: one cancels, the second escalates
    tripped,    \* cancelRun was called
    \* history
    stops,      \* per service: times Stop was called
    events,     \* per service: stopped events
    aggregate,  \* the supervisor's ready_reported event
    escalated   \* stopAll saw the second signal

configVars == <<optional, policy>>
runVars == <<toStart, prepared>>
recordVars == <<started, ready, released, aggregate, escalated>>
envVars == <<reported, signals>>
stopVars == <<stop, stops>>
vars == <<configVars, at, cur, runVars, running, exits, recordVars, failed, stopped,
          abandoned, outcome, start, envVars, stopVars, release, deadline, tripped,
          events>>

Optional(s) == s \in optional
Canceled == signals > 0 \/ tripped

-----------------------------------------------------------------------------
(* The record of the run. *)

\* st.record: among failures the first one observed wins.
Record(o) == outcome' = IF outcome = "clean" THEN o ELSE outcome

\* Mutant: an optional service's failure counts.
NoteFailureCounts(s, o) ==
    /\ failed' = failed \cup {s}
    /\ Record(o)

\* noteFailure: an optional service's failure is not an outcome of the run.
NoteFailure(s, o) ==
    /\ failed' = failed \cup {s}
    /\ IF Optional(s) THEN UNCHANGED outcome ELSE Record(o)

\* Mutant: the event is not tied to the mark.
MarkStoppedAlways(s) ==
    /\ stopped' = stopped \cup {s}
    /\ events' = [events EXCEPT ![s] = @ + 1]

\* markStopped, and the stopped event unless there was one.
MarkStopped(s) ==
    /\ stopped' = stopped \cup {s}
    /\ events' = IF s \in stopped THEN events ELSE [events EXCEPT ![s] = @ + 1]

AllFailed == started # {} /\ started \subseteq failed
RequiredFailed == failed \ optional # {}

\* Mutant: an optional service that failed is waited for.
AllReadyStrict == ready = started /\ ready # {}

\* emitAggregateReady: numbers are compared, and an optional service that
\* failed in Prepare is counted although it was not started.
AllReady ==
    /\ Cardinality(ready) + Cardinality({s \in failed : Optional(s) /\ s \notin ready})
           = Cardinality(started)
    /\ ready # {}

-----------------------------------------------------------------------------
(* Shutdown begins. *)

\* Mutant: a service that failed is taken to be stopped.
StopsBelowLive(s) == {t \in (started \ released) \ failed : t < s}

\* Mutant: stops in start order.
NextStopForward(s) ==
    LET rest == {t \in started \ released : s = N + 1 \/ t > s}
    IN  IF rest = {} THEN 0 ELSE CHOOSE t \in rest : \A u \in rest : t <= u

\* The next service of the ordered stop below s; 0 when there is none.
StopsBelow(s) == {t \in started \ released : t < s}
NextStop(s) == CHOOSE t \in StopsBelow(s) \cup {0} : \A u \in StopsBelow(s) : u <= t

\* shutdown: cancel, set the deadline, stop in reverse start order.  Nobody
\* reads running and exits from here on, and they are dropped.
Shutdown ==
    /\ running' = {} /\ exits' = <<>>
    /\ at' = "stop"
    /\ cur' = NextStop(N + 1)
    /\ tripped' = TRUE
    /\ deadline' = "set"

Stay == UNCHANGED <<at, cur, tripped, deadline>>

-----------------------------------------------------------------------------
(* Prepare: one service at a time, before any starts. *)

PrepareUnchanged ==
    UNCHANGED <<configVars, recordVars, stopped, abandoned, start, envVars, stopVars,
                release, events>>

Preparing(s) == at = "prepare" /\ cur = s

PrepareNext ==
    at' = at /\ cur' = cur + 1 /\ UNCHANGED <<tripped, deadline, running, exits>>

PrepareCanceled ==
    /\ at = "prepare" /\ cur <= N
    /\ Canceled
    /\ Shutdown
    /\ UNCHANGED <<runVars, failed, outcome>>
    /\ PrepareUnchanged

PrepareOk(s) ==
    /\ Preparing(s)
    /\ ~Canceled
    /\ toStart' = toStart \cup {s}
    /\ prepared' = prepared \cup ({s} \cap Preparers)
    /\ PrepareNext
    /\ UNCHANGED <<failed, outcome>>
    /\ PrepareUnchanged

PrepareFails(s) ==
    /\ Preparing(s)
    /\ ~Canceled
    /\ s \in Preparers
    /\ NoteFailure(s, "start-failed")
    /\ IF Optional(s) THEN PrepareNext ELSE Shutdown
    /\ UNCHANGED runVars
    /\ PrepareUnchanged

\* The smallest service to start after s; N + 1 when there is none.
NextStart(s) ==
    LET above == {t \in toStart : t > s}
    IN  CHOOSE t \in above \cup {N + 1} : \A u \in above : t <= u

Prepared ==
    /\ at = "prepare" /\ cur = N + 1
    /\ IF toStart = {}
       THEN Record("start-failed") /\ Shutdown
       ELSE /\ at' = "start" /\ cur' = NextStart(0)
            /\ UNCHANGED <<outcome, tripped, deadline, running, exits>>
    /\ UNCHANGED <<runVars, failed>>
    /\ PrepareUnchanged

-----------------------------------------------------------------------------
(* Start: serial, each service awaited before the next. *)

StartUnchanged ==
    UNCHANGED <<configVars, runVars, abandoned, signals>>

StartNext ==
    at' = "start" /\ cur' = NextStart(cur) /\ UNCHANGED <<tripped, deadline>>

\* startAll: markStarted and go Start.
Start ==
    /\ at = "start" /\ cur <= N
    /\ ~Canceled
    /\ started' = started \cup {cur}
    /\ running' = running \cup {cur}
    /\ start' = [start EXCEPT ![cur] = "running"]
    /\ reported' = FALSE
    /\ at' = "ready"
    /\ UNCHANGED <<cur, tripped, deadline, exits, ready, released, aggregate, escalated,
                   failed, stopped, outcome, stopVars, release, events>>
    /\ StartUnchanged

\* The checks of ctx before every start, after the last one, and in awaitReady.
StartCanceled ==
    /\ at \in {"start", "ready"}
    /\ Canceled
    /\ Shutdown
    /\ UNCHANGED <<recordVars, failed, stopped, outcome, start, reported, stopVars, release,
                   events>>
    /\ StartUnchanged

\* startAll returned without an error: nothing serves, or readiness is reported.
Started ==
    /\ at = "start" /\ cur = N + 1
    /\ ~Canceled
    /\ IF AllFailed
       THEN Record("start-failed") /\ Shutdown /\ UNCHANGED aggregate
       ELSE /\ at' = "await"
            /\ aggregate' = AllReady
            /\ UNCHANGED <<cur, tripped, deadline, running, exits, outcome>>
    /\ UNCHANGED <<started, ready, released, escalated, failed, stopped, start, reported,
                   stopVars, release, events>>
    /\ StartUnchanged

MarkReady ==
    /\ at = "ready"
    /\ reported
    /\ ready' = ready \cup {cur}
    /\ StartNext
    /\ UNCHANGED <<running, exits, started, released, aggregate, escalated, failed,
                   stopped, outcome, start, reported, stopVars, release, events>>
    /\ StartUnchanged

\* Mutant: the ordered stop is not told of the release.
ReleaseUnmarked(s) ==
    /\ UNCHANGED released
    /\ release' = [release EXCEPT ![s] = "stopping"]
    /\ stop' = [stop EXCEPT ![s] = "running"]
    /\ stops' = [stops EXCEPT ![s] = @ + 1]

\* release: mark the service and stop it in a goroutine of its own.
Release(s) ==
    /\ released' = released \cup {s}
    /\ release' = [release EXCEPT ![s] = "stopping"]
    /\ stop' = [stop EXCEPT ![s] = "running"]
    /\ stops' = [stops EXCEPT ![s] = @ + 1]

\* The readiness budget runs out.
ReadyTimeout ==
    /\ at = "ready"
    /\ NoteFailure(cur, "start-failed")
    /\ IF Optional(cur)
       THEN /\ Release(cur)
            /\ at' = "release"
            /\ UNCHANGED <<cur, tripped, deadline, running, exits>>
       ELSE Shutdown /\ UNCHANGED <<released, release, stopVars>>
    /\ UNCHANGED <<started, ready, aggregate, escalated, stopped, start, reported, events>>
    /\ StartUnchanged

\* awaitRelease returns: the release is over, or the run is canceled.
ReleaseAwaited ==
    /\ at = "release"
    /\ release[cur] = "over" \/ Canceled
    /\ StartNext
    /\ UNCHANGED <<running, exits, recordVars, failed, stopped, outcome, start, reported,
                   stopVars, release, events>>
    /\ StartUnchanged

-----------------------------------------------------------------------------
(* What awaitReady, awaitRelease and await do with a message from exits. *)

Receiving == at \in {"ready", "release"} \/ (at = "await" /\ running # {})

\* consume: is the message a Start return the caller must act on?
Consume(m) == ~m.abandoned /\ m.name \in running /\ m.name \notin released

Received ==
    /\ exits' = Tail(exits)
    /\ running' = running \ {Head(exits).name}

ReceiveUnchanged ==
    UNCHANGED <<configVars, runVars, recordVars, abandoned, start, envVars, stopVars,
                release>>

ExitIgnored ==
    /\ Receiving /\ exits # <<>>
    /\ ~Consume(Head(exits))
    /\ Received /\ Stay
    /\ UNCHANGED <<failed, outcome, stopped, events>>
    /\ ReceiveUnchanged

\* The service awaited returned before it reported ready, with or without an
\* error.
OwnExit ==
    /\ at = "ready" /\ exits # <<>>
    /\ Consume(Head(exits))
    /\ Head(exits).name = cur
    /\ NoteFailure(cur, "start-failed")
    /\ IF Optional(cur) THEN Received /\ StartNext ELSE Shutdown
    /\ UNCHANGED <<stopped, events>>
    /\ ReceiveUnchanged

Other(m) == Consume(m) /\ ~(at = "ready" /\ m.name = cur)

\* Mutant: an optional service's failure ends the run too.
EndsRunAny(s) == policy = "fail-fast"

\* Does the failure policy end the run for the failure of s?
EndsRun(s) == policy = "fail-fast" /\ ~Optional(s)

OtherFails ==
    LET m == Head(exits)
    IN  /\ Receiving /\ exits # <<>>
        /\ Other(m) /\ m.err
        /\ NoteFailure(m.name, "runtime-crash")
        /\ IF EndsRun(m.name) THEN Shutdown ELSE Received /\ Stay
        /\ UNCHANGED <<stopped, events>>
        /\ ReceiveUnchanged

OtherReturns ==
    LET m == Head(exits)
    IN  /\ Receiving /\ exits # <<>>
        /\ Other(m) /\ ~m.err
        /\ MarkStopped(m.name)
        /\ Received /\ Stay
        /\ UNCHANGED <<failed, outcome>>
        /\ ReceiveUnchanged

\* await returns: the run is canceled, or every service returned.
AwaitCanceled ==
    /\ at = "await" /\ running # {}
    /\ Canceled
    /\ Shutdown
    /\ UNCHANGED <<recordVars, failed, stopped, outcome, start, reported, stopVars, release,
                   events>>
    /\ StartUnchanged

AllReturned ==
    /\ at = "await" /\ running = {}
    /\ IF (RequiredFailed /\ policy = "isolate") \/ AllFailed
       THEN Record("runtime-crash") ELSE UNCHANGED outcome
    /\ Shutdown
    /\ UNCHANGED <<recordVars, failed, stopped, start, reported, stopVars, release, events>>
    /\ StartUnchanged

-----------------------------------------------------------------------------
(* The ordered stop, the join and the services never started. *)

StopUnchanged ==
    UNCHANGED <<configVars, runVars, running, exits, started, ready, released, aggregate,
                start, envVars, release, deadline, tripped>>

StopBelow == at' = "stop" /\ cur' = NextStop(cur)

\* A second signal, looked for before each Stop, abandons what remains.
Escalate ==
    /\ at = "stop" /\ cur # 0
    /\ signals = 2
    /\ Record("runtime-crash")
    /\ failed' = failed \cup {cur} \cup StopsBelow(cur)
    /\ escalated' = TRUE
    /\ at' = "join"
    /\ UNCHANGED <<cur, abandoned, stopped, stopVars, events>>
    /\ StopUnchanged

StopSkipped ==
    /\ at = "stop" /\ cur # 0
    /\ signals < 2
    /\ deadline = "passed"
    /\ Record("shutdown-timeout")
    /\ StopBelow
    /\ UNCHANGED <<escalated, failed, abandoned, stopped, stopVars, events>>
    /\ StopUnchanged

\* stopOne: go Stop.
StopOne ==
    /\ at = "stop" /\ cur # 0
    /\ signals < 2
    /\ deadline # "passed"
    /\ stop' = [stop EXCEPT ![cur] = "running"]
    /\ stops' = [stops EXCEPT ![cur] = @ + 1]
    /\ at' = "stopping"
    /\ UNCHANGED <<cur, escalated, failed, abandoned, stopped, outcome, events>>
    /\ StopUnchanged

StopOk ==
    /\ at = "stopping"
    /\ stop[cur] = "ok"
    /\ MarkStopped(cur)
    /\ StopBelow
    /\ UNCHANGED <<escalated, failed, abandoned, outcome, stopVars>>
    /\ StopUnchanged

StopFails ==
    /\ at = "stopping"
    /\ stop[cur] = "error"
    /\ NoteFailure(cur, "runtime-crash")
    /\ StopBelow
    /\ UNCHANGED <<escalated, abandoned, stopped, stopVars, events>>
    /\ StopUnchanged

\* Mutant: a required service is written off too.
StopTimeoutAbandonsAny ==
    /\ at = "stopping"
    /\ failed' = failed \cup {cur}
    /\ IF deadline = "passed" THEN Record("shutdown-timeout")
       ELSE IF Optional(cur) THEN UNCHANGED outcome ELSE Record("runtime-crash")
    /\ abandoned' = abandoned \cup {cur}
    /\ StopBelow
    /\ UNCHANGED <<escalated, stopped, stopVars, events>>
    /\ StopUnchanged

\* The service's own budget, or what remains of the total one, runs out.
StopTimeout ==
    /\ at = "stopping"
    /\ failed' = failed \cup {cur}
    /\ IF deadline = "passed" THEN Record("shutdown-timeout")
       ELSE IF Optional(cur) THEN UNCHANGED outcome ELSE Record("runtime-crash")
    /\ abandoned' = abandoned \cup ({cur} \cap optional)
    /\ StopBelow
    /\ UNCHANGED <<escalated, stopped, stopVars, events>>
    /\ StopUnchanged

StopsDone ==
    /\ at = "stop" /\ cur = 0
    /\ at' = "join"
    /\ UNCHANGED <<cur, escalated, failed, abandoned, stopped, outcome, stopVars, events>>
    /\ StopUnchanged

EndUnchanged ==
    /\ UNCHANGED <<escalated, failed, abandoned, stopped, events>>
    /\ StopUnchanged

\* The prepared services the run never started, in order; N + 1 is the end.
NextUnstarted(s) ==
    LET above == {t \in prepared \ started : t > s}
    IN  CHOOSE t \in above \cup {N + 1} : \A u \in above : t <= u

Finish == at' = "unstarted" /\ cur' = NextUnstarted(0)

\* join: every release and every Start is over, the written-off ones apart.
Joined ==
    /\ at = "join"
    /\ \A s \in Services : release[s] # "stopping"
    /\ \A s \in started \ abandoned : start[s] = "returned"
    /\ Finish
    /\ UNCHANGED <<outcome, stopVars>>
    /\ EndUnchanged

\* Mutant: a goroutine left behind is not the run's failure.
JoinExpiredQuiet ==
    /\ at = "join"
    /\ deadline = "passed"
    /\ Finish
    /\ UNCHANGED <<outcome, stopVars>>
    /\ EndUnchanged

\* Mutant: the deadline does not bound the wait for the goroutines.
JoinUnbounded ==
    /\ deadline = "passed"
    /\ Joined

\* The deadline passes first: a required service still running is a timeout.
JoinExpired ==
    /\ at = "join"
    /\ deadline = "passed"
    /\ IF \E s \in started \ (abandoned \cup optional) : start[s] # "returned"
       THEN Record("shutdown-timeout") ELSE UNCHANGED outcome
    /\ Finish
    /\ UNCHANGED stopVars
    /\ EndUnchanged

\* releaseUnstarted: Stop, on the goroutine of Run.
StopUnstarted ==
    /\ at = "unstarted" /\ cur <= N
    /\ stop' = [stop EXCEPT ![cur] = "running"]
    /\ stops' = [stops EXCEPT ![cur] = @ + 1]
    /\ at' = "unstarting"
    /\ UNCHANGED <<cur, outcome>>
    /\ EndUnchanged

UnstartedStopped ==
    /\ at = "unstarting"
    /\ stop[cur] # "running"
    /\ at' = "unstarted" /\ cur' = NextUnstarted(cur)
    /\ UNCHANGED <<outcome, stopVars>>
    /\ EndUnchanged

Return ==
    /\ at = "unstarted" /\ cur = N + 1
    /\ at' = "done"
    /\ UNCHANGED <<cur, outcome, stopVars>>
    /\ EndUnchanged

-----------------------------------------------------------------------------
(* The services, the releases, the deadline and the signals.  When Run has *)
(* returned the process exits.                                             *)

EnvUnchanged ==
    UNCHANGED <<configVars, at, cur, runVars, running, recordVars, failed, outcome, stops,
                tripped>>

\* The service awaited calls ready; called later, nobody looks.
Report ==
    /\ at = "ready"
    /\ start[cur] = "running" /\ ~reported
    /\ reported' = TRUE
    /\ UNCHANGED <<signals, exits, stopped, abandoned, start, stop, release, deadline, events>>
    /\ EnvUnchanged

\* A send on exits never blocks; once the shutdown has begun nobody receives.
Send(m) == exits' = IF tripped THEN exits ELSE Append(exits, m)

StartReturns(s) ==
    /\ at # "done"
    /\ start[s] = "running"
    /\ start' = [start EXCEPT ![s] = "returned"]
    /\ \E err \in BOOLEAN : Send([name |-> s, err |-> err, abandoned |-> FALSE])
    /\ UNCHANGED <<envVars, stopped, abandoned, stop, release, deadline, events>>
    /\ EnvUnchanged

\* A Stop returns to the goroutine that waits for it; one that was abandoned
\* ends unnoticed.
StopReturns(s) ==
    /\ (at \in {"stopping", "unstarting"} /\ cur = s) \/ release[s] = "stopping"
    /\ at # "done"
    /\ stop[s] = "running"
    /\ \E result \in {"ok", "error"} : stop' = [stop EXCEPT ![s] = result]
    /\ UNCHANGED <<envVars, exits, stopped, abandoned, start, release, deadline, events>>
    /\ EnvUnchanged

\* The goroutine of a release: the Stop returned.
ReleaseStopped(s) ==
    /\ at # "done"
    /\ release[s] = "stopping"
    /\ stop[s] # "running"
    /\ release' = [release EXCEPT ![s] = "over"]
    /\ IF stop[s] = "ok" THEN MarkStopped(s) ELSE UNCHANGED <<stopped, events>>
    /\ UNCHANGED <<envVars, exits, abandoned, start, stop, deadline>>
    /\ EnvUnchanged

\* The goroutine of a release: its budget ran out, the service is written off.
ReleaseTimeout(s) ==
    /\ at # "done"
    /\ release[s] = "stopping"
    /\ release' = [release EXCEPT ![s] = "over"]
    /\ abandoned' = abandoned \cup {s}
    /\ Send([name |-> s, err |-> FALSE, abandoned |-> TRUE])
    /\ UNCHANGED <<envVars, stopped, start, stop, deadline, events>>
    /\ EnvUnchanged

DeadlinePasses ==
    /\ at # "done"
    /\ deadline = "set"
    /\ deadline' = "passed"
    /\ UNCHANGED <<envVars, exits, stopped, abandoned, start, stop, release, events>>
    /\ EnvUnchanged

\* SignalContext: the first signal cancels the run, the second escalates.
Signal ==
    /\ at # "done"
    /\ signals < 2
    /\ signals' = signals + 1
    /\ UNCHANGED <<reported, exits, stopped, abandoned, start, stop, release, deadline,
                   events>>
    /\ EnvUnchanged

-----------------------------------------------------------------------------
(* The specification. *)

Init ==
    /\ optional \in Optionals
    /\ policy \in Policies
    /\ at = "prepare" /\ cur = 1
    /\ toStart = {} /\ prepared = {}
    /\ running = {} /\ exits = <<>>
    /\ started = {} /\ ready = {} /\ failed = {} /\ stopped = {}
    /\ released = {} /\ abandoned = {}
    /\ outcome = "clean"
    /\ start = [s \in Services |-> "none"]
    /\ reported = FALSE
    /\ stop = [s \in Services |-> "none"]
    /\ release = [s \in Services |-> "none"]
    /\ deadline = "none"
    /\ signals = 0
    /\ tripped = FALSE
    /\ stops = [s \in Services |-> 0]
    /\ events = [s \in Services |-> 0]
    /\ aggregate = FALSE
    /\ escalated = FALSE

PrepareAll ==
    \/ PrepareCanceled \/ Prepared
    \/ \E s \in Services : PrepareOk(s) \/ PrepareFails(s)
StartAll ==
    \/ Start \/ StartCanceled \/ Started \/ MarkReady \/ ReadyTimeout \/ ReleaseAwaited
    \/ ExitIgnored \/ OwnExit \/ OtherFails \/ OtherReturns
    \/ AwaitCanceled \/ AllReturned
StopAll ==
    \/ Escalate \/ StopSkipped \/ StopOne \/ StopOk \/ StopFails \/ StopTimeout \/ StopsDone
    \/ Joined \/ JoinExpired \/ StopUnstarted \/ UnstartedStopped \/ Return
Run == PrepareAll \/ StartAll \/ StopAll

Next ==
    \/ Run
    \/ \E s \in Services :
           StartReturns(s) \/ StopReturns(s) \/ ReleaseStopped(s) \/ ReleaseTimeout(s)
    \/ Report \/ DeadlinePasses \/ Signal

Spec == Init /\ [][Next]_vars

\* The goroutines of Run and of the releases go on and timers fire.  Prepare
\* returns (it is an alternative of Run), and so does the Stop of a service
\* that was never started: both run on the goroutine of Run, and the Service
\* contract has them respect their context.  No other Start or Stop need ever
\* return, and no signal need come.
Fairness ==
    /\ WF_vars(Run)
    /\ WF_vars(DeadlinePasses)
    /\ \A s \in Services :
           /\ WF_vars(ReleaseStopped(s) \/ ReleaseTimeout(s))
           /\ WF_vars(at = "unstarting" /\ cur = s /\ StopReturns(s))

FairSpec == Spec /\ Fairness

-----------------------------------------------------------------------------
(* Properties. *)

Outcomes == {"clean", "start-failed", "runtime-crash", "shutdown-timeout"}
Places == {"prepare", "start", "ready", "release", "await", "stop", "stopping", "join",
           "unstarted", "unstarting", "done"}

\* Type invariant, and who may be in which record: what is released or
\* abandoned is optional and started, and no send on exits ever blocks (two
\* messages for each of the services startAll was given).
TypeOK ==
    /\ optional \in Optionals /\ policy \in Policies
    /\ at \in Places /\ cur \in 0 .. N + 1
    /\ prepared \subseteq toStart /\ toStart \subseteq Services
    /\ running \subseteq started /\ started \subseteq toStart
    /\ Len(exits) <= 2 * Cardinality(toStart)
    /\ \A k \in DOMAIN exits : exits[k].name \in started
    /\ ready \subseteq started
    /\ failed \subseteq Services /\ stopped \subseteq started
    /\ released \cup abandoned \subseteq started \cap optional
    /\ outcome \in Outcomes
    /\ start \in [Services -> {"none", "running", "returned"}]
    /\ stop \in [Services -> {"none", "running", "ok", "error"}]
    /\ release \in [Services -> {"none", "stopping", "over"}]
    /\ deadline \in {"none", "set", "passed"}
    /\ signals \in 0 .. 2

\* No service is stopped twice, although the ordered stop, a release and
\* releaseUnstarted all call Stop (runState.released, "The ordered stop does
\* not stop the service a second time").
StoppedOnce == \A s \in Services : stops[s] <= 1

\* One stopped event per service, whoever notices first that it stopped: its
\* Start returning, the ordered stop or its release (runState.stopped).
OneStoppedEvent == \A s \in Services : events[s] <= 1

\* When Run returns, every service it prepared or started was stopped, unless
\* a second signal or the deadline cut the ordered stop short (Run, "a caller
\* never has to clean up after it").
NothingLeftUnstopped ==
    at = "done" =>
        \A s \in prepared \cup started :
            stops[s] = 1 \/ (s \in started /\ (escalated \/ deadline = "passed"))

\* A clean exit leaves no required service behind: none failed, and none is
\* still in its Start.
CleanExit ==
    at = "done" /\ outcome = "clean" =>
        \A s \in started \ optional : s \notin failed /\ start[s] = "returned"

\* A run whose only failures are optional ones exits 0, unless nothing was
\* serving, the shutdown budget ran out or a second signal came
\* (serve-lifecycle.md, "Readiness and exit follow from that").
OptionalNeverCounts ==
    at = "done" /\ failed \subseteq optional /\ deadline # "passed" /\ ~escalated =>
        outcome = "clean" \/ started \subseteq failed

\* A run that serves has reported it: the aggregate event was emitted when the
\* start sequence ended, whichever optional services failed on the way, the
\* ones that failed in Prepare excepted (serve-lifecycle.md, "Readiness and
\* exit follow from that", does not except them).
ReadyReported == at = "await" /\ failed \subseteq started => aggregate

\* Stops come in the reverse of the start order: when the ordered stop calls
\* Stop, the Stop of each later service that was not released has been called,
\* a service that failed while it ran included, and that Stop has returned or
\* the service is written down as failed, as one that exceeds its budget is
\* (stopAll, "a dependent is always fully stopped before its dependency").
StopsReversed ==
    [][\A s \in started :
         stops'[s] > stops[s] /\ at = "stop" =>
            \A t \in started \ released :
                t > s => /\ stops[t] = 1
                         /\ stop[t] \in {"ok", "error"} \/ t \in failed]_vars

\* A run is ended for a reason: a signal, every service returned or failed, a
\* required service that failed before it was ready, or one that failed later
\* under fail-fast.  An optional service alone never ends it (Service.Optional,
\* otherExit).
EndsForAReason ==
    [][tripped' /\ ~tripped =>
         \/ signals > 0
         \/ at = "await" /\ running = {}
         \/ failed' = Services
         \/ \E s \in failed' \ optional : policy = "fail-fast" \/ s \notin ready]_vars

\* The run ends: a signal, or under fail-fast the failure of a required
\* service, leads to the end of Run, although services hang in Start and Stop.
RunReturns ==
    (Canceled \/ (policy = "fail-fast" /\ RequiredFailed)) ~> at = "done"
=============================================================================
