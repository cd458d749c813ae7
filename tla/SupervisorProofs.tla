-------------------------- MODULE SupervisorProofs --------------------------
(***************************************************************************)
(* Proofs about Supervisor, for any number of services, any choice of the  *)
(* ones that prepare and of the optional ones, and both policies.          *)
(***************************************************************************)
EXTENDS Supervisor, FiniteSetTheorems, WellFoundedInduction, TLAPS

-----------------------------------------------------------------------------
(* The inductive invariant. *)

Messages == [name : Services, err : BOOLEAN, abandoned : BOOLEAN]
Beginning == {"prepare", "start", "ready", "release", "await"}

Types ==
    /\ optional \in Optionals /\ policy \in Policies
    /\ at \in Places /\ cur \in 0 .. N + 1
    /\ exits \in Seq(Messages)
    /\ failed \subseteq Services
    /\ outcome \in Outcomes
    /\ start \in [Services -> {"none", "running", "returned"}]
    /\ stop \in [Services -> {"none", "running", "ok", "error"}]
    /\ release \in [Services -> {"none", "stopping", "over"}]
    /\ deadline \in {"none", "set", "passed"}
    /\ signals \in 0 .. 2
    /\ stops \in [Services -> Nat] /\ events \in [Services -> Nat]

\* Who may be in which record.
Records ==
    /\ toStart \subseteq Services
    /\ prepared \subseteq toStart
    /\ started \subseteq toStart
    /\ running \subseteq started /\ ready \subseteq started /\ stopped \subseteq started
    /\ released \subseteq started \cap optional
    /\ abandoned \subseteq started \cap optional

\* The service the goroutine of Run is at.
AtService ==
    /\ at \in {"prepare", "start"} => cur \in 1 .. N + 1
    /\ at = "start" /\ cur <= N => cur \in toStart
    /\ at \in {"ready", "release"} => cur \in started
    /\ at = "stop" => cur \in (started \ released) \cup {0}
    /\ at = "stopping" => cur \in started \ released
    /\ at = "unstarted" => cur \in (prepared \ started) \cup {N + 1}
    /\ at = "unstarting" => cur \in prepared \ started
    /\ at \in Beginning <=> ~tripped
    /\ deadline = "none" <=> ~tripped

\* How far the start sequence is.
Sequence ==
    /\ at = "prepare" =>
           /\ started = {} /\ \A s \in toStart : s < cur
           /\ \A s \in Services : s < cur => s \in toStart \cup failed
    /\ at \in Beginning \ {"prepare"} => toStart # {} /\ Services = toStart \cup failed
    /\ at = "start" => started = {s \in toStart : s < cur}
    /\ at \in {"ready", "release"} => started = {s \in toStart : s <= cur}
    /\ at = "await" => started = toStart
    /\ at = "ready" => cur \notin ready /\ cur \notin released
    /\ at \in Beginning =>
           \A s \in started :
               s \in ready \/ s \in failed \cap optional \/ (at = "ready" /\ s = cur)

\* The goroutines, and what is in exits: at most one return and one notice of
\* each service.
Goroutines ==
    /\ \A s \in Services : start[s] = "none" <=> s \notin started
    /\ \A s \in Services : release[s] = "none" <=> s \notin released
    /\ \A k \in DOMAIN exits :
           IF exits[k].abandoned THEN release[exits[k].name] = "over"
           ELSE start[exits[k].name] = "returned"
    /\ \A k, l \in DOMAIN exits :
           exits[k].name = exits[l].name /\ exits[k].abandoned = exits[l].abandoned => k = l

\* Whose Stop has been called, by how far the run is.
Stops ==
    /\ \A s \in Services : stops[s] <= 1
    /\ \A s \in released : stops[s] = 1
    /\ at \in Beginning => \A s \in Services \ released : stops[s] = 0
    /\ at = "stop" =>
           \A s \in Services \ released : s \notin started \/ s <= cur => stops[s] = 0
    /\ at = "stopping" =>
           \A s \in Services \ released : s \notin started \/ s < cur => stops[s] = 0
    /\ at = "join" => \A s \in Services \ started : stops[s] = 0
    /\ at = "unstarted" => \A s \in Services \ started : s >= cur => stops[s] = 0
    /\ at = "unstarting" => \A s \in Services \ started : s > cur => stops[s] = 0

\* Whose Stop has not been forgotten.
Reached ==
    /\ at = "stop" /\ deadline # "passed" =>
           \A s \in started \ released : s > cur => stops[s] = 1
    /\ at = "stopping" /\ deadline # "passed" =>
           \A s \in started \ released : s >= cur => stops[s] = 1
    /\ at \notin Beginning \cup {"stop", "stopping"} =>
           \A s \in started : stops[s] = 1 \/ escalated \/ deadline = "passed"
    /\ at = "unstarted" => \A s \in prepared \ started : s < cur => stops[s] = 1
    /\ at = "unstarting" => \A s \in prepared \ started : s <= cur => stops[s] = 1
    /\ at = "done" => \A s \in prepared \ started : stops[s] = 1

\* The ordered stop has dealt with every later service.
Ordered ==
    at \in {"stop", "stopping"} /\ deadline # "passed" =>
        \A t \in started \ released :
            t > cur => stop[t] \in {"ok", "error"} \/ t \in failed

\* What the outcome says about failures.
Honest ==
    /\ outcome = "clean" => failed \subseteq optional
    /\ outcome = "clean" /\ at \in {"unstarted", "unstarting", "done"} =>
           \A s \in started \ optional : start[s] = "returned"
    /\ outcome # "clean" =>
           \/ ~(failed \subseteq optional)
           \/ deadline = "passed"
           \/ escalated
           \/ at \notin Beginning /\ started \subseteq failed

\* One stopped event for each mark.
Events == \A s \in Services : events[s] = IF s \in stopped THEN 1 ELSE 0

IInv ==
    /\ Types /\ Records /\ AtService /\ Sequence /\ Goroutines
    /\ Stops /\ Reached /\ Ordered /\ Honest /\ Events /\ ReadyReported

-----------------------------------------------------------------------------
(* Least and greatest elements: NextStart, NextUnstarted and NextStop. *)

LEMMA Least ==
    ASSUME NEW S, S \subseteq Nat, S # {}
    PROVE  \E x \in S : \A y \in S : x <= y
<1>1. PICK x \in S : \A y \in S : ~(<<y, x>> \in OpToRel(<, Nat))
  BY NatLessThanWellFounded, WFMin
<1>2. \A y \in S : ~(y < x)
  BY <1>1 DEF OpToRel
<1> QED BY <1>2

LEMMA Greatest ==
    ASSUME NEW n \in Nat, NEW S, S \subseteq 0 .. n, S # {}
    PROVE  \E x \in S : \A y \in S : y <= x
<1> DEFINE T == {n - x : x \in S}
<1>1. \A x \in S : n - x \in T /\ n - x \in Nat OBVIOUS
<1>2. PICK m \in T : \A y \in T : m <= y
  <2>1. T \subseteq Nat BY <1>1
  <2>2. PICK x \in S : TRUE OBVIOUS
  <2>3. T # {} BY <1>1, <2>2
  <2> HIDE DEF T
  <2> QED BY <2>1, <2>3, Least
<1>3. PICK x \in S : m = n - x OBVIOUS
<1>4. \A y \in S : n - x <= n - y BY <1>1, <1>2, <1>3
<1> QED BY <1>4

LEMMA NextStartType ==
    ASSUME toStart \subseteq Services, NEW s \in Nat
    PROVE  /\ NextStart(s) \in {t \in toStart : t > s} \cup {N + 1}
           /\ \A u \in toStart : u > s => NextStart(s) <= u
<1> DEFINE above == {t \in toStart : t > s}
<1>1. \A u \in above : u \in Nat /\ u <= N
  BY CountAssumption DEF Services
<1>2. \E t \in above \cup {N + 1} : \A u \in above : t <= u
  <2>1. above \cup {N + 1} \subseteq Nat BY <1>1, CountAssumption
  <2>2. \E t \in above \cup {N + 1} : \A u \in above \cup {N + 1} : t <= u
    <3> HIDE DEF above
    <3> QED BY <2>1, Least
  <2> QED BY <2>2
<1>3. /\ NextStart(s) \in above \cup {N + 1}
      /\ \A u \in above : NextStart(s) <= u
  BY <1>2 DEF NextStart
<1> QED BY <1>3

LEMMA NextUnstartedType ==
    ASSUME prepared \subseteq Services, NEW s \in Nat
    PROVE  /\ NextUnstarted(s) \in {t \in prepared \ started : t > s} \cup {N + 1}
           /\ \A u \in prepared \ started : u > s => NextUnstarted(s) <= u
<1> DEFINE above == {t \in prepared \ started : t > s}
<1>1. \A u \in above : u \in Nat /\ u <= N
  BY CountAssumption DEF Services
<1>2. \E t \in above \cup {N + 1} : \A u \in above : t <= u
  <2>1. above \cup {N + 1} \subseteq Nat BY <1>1, CountAssumption
  <2>2. \E t \in above \cup {N + 1} : \A u \in above \cup {N + 1} : t <= u
    <3> HIDE DEF above
    <3> QED BY <2>1, Least
  <2> QED BY <2>2
<1>3. /\ NextUnstarted(s) \in above \cup {N + 1}
      /\ \A u \in above : NextUnstarted(s) <= u
  BY <1>2 DEF NextUnstarted
<1> QED BY <1>3

LEMMA NextStopType ==
    ASSUME started \subseteq Services, NEW s \in Nat
    PROVE  /\ NextStop(s) \in StopsBelow(s) \cup {0}
           /\ \A u \in started \ released : u < s => u <= NextStop(s)
<1>1. StopsBelow(s) \subseteq 1 .. N
  BY CountAssumption DEF StopsBelow, Services
<1>2. \E t \in StopsBelow(s) \cup {0} : \A u \in StopsBelow(s) : u <= t
  <2>1. StopsBelow(s) \cup {0} \subseteq 0 .. N /\ N \in Nat BY <1>1, CountAssumption
  <2> QED BY <2>1, Greatest
<1>3. /\ NextStop(s) \in StopsBelow(s) \cup {0}
      /\ \A u \in StopsBelow(s) : u <= NextStop(s)
  BY <1>2 DEF NextStop
<1> QED BY <1>3 DEF StopsBelow

LEMMA OptionalType == Types => optional \subseteq Services
BY OptionalsAssumption DEF Types, Services

LEMMA MessageType ==
    Types => \A k \in DOMAIN exits : exits[k] \in Messages /\ exits[k].name \in Services
<1> SUFFICES ASSUME Types, NEW k \in DOMAIN exits
             PROVE  exits[k] \in Messages /\ exits[k].name \in Services
  OBVIOUS
<1>1. exits \in Seq(Messages) BY DEF Types
<1>2. exits[k] \in Messages
  <2> HIDE DEF Messages
  <2> QED BY <1>1
<1> QED BY <1>2 DEF Messages

-----------------------------------------------------------------------------
(* The invariant holds initially. *)

LEMMA InvInit == Init => IInv
<1> SUFFICES ASSUME Init PROVE IInv OBVIOUS
<1> USE DEF Init
<1>1. Types
  <2>1. cur \in 0 .. N + 1 BY CountAssumption
  <2>2. exits \in Seq(Messages) OBVIOUS
  <2>3. signals \in 0 .. 2 OBVIOUS
  <2>4. /\ start \in [Services -> {"none", "running", "returned"}]
        /\ stop \in [Services -> {"none", "running", "ok", "error"}]
        /\ release \in [Services -> {"none", "stopping", "over"}]
        /\ stops \in [Services -> Nat] /\ events \in [Services -> Nat]
    OBVIOUS
  <2>5. /\ at \in Places /\ outcome \in Outcomes /\ deadline \in {"none", "set", "passed"}
        /\ failed \subseteq Services
    BY DEF Places, Outcomes
  <2>6. optional \in Optionals /\ policy \in Policies OBVIOUS
  <2> QED BY <2>1, <2>2, <2>3, <2>4, <2>5, <2>6 DEF Types
<1>2. Records BY DEF Records
<1>3. AtService BY CountAssumption DEF AtService, Beginning
<1>4. Sequence BY CountAssumption DEF Sequence, Beginning, Services
<1>5. Goroutines BY DEF Goroutines
<1>6. Stops BY DEF Stops
<1>7. Reached /\ Ordered BY DEF Reached, Ordered, Beginning
<1>8. Honest /\ Events /\ ReadyReported BY DEF Honest, Events, ReadyReported
<1> QED BY <1>1, <1>2, <1>3, <1>4, <1>5, <1>6, <1>7, <1>8 DEF IInv
-----------------------------------------------------------------------------
(* The invariant is preserved: where the shutdown begins. *)

\* A step to the shutdown, whatever the reason: what it changes of the record
\* is failed and outcome.
LEMMA ShutdownInv ==
    ASSUME IInv, at \in Beginning, Shutdown,
           PrepareUnchanged, UNCHANGED runVars,
           failed \subseteq failed', failed' \subseteq Services, outcome' \in Outcomes,
           Honest'
    PROVE  IInv'
<1> USE DEF Shutdown, PrepareUnchanged, runVars, configVars, recordVars, envVars, stopVars
<1>0. /\ cur' \in (started \ released) \cup {0}
      /\ \A s \in started \ released : s <= cur'
  <2>1. started \subseteq Services /\ N + 1 \in Nat
    BY CountAssumption DEF IInv, Records
  <2>2. \A s \in started \ released : s < N + 1
    BY <2>1, CountAssumption DEF Services
  <2> QED BY <2>1, <2>2, NextStopType DEF StopsBelow
<1>1. Types'
  <2>1. cur' \in 0 .. N + 1
    BY <1>0, CountAssumption DEF IInv, Records, Services
  <2>2. exits' \in Seq(Messages) OBVIOUS
  <2> QED BY <2>1, <2>2 DEF IInv, Types, Places
<1>2. Records' BY DEF IInv, Records
<1>3. AtService' BY <1>0 DEF AtService, Beginning
<1>4. Sequence' BY DEF Sequence, Beginning
<1>5. Goroutines' BY DEF IInv, Goroutines
<1>6. Stops' BY DEF IInv, Stops, Beginning
<1>7. Reached'
  <2>1. \A s \in started \ released : ~(s > cur')
    BY <1>0, <1>1, CountAssumption DEF IInv, Records, Services, Types
  <2> QED BY <2>1 DEF Reached, Beginning
<1>8. Ordered'
  <2>1. \A s \in started \ released : ~(s > cur')
    BY <1>0, <1>1, CountAssumption DEF IInv, Records, Services, Types
  <2> QED BY <2>1 DEF Ordered
<1>9. Events' /\ ReadyReported' BY DEF IInv, Events, ReadyReported
<1> QED BY <1>1, <1>2, <1>3, <1>4, <1>5, <1>6, <1>7, <1>8, <1>9 DEF IInv

\* The run is canceled.
LEMMA CanceledInv ==
    IInv /\ (PrepareCanceled \/ StartCanceled \/ AwaitCanceled) => IInv'
<1> SUFFICES ASSUME IInv, PrepareCanceled \/ StartCanceled \/ AwaitCanceled PROVE IInv'
  OBVIOUS
<1> USE DEF PrepareCanceled, StartCanceled, AwaitCanceled, StartUnchanged, PrepareUnchanged,
            runVars, configVars, recordVars, envVars, stopVars
<1>1. at \in Beginning /\ Shutdown /\ PrepareUnchanged /\ UNCHANGED runVars
  BY DEF Beginning
<1>2. failed' = failed /\ outcome' = outcome /\ optional' = optional /\ started' = started
      /\ escalated' = escalated
  OBVIOUS
<1>3. Honest' BY <1>1, <1>2 DEF IInv, Honest, AtService, Shutdown
<1>4. failed' \subseteq Services /\ outcome' \in Outcomes BY <1>2 DEF IInv, Types
<1> HIDE DEF PrepareCanceled, StartCanceled, AwaitCanceled, PrepareUnchanged, runVars
<1> QED BY <1>1, <1>2, <1>3, <1>4, ShutdownInv

\* What noteFailure and record do to the outcome.
LEMMA RecordOutcome ==
    ASSUME Types, NEW o \in Outcomes, o # "clean", Record(o)
    PROVE  outcome' \in Outcomes /\ outcome' # "clean"
BY DEF Types, Record

LEMMA NoteFailureOutcome ==
    ASSUME Types, NEW s \in Services, NEW o \in Outcomes, o # "clean", NoteFailure(s, o)
    PROVE  /\ failed' = failed \cup {s} /\ failed' \subseteq Services
           /\ outcome' \in Outcomes
           /\ IF s \in optional THEN outcome' = outcome ELSE outcome' # "clean"
BY RecordOutcome DEF NoteFailure, Types, Optional

\* A required service fails and ends the run.
LEMMA RequiredFailureInv ==
    ASSUME IInv, at \in Beginning, Shutdown, PrepareUnchanged, UNCHANGED runVars,
           NEW s \in Services, NEW o \in Outcomes, o # "clean", NoteFailure(s, o),
           s \notin optional
    PROVE  IInv'
<1>1. /\ failed' = failed \cup {s} /\ failed' \subseteq Services
      /\ outcome' \in Outcomes /\ outcome' # "clean"
  BY NoteFailureOutcome DEF IInv
<1>2. Honest' BY <1>1 DEF Honest, PrepareUnchanged, configVars
<1> QED BY <1>1, <1>2, ShutdownInv

\* Nothing is serving.
LEMMA NothingServesInv ==
    ASSUME IInv, at \in Beginning, Shutdown, PrepareUnchanged, UNCHANGED runVars,
           NEW o \in Outcomes, o # "clean", Record(o), UNCHANGED failed,
           started \subseteq failed \/ RequiredFailed
    PROVE  IInv'
<1>1. outcome' \in Outcomes /\ outcome' # "clean" BY RecordOutcome DEF IInv
<1>2. failed' = failed /\ failed' \subseteq Services BY DEF IInv, Types
<1>3. Honest'
  BY <1>1, <1>2 DEF Honest, PrepareUnchanged, configVars, recordVars, Shutdown, Beginning,
                    RequiredFailed
<1> QED BY <1>1, <1>2, <1>3, ShutdownInv

LEMMA AllReturnedInv == IInv /\ AllReturned => IInv'
<1> SUFFICES ASSUME IInv, AllReturned PROVE IInv' OBVIOUS
<1>1. at \in Beginning /\ Shutdown /\ PrepareUnchanged /\ UNCHANGED <<toStart, prepared>>
      /\ UNCHANGED failed
  BY DEF Beginning, AllReturned, StartUnchanged, PrepareUnchanged, runVars, configVars,
         recordVars, envVars, stopVars
<1>2. UNCHANGED runVars BY <1>1 DEF runVars
<1>3. CASE (RequiredFailed /\ policy = "isolate") \/ AllFailed
  <2>1. Record("runtime-crash") BY <1>3 DEF AllReturned
  <2>2. started \subseteq failed \/ RequiredFailed BY <1>3 DEF AllFailed
  <2> QED BY <1>1, <1>2, <2>1, <2>2, NothingServesInv DEF Outcomes
<1>4. CASE ~((RequiredFailed /\ policy = "isolate") \/ AllFailed)
  <2>1. outcome' = outcome BY <1>4 DEF AllReturned
  <2>2. failed' \subseteq Services /\ outcome' \in Outcomes BY <1>1, <2>1 DEF IInv, Types
  <2>3. Honest'
    BY <1>1, <2>1 DEF IInv, Honest, AtService, Shutdown, PrepareUnchanged, configVars,
                      recordVars
  <2> QED BY <1>1, <1>2, <2>2, <2>3, ShutdownInv
<1> QED BY <1>3, <1>4

-----------------------------------------------------------------------------
(* Prepare. *)

LEMMA PrepareOkInv == ASSUME NEW s \in Services PROVE IInv /\ PrepareOk(s) => IInv'
<1> SUFFICES ASSUME IInv, PrepareOk(s) PROVE IInv' OBVIOUS
<1> USE DEF PrepareOk, Preparing, PrepareNext, PrepareUnchanged, configVars, recordVars,
            envVars, stopVars
<1>1. Types' BY CountAssumption DEF IInv, Types, Services
<1>2. Records' BY DEF IInv, Records
<1>3. AtService' BY CountAssumption DEF IInv, AtService, Beginning, Services
<1>4. Sequence'
  <2>1. \A t \in Services : t < cur + 1 => t < cur \/ t = cur BY CountAssumption DEF Services
  <2>2. \A t \in toStart : t < cur => t < cur + 1 BY CountAssumption DEF Services, IInv, Records
  <2>3. s < s + 1 BY CountAssumption DEF Services
  <2> QED BY <2>1, <2>2, <2>3 DEF IInv, Sequence, Beginning
<1>5. Goroutines' BY DEF IInv, Goroutines
<1>6. Stops' BY DEF IInv, Stops, Beginning
<1>7. Reached' /\ Ordered' BY DEF Reached, Ordered, Beginning
<1>8. Honest' BY DEF IInv, Honest, Beginning
<1>9. Events' /\ ReadyReported' BY DEF IInv, Events, ReadyReported
<1> QED BY <1>1, <1>2, <1>3, <1>4, <1>5, <1>6, <1>7, <1>8, <1>9 DEF IInv

LEMMA PrepareFailsInv == ASSUME NEW s \in Services PROVE IInv /\ PrepareFails(s) => IInv'
<1> SUFFICES ASSUME IInv, PrepareFails(s) PROVE IInv' OBVIOUS
<1>0. /\ failed' = failed \cup {s} /\ failed' \subseteq Services /\ outcome' \in Outcomes
      /\ s \in optional => outcome' = outcome
  BY NoteFailureOutcome DEF PrepareFails, IInv, Outcomes
<1>a. CASE s \in optional
  <2> USE <1>0, <1>a DEF PrepareFails, Preparing, PrepareNext, PrepareUnchanged, Optional,
                         runVars, configVars, recordVars, envVars, stopVars
  <2>1. Types' BY CountAssumption DEF IInv, Types, Services
  <2>2. Records' BY DEF IInv, Records
  <2>3. AtService' BY CountAssumption DEF IInv, AtService, Beginning, Services
  <2>4. Sequence' BY CountAssumption DEF IInv, Sequence, Beginning, Services, Records
  <2>5. Goroutines' BY DEF IInv, Goroutines
  <2>6. Stops' BY DEF IInv, Stops, Beginning
  <2>7. Reached' /\ Ordered' BY DEF Reached, Ordered, Beginning
  <2>8. Honest' BY DEF IInv, Honest, Beginning
  <2>9. Events' /\ ReadyReported' BY DEF IInv, Events, ReadyReported
  <2> QED BY <2>1, <2>2, <2>3, <2>4, <2>5, <2>6, <2>7, <2>8, <2>9 DEF IInv
<1>b. CASE s \notin optional
  <2>1. /\ at \in Beginning /\ Shutdown /\ PrepareUnchanged /\ UNCHANGED runVars
        /\ NoteFailure(s, "start-failed")
    BY <1>b DEF PrepareFails, Preparing, Beginning, Optional
  <2> QED BY <1>b, <2>1, RequiredFailureInv DEF Outcomes
<1> QED BY <1>a, <1>b

LEMMA PreparedInv == IInv /\ Prepared => IInv'
<1> SUFFICES ASSUME IInv, Prepared PROVE IInv' OBVIOUS
<1>a. CASE toStart = {}
  <2>1. /\ at \in Beginning /\ Shutdown /\ PrepareUnchanged /\ UNCHANGED runVars
        /\ Record("start-failed") /\ UNCHANGED failed
    BY <1>a DEF Prepared, Beginning
  <2>2. started \subseteq failed BY <1>a DEF IInv, Records
  <2> QED BY <2>1, <2>2, NothingServesInv DEF Outcomes
<1>b. CASE toStart # {}
  <2>0. /\ cur' \in toStart \cup {N + 1} /\ cur' \in 1 .. N + 1
        /\ \A u \in toStart : cur' <= u
    <3>1. toStart \subseteq Services /\ 0 \in Nat BY DEF IInv, Records
    <3>2. cur' = NextStart(0) BY <1>b DEF Prepared
    <3>3. \A u \in toStart : u > 0 /\ u \in 1 .. N + 1 BY <3>1, CountAssumption DEF Services
    <3>4. N + 1 \in 1 .. N + 1 BY CountAssumption
    <3> QED BY <3>1, <3>2, <3>3, <3>4, NextStartType
  <2>a. /\ at = "prepare" /\ cur = N + 1 /\ at' = "start"
        /\ UNCHANGED <<outcome, tripped, deadline, running, exits, runVars, failed>>
        /\ PrepareUnchanged
    BY <1>b DEF Prepared
  <2> USE <2>a DEF PrepareUnchanged, runVars, configVars, recordVars, envVars, stopVars
  <2>1. Types' BY <2>0, CountAssumption DEF IInv, Types, Places
  <2>2. Records' BY DEF IInv, Records
  <2>3. AtService' BY <2>0, CountAssumption DEF IInv, AtService, Beginning
  <2>4. Sequence'
    <3>1. started = {} BY DEF IInv, Sequence
    <3>2. \A s \in Services : s < cur BY CountAssumption DEF Services
    <3>3. Services = toStart \cup failed
      BY <3>2 DEF IInv, Sequence, Records, Types
    <3>4. \A s \in toStart : ~(s < cur')
      BY <2>0, CountAssumption DEF IInv, Records, Services
    <3> QED BY <1>b, <3>1, <3>3, <3>4 DEF Sequence, Beginning
  <2>5. Goroutines' BY DEF IInv, Goroutines
  <2>6. Stops' BY DEF IInv, Stops, Beginning
  <2>7. Reached' /\ Ordered' BY DEF Reached, Ordered, Beginning
  <2>8. Honest' BY DEF IInv, Honest, Beginning
  <2>9. Events' /\ ReadyReported' BY DEF IInv, Events, ReadyReported
  <2> QED BY <2>1, <2>2, <2>3, <2>4, <2>5, <2>6, <2>7, <2>8, <2>9 DEF IInv
<1> QED BY <1>a, <1>b

-----------------------------------------------------------------------------
(* Start. *)

LEMMA StartInv == IInv /\ Start => IInv'
<1> SUFFICES ASSUME IInv, Start PROVE IInv' OBVIOUS
<1>0. cur \in toStart /\ cur \in Services /\ cur \notin started /\ cur \in Nat
  BY CountAssumption DEF IInv, Start, AtService, Sequence, Records, Services
<1> USE <1>0 DEF Start, StartUnchanged, runVars, configVars, recordVars, envVars, stopVars
<1>1. Types' BY DEF IInv, Types, Places
<1>2. Records' BY DEF IInv, Records
<1>3. AtService' BY DEF IInv, AtService, Beginning
<1>4. Sequence'
  <2>1. started' = {s \in toStart : s <= cur}
    <3>1. \A s \in toStart : s <= cur <=> s < cur \/ s = cur
      BY CountAssumption DEF IInv, Records, Services
    <3>2. started = {s \in toStart : s < cur} BY DEF IInv, Sequence
    <3> QED BY <3>1, <3>2
  <2>2. cur \notin ready /\ cur \notin released BY DEF IInv, Records
  <2> QED BY <2>1, <2>2 DEF IInv, Sequence, Beginning
<1>5. Goroutines'
  <2>1. start' = [start EXCEPT ![cur] = "running"] /\ start[cur] = "none"
    BY DEF IInv, Goroutines
  <2>2. \A s \in Services : start'[s] = IF s = cur THEN "running" ELSE start[s]
    BY <2>1 DEF IInv, Types
  <2>3. \A k \in DOMAIN exits : exits[k].name \in Services BY MessageType DEF IInv
  <2> QED BY <2>1, <2>2, <2>3 DEF IInv, Goroutines
<1>6. Stops' BY DEF IInv, Stops, Beginning
<1>7. Reached' /\ Ordered' BY DEF Reached, Ordered, Beginning
<1>8. Honest' BY DEF IInv, Honest, Beginning
<1>9. Events' /\ ReadyReported' BY DEF IInv, Events, ReadyReported
<1> QED BY <1>1, <1>2, <1>3, <1>4, <1>5, <1>6, <1>7, <1>8, <1>9 DEF IInv

\* The service startAll goes on to.
LEMMA StartNextFacts ==
    ASSUME IInv, cur \in started, StartNext
    PROVE  /\ at' = "start" /\ UNCHANGED <<tripped, deadline>>
           /\ cur \in Services
           /\ cur' \in toStart \cup {N + 1} /\ cur' \in 1 .. N + 1
           /\ {s \in toStart : s <= cur} = {s \in toStart : s < cur'}
<1>1. toStart \subseteq Services /\ cur \in Services BY DEF IInv, Records
<1>2. cur \in Nat /\ \A u \in toStart : u \in 1 .. N BY <1>1, CountAssumption DEF Services
<1>3. cur' = NextStart(cur) BY DEF StartNext
<1>4. /\ cur' \in {t \in toStart : t > cur} \cup {N + 1}
      /\ \A u \in toStart : u > cur => cur' <= u
  BY <1>1, <1>2, <1>3, NextStartType
<1>5. cur' \in toStart \cup {N + 1} /\ cur' \in 1 .. N + 1 /\ cur' > cur
  BY <1>1, <1>2, <1>4, CountAssumption DEF Services
<1>6. \A s \in toStart : s <= cur <=> s < cur' BY <1>2, <1>4, <1>5
<1> QED BY <1>1, <1>5, <1>6 DEF StartNext

LEMMA MarkReadyInv == IInv /\ MarkReady => IInv'
<1> SUFFICES ASSUME IInv, MarkReady PROVE IInv' OBVIOUS
<1>0. /\ cur \in started /\ StartNext
      /\ at' = "start" /\ UNCHANGED <<tripped, deadline>>
      /\ cur' \in toStart \cup {N + 1} /\ cur' \in 1 .. N + 1
      /\ {s \in toStart : s <= cur} = {s \in toStart : s < cur'}
  BY StartNextFacts DEF IInv, MarkReady, AtService
<1> USE <1>0 DEF MarkReady, StartUnchanged, runVars, configVars, recordVars, envVars, stopVars
<1>1. Types' BY CountAssumption DEF IInv, Types, Places
<1>2. Records' BY DEF IInv, Records
<1>3. AtService' BY CountAssumption DEF IInv, AtService, Beginning
<1>4. Sequence' BY DEF IInv, Sequence, Beginning
<1>5. Goroutines' BY DEF IInv, Goroutines
<1>6. Stops' BY DEF IInv, Stops, Beginning
<1>7. Reached' /\ Ordered' BY DEF Reached, Ordered, Beginning
<1>8. Honest' BY DEF IInv, Honest, Beginning
<1>9. Events' /\ ReadyReported' BY DEF IInv, Events, ReadyReported
<1> QED BY <1>1, <1>2, <1>3, <1>4, <1>5, <1>6, <1>7, <1>8, <1>9 DEF IInv

LEMMA ReleaseAwaitedInv == IInv /\ ReleaseAwaited => IInv'
<1> SUFFICES ASSUME IInv, ReleaseAwaited PROVE IInv' OBVIOUS
<1>0. /\ cur \in started /\ StartNext
      /\ at' = "start" /\ UNCHANGED <<tripped, deadline>>
      /\ cur' \in toStart \cup {N + 1} /\ cur' \in 1 .. N + 1
      /\ {s \in toStart : s <= cur} = {s \in toStart : s < cur'}
  BY StartNextFacts DEF IInv, ReleaseAwaited, AtService
<1> USE <1>0 DEF ReleaseAwaited, StartUnchanged, runVars, configVars, recordVars, envVars,
                 stopVars
<1>1. Types' BY CountAssumption DEF IInv, Types, Places
<1>2. Records' BY DEF IInv, Records
<1>3. AtService' BY CountAssumption DEF IInv, AtService, Beginning
<1>4. Sequence' BY DEF IInv, Sequence, Beginning
<1>5. Goroutines' BY DEF IInv, Goroutines
<1>6. Stops' BY DEF IInv, Stops, Beginning
<1>7. Reached' /\ Ordered' BY DEF Reached, Ordered, Beginning
<1>8. Honest' BY DEF IInv, Honest, Beginning
<1>9. Events' /\ ReadyReported' BY DEF IInv, Events, ReadyReported
<1> QED BY <1>1, <1>2, <1>3, <1>4, <1>5, <1>6, <1>7, <1>8, <1>9 DEF IInv

\* The aggregate event counts right when no service failed in Prepare.
LEMMA AllReadyCounts ==
    ASSUME IInv, at = "start", cur = N + 1, ~AllFailed, failed \subseteq started
    PROVE  AllReady
<1> DEFINE F == {s \in failed : Optional(s) /\ s \notin ready}
<1>1. IsFiniteSet(Services) BY FS_Interval, CountAssumption DEF Services
<1>2. ready \subseteq Services /\ F \subseteq Services BY DEF IInv, Records, Types
<1>3. IsFiniteSet(ready) /\ IsFiniteSet(F) BY <1>1, <1>2, FS_Subset
<1>4. \A s \in started : s \in ready \/ s \in failed \cap optional
  BY DEF IInv, Sequence, Beginning
<1>5. started = ready \cup F BY <1>4 DEF IInv, Records, Optional
<1>6. ready \cap F = {} OBVIOUS
<1>7. Cardinality(started) = Cardinality(ready) + Cardinality(F)
  <2> HIDE DEF F
  <2>1. Cardinality(ready \cap F) = 0 BY <1>6, FS_EmptySet
  <2>2. /\ Cardinality(ready) \in Nat /\ Cardinality(F) \in Nat
        /\ Cardinality(ready \cup F)
               = Cardinality(ready) + Cardinality(F) - Cardinality(ready \cap F)
    BY <1>3, FS_Union, FS_CardinalityType
  <2> QED BY <1>5, <2>1, <2>2
<1>8. ready # {}
  <2>1. \A s \in toStart : s < cur BY CountAssumption DEF IInv, Records, Services
  <2>2. started # {} BY <2>1 DEF IInv, Sequence, Beginning
  <2>3. PICK s \in started : s \notin failed BY <2>2 DEF AllFailed
  <2> QED BY <1>4, <2>3
<1> QED BY <1>7, <1>8 DEF AllReady

LEMMA StartedInv == IInv /\ Started => IInv'
<1> SUFFICES ASSUME IInv, Started PROVE IInv' OBVIOUS
<1>a. CASE AllFailed
  <2>1. /\ at \in Beginning /\ Shutdown /\ UNCHANGED runVars /\ UNCHANGED failed
        /\ Record("start-failed")
    BY <1>a DEF Started, Beginning, StartUnchanged
  <2>2. PrepareUnchanged
    BY <1>a DEF Started, StartUnchanged, PrepareUnchanged, configVars, recordVars, envVars,
                stopVars
  <2>3. started \subseteq failed BY <1>a DEF AllFailed
  <2> QED BY <2>1, <2>2, <2>3, NothingServesInv DEF Outcomes
<1>b. CASE ~AllFailed
  <2>a. /\ at = "start" /\ cur = N + 1 /\ at' = "await"
        /\ aggregate' = AllReady
        /\ UNCHANGED <<cur, tripped, deadline, running, exits, outcome, started, ready,
                       released, escalated, failed, stopped, start, reported, stopVars,
                       release, events>>
        /\ StartUnchanged
    BY <1>b DEF Started
  <2>b. ReadyReported' BY <1>b, <2>a, AllReadyCounts DEF ReadyReported
  <2> USE <2>a DEF StartUnchanged, runVars, configVars, stopVars
  <2>1. Types' BY DEF IInv, Types, Places
  <2>2. Records' BY DEF IInv, Records
  <2>3. AtService' BY DEF IInv, AtService, Beginning
  <2>4. Sequence'
    <3>1. \A s \in toStart : s < cur BY CountAssumption DEF IInv, Records, Services
    <3> QED BY <3>1 DEF IInv, Sequence, Beginning
  <2>5. Goroutines' BY DEF IInv, Goroutines
  <2>6. Stops' BY DEF IInv, Stops, Beginning
  <2>7. Reached' /\ Ordered' BY DEF Reached, Ordered, Beginning
  <2>8. Honest' BY DEF IInv, Honest, Beginning
  <2>9. Events' BY DEF IInv, Events
  <2> QED BY <2>b, <2>1, <2>2, <2>3, <2>4, <2>5, <2>6, <2>7, <2>8, <2>9 DEF IInv
<1> QED BY <1>a, <1>b

LEMMA ReadyTimeoutInv == IInv /\ ReadyTimeout => IInv'
<1> SUFFICES ASSUME IInv, ReadyTimeout PROVE IInv' OBVIOUS
<1>0. /\ cur \in started /\ cur \in Services /\ cur \notin released /\ at = "ready"
      /\ failed' = failed \cup {cur} /\ failed' \subseteq Services /\ outcome' \in Outcomes
      /\ cur \in optional => outcome' = outcome
  <2>1. cur \in started /\ cur \in Services /\ cur \notin released /\ at = "ready"
    BY DEF IInv, ReadyTimeout, AtService, Records, Sequence
  <2> QED BY <2>1, NoteFailureOutcome DEF ReadyTimeout, IInv, Outcomes
<1>a. CASE cur \in optional
  <2>a. /\ Release(cur) /\ at' = "release"
        /\ UNCHANGED <<cur, tripped, deadline, running, exits, started, ready, aggregate,
                       escalated, stopped, start, reported, events>>
        /\ StartUnchanged
    BY <1>a DEF ReadyTimeout, Optional
  <2> USE <1>0, <1>a, <2>a DEF Release, StartUnchanged, runVars, configVars
  <2>b. /\ \A s \in Services : stops'[s] = IF s = cur THEN stops[s] + 1 ELSE stops[s]
        /\ stops[cur] = 0
    BY DEF IInv, Types, Stops, Beginning
  <2>c. /\ \A s \in Services : release'[s] = IF s = cur THEN "stopping" ELSE release[s]
        /\ release[cur] = "none"
    BY DEF IInv, Types, Goroutines
  <2>1. Types' BY DEF IInv, Types, Places
  <2>2. Records' BY DEF IInv, Records
  <2>3. AtService' BY DEF IInv, AtService, Beginning
  <2>4. Sequence' BY DEF IInv, Sequence, Beginning
  <2>5. Goroutines' BY <2>c, MessageType DEF IInv, Goroutines
  <2>6. Stops' BY <2>b DEF IInv, Stops, Beginning, Types, Records
  <2>7. Reached' /\ Ordered' BY DEF Reached, Ordered, Beginning
  <2>8. Honest' BY DEF IInv, Honest, Beginning
  <2>9. Events' /\ ReadyReported' BY DEF IInv, Events, ReadyReported
  <2> QED BY <2>1, <2>2, <2>3, <2>4, <2>5, <2>6, <2>7, <2>8, <2>9 DEF IInv
<1>b. CASE cur \notin optional
  <2>1. /\ at \in Beginning /\ Shutdown /\ UNCHANGED runVars
        /\ NoteFailure(cur, "start-failed")
    BY <1>b DEF ReadyTimeout, Beginning, Optional, StartUnchanged
  <2>2. PrepareUnchanged
    BY <1>b DEF ReadyTimeout, Optional, StartUnchanged, PrepareUnchanged, configVars,
                recordVars, envVars, stopVars
  <2> QED BY <1>0, <1>b, <2>1, <2>2, RequiredFailureInv DEF Outcomes
<1> QED BY <1>a, <1>b

-----------------------------------------------------------------------------
(* What is received from exits. *)

LEMMA TailFacts ==
    ASSUME Types, exits # <<>>
    PROVE  /\ Head(exits) = exits[1] /\ 1 \in DOMAIN exits
           /\ Tail(exits) \in Seq(Messages)
           /\ \A k \in DOMAIN Tail(exits) :
                  k + 1 \in DOMAIN exits /\ Tail(exits)[k] = exits[k + 1]
<1>1. exits \in Seq(Messages) BY DEF Types
<1> HIDE DEF Messages
<1> QED BY <1>1

\* A message has been taken from exits and the goroutine stays where it is.
LEMMA ReceivedInv ==
    ASSUME IInv, Receiving, exits # <<>>, Received, Stay, ReceiveUnchanged,
           failed \subseteq failed', failed' \subseteq Services, outcome' \in Outcomes,
           stopped' \subseteq started, events' \in [Services -> Nat],
           Honest', Events'
    PROVE  IInv'
<1> USE DEF Received, Stay, ReceiveUnchanged, runVars, configVars, recordVars, envVars,
            stopVars
<1>0. at \in Beginning BY DEF Receiving, Beginning
<1>1. Types' BY TailFacts DEF IInv, Types
<1>2. Records' BY DEF IInv, Records
<1>3. AtService' BY DEF IInv, AtService
<1>4. Sequence'
  <2>1. Receiving => at \in Beginning \ {"prepare"} BY DEF Receiving, Beginning
  <2>2. Services = toStart \cup failed' BY <2>1 DEF IInv, Sequence, Records
  <2> QED BY <2>1, <2>2 DEF IInv, Sequence, Beginning
<1>5. Goroutines'
  <2>1. \A k \in DOMAIN exits' : k \in Nat /\ k + 1 \in DOMAIN exits /\ exits'[k] = exits[k + 1]
    BY TailFacts DEF IInv, Types
  <2> QED BY <2>1 DEF IInv, Goroutines
<1>6. Stops' BY DEF IInv, Stops
<1>7. Reached' /\ Ordered' BY <1>0 DEF Reached, Ordered, Beginning
<1>8. ReadyReported' BY DEF IInv, ReadyReported
<1> QED BY <1>1, <1>2, <1>3, <1>4, <1>5, <1>6, <1>7, <1>8 DEF IInv

LEMMA MarkStoppedEvents ==
    ASSUME IInv, NEW s \in started, MarkStopped(s)
    PROVE  /\ stopped' \subseteq started /\ events' \in [Services -> Nat]
           /\ Events'
<1>1. s \in Services BY DEF IInv, Records
<1>2. stopped' \subseteq started BY DEF IInv, Records, MarkStopped
<1>3. events' \in [Services -> Nat] BY <1>1 DEF IInv, Types, MarkStopped
<1>4. CASE s \in stopped
  <2>1. stopped' = stopped /\ events' = events BY <1>4 DEF MarkStopped
  <2> QED BY <1>2, <1>3, <2>1 DEF IInv, Events
<1>5. CASE s \notin stopped
  <2>1. \A t \in Services : events'[t] = IF t = s THEN events[t] + 1 ELSE events[t]
    BY <1>1, <1>5 DEF IInv, Types, MarkStopped
  <2> QED BY <1>1, <1>2, <1>3, <1>5, <2>1 DEF IInv, Events, MarkStopped
<1> QED BY <1>2, <1>3, <1>4, <1>5

LEMMA ExitIgnoredInv == IInv /\ ExitIgnored => IInv'
<1> SUFFICES ASSUME IInv, ExitIgnored PROVE IInv' OBVIOUS
<1>1. /\ Receiving /\ exits # <<>> /\ Received /\ Stay /\ ReceiveUnchanged
      /\ UNCHANGED <<failed, outcome, stopped, events>>
  BY DEF ExitIgnored
<1>2. Honest' /\ Events'
  BY <1>1 DEF IInv, Honest, Events, Stay, ReceiveUnchanged, configVars, recordVars
<1>3. /\ failed \subseteq failed' /\ failed' \subseteq Services /\ outcome' \in Outcomes
      /\ stopped' \subseteq started /\ events' \in [Services -> Nat]
  BY <1>1 DEF IInv, Types, Records
<1> QED BY <1>1, <1>2, <1>3, ReceivedInv

LEMMA OtherReturnsInv == IInv /\ OtherReturns => IInv'
<1> SUFFICES ASSUME IInv, OtherReturns PROVE IInv' OBVIOUS
<1>1. /\ Receiving /\ exits # <<>> /\ Received /\ Stay /\ ReceiveUnchanged
      /\ UNCHANGED <<failed, outcome>> /\ MarkStopped(Head(exits).name)
  BY DEF OtherReturns
<1>2. Head(exits).name \in started BY DEF OtherReturns, Other, Consume, IInv, Records
<1>3. stopped' \subseteq started /\ events' \in [Services -> Nat] /\ Events'
  BY <1>1, <1>2, MarkStoppedEvents
<1>4. Honest' BY <1>1 DEF IInv, Honest, Stay, ReceiveUnchanged, configVars, recordVars
<1>5. failed \subseteq failed' /\ failed' \subseteq Services /\ outcome' \in Outcomes
  BY <1>1 DEF IInv, Types
<1> QED BY <1>1, <1>3, <1>4, <1>5, ReceivedInv

LEMMA OtherFailsInv == IInv /\ OtherFails => IInv'
<1> SUFFICES ASSUME IInv, OtherFails PROVE IInv' OBVIOUS
<1> DEFINE s == Head(exits).name
<1>1. /\ Receiving /\ exits # <<>> /\ ReceiveUnchanged
      /\ UNCHANGED <<stopped, events>> /\ NoteFailure(s, "runtime-crash")
      /\ IF EndsRun(s) THEN Shutdown ELSE Received /\ Stay
  BY DEF OtherFails
<1>2. s \in started /\ s \in Services BY DEF OtherFails, Other, Consume, IInv, Records
<1> HIDE DEF s
<1>3. /\ failed' = failed \cup {s} /\ failed' \subseteq Services /\ outcome' \in Outcomes
      /\ IF s \in optional THEN outcome' = outcome ELSE outcome' # "clean"
  BY <1>1, <1>2, NoteFailureOutcome DEF IInv, Outcomes
<1>4. at \in Beginning BY <1>1 DEF Receiving, Beginning
<1>a. CASE EndsRun(s)
  <2>1. s \notin optional BY <1>a DEF EndsRun, Optional
  <2>2. Shutdown /\ PrepareUnchanged /\ UNCHANGED runVars
    BY <1>a, <1>1 DEF PrepareUnchanged, ReceiveUnchanged
  <2> QED BY <1>1, <1>2, <1>4, <2>1, <2>2, RequiredFailureInv DEF Outcomes
<1>b. CASE ~EndsRun(s)
  <2>1. Received /\ Stay BY <1>1, <1>b
  <2>2. Honest'
    BY <1>3, <1>4, <2>1, <1>1 DEF IInv, Honest, Stay, ReceiveUnchanged, configVars, recordVars,
                                  Beginning
  <2>3. /\ Events' /\ stopped' \subseteq started /\ events' \in [Services -> Nat]
    BY <1>1 DEF IInv, Events, Records, Types
  <2> QED BY <1>1, <1>3, <2>1, <2>2, <2>3, ReceivedInv
<1> QED BY <1>a, <1>b

LEMMA OwnExitInv == IInv /\ OwnExit => IInv'
<1> SUFFICES ASSUME IInv, OwnExit PROVE IInv' OBVIOUS
<1>0. /\ cur \in started /\ cur \in Services /\ at = "ready" /\ exits # <<>>
      /\ failed' = failed \cup {cur} /\ failed' \subseteq Services /\ outcome' \in Outcomes
      /\ cur \in optional => outcome' = outcome
  <2>1. cur \in started /\ cur \in Services /\ at = "ready" /\ exits # <<>>
    BY DEF IInv, OwnExit, AtService, Records
  <2> QED BY <2>1, NoteFailureOutcome DEF OwnExit, IInv, Outcomes
<1>a. CASE cur \in optional
  <2>a. Received /\ StartNext /\ UNCHANGED <<stopped, events>> /\ ReceiveUnchanged
    BY <1>a DEF OwnExit, Optional
  <2>b. /\ at' = "start" /\ UNCHANGED <<tripped, deadline>>
        /\ cur' \in toStart \cup {N + 1} /\ cur' \in 1 .. N + 1
        /\ {s \in toStart : s <= cur} = {s \in toStart : s < cur'}
    BY <1>0, <2>a, StartNextFacts
  <2> USE <1>0, <1>a, <2>a, <2>b DEF Received, ReceiveUnchanged, runVars, configVars,
                                     recordVars, envVars, stopVars
  <2>1. Types'
    <3>1. exits' \in Seq(Messages) BY TailFacts DEF IInv
    <3>2. cur' \in 0 .. N + 1 BY CountAssumption
    <3> QED BY <3>1, <3>2 DEF IInv, Types, Places
  <2>2. Records' BY DEF IInv, Records
  <2>3. AtService' BY CountAssumption DEF IInv, AtService, Beginning
  <2>4. Sequence'
    <3>1. toStart' # {} /\ Services = toStart \cup failed'
      BY DEF IInv, Sequence, Records, Beginning
    <3> QED BY <3>1 DEF IInv, Sequence, Beginning
  <2>5. Goroutines'
    <3>1. \A k \in DOMAIN exits' :
              k \in Nat /\ k + 1 \in DOMAIN exits /\ exits'[k] = exits[k + 1]
      BY TailFacts DEF IInv, Types
    <3> QED BY <3>1 DEF IInv, Goroutines
  <2>6. Stops' BY DEF IInv, Stops, Beginning
  <2>7. Reached' /\ Ordered' BY DEF Reached, Ordered, Beginning
  <2>8. Honest' BY DEF IInv, Honest, Beginning
  <2>9. Events' /\ ReadyReported' BY DEF IInv, Events, ReadyReported
  <2> QED BY <2>1, <2>2, <2>3, <2>4, <2>5, <2>6, <2>7, <2>8, <2>9 DEF IInv
<1>b. CASE cur \notin optional
  <2>1. /\ at \in Beginning /\ Shutdown /\ UNCHANGED runVars
        /\ NoteFailure(cur, "start-failed") /\ PrepareUnchanged
    BY <1>b DEF OwnExit, Beginning, Optional, ReceiveUnchanged, PrepareUnchanged
  <2> QED BY <1>0, <1>b, <2>1, RequiredFailureInv DEF Outcomes
<1> QED BY <1>a, <1>b

-----------------------------------------------------------------------------
(* The ordered stop. *)

\* The service stopAll goes on to.
LEMMA StopBelowFacts ==
    ASSUME IInv, cur \in started, StopBelow
    PROVE  /\ at' = "stop"
           /\ cur' \in (started \ released) \cup {0} /\ cur' \in 0 .. N + 1
           /\ cur' < cur
           /\ \A u \in started \ released : u > cur' => u >= cur
<1>1. started \subseteq Services /\ cur \in Services BY DEF IInv, Records
<1>2. cur \in Nat /\ cur > 0 /\ \A u \in started : u \in 1 .. N
  BY <1>1, CountAssumption DEF Services
<1>3. cur' = NextStop(cur) /\ at' = "stop" BY DEF StopBelow
<1>4. /\ cur' \in StopsBelow(cur) \cup {0}
      /\ \A u \in started \ released : u < cur => u <= cur'
  BY <1>1, <1>2, <1>3, NextStopType
<1>5. cur' \in (started \ released) \cup {0} /\ cur' \in 0 .. N + 1 /\ cur' < cur
  BY <1>2, <1>4, CountAssumption DEF StopsBelow
<1>6. \A u \in started \ released : u > cur' => u >= cur BY <1>2, <1>4, <1>5
<1> QED BY <1>3, <1>5, <1>6

\* A service has been dealt with, and the next one is looked at.
LEMMA StopBelowInv ==
    ASSUME IInv, at \in {"stop", "stopping"}, cur \in started \ released,
           StopBelow, StopUnchanged, UNCHANGED <<stopVars, escalated>>,
           failed \subseteq failed', failed' \subseteq Services, outcome' \in Outcomes,
           abandoned' \subseteq started \cap optional,
           stopped' \subseteq started, events' \in [Services -> Nat],
           \/ deadline = "passed"
           \/ at = "stopping" /\ (stop[cur] \in {"ok", "error"} \/ cur \in failed'),
           Honest', Events'
    PROVE  IInv'
<1>0. /\ at' = "stop"
      /\ cur' \in (started \ released) \cup {0} /\ cur' \in 0 .. N + 1
      /\ cur' < cur
      /\ \A u \in started \ released : u > cur' => u >= cur
  BY StopBelowFacts
<1>a. started \subseteq Services /\ cur \in Nat /\ cur' \in Nat
      /\ \A s \in Services : s \in Nat
  BY <1>0, CountAssumption DEF IInv, Records, Services
<1> USE <1>0 DEF StopUnchanged, runVars, configVars, envVars, stopVars
<1>1. Types' BY DEF IInv, Types, Places
<1>2. Records' BY DEF IInv, Records
<1>3. AtService' BY DEF IInv, AtService, Beginning
<1>4. Sequence' BY DEF Sequence, Beginning
<1>5. Goroutines' BY DEF IInv, Goroutines
<1>6. Stops'
  <2>1. \A s \in Services : s <= cur' => s < cur /\ s <= cur BY <1>a
  <2> QED BY <2>1 DEF IInv, Stops, Beginning
<1>7. Reached'
  <2>1. CASE deadline = "passed" BY <2>1 DEF Reached, Beginning
  <2>2. CASE deadline # "passed"
    <3>1. \A s \in started \ released : s > cur' => stops[s] = 1
      BY <2>2 DEF IInv, Reached
    <3> QED BY <2>2, <3>1 DEF Reached, Beginning
  <2> QED BY <2>1, <2>2
<1>8. Ordered'
  <2>1. CASE deadline = "passed" BY <2>1 DEF Ordered
  <2>2. CASE deadline # "passed"
    <3>1. \A u \in started \ released : u > cur' => u = cur \/ u > cur BY <1>a
    <3> QED BY <2>2, <3>1 DEF IInv, Ordered
  <2> QED BY <2>1, <2>2
<1>9. ReadyReported' BY DEF ReadyReported
<1> QED BY <1>1, <1>2, <1>3, <1>4, <1>5, <1>6, <1>7, <1>8, <1>9 DEF IInv

LEMMA StopSkippedInv == IInv /\ StopSkipped => IInv'
<1> SUFFICES ASSUME IInv, StopSkipped PROVE IInv' OBVIOUS
<1>1. /\ at = "stop" /\ deadline = "passed" /\ Record("shutdown-timeout") /\ StopBelow
      /\ UNCHANGED <<escalated, failed, abandoned, stopped, stopVars, events>>
      /\ StopUnchanged
  BY DEF StopSkipped
<1>2. cur \in started \ released BY DEF StopSkipped, IInv, AtService
<1>3. outcome' \in Outcomes /\ outcome' # "clean" BY <1>1, RecordOutcome DEF IInv, Outcomes
<1>4. Honest' BY <1>1, <1>3 DEF Honest, StopUnchanged
<1>5. /\ Events' /\ failed' \subseteq Services /\ stopped' \subseteq started
      /\ abandoned' \subseteq started \cap optional /\ events' \in [Services -> Nat]
  BY <1>1 DEF IInv, Events, Records, Types
<1> QED BY <1>1, <1>2, <1>3, <1>4, <1>5, StopBelowInv

LEMMA StopOkInv == IInv /\ StopOk => IInv'
<1> SUFFICES ASSUME IInv, StopOk PROVE IInv' OBVIOUS
<1>1. /\ at = "stopping" /\ stop[cur] = "ok" /\ MarkStopped(cur) /\ StopBelow
      /\ UNCHANGED <<escalated, failed, abandoned, outcome, stopVars>>
      /\ StopUnchanged
  BY DEF StopOk
<1>2. cur \in started \ released BY <1>1 DEF IInv, AtService
<1>3. stopped' \subseteq started /\ events' \in [Services -> Nat] /\ Events'
  BY <1>1, <1>2, MarkStoppedEvents
<1>4. Honest' BY <1>1 DEF IInv, Honest, StopUnchanged, StopBelow, configVars, Beginning
<1>5. /\ failed' \subseteq Services /\ outcome' \in Outcomes
      /\ abandoned' \subseteq started \cap optional
  BY <1>1 DEF IInv, Records, Types
<1> QED BY <1>1, <1>2, <1>3, <1>4, <1>5, StopBelowInv

LEMMA StopFailsInv == IInv /\ StopFails => IInv'
<1> SUFFICES ASSUME IInv, StopFails PROVE IInv' OBVIOUS
<1>1. /\ at = "stopping" /\ stop[cur] = "error" /\ NoteFailure(cur, "runtime-crash")
      /\ StopBelow
      /\ UNCHANGED <<escalated, abandoned, stopped, stopVars, events>>
      /\ StopUnchanged
  BY DEF StopFails
<1>2. cur \in started \ released /\ cur \in Services BY <1>1 DEF IInv, AtService, Records
<1>3. /\ failed' = failed \cup {cur} /\ failed' \subseteq Services /\ outcome' \in Outcomes
      /\ IF cur \in optional THEN outcome' = outcome ELSE outcome' # "clean"
  BY <1>1, <1>2, NoteFailureOutcome DEF IInv, Outcomes
<1>4. Honest' BY <1>1, <1>3 DEF IInv, Honest, StopUnchanged, StopBelow, configVars, Beginning
<1>5. /\ Events' /\ stopped' \subseteq started
      /\ abandoned' \subseteq started \cap optional /\ events' \in [Services -> Nat]
  BY <1>1 DEF IInv, Events, Records, Types
<1> QED BY <1>1, <1>2, <1>3, <1>4, <1>5, StopBelowInv

LEMMA StopTimeoutInv == IInv /\ StopTimeout => IInv'
<1> SUFFICES ASSUME IInv, StopTimeout PROVE IInv' OBVIOUS
<1>1. /\ at = "stopping" /\ failed' = failed \cup {cur} /\ StopBelow
      /\ abandoned' = abandoned \cup ({cur} \cap optional)
      /\ UNCHANGED <<escalated, stopped, stopVars, events>>
      /\ StopUnchanged
  BY DEF StopTimeout
<1>2. cur \in started \ released /\ cur \in Services BY <1>1 DEF IInv, AtService, Records
<1>3. /\ outcome' \in Outcomes
      /\ outcome' = "clean" => outcome = "clean" /\ cur \in optional
      /\ outcome' # "clean" =>
             outcome # "clean" \/ deadline = "passed" \/ cur \notin optional
  BY RecordOutcome DEF StopTimeout, IInv, Types, Outcomes, Record, Optional
<1>4. Honest' BY <1>1, <1>3 DEF IInv, Honest, StopUnchanged, StopBelow, configVars, Beginning
<1>5. /\ Events' /\ stopped' \subseteq started /\ failed' \subseteq Services
      /\ abandoned' \subseteq started \cap optional /\ events' \in [Services -> Nat]
  BY <1>1, <1>2 DEF IInv, Events, Records, Types
<1> QED BY <1>1, <1>2, <1>3, <1>4, <1>5, StopBelowInv

LEMMA EscalateInv == IInv /\ Escalate => IInv'
<1> SUFFICES ASSUME IInv, Escalate PROVE IInv' OBVIOUS
<1>0. cur \in started \ released /\ started \subseteq Services
  BY DEF Escalate, IInv, AtService, Records
<1>a. outcome' \in Outcomes /\ outcome' # "clean"
  BY RecordOutcome DEF Escalate, IInv, Outcomes
<1>b. failed' \subseteq Services
  BY <1>0 DEF Escalate, StopsBelow, IInv, Types
<1> USE DEF Escalate, StopUnchanged, runVars, configVars, envVars, stopVars
<1>1. Types' BY <1>a, <1>b DEF IInv, Types, Places
<1>2. Records' BY DEF IInv, Records
<1>3. AtService' BY DEF IInv, AtService, Beginning
<1>4. Sequence' BY DEF Sequence, Beginning
<1>5. Goroutines' BY DEF IInv, Goroutines
<1>6. Stops' BY DEF IInv, Stops, Beginning, Records
<1>7. Reached' /\ Ordered' BY DEF Reached, Ordered, Beginning
<1>8. Honest' BY <1>a DEF Honest
<1>9. Events' /\ ReadyReported' BY DEF IInv, Events, ReadyReported
<1> QED BY <1>1, <1>2, <1>3, <1>4, <1>5, <1>6, <1>7, <1>8, <1>9 DEF IInv

LEMMA StopOneInv == IInv /\ StopOne => IInv'
<1> SUFFICES ASSUME IInv, StopOne PROVE IInv' OBVIOUS
<1>0. cur \in started \ released /\ cur \in Services /\ cur \in Nat
      /\ \A s \in Services : s \in Nat
  <2>1. \A s \in Services : s \in Nat BY CountAssumption DEF Services
  <2>2. cur \in started \ released BY DEF StopOne, IInv, AtService
  <2> QED BY <2>1, <2>2 DEF IInv, Records
<1> USE <1>0 DEF StopOne, StopUnchanged, runVars, configVars, envVars
<1>a. /\ \A s \in Services : stops'[s] = IF s = cur THEN stops[s] + 1 ELSE stops[s]
      /\ stops[cur] = 0
  BY DEF IInv, Types, Stops
<1>b. \A s \in Services : s # cur => stop'[s] = stop[s] BY DEF IInv, Types
<1>1. Types' BY DEF IInv, Types, Places
<1>2. Records' BY DEF IInv, Records
<1>3. AtService' BY DEF IInv, AtService, Beginning
<1>4. Sequence' BY DEF Sequence, Beginning
<1>5. Goroutines' BY DEF IInv, Goroutines
<1>6. Stops'
  <2>1. \A s \in Services : stops'[s] <= 1 BY <1>a DEF IInv, Stops, Types
  <2>2. \A s \in released' : stops'[s] = 1 BY <1>a DEF IInv, Stops, Records
  <2>3. \A s \in Services \ released' : s \notin started' \/ s < cur' => stops'[s] = 0
    BY <1>a DEF IInv, Stops
  <2> QED BY <2>1, <2>2, <2>3 DEF Stops, Beginning
<1>7. Reached'
  <2>1. CASE deadline = "passed" BY <2>1 DEF Reached, Beginning
  <2>2. CASE deadline # "passed"
    <3>1. \A s \in started \ released : s >= cur => stops'[s] = 1
      BY <1>a, <2>2 DEF IInv, Reached, Records
    <3> QED BY <3>1 DEF Reached, Beginning
  <2> QED BY <2>1, <2>2
<1>8. Ordered'
  <2>1. \A t \in started : t > cur => t # cur /\ stop'[t] = stop[t]
    BY <1>b DEF IInv, Records
  <2> QED BY <2>1 DEF IInv, Ordered
<1>9. Honest' BY DEF IInv, Honest, Beginning
<1>10. Events' /\ ReadyReported' BY DEF IInv, Events, ReadyReported
<1> QED BY <1>1, <1>2, <1>3, <1>4, <1>5, <1>6, <1>7, <1>8, <1>9, <1>10 DEF IInv

LEMMA StopsDoneInv == IInv /\ StopsDone => IInv'
<1> SUFFICES ASSUME IInv, StopsDone PROVE IInv' OBVIOUS
<1> USE DEF StopsDone, StopUnchanged, runVars, configVars, envVars, stopVars
<1>1. Types' BY DEF IInv, Types, Places
<1>2. Records' BY DEF IInv, Records
<1>3. AtService' BY DEF IInv, AtService, Beginning
<1>4. Sequence' BY DEF Sequence, Beginning
<1>5. Goroutines' BY DEF IInv, Goroutines
<1>6. Stops' BY DEF IInv, Stops, Beginning, Records
<1>7. Reached' /\ Ordered'
  <2>1. \A s \in started : s > 0 BY CountAssumption DEF IInv, Records, Services
  <2>2. \A s \in started : stops[s] = 1 \/ deadline = "passed"
    BY <2>1 DEF IInv, Reached, Stops
  <2> QED BY <2>2 DEF Reached, Ordered, Beginning
<1>8. Honest' BY DEF IInv, Honest, Beginning
<1>9. Events' /\ ReadyReported' BY DEF IInv, Events, ReadyReported
<1> QED BY <1>1, <1>2, <1>3, <1>4, <1>5, <1>6, <1>7, <1>8, <1>9 DEF IInv

-----------------------------------------------------------------------------
(* The join and the services never started. *)

\* join is over, one way or the other.
LEMMA FinishInv ==
    ASSUME IInv, at = "join", Finish, UNCHANGED stopVars, EndUnchanged,
           outcome' \in Outcomes, Honest'
    PROVE  IInv'
<1>0. /\ cur' \in (prepared \ started) \cup {N + 1}
      /\ cur' \in 0 .. N + 1
      /\ \A u \in prepared \ started : ~(u < cur')
  <2>1. prepared \subseteq Services /\ 0 \in Nat BY DEF IInv, Records
  <2>2. \A u \in prepared : u > 0 /\ u \in 0 .. N + 1 BY <2>1, CountAssumption DEF Services
  <2>3. cur' = NextUnstarted(0) BY DEF Finish
  <2>4. /\ cur' \in (prepared \ started) \cup {N + 1}
        /\ \A u \in prepared \ started : cur' <= u
    BY <2>1, <2>2, <2>3, NextUnstartedType
  <2>5. N + 1 \in 0 .. N + 1 BY CountAssumption
  <2>6. cur' \in 0 .. N + 1 BY <2>2, <2>4, <2>5
  <2> QED BY <2>2, <2>4, <2>6
<1>a. at' = "unstarted" BY DEF Finish
<1> USE <1>a DEF EndUnchanged, StopUnchanged, runVars, configVars, envVars, stopVars
<1>1. Types' BY <1>0 DEF IInv, Types, Places
<1>2. Records' BY DEF IInv, Records
<1>3. AtService' BY <1>0 DEF IInv, AtService, Beginning
<1>4. Sequence' BY DEF Sequence, Beginning
<1>5. Goroutines' BY DEF IInv, Goroutines
<1>6. Stops' BY DEF IInv, Stops, Beginning
<1>7. Reached' BY <1>0 DEF IInv, Reached, Beginning
<1>8. Ordered' BY DEF Ordered
<1>9. Events' /\ ReadyReported' BY DEF IInv, Events, ReadyReported
<1> QED BY <1>1, <1>2, <1>3, <1>4, <1>5, <1>6, <1>7, <1>8, <1>9 DEF IInv

LEMMA JoinedInv == IInv /\ Joined => IInv'
<1> SUFFICES ASSUME IInv, Joined PROVE IInv' OBVIOUS
<1>1. at = "join" /\ Finish /\ UNCHANGED <<outcome, stopVars>> /\ EndUnchanged
  BY DEF Joined
<1>2. outcome' \in Outcomes /\ UNCHANGED stopVars BY <1>1 DEF IInv, Types
<1>3. \A s \in started \ optional : start[s] = "returned" BY DEF Joined, IInv, Records
<1>4. Honest'
  BY <1>1, <1>3 DEF IInv, Honest, EndUnchanged, StopUnchanged, configVars, Finish, Beginning
<1> QED BY <1>1, <1>2, <1>4, FinishInv

LEMMA JoinExpiredInv == IInv /\ JoinExpired => IInv'
<1> SUFFICES ASSUME IInv, JoinExpired PROVE IInv' OBVIOUS
<1>1. at = "join" /\ Finish /\ UNCHANGED stopVars /\ EndUnchanged /\ deadline = "passed"
  BY DEF JoinExpired
<1>2. /\ outcome' \in Outcomes
      /\ outcome' = "clean" =>
             outcome = "clean" /\ \A s \in started \ optional : start[s] = "returned"
  BY RecordOutcome DEF JoinExpired, IInv, Types, Outcomes, Record, Records
<1>3. Honest'
  BY <1>1, <1>2 DEF IInv, Honest, EndUnchanged, StopUnchanged, configVars, Finish, Beginning
<1> QED BY <1>1, <1>2, <1>3, FinishInv

LEMMA StopUnstartedInv == IInv /\ StopUnstarted => IInv'
<1> SUFFICES ASSUME IInv, StopUnstarted PROVE IInv' OBVIOUS
<1>0. cur \in prepared \ started /\ cur \in Services /\ \A s \in Services : s \in Nat
  <2>1. \A s \in Services : s \in Nat BY CountAssumption DEF Services
  <2>2. cur \in prepared \ started
    BY CountAssumption DEF StopUnstarted, IInv, AtService
  <2> QED BY <2>1, <2>2 DEF IInv, Records
<1> USE <1>0 DEF StopUnstarted, EndUnchanged, StopUnchanged, runVars, configVars, envVars
<1>a. /\ \A s \in Services : stops'[s] = IF s = cur THEN stops[s] + 1 ELSE stops[s]
      /\ stops[cur] = 0
  BY DEF IInv, Types, Stops
<1>1. Types' BY DEF IInv, Types, Places
<1>2. Records' BY DEF IInv, Records
<1>3. AtService' BY DEF IInv, AtService, Beginning
<1>4. Sequence' BY DEF Sequence, Beginning
<1>5. Goroutines' BY DEF IInv, Goroutines
<1>6. Stops'
  <2>1. \A s \in Services : stops'[s] <= 1 BY <1>a DEF IInv, Stops, Types
  <2>2. \A s \in released' : stops'[s] = 1 BY <1>a DEF IInv, Stops, Records
  <2>3. \A s \in Services \ started' : s > cur' => stops'[s] = 0 BY <1>a DEF IInv, Stops
  <2> QED BY <2>1, <2>2, <2>3 DEF Stops, Beginning
<1>7. Reached' /\ Ordered'
  <2>1. \A s \in started : stops'[s] = stops[s] BY <1>a DEF IInv, Records
  <2>2. \A s \in prepared \ started : s <= cur => s < cur \/ s = cur BY DEF IInv, Records
  <2>3. \A s \in prepared \ started : s <= cur => stops'[s] = 1
    BY <1>a, <2>2 DEF IInv, Reached, Records
  <2> QED BY <2>1, <2>3 DEF IInv, Reached, Ordered, Beginning
<1>8. Honest' BY DEF IInv, Honest, Beginning
<1>9. Events' /\ ReadyReported' BY DEF IInv, Events, ReadyReported
<1> QED BY <1>1, <1>2, <1>3, <1>4, <1>5, <1>6, <1>7, <1>8, <1>9 DEF IInv

LEMMA UnstartedStoppedInv == IInv /\ UnstartedStopped => IInv'
<1> SUFFICES ASSUME IInv, UnstartedStopped PROVE IInv' OBVIOUS
<1>0. /\ cur' \in (prepared \ started) \cup {N + 1}
      /\ cur' \in 0 .. N + 1
      /\ \A u \in prepared \ started : u < cur' => u <= cur
      /\ \A u \in Services : u >= cur' => u > cur
  <2>1. prepared \subseteq Services /\ cur \in Services
    BY DEF IInv, UnstartedStopped, AtService, Records
  <2>2. cur \in Nat /\ cur <= N /\ \A u \in Services : u \in 0 .. N
    BY <2>1, CountAssumption DEF Services
  <2>3. cur' = NextUnstarted(cur) BY DEF UnstartedStopped
  <2>4. /\ cur' \in {t \in prepared \ started : t > cur} \cup {N + 1}
        /\ \A u \in prepared \ started : u > cur => cur' <= u
    BY <2>1, <2>2, <2>3, NextUnstartedType
  <2>5. cur' \in (prepared \ started) \cup {N + 1} /\ cur' \in 0 .. N + 1 /\ cur' > cur
    BY <2>1, <2>2, <2>4, CountAssumption
  <2> QED BY <2>1, <2>2, <2>4, <2>5
<1> USE DEF UnstartedStopped, EndUnchanged, StopUnchanged, runVars, configVars, envVars,
            stopVars
<1>1. Types' BY <1>0 DEF IInv, Types, Places
<1>2. Records' BY DEF IInv, Records
<1>3. AtService' BY <1>0 DEF IInv, AtService, Beginning
<1>4. Sequence' BY DEF Sequence, Beginning
<1>5. Goroutines' BY DEF IInv, Goroutines
<1>6. Stops' BY <1>0 DEF IInv, Stops, Beginning
<1>7. Reached' /\ Ordered' BY <1>0 DEF IInv, Reached, Ordered, Beginning
<1>8. Honest' BY DEF IInv, Honest, Beginning
<1>9. Events' /\ ReadyReported' BY DEF IInv, Events, ReadyReported
<1> QED BY <1>1, <1>2, <1>3, <1>4, <1>5, <1>6, <1>7, <1>8, <1>9 DEF IInv

LEMMA ReturnInv == IInv /\ Return => IInv'
<1> SUFFICES ASSUME IInv, Return PROVE IInv' OBVIOUS
<1> USE DEF Return, EndUnchanged, StopUnchanged, runVars, configVars, envVars, stopVars
<1>1. Types' BY DEF IInv, Types, Places
<1>2. Records' BY DEF IInv, Records
<1>3. AtService' BY DEF IInv, AtService, Beginning
<1>4. Sequence' BY DEF Sequence, Beginning
<1>5. Goroutines' BY DEF IInv, Goroutines
<1>6. Stops' BY DEF IInv, Stops, Beginning
<1>7. Reached' /\ Ordered'
  <2>1. \A s \in prepared : s < cur BY CountAssumption DEF IInv, Records, Services
  <2> QED BY <2>1 DEF IInv, Reached, Ordered, Beginning
<1>8. Honest' BY DEF IInv, Honest, Beginning
<1>9. Events' /\ ReadyReported' BY DEF IInv, Events, ReadyReported
<1> QED BY <1>1, <1>2, <1>3, <1>4, <1>5, <1>6, <1>7, <1>8, <1>9 DEF IInv

-----------------------------------------------------------------------------
(* The services, the releases, the deadline and the signals. *)

LEMMA QuietInv == IInv /\ (Report \/ DeadlinePasses \/ Signal) => IInv'
<1> SUFFICES ASSUME IInv, Report \/ DeadlinePasses \/ Signal PROVE IInv' OBVIOUS
<1>0. /\ UNCHANGED <<exits, stopped, abandoned, start, stop, release, events>>
      /\ EnvUnchanged
      /\ signals' \in 0 .. 2
      /\ deadline' = deadline \/ (deadline = "set" /\ deadline' = "passed")
  BY DEF IInv, Types, Report, DeadlinePasses, Signal, envVars
<1> USE <1>0 DEF EnvUnchanged, runVars, configVars, recordVars
<1>1. Types' BY DEF IInv, Types
<1>2. Records' BY DEF IInv, Records
<1>3. AtService' BY DEF IInv, AtService
<1>4. Sequence' BY DEF IInv, Sequence
<1>5. Goroutines' BY DEF IInv, Goroutines
<1>6. Stops' BY DEF IInv, Stops
<1>7. Reached' /\ Ordered' BY DEF IInv, Reached, Ordered
<1>8. Honest' BY DEF IInv, Honest
<1>9. Events' /\ ReadyReported' BY DEF IInv, Events, ReadyReported
<1> QED BY <1>1, <1>2, <1>3, <1>4, <1>5, <1>6, <1>7, <1>8, <1>9 DEF IInv

LEMMA StopReturnsInv == ASSUME NEW s \in Services PROVE IInv /\ StopReturns(s) => IInv'
<1> SUFFICES ASSUME IInv, StopReturns(s) PROVE IInv' OBVIOUS
<1>0. /\ stop' \in [Services -> {"none", "running", "ok", "error"}]
      /\ \A t \in Services : stop[t] \in {"ok", "error"} => stop'[t] \in {"ok", "error"}
  BY DEF IInv, Types, StopReturns
<1> USE DEF StopReturns, EnvUnchanged, runVars, configVars, recordVars, envVars
<1>1. Types' BY <1>0 DEF IInv, Types
<1>2. Records' BY DEF IInv, Records
<1>3. AtService' BY DEF IInv, AtService
<1>4. Sequence' BY DEF IInv, Sequence
<1>5. Goroutines' BY DEF IInv, Goroutines
<1>6. Stops' BY DEF IInv, Stops
<1>7. Reached' BY DEF IInv, Reached
<1>8. Ordered' BY <1>0 DEF IInv, Ordered, Records
<1>9. Honest' BY DEF IInv, Honest
<1>10. Events' /\ ReadyReported' BY DEF IInv, Events, ReadyReported
<1> QED BY <1>1, <1>2, <1>3, <1>4, <1>5, <1>6, <1>7, <1>8, <1>9, <1>10 DEF IInv

\* What a send adds to exits.
LEMMA SendFacts ==
    ASSUME Types, NEW m \in Messages, Send(m)
    PROVE  /\ exits' \in Seq(Messages)
           /\ \A k \in DOMAIN exits' :
                  \/ k \in DOMAIN exits /\ exits'[k] = exits[k]
                  \/ k = Len(exits) + 1 /\ exits'[k] = m
<1>1. exits \in Seq(Messages) BY DEF Types
<1> HIDE DEF Messages
<1>2. CASE tripped BY <1>1, <1>2 DEF Send
<1>3. CASE ~tripped
  <2>1. exits' = Append(exits, m) BY <1>3 DEF Send
  <2> QED BY <1>1, <2>1
<1> QED BY <1>2, <1>3

LEMMA StartReturnsInv == ASSUME NEW s \in Services PROVE IInv /\ StartReturns(s) => IInv'
<1> SUFFICES ASSUME IInv, StartReturns(s) PROVE IInv' OBVIOUS
<1>0. PICK err \in BOOLEAN : Send([name |-> s, err |-> err, abandoned |-> FALSE])
  BY DEF StartReturns
<1>a. [name |-> s, err |-> err, abandoned |-> FALSE] \in Messages BY DEF Messages
<1>b. /\ exits' \in Seq(Messages)
      /\ \A k \in DOMAIN exits' :
             \/ k \in DOMAIN exits /\ exits'[k] = exits[k]
             \/ /\ k = Len(exits) + 1
                /\ exits'[k] = [name |-> s, err |-> err, abandoned |-> FALSE]
  BY <1>0, <1>a, SendFacts DEF IInv
<1>c. /\ \A t \in Services : start'[t] = IF t = s THEN "returned" ELSE start[t]
      /\ start' \in [Services -> {"none", "running", "returned"}]
      /\ start[s] = "running"
  BY DEF IInv, Types, StartReturns
<1>d. /\ UNCHANGED <<envVars, stopped, abandoned, stop, release, deadline, events>>
      /\ EnvUnchanged
  BY DEF StartReturns
<1> USE <1>d DEF EnvUnchanged, runVars, configVars, recordVars, envVars
<1>1. Types' BY <1>b, <1>c DEF IInv, Types
<1>2. Records' BY DEF IInv, Records
<1>3. AtService' BY DEF IInv, AtService
<1>4. Sequence' BY DEF IInv, Sequence
<1>5. Goroutines'
  <2>1. \A t \in Services : start'[t] = "none" <=> t \notin started
    BY <1>c DEF IInv, Goroutines
  <2>2. \A k \in DOMAIN exits :
            /\ exits[k].name \in Services
            /\ ~exits[k].abandoned => exits[k].name # s
    BY <1>c, MessageType DEF IInv, Goroutines
  <2>3. \A k \in DOMAIN exits' :
            IF exits'[k].abandoned THEN release[exits'[k].name] = "over"
            ELSE start'[exits'[k].name] = "returned"
    BY <1>b, <1>c, <2>2 DEF IInv, Goroutines
  <2>4. \A k, l \in DOMAIN exits' :
            exits'[k].name = exits'[l].name /\ exits'[k].abandoned = exits'[l].abandoned
              => k = l
    BY <1>b, <2>2 DEF IInv, Goroutines
  <2> QED BY <2>1, <2>3, <2>4 DEF IInv, Goroutines
<1>6. Stops' BY DEF IInv, Stops
<1>7. Reached' /\ Ordered' BY DEF IInv, Reached, Ordered
<1>8. Honest' BY <1>c DEF IInv, Honest, Records
<1>9. Events' /\ ReadyReported' BY DEF IInv, Events, ReadyReported
<1> QED BY <1>1, <1>2, <1>3, <1>4, <1>5, <1>6, <1>7, <1>8, <1>9 DEF IInv

LEMMA ReleaseStoppedInv == ASSUME NEW s \in Services PROVE IInv /\ ReleaseStopped(s) => IInv'
<1> SUFFICES ASSUME IInv, ReleaseStopped(s) PROVE IInv' OBVIOUS
<1>0. s \in released /\ s \in started
  BY DEF IInv, Goroutines, Records, ReleaseStopped
<1>a. stopped' \subseteq started /\ events' \in [Services -> Nat] /\ Events'
  <2>1. CASE stop[s] = "ok" BY <1>0, <2>1, MarkStoppedEvents DEF ReleaseStopped
  <2>2. CASE stop[s] # "ok" BY <2>2 DEF ReleaseStopped, IInv, Records, Types, Events
  <2> QED BY <2>1, <2>2
<1>b. /\ \A t \in Services : release'[t] = IF t = s THEN "over" ELSE release[t]
      /\ release' \in [Services -> {"none", "stopping", "over"}]
  BY DEF IInv, Types, ReleaseStopped
<1>c. UNCHANGED <<envVars, exits, abandoned, start, stop, deadline>> /\ EnvUnchanged
  BY DEF ReleaseStopped
<1> USE <1>c DEF EnvUnchanged, runVars, configVars, recordVars, envVars
<1>1. Types' BY <1>a, <1>b DEF IInv, Types
<1>2. Records' BY <1>a DEF IInv, Records
<1>3. AtService' BY DEF IInv, AtService
<1>4. Sequence' BY DEF IInv, Sequence
<1>5. Goroutines' BY <1>0, <1>b, MessageType DEF IInv, Goroutines
<1>6. Stops' BY DEF IInv, Stops
<1>7. Reached' /\ Ordered' BY DEF IInv, Reached, Ordered
<1>8. Honest' BY DEF IInv, Honest
<1>9. ReadyReported' BY DEF IInv, ReadyReported
<1> QED BY <1>a, <1>1, <1>2, <1>3, <1>4, <1>5, <1>6, <1>7, <1>8, <1>9 DEF IInv

LEMMA ReleaseTimeoutInv == ASSUME NEW s \in Services PROVE IInv /\ ReleaseTimeout(s) => IInv'
<1> SUFFICES ASSUME IInv, ReleaseTimeout(s) PROVE IInv' OBVIOUS
<1> DEFINE m == [name |-> s, err |-> FALSE, abandoned |-> TRUE]
<1>0. s \in released /\ s \in started \cap optional /\ release[s] = "stopping"
  BY DEF IInv, Goroutines, Records, ReleaseTimeout
<1>a. /\ exits' \in Seq(Messages)
      /\ \A k \in DOMAIN exits' :
             \/ k \in DOMAIN exits /\ exits'[k] = exits[k]
             \/ k = Len(exits) + 1 /\ exits'[k] = m
  <2>1. m \in Messages BY DEF Messages
  <2>2. Send(m) BY DEF ReleaseTimeout
  <2> HIDE DEF m
  <2> QED BY <2>1, <2>2, SendFacts DEF IInv
<1>b. /\ \A t \in Services : release'[t] = IF t = s THEN "over" ELSE release[t]
      /\ release' \in [Services -> {"none", "stopping", "over"}]
  BY DEF IInv, Types, ReleaseTimeout
<1>c. /\ UNCHANGED <<envVars, stopped, start, stop, deadline, events>> /\ EnvUnchanged
      /\ abandoned' = abandoned \cup {s}
  BY DEF ReleaseTimeout
<1> USE <1>c DEF EnvUnchanged, runVars, configVars, recordVars, envVars
<1>1. Types' BY <1>a, <1>b DEF IInv, Types
<1>2. Records' BY <1>0 DEF IInv, Records
<1>3. AtService' BY DEF IInv, AtService
<1>4. Sequence' BY DEF IInv, Sequence
<1>5. Goroutines'
  <2>1. \A t \in Services : release'[t] = "none" <=> t \notin released
    BY <1>0, <1>b DEF IInv, Goroutines
  <2>2. \A k \in DOMAIN exits :
            /\ exits[k].name \in Services
            /\ exits[k].abandoned => exits[k].name # s
    BY <1>0, MessageType DEF IInv, Goroutines
  <2>3. \A k \in DOMAIN exits' :
            IF exits'[k].abandoned THEN release'[exits'[k].name] = "over"
            ELSE start[exits'[k].name] = "returned"
    BY <1>a, <1>b, <2>2 DEF IInv, Goroutines
  <2>4. \A k, l \in DOMAIN exits' :
            exits'[k].name = exits'[l].name /\ exits'[k].abandoned = exits'[l].abandoned
              => k = l
    BY <1>a, <2>2 DEF IInv, Goroutines
  <2> QED BY <2>1, <2>3, <2>4 DEF IInv, Goroutines
<1>6. Stops' BY DEF IInv, Stops
<1>7. Reached' /\ Ordered' BY DEF IInv, Reached, Ordered
<1>8. Honest' BY DEF IInv, Honest
<1>9. Events' /\ ReadyReported' BY DEF IInv, Events, ReadyReported
<1> QED BY <1>1, <1>2, <1>3, <1>4, <1>5, <1>6, <1>7, <1>8, <1>9 DEF IInv

-----------------------------------------------------------------------------
(* The invariant is inductive. *)

LEMMA InvStep == IInv /\ [Next]_vars => IInv'
<1> SUFFICES ASSUME IInv, [Next]_vars PROVE IInv' OBVIOUS
<1>1. CASE PrepareAll
  BY <1>1, CanceledInv, PreparedInv, PrepareOkInv, PrepareFailsInv DEF PrepareAll
<1>2. CASE StartAll
  BY <1>2, StartInv, CanceledInv, StartedInv, MarkReadyInv, ReadyTimeoutInv, ReleaseAwaitedInv,
     ExitIgnoredInv, OwnExitInv, OtherFailsInv, OtherReturnsInv, AllReturnedInv DEF StartAll
<1>3. CASE StopAll
  BY <1>3, EscalateInv, StopSkippedInv, StopOneInv, StopOkInv, StopFailsInv, StopTimeoutInv,
     StopsDoneInv, JoinedInv, JoinExpiredInv, StopUnstartedInv, UnstartedStoppedInv, ReturnInv
  DEF StopAll
<1>4. ASSUME NEW s \in Services,
             \/ StartReturns(s) \/ StopReturns(s)
             \/ ReleaseStopped(s) \/ ReleaseTimeout(s)
      PROVE  IInv'
  BY <1>4, StartReturnsInv, StopReturnsInv, ReleaseStoppedInv, ReleaseTimeoutInv
<1>5. CASE Report \/ DeadlinePasses \/ Signal BY <1>5, QuietInv
<1>6. CASE UNCHANGED vars
  <2> USE <1>6 DEF vars, configVars, runVars, recordVars, envVars, stopVars
  <2>1. Types' /\ Records' BY DEF IInv, Types, Records
  <2>2. AtService' /\ Sequence' BY DEF IInv, AtService, Sequence
  <2>3. Goroutines' BY DEF IInv, Goroutines
  <2>4. Stops' /\ Reached' /\ Ordered' BY DEF IInv, Stops, Reached, Ordered
  <2>5. Honest' /\ Events' /\ ReadyReported' BY DEF IInv, Honest, Events, ReadyReported
  <2> QED BY <2>1, <2>2, <2>3, <2>4, <2>5 DEF IInv
<1> QED BY <1>1, <1>2, <1>3, <1>4, <1>5, <1>6 DEF Next, Run

\* The inductive invariant holds throughout every run of the supervisor.
THEOREM Invariance == Spec => []IInv
<1> QED BY InvInit, InvStep, PTL DEF Spec

-----------------------------------------------------------------------------
(* What follows from it. *)

\* No send on exits blocks: no two messages agree in the service and the kind.
LEMMA ExitsFit ==
    ASSUME IInv
    PROVE  Len(exits) <= 2 * Cardinality(toStart)
<1> DEFINE f == [k \in 1 .. Len(exits) |-> <<exits[k].name, exits[k].abandoned>>]
           T == toStart \X BOOLEAN
<1>1. exits \in Seq(Messages) /\ Len(exits) \in Nat /\ DOMAIN exits = 1 .. Len(exits)
  BY DEF IInv, Types
<1>2. \A k \in DOMAIN exits : exits[k].name \in toStart /\ exits[k].abandoned \in BOOLEAN
  BY MessageType DEF IInv, Goroutines, Records, Messages
<1>3. f \in Injection(1 .. Len(exits), T)
  <2>1. f \in [1 .. Len(exits) -> T] BY <1>1, <1>2
  <2>2. \A k, l \in 1 .. Len(exits) : f[k] = f[l] => k = l BY <1>1 DEF IInv, Goroutines
  <2> HIDE DEF f, T
  <2> QED BY <2>1, <2>2 DEF Injection, IsInjective
<1>4. IsFiniteSet(toStart) /\ Cardinality(toStart) \in Nat
  <2>1. IsFiniteSet(Services) BY FS_Interval, CountAssumption DEF Services
  <2>2. toStart \subseteq Services BY DEF IInv, Records
  <2> QED BY <2>1, <2>2, FS_Subset, FS_CardinalityType
<1>5. IsFiniteSet(BOOLEAN) /\ Cardinality(BOOLEAN) = 2
  <2>1. IsFiniteSet({TRUE}) /\ Cardinality({TRUE}) = 1 BY FS_Singleton
  <2>2. BOOLEAN = {TRUE} \cup {FALSE} /\ FALSE \notin {TRUE} OBVIOUS
  <2>3. /\ IsFiniteSet({TRUE} \cup {FALSE})
        /\ Cardinality({TRUE} \cup {FALSE})
               = IF FALSE \in {TRUE} THEN Cardinality({TRUE}) ELSE Cardinality({TRUE}) + 1
    BY <2>1, FS_AddElement, Zenon
  <2>4. Cardinality({TRUE} \cup {FALSE}) = Cardinality({TRUE}) + 1 BY <2>2, <2>3, Zenon
  <2>5. 1 + 1 = 2 OBVIOUS
  <2>6. Cardinality({TRUE} \cup {FALSE}) = 2 BY <2>1, <2>4, <2>5, Zenon
  <2> QED BY <2>2, <2>3, <2>6, Zenon
<1>6. IsFiniteSet(T) /\ Cardinality(T) = Cardinality(toStart) * 2
  BY <1>4, <1>5, FS_Product
<1>7. Cardinality(1 .. Len(exits)) = Len(exits)
  BY <1>1, FS_Interval
<1>8. Cardinality(1 .. Len(exits)) <= Cardinality(T)
  <2> HIDE DEF f, T
  <2> QED BY <1>3, <1>6, FS_Injection
<1> QED BY <1>1, <1>4, <1>6, <1>7, <1>8

LEMMA InvTypeOK == IInv => TypeOK
<1> SUFFICES ASSUME IInv PROVE TypeOK OBVIOUS
<1>1. \A k \in DOMAIN exits : exits[k].name \in started
  BY MessageType DEF IInv, Goroutines, Records
<1>2. released \cup abandoned \subseteq started \cap optional BY DEF IInv, Records
<1> QED BY <1>1, <1>2, ExitsFit DEF TypeOK, IInv, Types, Records

\* A step that calls Stop from the ordered stop is a StopOne.
LEMMA StopsReversedStep ==
    ASSUME IInv, [Next]_vars, NEW s \in started, stops'[s] > stops[s], at = "stop",
           NEW t \in started \ released, t > s
    PROVE  stops[t] = 1 /\ (stop[t] \in {"ok", "error"} \/ t \in failed)
<1>0. s \in Services /\ stops[s] \in Nat /\ ~(stops[s] > stops[s])
  BY DEF IInv, Records, Types
<1>1. stops' # stops BY <1>0
<1>2. StopOne
  <2> USE <1>1 DEF stopVars
  <2>1. ~PrepareAll BY DEF PrepareAll, PrepareCanceled, Prepared, PrepareOk, PrepareFails, Preparing
  <2>2. ~StartAll
    BY DEF StartAll, Start, StartCanceled, Started, MarkReady, ReadyTimeout, ReleaseAwaited,
           ExitIgnored, OwnExit, OtherFails, OtherReturns, AwaitCanceled, AllReturned, Receiving
  <2>3. StopAll => StopOne
    BY DEF StopAll, Escalate, StopSkipped, StopOk, StopFails, StopTimeout, StopsDone, Joined,
           JoinExpired, StopUnstarted, UnstartedStopped, Return
  <2>4. \A r \in Services :
            ~(StartReturns(r) \/ StopReturns(r) \/ ReleaseStopped(r) \/ ReleaseTimeout(r))
    BY DEF StartReturns, StopReturns, ReleaseStopped, ReleaseTimeout, EnvUnchanged
  <2>5. ~(Report \/ DeadlinePasses \/ Signal)
    BY DEF Report, DeadlinePasses, Signal, EnvUnchanged
  <2>6. ~UNCHANGED vars BY DEF vars
  <2> QED BY <2>1, <2>2, <2>3, <2>4, <2>5, <2>6 DEF Next, Run
<1>3. cur \in Services /\ deadline # "passed" BY <1>2 DEF StopOne, IInv, AtService, Records
<1>4. stops' = [stops EXCEPT ![cur] = @ + 1] BY <1>2 DEF StopOne
<1>5. s = cur BY <1>0, <1>3, <1>4 DEF IInv, Types
<1>6. stops[t] = 1 BY <1>3, <1>5 DEF IInv, Reached
<1>7. stop[t] \in {"ok", "error"} \/ t \in failed BY <1>3, <1>5 DEF IInv, Ordered
<1> QED BY <1>6, <1>7

\* The steps that begin the shutdown, and why.
LEMMA EndsForAReasonStep ==
    ASSUME IInv, [Next]_vars, tripped', ~tripped
    PROVE  \/ signals > 0
           \/ at = "await" /\ running = {}
           \/ failed' = Services
           \/ \E s \in failed' \ optional : policy = "fail-fast" \/ s \notin ready
<1>0. Types BY DEF IInv
<1>1. CASE PrepareCanceled \/ StartCanceled \/ AwaitCanceled
  BY <1>1 DEF PrepareCanceled, StartCanceled, AwaitCanceled, Canceled
<1>2. CASE Prepared
  <2>1. toStart = {} BY <1>2 DEF Prepared
  <2>2. \A s \in Services : s < cur BY <1>2, CountAssumption DEF Prepared, Services
  <2>3. failed = Services BY <1>2, <2>1, <2>2 DEF Prepared, IInv, Sequence, Types
  <2> QED BY <1>2, <2>3 DEF Prepared
<1>3. ASSUME NEW s \in Services, PrepareFails(s)
      PROVE  \E t \in failed' \ optional : policy = "fail-fast" \/ t \notin ready
  <2>1. s \notin optional BY <1>3 DEF PrepareFails, PrepareNext, Optional
  <2>2. s \in failed' BY <1>3 DEF PrepareFails, NoteFailure
  <2>3. s \notin ready BY <1>3 DEF PrepareFails, Preparing, IInv, Sequence, Records
  <2> QED BY <2>1, <2>2, <2>3
<1>4. CASE Started
  <2>1. AllFailed /\ failed' = failed /\ at = "start" /\ cur = N + 1 BY <1>4 DEF Started
  <2>2. \A s \in toStart : s < cur BY <2>1, CountAssumption DEF IInv, Records, Services
  <2>3. started = toStart BY <2>1, <2>2 DEF IInv, Sequence
  <2> QED BY <2>1, <2>3 DEF AllFailed, IInv, Sequence, Beginning, Types
<1>5. CASE ReadyTimeout \/ OwnExit
  <2>1. at = "ready" /\ cur \in failed' BY <1>5 DEF ReadyTimeout, OwnExit, NoteFailure
  <2>2. cur \notin optional
    BY <1>5 DEF ReadyTimeout, OwnExit, Optional, StartNext
  <2>3. cur \notin ready BY <2>1 DEF IInv, Sequence
  <2> QED BY <2>1, <2>2, <2>3
<1>6. CASE OtherFails
  <2> DEFINE s == Head(exits).name
  <2>1. EndsRun(s) BY <1>6 DEF OtherFails, Stay
  <2>2. s \in failed' BY <1>6 DEF OtherFails, NoteFailure
  <2> QED BY <2>1, <2>2 DEF EndsRun, Optional
<1>7. CASE AllReturned BY <1>7 DEF AllReturned
<1>8. ASSUME NEW s \in Services, PrepareOk(s) PROVE FALSE
  BY <1>8 DEF PrepareOk, PrepareNext
<1>9. CASE Start \/ MarkReady \/ ReleaseAwaited \/ ExitIgnored \/ OtherReturns
  BY <1>9 DEF Start, MarkReady, ReleaseAwaited, ExitIgnored, OtherReturns, StartNext, Stay
<1>10. CASE StopAll
  BY <1>10 DEF StopAll, Escalate, StopSkipped, StopOne, StopOk, StopFails, StopTimeout, StopsDone,
         Joined, JoinExpired, StopUnstarted, UnstartedStopped, Return, EndUnchanged, StopUnchanged
<1>11. ASSUME NEW s \in Services,
              StartReturns(s) \/ StopReturns(s) \/ ReleaseStopped(s) \/ ReleaseTimeout(s)
       PROVE  FALSE
  BY <1>11 DEF StartReturns, StopReturns, ReleaseStopped, ReleaseTimeout, EnvUnchanged
<1>12. CASE Report \/ DeadlinePasses \/ Signal
  BY <1>12 DEF Report, DeadlinePasses, Signal, EnvUnchanged
<1>13. CASE UNCHANGED vars BY <1>13 DEF vars
<1> QED
  BY <1>1, <1>2, <1>3, <1>4, <1>5, <1>6, <1>7, <1>8, <1>9, <1>10, <1>11, <1>12, <1>13
  DEF Next, Run, PrepareAll, StartAll

-----------------------------------------------------------------------------
(* The theorems. *)

\* The records of a run hold what the code puts there, whatever the services do:
\* in particular only optional services are released or written off, and no send
\* on supervised.exits blocks (startAll makes it with two places for each of the
\* services it was given).
THEOREM TypeCorrect == Spec => []TypeOK
<1> QED BY Invariance, InvTypeOK, PTL

\* Stop is called at most once on every service, by the ordered stop, by its
\* release or by releaseUnstarted (StoppedOnce).
THEOREM StopIsCalledOnce == Spec => []StoppedOnce
<1>1. IInv => StoppedOnce BY DEF IInv, Stops, StoppedOnce
<1> QED BY <1>1, Invariance, PTL

\* Every service has at most one stopped event, whichever goroutine notices first
\* that it stopped (OneStoppedEvent).
THEOREM StoppedEventOnce == Spec => []OneStoppedEvent
<1>1. IInv => OneStoppedEvent BY DEF IInv, Events, OneStoppedEvent
<1> QED BY <1>1, Invariance, PTL

\* Run leaves nothing behind that it prepared or started, unless a second signal
\* or the deadline cut the ordered stop short (NothingLeftUnstopped).
THEOREM RunCleansUp == Spec => []NothingLeftUnstopped
<1>1. IInv => NothingLeftUnstopped
  BY DEF IInv, Reached, NothingLeftUnstopped, Beginning
<1> QED BY <1>1, Invariance, PTL

\* A clean outcome is the truth about every required service: none failed and
\* every Start returned (CleanExit).
THEOREM CleanMeansClean == Spec => []CleanExit
<1>1. IInv => CleanExit BY DEF IInv, Honest, CleanExit, Records
<1> QED BY <1>1, Invariance, PTL

\* A run in which only optional services failed exits clean, unless nothing
\* served or the shutdown was cut short (OptionalNeverCounts).
THEOREM OptionalFailuresDoNotCount == Spec => []OptionalNeverCounts
<1>1. IInv => OptionalNeverCounts BY DEF IInv, Honest, OptionalNeverCounts
<1> QED BY <1>1, Invariance, PTL

\* A run that serves has emitted the aggregate ready event, when no service
\* failed in Prepare (ReadyReported).
THEOREM ServingIsReported == Spec => []ReadyReported
<1>1. IInv => ReadyReported BY DEF IInv
<1> QED BY <1>1, Invariance, PTL

\* The ordered stop never calls the Stop of a service before it has called the
\* Stop of every later one, failed ones included and released ones apart, and
\* that Stop returned or ran out of its budget (StopsReversed).
THEOREM ReverseOrder == Spec => StopsReversed
<1>1. IInv /\ [Next]_vars =>
        \A s \in started :
            stops'[s] > stops[s] /\ at = "stop" =>
                \A t \in started \ released :
                    t > s => /\ stops[t] = 1
                             /\ stop[t] \in {"ok", "error"} \/ t \in failed
  BY StopsReversedStep
<1> QED BY <1>1, Invariance, PTL DEF Spec, StopsReversed

\* No run is shut down without a reason, and an optional service alone is never
\* one (EndsForAReason).
THEOREM ReasonToEnd == Spec => EndsForAReason
<1>1. IInv /\ [Next]_vars =>
        (tripped' /\ ~tripped =>
            \/ signals > 0
            \/ at = "await" /\ running = {}
            \/ failed' = Services
            \/ \E s \in failed' \ optional : policy = "fail-fast" \/ s \notin ready)
  BY EndsForAReasonStep
<1> QED BY <1>1, Invariance, PTL DEF Spec, EndsForAReason
=============================================================================
