---------------------------- MODULE PolicyBridge ----------------------------
(***************************************************************************)
(* The client through which the adaptive controller reaches the learning   *)
(* server (adaptive/resilient.go): each request is tried several times,    *)
(* and a circuit breaker shared by all requests stops calling a server     *)
(* that keeps failing.                                                     *)
(*                                                                         *)
(* The controller's own request runs next to the feedback requests of      *)
(* earlier ticks, each in a goroutine of its own; the breaker's lock is    *)
(* held only inside checkCircuit, recordSuccess and recordFailure, so an   *)
(* attempt and the recording of its outcome are two steps.  A response of  *)
(* status 4xx counts as a success for the breaker.  failures stops at      *)
(* ConsecutiveFailures, the only value it is compared with.                *)
(***************************************************************************)
EXTENDS Naturals, Sequences, FiniteSets

CONSTANTS
    Feedbacks,            \* bound: feedback goroutines alive at a time
    MaxRetries, ConsecutiveFailures,  \* ResilientClient
    MaxOutages            \* bound: outages of the server

ASSUME BridgeConstants ==
    /\ MaxRetries \in Nat /\ MaxOutages \in Nat
    /\ ConsecutiveFailures \in Nat \ {0}
    /\ "controller" \notin Feedbacks

Callers == {"controller"} \cup Feedbacks

VARIABLES
    failures, circuit,   \* the breaker
    cooled,              \* OpenDuration has passed since circuitOpenAt
    call,                \* the progress of each caller's request
    tries,               \* the attempts of it that failed
    serverUp, outages    \* external: whether the server answers in time

breakerVars == <<failures, circuit, cooled>>
serverVars == <<serverUp, outages>>
bridgeVars == <<breakerVars, call, tries, serverVars>>

BridgeTypeOK ==
    /\ failures \in 0..ConsecutiveFailures
    /\ circuit \in {"closed", "open", "halfOpen"}
    /\ cooled \in BOOLEAN
    /\ call \in [Callers -> {"idle", "started", "trying", "answered", "exhausted", "ok", "error"}]
    /\ tries \in [Callers -> 0..MaxRetries]
    /\ serverUp \in BOOLEAN /\ outages \in 0..MaxOutages

BridgeInit ==
    /\ failures = 0 /\ circuit = "closed" /\ cooled = FALSE
    /\ call = [c \in Callers |-> "idle"]
    /\ tries = [c \in Callers |-> 0]
    /\ serverUp = TRUE /\ outages = 0

\* Mutant: the circuit waits for a success that no request can bring.
NeverProbe(c) ==
    /\ call[c] = "started"
    /\ call' = [call EXCEPT ![c] = IF circuit = "open" THEN "error" ELSE "trying"]
    /\ UNCHANGED <<breakerVars, tries, serverVars>>

\* Do starts: an open circuit refuses until OpenDuration has passed; then it is
\* half-open, and lets every request through.
checkCircuit(c) ==
    /\ call[c] = "started"
    /\ LET refused == circuit = "open" /\ ~cooled
       IN  /\ call' = [call EXCEPT ![c] = IF refused THEN "error" ELSE "trying"]
           /\ circuit' = IF circuit = "open" /\ cooled THEN "halfOpen" ELSE circuit
    /\ UNCHANGED <<failures, cooled, tries, serverVars>>

\* One attempt of the loop of Do.
Attempt(c) ==
    /\ call[c] = "trying"
    /\ \/ /\ serverUp
          /\ call' = [call EXCEPT ![c] = "answered"]
          /\ tries' = [tries EXCEPT ![c] = 0]
       \/ /\ ~serverUp /\ tries[c] < MaxRetries
          /\ tries' = [tries EXCEPT ![c] = @ + 1]
          /\ UNCHANGED call
       \/ /\ ~serverUp /\ tries[c] = MaxRetries
          /\ call' = [call EXCEPT ![c] = "exhausted"]
          /\ tries' = [tries EXCEPT ![c] = 0]
    /\ UNCHANGED <<breakerVars, serverVars>>

\* Mutant: a success closes the circuit but leaves the count.
SuccessKeepsCount(c) ==
    /\ call[c] = "answered"
    /\ circuit' = "closed"
    /\ call' = [call EXCEPT ![c] = "ok"]
    /\ UNCHANGED <<failures, cooled, tries, serverVars>>

recordSuccess(c) ==
    /\ call[c] = "answered"
    /\ failures' = 0 /\ circuit' = "closed"
    /\ call' = [call EXCEPT ![c] = "ok"]
    /\ UNCHANGED <<cooled, tries, serverVars>>

recordFailure(c) ==
    /\ call[c] = "exhausted"
    /\ failures' = IF failures < ConsecutiveFailures THEN failures + 1 ELSE failures
    /\ IF failures' = ConsecutiveFailures
       THEN circuit' = "open" /\ cooled' = FALSE
       ELSE UNCHANGED <<circuit, cooled>>
    /\ call' = [call EXCEPT ![c] = "error"]
    /\ UNCHANGED <<tries, serverVars>>

Do(c) == checkCircuit(c) \/ Attempt(c) \/ recordSuccess(c) \/ recordFailure(c)

\* The goroutine of a Feedback call ends, whatever the result.
FeedbackReturns(c) ==
    /\ c \in Feedbacks /\ call[c] \in {"ok", "error"}
    /\ call' = [call EXCEPT ![c] = "idle"]
    /\ UNCHANGED <<breakerVars, tries, serverVars>>

\* OpenDuration passes.
Cool ==
    /\ circuit = "open" /\ ~cooled
    /\ cooled' = TRUE
    /\ UNCHANGED <<failures, circuit, call, tries, serverVars>>

ServerFails ==
    /\ serverUp /\ outages < MaxOutages
    /\ serverUp' = FALSE /\ outages' = outages + 1
    /\ UNCHANGED <<breakerVars, call, tries>>

ServerReturns ==
    /\ ~serverUp /\ serverUp' = TRUE
    /\ UNCHANGED <<breakerVars, call, tries, outages>>

BridgeNext ==
    \/ \E c \in Callers : Do(c) \/ FeedbackReturns(c)
    \/ Cool \/ ServerFails \/ ServerReturns

\* Requests run on, and time passes.
BridgeFairness ==
    /\ \A c \in Callers : WF_bridgeVars(Do(c)) /\ WF_bridgeVars(FeedbackReturns(c))
    /\ WF_bridgeVars(Cool)

-----------------------------------------------------------------------------
(* Properties.                                                             *)

\* However requests overlap, late successes and failures included, the circuit
\* is closed exactly while fewer failures than the limit were counted since the
\* last success (resilient.go:138-153 set the two fields in different ways).
BreakerConsistent == circuit = "closed" <=> failures < ConsecutiveFailures

\* Once the server stays up the circuit closes for good, whatever requests were
\* on their way when it came back.
BreakerRecovers == <>[]serverUp => <>[](circuit = "closed")
=============================================================================
