------------------------------ MODULE JobBroker ------------------------------
(***************************************************************************)
(* What dispatching a job to volunteer workers promises its caller: every  *)
(* request gets one verdict, "completed" only with an answer a worker      *)
(* computed for that very job and "fallback" (hand the job to the cloud)   *)
(* at any time; a verdict is final, though a worker may answer too late.   *)
(***************************************************************************)
CONSTANT Jobs

VARIABLES
  phase,     \* the state of each request
  answered   \* jobs some worker has computed an answer for

brokerVars == <<phase, answered>>

BrokerInit ==
  /\ phase = [j \in Jobs |-> "new"]
  /\ answered = {}

Offer(j) ==
  /\ phase[j] = "new"
  /\ phase' = [phase EXCEPT ![j] = "offered"]
  /\ UNCHANGED answered

ComputeAnswer(j) ==
  /\ phase[j] # "new"
  /\ answered' = answered \cup {j}
  /\ UNCHANGED phase

Complete(j) ==
  /\ phase[j] = "offered"
  /\ j \in answered
  /\ phase' = [phase EXCEPT ![j] = "completed"]
  /\ UNCHANGED answered

FallBack(j) ==
  /\ phase[j] \in {"new", "offered"}
  /\ phase' = [phase EXCEPT ![j] = "fallback"]
  /\ UNCHANGED answered

BrokerNext ==
  \E j \in Jobs : Offer(j) \/ ComputeAnswer(j) \/ Complete(j) \/ FallBack(j)

BrokerSpec == BrokerInit /\ [][BrokerNext]_brokerVars

\* An offered job does not stay without a verdict.
BrokerFairSpec ==
  BrokerSpec /\ \A j \in Jobs : WF_brokerVars(Complete(j) \/ (phase[j] = "offered" /\ FallBack(j)))
=============================================================================
