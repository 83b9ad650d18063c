-------------------------- MODULE MCBackgroundThreads --------------------------
(* UpdateChecker and RedisBridge, the two parts of the mod with a thread of *)
(* their own, on small instances for TLC.  They share no state: one moves,  *)
(* the other keeps still.                                                   *)
EXTENDS UpdateChecker, RedisBridge

VARIABLE part   \* the one that moves

threadVars == <<part, vars, bridgeVars>>

ThreadsInit == Init /\ BridgeInit /\ part \in {"checker", "bridge"}

ThreadsNext ==
  /\ UNCHANGED part
  /\ \/ part = "checker" /\ Next /\ UNCHANGED bridgeVars
     \/ part = "bridge" /\ BridgeNext /\ UNCHANGED vars

\* The fairness each part states for its threads, while it is its turn.
ThreadsSpec ==
  /\ ThreadsInit /\ [][ThreadsNext]_threadVars
  /\ WF_vars(part = "checker" /\ (Store \/ Clear \/ Schedule))
  /\ WF_vars(part = "checker" /\ NotifyStep)
  /\ WF_bridgeVars(part = "bridge" /\ (CloseSubscriber \/ ForgetSubscriber))
  /\ \A b \in 1..MaxBridges : WF_bridgeVars(part = "bridge" /\ b \in DOMAIN bridges /\ Listens(b))

\* Once reconnections and broken connections are over, every closed bridge has ended
\* and the one in use listens and has handed over what it was sent
\* (RedisBridge.java).
BridgeSettles == part = "bridge" => Settles
===============================================================================
