------------------------- MODULE MCMonitorConnection -------------------------
(***************************************************************************)
(* A ProjectLiveMonitor for TLC, in two parts that stay apart: its         *)
(* connection, where two browsers that answer, a browser and a            *)
(* subscription sync, or two syncs meet (who may act may also not act, and *)
(* a1 stands for either browser); and what it shows of one thread.         *)
(***************************************************************************)
EXTENDS MonitorConnection, CodexThreadView

CONSTANTS a1, a2, t1

VARIABLE which

allVars == <<vars, viewVars, which>>

Answering == {a \in Answers : at[a] = "idle"}

MonitorInit ==
  /\ Init /\ Cardinality(Answering) + MaxSyncs - syncs = 2
  /\ a2 \in Answering => a1 \in Answering
  /\ ViewInit
  /\ \/ which = "connection" /\ kin = [child |-> FALSE, subscribed |-> TRUE]
     \/ which = "view" /\ Answering = {} /\ wants = [a \in Answers |-> 1]

MonitorNext ==
  /\ UNCHANGED which
  /\ \/ which = "connection" /\ Next /\ UNCHANGED viewVars
     \/ which = "view" /\ ViewNext /\ UNCHANGED vars

\* Nothing of the connection's fairness can happen in its initial state, so
\* the one that stays there owes nothing.
MonitorSpec == MonitorInit /\ [][MonitorNext]_allVars /\ Fairness
==============================================================================
