-------------------------- MODULE DeliveryContract --------------------------
(***************************************************************************)
(* What the delivery of an agent's metrics promises, without the queue,    *)
(* the exchange and the tables that keep the promise: an aggregated metric *)
(* is owed to the server, and a debt ends only when the server has the     *)
(* metric, when the agent gives the metric up, or when the agent is killed *)
(* before it wrote the debt down.  The server takes nothing twice and      *)
(* forgets nothing.                                                        *)
(***************************************************************************)
EXTENDS Integers

CONSTANT Metrics

VARIABLES
    aggregated, \* the metrics there ever were
    owed,       \* those the agent is still to send
    delivered,  \* those the server has
    dropped,    \* those the agent gave up
    lost        \* those the agent was killed over

vars == <<aggregated, owed, delivered, dropped, lost>>

Init ==
    /\ aggregated = {}
    /\ owed = {}
    /\ delivered = {}
    /\ dropped = {}
    /\ lost = {}

(* A minute may be aggregated again: its metric is then owed once more.    *)
Aggregate(k) ==
    /\ aggregated' = aggregated \cup {k}
    /\ owed' = owed \cup {k}
    /\ UNCHANGED <<delivered, dropped, lost>>

(* What a request brings: metrics there are and the server does not have.  *)
Deliver(ks) ==
    /\ ks # {}
    /\ ks \subseteq aggregated \ delivered
    /\ delivered' = delivered \cup ks
    /\ UNCHANGED <<aggregated, owed, dropped, lost>>

Acknowledge(ks) ==
    /\ ks # {}
    /\ ks \subseteq delivered /\ ks \subseteq owed
    /\ owed' = owed \ ks
    /\ UNCHANGED <<aggregated, delivered, dropped, lost>>

(* Of a metric aggregated twice one debt may be given up and one stay.     *)
GiveUp(ks) ==
    /\ ks # {}
    /\ dropped' = dropped \cup ks
    /\ ks \subseteq owed
    /\ \E settled \in SUBSET ks : owed' = owed \ settled
    /\ UNCHANGED <<aggregated, delivered, lost>>

Lose(k) ==
    /\ lost' = lost \cup {k}
    /\ k \in owed
    /\ owed' = owed \ {k}
    /\ UNCHANGED <<aggregated, delivered, dropped>>

Next ==
    \/ \E k \in Metrics : Aggregate(k) \/ Lose(k)
    \/ \E ks \in SUBSET Metrics : Deliver(ks) \/ Acknowledge(ks) \/ GiveUp(ks)

Spec == Init /\ [][Next]_vars
=============================================================================
