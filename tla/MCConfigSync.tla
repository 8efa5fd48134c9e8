---------------------------- MODULE MCConfigSync ----------------------------
(***************************************************************************)
(* An instance of ConfigSync for TLC: texts and agents are model values,   *)
(* the bounds on events are chosen in the configuration.                   *)
(***************************************************************************)
EXTENDS ConfigSync

CONSTANTS v, e, u, a, g

CONSTANTS Edits, Requests, Restarts, Crashes, Timeouts

MCMaxEvents == [edit |-> Edits, request |-> Requests, restart |-> Restarts,
                crash |-> Crashes, timeout |-> Timeouts]

(* What may happen together: one request and a fault, two edits, an edit   *)
(* and two faults, or the faults alone.                                    *)
MCCost == [edit |-> 2, request |-> 3, restart |-> 1, crash |-> 1,
           timeout |-> 1]

RequestOf(t, all, ids) ==
    [tasks |-> t, list |-> [all |-> all, agents |-> ids], error |-> FALSE]

(* Requests that apply, that fail for the agent without a file, whose      *)
(* tasks do not validate, and that lack a file.                            *)
MCDrops == {RequestOf(e, TRUE, {}), RequestOf(e, FALSE, {a, g}),
            RequestOf(v, FALSE, {a}), RequestOf(u, TRUE, {}),
            RequestOf(v, FALSE, {})}
=============================================================================
