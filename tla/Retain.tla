------------------------------- MODULE Retain -------------------------------
(***************************************************************************)
(* VecDeque::retain of the Rust library, by which the server drops those   *)
(* who waited too long from the queue, and an agent that is served.  It is *)
(* SelectSeq, given the set of the elements to keep: a prover can reason   *)
(* about the function below, and not about an operator as a parameter.     *)
(***************************************************************************)
EXTENDS Integers, Sequences

(* The elements of q that are in K, in their order.                        *)
Retained(q, K) ==
    LET first[n \in 0 .. Len(q)] ==
            IF n = 0 THEN <<>>
            ELSE IF q[n] \in K THEN Append(first[n - 1], q[n])
            ELSE first[n - 1]
    IN  first[Len(q)]
=============================================================================
