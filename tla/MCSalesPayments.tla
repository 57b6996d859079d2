-------------------------- MODULE MCSalesPayments --------------------------
(* Instances of SalesPayments for TLC. *)
EXTENDS SalesPayments, TLC

\* No commission, or a fixed one of a cent.
MCFees == {[g \in Amount |-> 0], [g \in Amount |-> 1]}
MCNoFees == {[g \in Amount |-> 0]}

Rows == Permutations(Sales) \cup Permutations(Payments) \cup Permutations(Requests)

----------------------------------------------------------------------------
(* A claim of the documents the code does not meet; no configuration of    *)
(* this directory checks it, Sales.cfg refutes it.                         *)

\* docs/payments.md:23: the same key with the same payload returns the
\* existing record.  The client's payload is the sale, the gross amount and
\* the method; the code also compares the fee of the moment.
SamePayloadIsReused ==
  \A r \in Requests : LET q == request[r] IN
    q.pc = "conflict" =>
      \E p \in KeyHolders(q.key) : \/ payment[p].sale # q.sale
                                   \/ payment[p].gross # q.gross
                                   \/ payment[p].method # q.method
============================================================================
