------------------------------ MODULE MCBroker ------------------------------
(* Shared: three public requests for a book and a named caller's with its   *)
(* credentials, before a cache of one entry.  Apart: two named callers and  *)
(* one without a name, all with the same credentials, and retries.          *)
EXTENDS Broker

CONSTANTS p1, p2, p3, a1, a2, u1,
          book, alice

MCTtl == book :> 1

SharedRequests == {p1, p2, p3, a1}
SharedPath == [r \in SharedRequests |-> book]
SharedCredential == [r \in SharedRequests |-> IF r = a1 THEN alice ELSE Public]
SharedSymmetry == Permutations({p1, p2, p3})

ApartRequests == {a1, a2, u1}
ApartPath == [r \in ApartRequests |-> book]
ApartCredential == [r \in ApartRequests |-> alice]
=============================================================================
