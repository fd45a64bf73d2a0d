---------------------------- MODULE MCPublishing ----------------------------
(* Small instances of Publishing for TLC.

   In the ring, exchange ex routes k to a and c; a key it does not know falls
   back on its alternate, the internal exchange alt, bound to b.  What a
   displaces, or a client rejects, dies through ex and alt into b, what expires
   in b dies through the default exchange into a again, and what dies in c goes
   to alt, which throws.

   In the plain instance c refuses what does not fit, and that is all. *)
EXTENDS Publishing, TLC

CONSTANTS ex, alt, none, a, b, c, k, j

EachAlternate == [e \in {ex} |-> alt]
AllBindings ==
  {[exchange |-> ex, key |-> k, queue |-> a], [exchange |-> ex, key |-> k, queue |-> c],
   [exchange |-> alt, key |-> j, queue |-> b]}
LengthOne == [q \in {c} |-> 1]
BytesTwo == [q \in {a} |-> 2]
NoBytes == [q \in {} |-> 0]
RingOverflow == [q \in Queues |-> IF q = c THEN "reject-publish-dlx" ELSE "drop-head"]
RingExchanges == [q \in {a, b, c} |-> CASE q = a -> ex [] q = b -> none [] q = c -> alt]
RingKeys == [q \in {a, b} |-> IF q = a THEN j ELSE a]
TwoPriorities == [q \in Queues |-> IF q = a THEN 1 ELSE 0]
PlainOverflow == [q \in Queues |-> IF q = c THEN "reject-publish" ELSE "drop-head"]
PlainExchanges == [q \in {} |-> none]
PlainKeys == [q \in {} |-> k]
NoPriorities == [q \in Queues |-> 0]

To(e, key, priority, size) ==
  [exchange |-> e, key |-> key, cc |-> {}, bcc |-> {}, mandatory |-> e = ex,
   priority |-> priority, expiration |-> FALSE, size |-> size]
RingPublications == {To(ex, k, 0, 2), To(ex, k, 3, 1), To(ex, j, 0, 1), To(alt, j, 0, 1)}
PlainPublications == {To(none, c, 0, 1)}
=============================================================================
