----------------------------- MODULE MCRouting -----------------------------
(* A small instance of Routing for TLC: keys of up to three words, patterns of
   up to three, and of four without the empty word; two headers, one of them
   an extension, with two values and undefined. *)
EXTENDS Routing

CONSTANTS plain, ext, one, two

Sentences(W, n) == UNION {[1 .. i -> W] : i \in 1 .. n}
SomeKeys == Sentences({"a", "b", ""}, 3)
SomePatterns == Sentences({"a", "", Star, Hash}, 3) \cup [1 .. 4 -> {"a", Star, Hash}]
SomeTables == UNION {[N -> {one, Void}] : N \in SUBSET {plain, ext}}
MoreTables == SomeTables \cup [{plain} -> {two}]
FewBindings == [t \in Types |-> IF t = "headers" THEN 2 ELSE 1]
=============================================================================
