------------------------------ MODULE Routing ------------------------------
(***************************************************************************)
(* The matching of messages with the bindings of one exchange of rabbitbox *)
(* (routing.ts), and the list of bindings it goes through                  *)
(* (binding-store.ts).  Where the matched bindings lead is the subject of  *)
(* module Publishing.                                                      *)
(*                                                                         *)
(* A routing key is the sequence of its words, which dots separate in the  *)
(* code; a word may be empty.  Splitting is Words.                         *)
(***************************************************************************)
EXTENDS Naturals, SequencesExt

CONSTANTS
  Types,         \* the types of exchange considered
  RoutingKeys,   \* keys messages are published with
  Patterns,      \* keys of bindings
  HeaderTables,  \* headers of messages: functions from header names
  ArgumentTables,  \* arguments of bindings, without x-match: likewise
  Extensions,    \* the header names that start with x-
  Void,          \* the value undefined
  MaxBindings    \* bound: bindings of an exchange, by type

Star == "*"
Hash == "#"
Modes == {"all", "any", "all-with-x", "any-with-x"}
Invalid == "invalid"   \* any other value of x-match

ASSUME RoutingAssumption ==
  /\ Types \subseteq {"direct", "fanout", "topic", "headers"}
  /\ RoutingKeys \cup Patterns \subseteq Seq(STRING) \ {<<>>}
  /\ MaxBindings \in [Types -> Nat]

VARIABLES
  type,     \* Exchange.type
  list,     \* BindingStore.byExchange.get(exchange)
  sent,     \* the message published last, if any
  matched   \* what route returned for it; or the error it threw

vars == <<type, list, sent, matched>>

Binding(t) ==
  [key : IF t = "headers" THEN {<<"">>} ELSE Patterns,
   table : IF t = "headers" THEN ArgumentTables ELSE {<<>>},
   mode : IF t = "headers" THEN Modes \cup {Invalid} ELSE {"all"}]

Message(t) ==
  [key : IF t = "headers" THEN {<<"">>} ELSE RoutingKeys,
   headers : IF t = "headers" THEN HeaderTables ELSE {<<>>}]

None == [key |-> <<>>, headers |-> <<>>]
Error == {[error |-> "precondition failed"]}

TypeOK ==
  /\ type \in Types
  /\ list \in Seq(Binding(type))
  /\ IsInjective(list)
  /\ sent \in Message(type) \cup {None}
  /\ matched = Error \/ matched \subseteq ToSet(list)

-----------------------------------------------------------------------------
(* The four ways to match *)

(* The empty string has no words, not an empty one. *)
Words(key) == IF key = <<"">> THEN <<>> ELSE key

(* match[pi]: the places in the key from which on it matches the pattern from pi
   on.  HashTakesOne has a # take a word at least. *)
HashTakesOne(r, p) ==
  LET match[pi \in 1 .. Len(p) + 1] ==
        {ri \in 1 .. Len(r) + 1 :
           IF pi > Len(p) THEN ri > Len(r)
           ELSE IF p[pi] = Hash
           THEN pi = Len(p) \/ \E skip \in 1 .. Len(r) + 1 - ri : ri + skip \in match[pi + 1]
           ELSE ri <= Len(r) /\ p[pi] \in {Star, r[ri]} /\ ri + 1 \in match[pi + 1]}
  IN  1 \in match[1]

TopicMatchWords(r, p) ==
  LET match[pi \in 1 .. Len(p) + 1] ==
        {ri \in 1 .. Len(r) + 1 :
           IF pi > Len(p) THEN ri > Len(r)
           ELSE IF p[pi] = Hash
           THEN pi = Len(p) \/ \E skip \in 0 .. Len(r) + 1 - ri : ri + skip \in match[pi + 1]
           ELSE ri <= Len(r) /\ p[pi] \in {Star, r[ri]} /\ ri + 1 \in match[pi + 1]}
  IN  1 \in match[1]

TopicMatch(key, pattern) ==
  \/ key = <<"">> /\ pattern = <<"">>
  \/ pattern = <<Hash>>
  \/ TopicMatchWords(Words(key), Words(pattern))

Compared(b) ==
  {h \in DOMAIN b.table : h \in Extensions => b.mode \in {"all-with-x", "any-with-x"}}

(* The compared arguments a message meets: an undefined one asks for the header
   alone. *)
MetAsValues(headers, b) ==
  {h \in Compared(b) : IF h \in DOMAIN headers THEN headers[h] = b.table[h] ELSE b.table[h] = Void}
Met(headers, b) ==
  {h \in Compared(b) : h \in DOMAIN headers /\ (b.table[h] = Void \/ headers[h] = b.table[h])}

RequireAll(b) == b.mode \in {"all", "all-with-x"}

LenientModeHolds(b, met) ==
  Compared(b) = {} \/ IF RequireAll(b) THEN met = Compared(b) ELSE met # {}
ModeHolds(b, met) ==
  IF RequireAll(b) THEN met = Compared(b) ELSE met # {}

(* headersMatch, for a valid x-match. *)
HeadersMatch(headers, b) == ModeHolds(b, Met(headers, b))

Matches(m, b) ==
  \/ type = "direct" /\ m.key = b.key
  \/ type = "fanout"
  \/ type = "topic" /\ TopicMatch(m.key, b.key)
  \/ type = "headers" /\ HeadersMatch(m.headers, b)

(* The bindings that match: their queues are collected in a set.  One binding
   with an invalid x-match makes route throw, for every message. *)
Route(m) ==
  IF \E b \in ToSet(list) : b.mode = Invalid THEN Error
  ELSE {b \in ToSet(list) : Matches(m, b)}

-----------------------------------------------------------------------------
Init ==
  /\ type \in Types
  /\ list = <<>>
  /\ sent = None
  /\ matched = {}

BindAgain(b) == Append(list, b)

(* A binding that is there already is not added again. *)
WithBinding(b) == IF b \in ToSet(list) THEN list ELSE Append(list, b)

AddBinding(b) ==
  /\ Len(list) < MaxBindings[type]
  /\ list' = WithBinding(b)
  /\ sent' = None /\ matched' = {}
  /\ UNCHANGED type

RemoveBinding(b) ==
  /\ \E i \in DOMAIN list : list[i] = b /\ list' = RemoveAt(list, i)
  /\ sent' = None /\ matched' = {}
  /\ UNCHANGED type

Publish(m) ==
  /\ sent' = m
  /\ matched' = Route(m)
  /\ UNCHANGED <<type, list>>

Next ==
  \/ \E b \in Binding(type) : AddBinding(b) \/ RemoveBinding(b)
  \/ \E m \in Message(type) : Publish(m)

Spec == Init /\ [][Next]_vars

-----------------------------------------------------------------------------
(* Properties *)

(* What a topic pattern means, without an order of evaluation: the words of the
   key can be dealt out to those of the pattern from left to right, any number
   to each #, one to each *, and one equal to it to any other ("* matches
   exactly one word, # matches zero or more words"). *)
Dealt(r, p) ==
  \E upto \in [0 .. Len(p) -> 0 .. Len(r)] :
    /\ upto[0] = 0 /\ upto[Len(p)] = Len(r)
    /\ \A i \in 1 .. Len(p) :
         /\ upto[i - 1] <= upto[i]
         /\ p[i] # Hash => upto[i] = upto[i - 1] + 1 /\ p[i] \in {Star, r[upto[i]]}

TopicsDealt ==
  type = "topic" /\ sent # None =>
    matched = {b \in ToSet(list) : Dealt(Words(sent.key), Words(b.key))}

(* The modes of a headers exchange from strict to lenient, for bindings with the
   same arguments: what matches all of them matches all but the x-arguments;
   what matches any but those matches any; and what matches all matches any,
   unless it had nothing to match. *)
Stricter(a, b) ==
  \/ a.mode = "all-with-x" /\ b.mode = "all"
  \/ a.mode = "any" /\ b.mode = "any-with-x"
  \/ a.mode = "all" /\ b.mode = "any" /\ Compared(a) # {}
  \/ a.mode = "all-with-x" /\ b.mode = "any-with-x" /\ Compared(a) # {}

ModesOrdered ==
  type = "headers" => \A a \in matched, b \in ToSet(list) :
    matched # Error /\ a.table = b.table /\ Stricter(a, b) => b \in matched

(* Another header never takes a match away: a binding says what has to be
   there, not what must be missing. *)
Extends(g, h) == DOMAIN h \subseteq DOMAIN g /\ \A k \in DOMAIN h : g[k] = h[k]

HeadersMonotone ==
  [][type = "headers" /\ None \notin {sent, sent'} /\ Extends(sent'.headers, sent.headers)
       => matched \subseteq matched']_vars
=============================================================================
