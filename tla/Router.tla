------------------------------- MODULE Router -------------------------------
(***************************************************************************)
(* The route registry of the HTTP server (HttpServer.hpp, class            *)
(* HandlerRegistrar, lines 165-323, with add at 1005-1019 and process at   *)
(* 1021-1044; the built-in "/$apis" route of Server::enableListApi).       *)
(*                                                                         *)
(* A pattern or a request path is its token sequence (splitUrl: split on   *)
(* '/', empty segments dropped, lower-cased).  A token is a string; the    *)
(* module does not look inside strings, so the constants say which tokens  *)
(* are fuzzy ("<name>" or "[name]") and list the tokens in the order of    *)
(* std::string's operator< (byte order).                                   *)
(*                                                                         *)
(* hooks_[verb] is a std::set<HookFunctor> ordered by HookFunctor's        *)
(* operator<.  std::set finds the place of a new element by one descent of *)
(* its search tree and then compares it with its in-order predecessor only *)
(* (libstdc++ _M_get_insert_unique_pos).  The tree is modelled as an      *)
(* unbalanced binary search tree: nodes in insertion order, child links,   *)
(* and the in-order sequence.  A red-black rebalance first happens when a  *)
(* third node is inserted, so for sets of at most three templates          *)
(* (MaxSetSize) every descent is the one the red-black tree makes.         *)
(***************************************************************************)
EXTENDS Naturals, Sequences, FiniteSets

CONSTANTS
    Verbs,        \* the HTTP verbs routes are registered for
    TokenOrder,   \* the tokens, sorted by std::string operator<
    FuzzyTokens,  \* the tokens that are fuzzy segments
    MarkedTokens, \* the tokens holding one of '<' '>' '[' ']'
    Patterns,     \* the patterns (token sequences) user code registers
    Paths,        \* the request paths (token sequences) to resolve
    ApiList,      \* the token sequence of "/$apis"
    MaxSetSize    \* bound on the templates of one verb (see above)

Tokens == {TokenOrder[i] : i \in 1..Len(TokenOrder)}

ASSUME RouterAssumption ==
    /\ TokenOrder \in Seq(STRING)
    /\ \A i, j \in 1..Len(TokenOrder) : i # j => TokenOrder[i] # TokenOrder[j]
    /\ FuzzyTokens \subseteq MarkedTokens /\ MarkedTokens \subseteq Tokens
    /\ Patterns \subseteq Seq(Tokens) /\ Paths \subseteq Seq(Tokens)
    /\ ApiList \in Seq(Tokens \ FuzzyTokens)
    /\ MaxSetSize \in 1..3

Rank(t) == CHOOSE i \in 1..Len(TokenOrder) : TokenOrder[i] = t

IsFuzzy(t) == t \in FuzzyTokens

(* HookFunctor::operator== : same length and, position by position, equal  *)
(* tokens or two fuzzy ones.                                               *)
Equiv(a, b) ==
    /\ Len(a) = Len(b)
    /\ \A i \in 1..Len(a) : a[i] = b[i] \/ (IsFuzzy(a[i]) /\ IsFuzzy(b[i]))

(* std::vector<std::string> operator< (lexicographic).                     *)
TokensLess(a, b) ==
    \E i \in 1..(Len(a) + 1) :
        /\ \A j \in 1..(i - 1) : j <= Len(b) /\ a[j] = b[j]
        /\ \/ i > Len(a) /\ Len(a) < Len(b)
           \/ i <= Len(a) /\ i <= Len(b) /\ Rank(a[i]) < Rank(b[i])

(* HookFunctor::operator< : never less than an equivalent template,        *)
(* otherwise the token order.                                              *)
Less(a, b) == ~Equiv(a, b) /\ TokensLess(a, b)

EmptyTree == [ins |-> <<>>, lc |-> <<>>, rc |-> <<>>, ord |-> <<>>]

(* The descent of _M_get_insert_unique_pos: from the root, left when the   *)
(* new key is less than the node's, right otherwise.  y is the last node   *)
(* visited (0 for an empty tree), comp the last comparison.                *)
Descent(tr, t) ==
    LET step[k \in 0..Len(tr.ins)] ==
            IF k = 0
            THEN [x |-> IF tr.ins = <<>> THEN 0 ELSE 1, y |-> 0, comp |-> TRUE]
            ELSE LET p == step[k - 1]
                 IN  IF p.x = 0 THEN p
                     ELSE LET c == Less(t, tr.ins[p.x])
                          IN  [x |-> IF c THEN tr.lc[p.x] ELSE tr.rc[p.x],
                               y |-> p.x, comp |-> c]
    IN  step[Len(tr.ins)]

(* Position of a node in the in-order sequence.                            *)
OrdPos(tr, n) == CHOOSE i \in 1..Len(tr.ord) : tr.ord[i] = n

(* std::set::emplace: is t inserted?  It is unless the in-order            *)
(* predecessor of its place is not less than it.                           *)
Inserts(tr, t) ==
    LET d == Descent(tr, t)
    IN  IF d.y = 0 THEN TRUE
        ELSE IF d.comp /\ OrdPos(tr, d.y) = 1 THEN TRUE
        ELSE LET j == IF d.comp THEN tr.ord[OrdPos(tr, d.y) - 1] ELSE d.y
             IN  Less(tr.ins[j], t)

(* The tree after inserting t as a child of the descent's last node y: a   *)
(* left child comes just before y in order, a right child just after it.   *)
InsertAt(tr, t) ==
    LET d == Descent(tr, t)
        n == Len(tr.ins) + 1
        before == IF d.y = 0 THEN 0
                  ELSE IF d.comp THEN OrdPos(tr, d.y) - 1 ELSE OrdPos(tr, d.y)
    IN  [ins |-> Append(tr.ins, t),
         lc |-> [i \in 1..n |-> IF i = d.y /\ d.comp THEN n
                                ELSE IF i < n THEN tr.lc[i] ELSE 0],
         rc |-> [i \in 1..n |-> IF i = d.y /\ ~d.comp THEN n
                                ELSE IF i < n THEN tr.rc[i] ELSE 0],
         ord |-> SubSeq(tr.ord, 1, before) \o <<n>>
                 \o SubSeq(tr.ord, before + 1, Len(tr.ord))]

(* Mutant: a fuzzy segment weighs as much as an equal literal.            *)
WeightFlat(t, p) ==
    LET stops == {i \in 1..Len(t) : t[i] # p[i] /\ ~IsFuzzy(t[i])}
        stop == IF stops = {} THEN Len(t) + 1
                ELSE CHOOSE i \in stops : \A k \in stops : i <= k
    IN  IF Len(t) = 0 THEN 1 ELSE 100 * (stop - 1)

(* HandlerRegistrar::match's weight of template t for path p (the caller   *)
(* skips templates longer than the path): 1 for the catch-all, else 100    *)
(* per equal token and 10 per fuzzy one, up to the first literal mismatch. *)
Weight(t, p) ==
    LET stops == {i \in 1..Len(t) : t[i] # p[i] /\ ~IsFuzzy(t[i])}
        stop == IF stops = {} THEN Len(t) + 1
                ELSE CHOOSE i \in stops : \A k \in stops : i <= k
    IN  IF Len(t) = 0 THEN 1
        ELSE 100 * Cardinality({i \in 1..(stop - 1) : t[i] = p[i]})
             + 10 * Cardinality({i \in 1..(stop - 1) : t[i] # p[i]})

(* Mutant: ">=" for ">" (a zero weight matches, later ties win).          *)
MatchGe(tr, p) ==
    LET best[k \in 0..Len(tr.ord)] ==
            IF k = 0 THEN [w |-> 0, node |-> 0]
            ELSE LET b == best[k - 1]
                     n == tr.ord[k]
                     t == tr.ins[n]
                 IN  IF Len(t) <= Len(p) /\ Weight(t, p) >= b.w
                     THEN [w |-> Weight(t, p), node |-> n]
                     ELSE b
    IN  IF \E i \in 1..Len(p) : p[i] \in MarkedTokens
        THEN [w |-> 0, node |-> 0]
        ELSE best[Len(tr.ord)]

(* HandlerRegistrar::match: a path holding a fuzzy marker matches nothing; *)
(* otherwise the templates are walked in the set's order and the first one *)
(* of strictly greatest weight wins.  node is 0 when nothing matched.     *)
Match(tr, p) ==
    LET best[k \in 0..Len(tr.ord)] ==
            IF k = 0 THEN [w |-> 0, node |-> 0]
            ELSE LET b == best[k - 1]
                     n == tr.ord[k]
                     t == tr.ins[n]
                 IN  IF Len(t) <= Len(p) /\ Weight(t, p) > b.w
                     THEN [w |-> Weight(t, p), node |-> n]
                     ELSE b
    IN  IF \E i \in 1..Len(p) : p[i] \in MarkedTokens
        THEN [w |-> 0, node |-> 0]
        ELSE best[Len(tr.ord)]

VARIABLE hooks   \* HandlerRegistrar::hooks_ : verb -> template set (tree)

vars == <<hooks>>

Trees ==
    [ins : Seq(Seq(Tokens)), lc : Seq(Nat), rc : Seq(Nat), ord : Seq(Nat)]

TypeOK ==
    /\ hooks \in [Verbs -> Trees]
    /\ \A v \in Verbs : Len(hooks[v].ins) <= MaxSetSize

(* The Server constructor registers GET "/$apis" (enableListApi).          *)
Init ==
    hooks = [v \in Verbs |-> IF v = "get" THEN InsertAt(EmptyTree, ApiList)
                                          ELSE EmptyTree]

(* HandlerRegistrar::add through Server::hook: the pattern is inserted     *)
(* into the verb's set unless the set finds an equivalent one, in which    *)
(* case add logs "Duplicate registration" and returns false.               *)
Add(v, pat) ==
    /\ Len(hooks[v].ins) < MaxSetSize
    /\ Inserts(hooks[v], pat)
    /\ hooks' = [hooks EXCEPT ![v] = InsertAt(@, pat)]

Next == \E v \in Verbs, pat \in Patterns : Add(v, pat)

Spec == Init /\ [][Next]_vars

-----------------------------------------------------------------------------
(* Properties.  Each quantifies over every request path, so it speaks of   *)
(* HandlerRegistrar::process for any request arriving at that point.       *)

(* A path the router can resolve at all: none of its segments holds a     *)
(* fuzzy marker.                                                           *)
Plain(p) == \A i \in 1..Len(p) : p[i] \notin MarkedTokens

Winner(v, p) == hooks[v].ins[Match(hooks[v], p).node]
Matched(v, p) == Match(hooks[v], p).node # 0

(* t matches p segment by segment: literal equal or fuzzy.                 *)
ExactMatch(t, p) ==
    Len(t) = Len(p) /\ \A i \in 1..Len(t) : t[i] = p[i] \/ IsFuzzy(t[i])

(* a is b with at least one fuzzy segment made literal.                    *)
MoreSpecific(a, b) ==
    /\ Len(a) = Len(b)
    /\ \A i \in 1..Len(a) : ~IsFuzzy(b[i]) => a[i] = b[i]
    /\ \E i \in 1..Len(a) : IsFuzzy(b[i]) /\ ~IsFuzzy(a[i])

(* Specificity (spec 8, "/user/list" beats "/user/<id>"): when the winner  *)
(* matches the path exactly, no registered template that also matches it   *)
(* exactly is more specific than the winner.                               *)
SpecificityOrder ==
    \A v \in Verbs, p \in Paths :
        (Matched(v, p) /\ ExactMatch(Winner(v, p), p)) =>
            \A n \in 1..Len(hooks[v].ins) :
                ExactMatch(hooks[v].ins[n], p) => ~MoreSpecific(hooks[v].ins[n], Winner(v, p))

(* A path is routed only to the catch-all or to a template that agrees     *)
(* with its first segment; any other request falls to the static files    *)
(* (spec 8: no route for "/missing" gives 404).                            *)
MatchAgreesWithPath ==
    \A v \in Verbs, p \in Paths :
        Matched(v, p) =>
            \/ Len(Winner(v, p)) = 0
            \/ Winner(v, p)[1] = p[1]
            \/ IsFuzzy(Winner(v, p)[1])

(* Spec 8: registering two patterns that differ only in fuzzy-variable     *)
(* naming is rejected the second time: no set holds two equivalent ones.   *)
NoEquivalentDuplicates ==
    \A v \in Verbs : \A i, j \in 1..Len(hooks[v].ins) :
        i # j => ~Equiv(hooks[v].ins[i], hooks[v].ins[j])

(* Spec 8: a request whose path matches a registered pattern's structure   *)
(* exactly is routed to a pattern it matches exactly.                      *)
ExactMatchWins ==
    \A v \in Verbs, p \in {q \in Paths : Plain(q)} :
        (\E n \in 1..Len(hooks[v].ins) : ExactMatch(hooks[v].ins[n], p)) =>
            Matched(v, p) /\ ExactMatch(Winner(v, p), p)

(* Spec 4.1: of two templates of equal weight the earlier-registered one   *)
(* wins.                                                                   *)
TieKeepsEarlierRegistered ==
    \A v \in Verbs, p \in Paths :
        Matched(v, p) =>
            \A n \in 1..Len(hooks[v].ins) :
                (/\ Len(hooks[v].ins[n]) <= Len(p)
                 /\ Weight(hooks[v].ins[n], p) = Match(hooks[v], p).w)
                    => Match(hooks[v], p).node <= n

=============================================================================
