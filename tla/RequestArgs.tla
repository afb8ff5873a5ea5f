---------------------------- MODULE RequestArgs ----------------------------
(***************************************************************************)
(* What a Session makes of its request target (HttpServer.hpp): the       *)
(* constructor sets href_ = decodeUri(target) (502-508, 101-130), and      *)
(* handleRequest calls parseArguments (704-743), which fills args_ from    *)
(* the text after the first '?' of href_.  Both loops are modelled one     *)
(* character per step, over targets of a few characters drawn from a      *)
(* small alphabet, and longer queries over a smaller one; "NUL" is the byte 0 and "B" an upper-case letter.       *)
(***************************************************************************)
EXTENDS Naturals, Sequences, SequencesExt, TLC

CONSTANTS
    Chars,       \* the characters a target is made of
    MaxLen,      \* bound on the length of a target after its leading '/'
    QueryChars,  \* the characters of the longer query-only targets
    QueryLen     \* bound on the length of their query after "/?"

ASSUME RequestArgsAssumption ==
    /\ {"%", "+", "?", "&", "=", "#"} \subseteq Chars
    /\ MaxLen \in Nat /\ QueryLen \in Nat

(* Targets as the HTTP parser delivers them: a '/' and a few characters   *)
(* of any kind, or "/?" and a longer query over fewer characters.          *)
Targets ==
    {<<"/">> \o s : s \in BoundedSeq(Chars, MaxLen)}
        \cup {<<"/", "?">> \o s : s \in BoundedSeq(QueryChars, QueryLen)}

(* boost::to_lower_copy on one character, and on a string.                 *)
LowerChar(ch) == IF ch = "B" THEN "b" ELSE ch
Lower(s) == [k \in DOMAIN s |-> LowerChar(s[k])]

(* The empty map args_.                                                    *)
NoArgs == [k \in {} |-> <<>>]

VARIABLES
    target,   \* req_.target()
    pc,       \* "decode", "parse", "scan" or "done"
    i,        \* the loop index (decodeUri) or position (parseArguments)
    href,     \* href_ (the decoded target), built by decodeUri
    query,    \* the part of href_ after its first '?'
    key,      \* parseArguments' key
    value,    \* parseArguments' value
    inKey,    \* parseArguments' inKeyTurn
    args      \* args_: a function from keys to values

vars == <<target, pc, i, href, query, key, value, inKey, args>>

(* The Session is constructed; decodeUri starts.                           *)
Init ==
    /\ target \in Targets
    /\ pc = "decode" /\ i = 1
    /\ href = <<>> /\ query = <<>> /\ key = <<>> /\ value = <<>>
    /\ inKey = TRUE /\ args = NoArgs

-----------------------------------------------------------------------------
(* decodeUri.                                                              *)

(* '%': the lexical_cast's result is thrown away, so the byte appended is  *)
(* ch's initial 0; the two characters after '%' are skipped.               *)
DecodePercent ==
    /\ pc = "decode" /\ i <= Len(target) /\ target[i] = "%"
    /\ href' = Append(href, "NUL")
    /\ i' = i + 3
    /\ UNCHANGED <<target, pc, query, key, value, inKey, args>>

(* '+' is a space.                                                         *)
DecodePlus ==
    /\ pc = "decode" /\ i <= Len(target) /\ target[i] = "+"
    /\ href' = Append(href, " ")
    /\ i' = i + 1
    /\ UNCHANGED <<target, pc, query, key, value, inKey, args>>

(* Any other character is copied.                                          *)
DecodeChar ==
    /\ pc = "decode" /\ i <= Len(target) /\ target[i] \notin {"%", "+"}
    /\ href' = Append(href, target[i])
    /\ i' = i + 1
    /\ UNCHANGED <<target, pc, query, key, value, inKey, args>>

(* The loop ends and the whole result is lower-cased.                      *)
DecodeEnd ==
    /\ pc = "decode" /\ i > Len(target)
    /\ href' = Lower(href)
    /\ pc' = "parse"
    /\ UNCHANGED <<target, i, query, key, value, inKey, args>>

-----------------------------------------------------------------------------
(* parseArguments.                                                         *)

IsQuestion(ch) == ch = "?"

(* args_ is cleared; with no '?' in href_ there is nothing more to do.     *)
ParseNoQuery ==
    /\ pc = "parse" /\ SelectInSeq(href, IsQuestion) = 0
    /\ args' = NoArgs /\ pc' = "done"
    /\ UNCHANGED <<target, i, href, query, key, value, inKey>>

(* Otherwise the text after the first '?' is scanned.                      *)
ParseQuery ==
    /\ pc = "parse" /\ SelectInSeq(href, IsQuestion) # 0
    /\ query' = SubSeq(href, SelectInSeq(href, IsQuestion) + 1, Len(href))
    /\ args' = NoArgs /\ pc' = "scan" /\ i' = 1
    /\ key' = <<>> /\ value' = <<>> /\ inKey' = TRUE
    /\ UNCHANGED <<target, href>>

(* args_[to_lower(key)] = value, when key or value is non-empty.           *)
Store(a, k, v) ==
    IF k # <<>> \/ v # <<>> THEN (Lower(k) :> v) @@ a ELSE a

(* Mutant: '&' starts a new key but keeps the value read so far.          *)
ScanAmpKeep ==
    /\ pc = "scan" /\ i <= Len(query) /\ query[i] = "&"
    /\ args' = Store(args, key, value)
    /\ key' = <<>> /\ inKey' = TRUE
    /\ i' = i + 1
    /\ UNCHANGED <<target, pc, href, query, value>>

(* '&' stores the pair read so far and starts a new key.                   *)
ScanAmp ==
    /\ pc = "scan" /\ i <= Len(query) /\ query[i] = "&"
    /\ args' = Store(args, key, value)
    /\ key' = <<>> /\ value' = <<>> /\ inKey' = TRUE
    /\ i' = i + 1
    /\ UNCHANGED <<target, pc, href, query>>

(* '=' switches to the value, every time it occurs.                        *)
ScanEq ==
    /\ pc = "scan" /\ i <= Len(query) /\ query[i] = "="
    /\ inKey' = FALSE
    /\ i' = i + 1
    /\ UNCHANGED <<target, pc, href, query, key, value, args>>

(* '#' is skipped.                                                         *)
ScanHash ==
    /\ pc = "scan" /\ i <= Len(query) /\ query[i] = "#"
    /\ i' = i + 1
    /\ UNCHANGED <<target, pc, href, query, key, value, inKey, args>>

(* Any other character extends the key or the value.                       *)
ScanChar ==
    /\ pc = "scan" /\ i <= Len(query) /\ query[i] \notin {"&", "=", "#"}
    /\ IF inKey THEN key' = Append(key, query[i]) /\ UNCHANGED value
                ELSE value' = Append(value, query[i]) /\ UNCHANGED key
    /\ i' = i + 1
    /\ UNCHANGED <<target, pc, href, query, inKey, args>>

(* After the loop the last pair is stored.                                 *)
ScanEnd ==
    /\ pc = "scan" /\ i > Len(query)
    /\ args' = Store(args, key, value)
    /\ pc' = "done"
    /\ UNCHANGED <<target, i, href, query, key, value, inKey>>

Next ==
    \/ DecodePercent \/ DecodePlus \/ DecodeChar \/ DecodeEnd
    \/ ParseNoQuery \/ ParseQuery
    \/ ScanAmp \/ ScanEq \/ ScanHash \/ ScanChar \/ ScanEnd

Spec == Init /\ [][Next]_vars

-----------------------------------------------------------------------------
(* The query-string rule of the specification: split on '&', each pair on  *)
(* its first '=', keys lower-cased, a pair with no '=' has the empty       *)
(* value, a later occurrence of a key overwrites an earlier one; an empty  *)
(* pair (nothing, or a lone '=') is no argument.                           *)

IsEq(ch) == ch = "="

(* The pairs of q: the text between consecutive '&'s, with its position.  *)
Bounds(q) == {0, Len(q) + 1} \cup {k \in 1..Len(q) : q[k] = "&"}
PairAt(q, a) ==
    LET b == CHOOSE x \in Bounds(q) : x > a /\ \A y \in Bounds(q) : y > a => x <= y
    IN SubSeq(q, a + 1, b - 1)
PairStarts(q) == {a \in Bounds(q) : a <= Len(q)}

PairKey(p) ==
    IF SelectInSeq(p, IsEq) = 0 THEN p ELSE SubSeq(p, 1, SelectInSeq(p, IsEq) - 1)
PairValue(p) ==
    IF SelectInSeq(p, IsEq) = 0 THEN <<>> ELSE SubSeq(p, SelectInSeq(p, IsEq) + 1, Len(p))

Arguments(q) ==
    LET Live == {a \in PairStarts(q) : PairAt(q, a) \notin {<<>>, <<"=">>}}
        Keys == {Lower(PairKey(PairAt(q, a))) : a \in Live}
        LastOf(k) == CHOOSE a \in Live :
                        /\ Lower(PairKey(PairAt(q, a))) = k
                        /\ \A b \in Live : Lower(PairKey(PairAt(q, b))) = k => b <= a
    IN [k \in Keys |-> PairValue(PairAt(q, LastOf(k)))]

(* The text after the first '?' of a string (empty when there is none).    *)
QueryOf(s) ==
    IF SelectInSeq(s, IsQuestion) = 0 THEN <<>>
    ELSE SubSeq(s, SelectInSeq(s, IsQuestion) + 1, Len(s))

(* No pair holds a second '='.                                             *)
SingleEquals(q) ==
    \A a \in PairStarts(q) :
        \A j, k \in DOMAIN PairAt(q, a) :
            PairAt(q, a)[j] = "=" /\ PairAt(q, a)[k] = "=" => j = k

-----------------------------------------------------------------------------
(* Properties.                                                             *)

(* The arguments parseArguments builds are the specification's reading of *)
(* the decoded query, for every query without '#' whose pairs hold at most *)
(* one '=': the inKeyTurn flag, the clearing at '&' and the final store   *)
(* together implement split-on-'&', split-on-first-'=' and last-wins.     *)
ArgsAsSpecified ==
    (pc = "done" /\ "#" \notin ToSet(href) /\ SingleEquals(QueryOf(href)))
        => args = Arguments(QueryOf(href))

(* Every pair is split on its first '=' (the specification's rule), so     *)
(* "a==" gives a the value "=".                                            *)
SplitOnFirstEquals ==
    (pc = "done" /\ "#" \notin ToSet(href))
        => args = Arguments(QueryOf(href))

(* Only the keys are lower-cased: a value is the text of the request's     *)
(* query as sent.                                                          *)
ValuesAsSent ==
    (pc = "done" /\ ToSet(target) \cap {"%", "+", "#"} = {}
                 /\ SingleEquals(QueryOf(target)))
        => args = Arguments(QueryOf(target))

(* A percent escape decodes to the byte it encodes, never to a NUL byte    *)
(* (which would cut the path handed to the file system short).            *)
NoNulInHref ==
    "NUL" \notin ToSet(href)

=============================================================================
