------------------------------- MODULE ZTrie -------------------------------
(***************************************************************************)
(* The prefix tree of ztrie.  A node is the sequence of tokens that leads  *)
(* to it from the root, and the tree a function that says of each node     *)
(* whether a route ends there.  A token has the type of its node and its   *)
(* text.  The texts of words, expressions and named expressions are apart: *)
(* s_ztrie_compare_token looks at the text alone, and takes two tokens of  *)
(* one text for the same.  The order of the children of one type depends   *)
(* on the history of an unstable sort, so it is left open.                 *)
(***************************************************************************)
EXTENDS Integers, Sequences, FiniteSets, SequencesExt, Functions

CONSTANTS
    Words,           \* plain texts, the asterisk not among them
    Regexes,         \* expressions written {expression}
    Params,          \* expressions written {name:expression}
    Accepts(_, _),   \* whether an expression accepts a word
    MaxNodes,        \* bound: nodes of the tree
    MaxTokens,       \* bound: tokens of a route
    RemovesPastStar  \* whether the application removes paths that go on after an asterisk

VARIABLES
    endpoint,   \* for each node of the tree, whether a route ends there
    match,      \* node of the last ztrie_matches
    routes      \* history: the routes inserted and not removed, as nodes

vars == <<endpoint, match, routes>>

Star == "*"
Empty == ""
Token(type, text) == [type |-> type, text |-> text]
root == <<>>
NoNode == <<Token("none", Empty)>>

\* A token as written in a route, by what the scan of s_ztrie_parse_path finds.
Written ==
    [type : {"string"}, text : Words \cup {Star, Empty}]
        \cup [type : {"regex"}, text : Regexes] \cup [type : {"param"}, text : Params]
Paths == UNION {[1..n -> Written] : n \in 1..MaxTokens}
Requests == {p \in Paths : \A i \in DOMAIN p : p[i].type = "string" /\ p[i].text # Empty}

Children(tree, node) == {n \in DOMAIN tree : n # root /\ Front(n) = node}
IsStar(node) == node \notin {root, NoNode} /\ Last(node).type = "asterisk"

\* The token at position i of a path: an asterisk at its end is one of its own type.
TokenAt(path, i) ==
    IF i = Len(path) /\ path[i].text = Star THEN Token("asterisk", Star) ELSE path[i]

\* A token of no length, or an asterisk at the end next to other tokens.
Illegal(tree, node, token) ==
    token.text = Empty \/ (token.type = "asterisk" /\ Children(tree, node) # {})

Rank == [string |-> 0, regex |-> 1, param |-> 2, asterisk |-> 3]

\* What may come first on a list that s_ztrie_node_new keeps sorted by type.
First(nodes) == {n \in nodes : \A m \in nodes : Rank[Last(n).type] <= Rank[Last(m).type]}

Matches(token, word) ==
    \/ token.type = "string" /\ token.text = word
    \/ token.type = "asterisk"
    \/ token.type \in {"regex", "param"} /\ Accepts(token.text, word)

s_ztrie_matches_token(tree, node, word) ==
    First({n \in Children(tree, node) : Matches(Last(n), word)})

s_ztrie_compare_token(tree, node, text) ==
    {n \in Children(tree, node) : Last(n).text = text}

\* One token in match or lookup mode, from each node the parse may have reached; an
\* asterisk ends the parse.
Advance(tree, node, token, mode) ==
    LET found == IF mode = "match" THEN s_ztrie_matches_token(tree, node, token.text)
                 ELSE s_ztrie_compare_token(tree, node, token.text)
    IN  IF node = NoNode \/ IsStar(node) THEN {node}
        ELSE IF Illegal(tree, node, token) \/ found = {} THEN {NoNode}
        ELSE found

\* s_ztrie_parse_path in match and lookup mode: the nodes it may return.
Parse(tree, path, mode) ==
    LET Step(nodes, i) == UNION {Advance(tree, n, TokenAt(path, i), mode) : n \in nodes}
        reached == FoldLeft(Step, {root}, [i \in DOMAIN path |-> i])
    IN  {IF mode = "match" /\ n # NoNode /\ ~tree[n] THEN NoNode ELSE n : n \in reached}

\* Nothing is appended to an asterisk, nor next to one.
Refuses(tree, node) == IsStar(node) \/ \E n \in Children(tree, node) : IsStar(n)

\* One token in insert mode: the tree and the node after it.
Extend(at, token) ==
    LET found == s_ztrie_compare_token(at.tree, at.node, token.text)
        new == Append(at.node, token)
    IN  IF at.node = NoNode \/ IsStar(at.node) THEN at
        ELSE IF Illegal(at.tree, at.node, token) THEN [at EXCEPT !.node = NoNode]
        ELSE IF found # {} THEN [at EXCEPT !.node = CHOOSE n \in found : TRUE]
        ELSE IF Refuses(at.tree, at.node) THEN [at EXCEPT !.node = NoNode]
        ELSE [tree |-> [n \in DOMAIN at.tree \cup {new} |-> n # new /\ at.tree[n]], node |-> new]

\* s_ztrie_parse_path in insert mode: the nodes made before it fails stay.
ParseInsert(tree, path) ==
    FoldLeft(Extend, [tree |-> tree, node |-> root], [i \in DOMAIN path |-> TokenAt(path, i)])

(***************************************************************************)
(* Operations.                                                             *)
(***************************************************************************)
Route(path) == [i \in DOMAIN path |-> TokenAt(path, i)]

ztrie_new ==
    /\ endpoint = [n \in {root} |-> FALSE]
    /\ match = NoNode
    /\ routes = {}

ztrie_insert_route(path) ==
    LET at == ParseInsert(endpoint, path)
        new == at.node # NoNode /\ ~at.tree[at.node]
    IN  /\ Cardinality(DOMAIN at.tree) <= MaxNodes
        /\ endpoint' = [n \in DOMAIN at.tree |-> at.tree[n] \/ (new /\ n = at.node)]
        /\ routes' = IF new THEN routes \cup {Route(path)} ELSE routes
        /\ UNCHANGED match

\* A node on the way to others stays, without its route.
Without(tree, node) ==
    IF Children(tree, node) # {} THEN [tree EXCEPT ![node] = FALSE]
    ELSE [n \in DOMAIN tree \ {node} |-> tree[n]]

\* A match held by the application is not forgotten when its node goes.
ztrie_remove_route(path) ==
    \E node \in Parse(endpoint, path, "lookup") :
        /\ RemovesPastStar \/ Len(node) = Len(path)
        /\ node # NoNode /\ endpoint[node]
        /\ endpoint' = Without(endpoint, node)
        /\ routes' = routes \ {Route(path)}
        /\ UNCHANGED match

ztrie_matches(path) ==
    /\ match' \in Parse(endpoint, path, "match")
    /\ UNCHANGED <<endpoint, routes>>

Init == ztrie_new

Next ==
    \/ \E path \in Paths : ztrie_insert_route(path) \/ ztrie_remove_route(path)
    \/ \E path \in Requests : ztrie_matches(path)

Spec == Init /\ [][Next]_vars

(***************************************************************************)
(* Properties.                                                             *)
(***************************************************************************)
\* What it means for a route to cover a requested path, without the tree.
Covers(route, path) ==
    /\ Len(route) = Len(path) \/ (IsStar(route) /\ Len(route) < Len(path))
    /\ \A i \in DOMAIN route : Matches(route[i], path[i].text)

\* What ztrie_matches finds is a route that was inserted, was not removed and covers
\* the path: nodes left behind by removals and by refused insertions are never hit.
MatchSound ==
    \A path \in Requests :
        \A node \in Parse(endpoint, path, "match") \ {NoNode} : node \in routes /\ Covers(node, path)

\* "Tokens that contain regular expressions are always match after string based tokens"
\* (ztrie_test): a route of words is found by its own path, whatever expressions and
\* asterisks were inserted before or after it beside it and beside its prefixes.
WordsFirst ==
    \A route \in routes :
        (\A i \in DOMAIN route : route[i].type = "string") => Parse(endpoint, route, "match") = {route}

\* "If a parent has an asterisk as child it is not allowed to have other siblings" and
\* "Asterisk must be a leaf in the tree" (ztrie.c): after any mix of insertions, refused
\* ones and removals an asterisk is the only child of its parent and has none.
StarAlone ==
    \A n \in DOMAIN endpoint :
        IsStar(n) => Children(endpoint, Front(n)) = {n} /\ Children(endpoint, n) = {}

\* "Removes a route from the trie [...] Returns -1 if the route does not exists, otherwise
\* 0" (ztrie.c): the path a route was inserted with finds it when it is to be removed, among
\* routes that match the same requests and whatever was removed before. (Not so for a route
\* that ends in an asterisk: the parse is refused next to the asterisk it looks for.)
RemoveFinds ==
    \A path \in Paths : Route(path) \in routes /\ ~IsStar(Route(path))
        => Parse(endpoint, path, "lookup") = {Route(path)}
=============================================================================
