----------------------------- MODULE ProjectMap -----------------------------
(***************************************************************************)
(* ProjectMap (src/src/project_index.rs): the relations that one lead of a *)
(* `project map` packet shows, and what its facets claim about them, while *)
(* the files of the working tree are edited.                               *)
(*                                                                         *)
(* Abstractions: a symbol is a number, its file's place in the path order; *)
(* each file holds one symbol, and a caller names a callee at one site.    *)
(* The lead is no test.                                                    *)
(* `graph` is the call edges of the projection.  Imports, containment, the *)
(* lexical mentions and the two scan limits (512 rows, 4 * cap + 1 rows)   *)
(* are left out; excerpts matter by the files they are read from.          *)
(***************************************************************************)
EXTENDS Naturals, Sequences, FiniteSets, FiniteSetsExt

CONSTANTS
  Lead,            \* the symbol asked about
  Plain,           \* other symbols that are no tests
  TestSymbols,     \* symbols that are tests
  PossibleCalls,   \* calls <<caller, callee>> that a projection may hold
  Ambiguous,       \* calls of a name with several definitions
  Form,            \* [PossibleCalls -> {"free", "static", "receiver"}]
  Matching,        \* calls whose qualifier or receiver names the callee's owner
  Modes,           \* the sets of intents a query may have
  MaxEdgesPerLead, \* MAX_PROJECT_MAP_EDGES_PER_LEAD
  MaxHops,         \* MAX_PROJECT_MAP_TEST_HOPS
  MaxNodes,        \* MAX_PROJECT_MAP_TEST_TRAVERSAL_NODES
  MaxTestCallers,  \* MAX_PROJECT_MAP_TEST_CALLERS_PER_NODE
  MaxPlainCallers, \* MAX_PROJECT_MAP_NON_TEST_CALLERS_PER_NODE
  MaxMoves         \* bound on files that change

Symbols == Plain \cup TestSymbols \cup {Lead}

ASSUME ProjectMapAssumption ==
  /\ Symbols \subseteq Nat /\ IsFiniteSet(Symbols)
  /\ Lead \notin Plain \cup TestSymbols /\ Plain \cap TestSymbols = {}
  /\ PossibleCalls \subseteq Symbols \X Symbols
  /\ {MaxTestCallers, MaxPlainCallers} \subseteq Nat

VARIABLES
  graph,    \* calls in the projection
  moved,    \* files that no longer have their indexed content
  intents,  \* query_mode
  first,    \* the lead is the first of its packet
  at,       \* step of the handler
  rows,     \* candidate relations
  complete, \* facets not marked incomplete
  walk,     \* the traversal from the lead to its behavioural tests
  edges     \* relations of the packet

projectMapVars == <<graph, moved, intents, first, at, rows, complete, walk, edges>>

Facets == {"callers", "callees", "tests", "leads"}

Requested ==
  (IF intents \cap {"mixed", "calls", "callers"} # {} THEN {"callers"} ELSE {})
    \cup (IF intents \cap {"mixed", "calls", "callees"} # {} THEN {"callees"} ELSE {})
    \cup (IF intents \cap {"mixed", "tests"} # {} THEN {"tests", "leads"} ELSE {})

Row(kind, direction, related, site, hops) ==
  [kind |-> kind, direction |-> direction, related |-> related, site |-> site, hops |-> hops]

\* mark_indexed_facet_incomplete and mark_public_facet_incomplete.
FacetOf(row) ==
  IF row.kind = "tested_by" THEN "tests"
  ELSE IF row.kind = "behavioral_test_lead" THEN "leads"
  ELSE IF row.direction = "outgoing" THEN "callees"
  ELSE IF row.related \in TestSymbols THEN "tests"
  ELSE "callers"

-----------------------------------------------------------------------------
\* traversal_call_compatible: the caller's file must be as indexed; the
\* callee's owner is known only while its file is.
Compatible(call) ==
  /\ call[1] \notin moved
  /\ \/ Form[call] = "free"
     \/ Form[call] = "static" /\ (call[2] \in moved \/ call \in Matching)
     \/ Form[call] = "receiver" /\ call[2] \notin moved /\ call \in Matching

\* The rows of project_edges at the lead.
DirectRows ==
  {Row("calls", "incoming", call[1], call, 1) : call \in {c \in graph : c[2] = Lead}}
    \cup {Row("calls", "outgoing", call[2], call, 1) : call \in {c \in graph : c[1] = Lead}}
    \cup {Row("tested_by", "outgoing", call[1], call, 1) :
          call \in {c \in graph : c[2] = Lead /\ c[1] \in TestSymbols}}

NoWalk == [frontier |-> {}, next |-> {}, seen |-> {}, depth |-> 0, nodes |-> 0]

ResolveDirect ==
  /\ at = "asked"
  /\ LET pruned == {row \in DirectRows : ~Compatible(row.site)}
     IN /\ rows' = DirectRows \ pruned
        /\ complete' = (Facets \ {FacetOf(row) : row \in pruned})
                         \ (IF "tests" \in intents /\ ~first THEN {"leads"} ELSE {})
  /\ IF "tests" \in intents /\ first
     THEN /\ at' = "walking"
          /\ walk' = [NoWalk EXCEPT !.frontier = {[symbol |-> Lead, chain |-> <<>>]},
                                    !.seen = {Lead}, !.depth = 1]
     ELSE at' = "ranking" /\ UNCHANGED walk
  /\ UNCHANGED <<graph, moved, intents, first, edges>>

-----------------------------------------------------------------------------
(* transitive_test_leads, one frontier symbol at a time.                   *)

CallersOf(symbol, class) ==
  {s \in class : <<s, symbol>> \in graph \ Ambiguous /\ Compatible(<<s, symbol>>)}

\* Symbols that tests call come first.
Before(s, t) ==
  LET tested(x) == \E u \in TestSymbols : <<u, x>> \in graph \ Ambiguous
  IN (tested(s) /\ ~tested(t)) \/ ((tested(s) <=> tested(t)) /\ s < t)

FirstOf(S, n) == {s \in S : Cardinality({t \in S : Before(t, s)}) < n}

\* Faulty variant: an ambiguous caller is passed over in silence.
CallersPrunedUnlessAmbiguous(symbol) ==
  \/ \E s \in Symbols : <<s, symbol>> \in graph \ Ambiguous /\ ~Compatible(<<s, symbol>>)
  \/ Cardinality(CallersOf(symbol, TestSymbols)) > MaxTestCallers
  \/ Cardinality(CallersOf(symbol, Plain \cup {Lead})) > MaxPlainCallers

\* unique_incoming_callers left some caller of the symbol out.
CallersPruned(symbol) ==
  \/ \E s \in Symbols :
        <<s, symbol>> \in graph /\ (<<s, symbol>> \in Ambiguous \/ ~Compatible(<<s, symbol>>))
  \/ Cardinality(CallersOf(symbol, TestSymbols)) > MaxTestCallers
  \/ Cardinality(CallersOf(symbol, Plain \cup {Lead})) > MaxPlainCallers

LeadRows(node, tests) ==
  {Row("behavioral_test_lead", "outgoing", t, <<t, node.symbol>>, walk.depth) : t \in tests}

KnownLeads == {row.related : row \in {r \in rows : r.kind = "behavioral_test_lead"}}

TestsOf(node) == FirstOf(CallersOf(node.symbol, TestSymbols), MaxTestCallers)

PlainOf(node) == FirstOf(CallersOf(node.symbol, Plain \cup {Lead}), MaxPlainCallers)

NodesAfter(node) == walk.nodes + Cardinality(TestsOf(node)) + Cardinality(PlainOf(node))

\* Tests that call the lead itself are no behavioural leads.
FoundAt(node) == IF walk.depth >= 2 THEN TestsOf(node) \ KnownLeads ELSE {}

\* Every symbol between the lead and the tests is as indexed.
ChainVerified(node) == \A i \in DOMAIN node.chain : node.chain[i] \notin moved

\* Every caller of the node is taken.
VisitCallers(node) ==
  LET fresh == PlainOf(node) \ walk.seen
  IN /\ NodesAfter(node) <= MaxNodes
     /\ rows' = IF ChainVerified(node) THEN rows \cup LeadRows(node, FoundAt(node)) ELSE rows
     /\ complete' = IF \/ CallersPruned(node.symbol)
                       \/ FoundAt(node) # {} /\ ~ChainVerified(node)
                    THEN complete \ {"leads"} ELSE complete
     /\ walk' = [walk EXCEPT
          !.frontier = @ \ {node}, !.nodes = NodesAfter(node), !.seen = @ \cup fresh,
          !.next = @ \cup {[symbol |-> s, chain |-> Append(node.chain, s)] : s \in fresh}]
     /\ UNCHANGED at

\* The traversal has met as many nodes as it may, and ends.
ExhaustNodes(node) ==
  /\ NodesAfter(node) > MaxNodes
  /\ rows' = IF ChainVerified(node)
             THEN rows \cup LeadRows(node, FirstOf(FoundAt(node), MaxNodes - walk.nodes))
             ELSE rows
  /\ complete' = complete \ {"leads"}
  /\ walk' = NoWalk /\ at' = "ranking"

WalkSymbol ==
  /\ at = "walking"
  /\ \E node \in walk.frontier :
       /\ \A other \in walk.frontier : node.symbol <= other.symbol
       /\ VisitCallers(node) \/ ExhaustNodes(node)
  /\ UNCHANGED <<graph, moved, intents, first, edges>>

\* The next hop, or the end of the traversal: what it did not reach it says.
WalkLevel ==
  /\ at = "walking" /\ walk.frontier = {}
  /\ IF walk.next # {} /\ walk.depth < MaxHops
     THEN /\ walk' = [walk EXCEPT !.frontier = walk.next, !.next = {}, !.depth = @ + 1]
          /\ UNCHANGED <<at, complete>>
     ELSE /\ complete' = IF walk.next # {} THEN complete \ {"leads"} ELSE complete
          /\ walk' = NoWalk /\ at' = "ranking"
  /\ UNCHANGED <<graph, moved, intents, first, rows, edges>>

-----------------------------------------------------------------------------
(* project_map_edge_priority, seen_sites, the cap and the verification.    *)

NotListed == 99

Priority(row) ==
  LET call == row.kind = "calls"
      incoming == row.direction = "incoming"
      test == row.related \in TestSymbols
  IN IF "callers" \in intents /\ call /\ incoming /\ ~test THEN 0
     ELSE IF "tests" \in intents /\ row.kind = "tested_by" THEN 1
     ELSE IF "callers" \in intents /\ call /\ incoming /\ test THEN 2
     ELSE IF "tests" \in intents /\ "callers" \notin intents /\ call /\ incoming /\ test THEN 3
     ELSE IF "tests" \in intents /\ row.kind = "behavioral_test_lead" THEN 4
     ELSE IF "callees" \in intents /\ call /\ ~incoming THEN 0
     ELSE IF "calls" \in intents /\ call /\ ~("tests" \in intents /\ incoming /\ test)
          THEN IF incoming THEN 0 ELSE 1
     ELSE IF "mixed" \in intents THEN 10
     ELSE NotListed

Confidence(row) == IF row.site \in Ambiguous THEN 1 ELSE 0

\* The keys that come before the places of the call sites.
SortKey(row) == (Priority(row) * 2 + Confidence(row)) * 10 + row.hops

\* Rows of equal keys stay in the order the query gave them.
ReadOrder(row) == IF row.kind = "calls" THEN IF row.direction = "incoming" THEN 0 ELSE 1 ELSE 2

SameSite(r, s) == r.related = s.related /\ r.site = s.site

\* One row for each site: the first one.
OnePerSite(S) ==
  {r \in S : ~\E s \in S : /\ SameSite(r, s)
                           /\ \/ SortKey(s) < SortKey(r)
                              \/ SortKey(s) = SortKey(r) /\ ReadOrder(s) < ReadOrder(r)}

MarksOf(dropped) == {FacetOf(row) : row \in dropped}

RankRows ==
  /\ at = "ranking"
  /\ LET sites == OnePerSite({row \in rows : Priority(row) # NotListed})
         n == IF Cardinality(sites) < MaxEdgesPerLead THEN Cardinality(sites) ELSE MaxEdgesPerLead
     IN \E kept \in kSubset(n, sites) :
          /\ \A r \in kept, s \in sites \ kept : SortKey(r) <= SortKey(s)
          /\ rows' = kept
          /\ complete' = complete \ MarksOf(sites \ kept)
  /\ at' = "verifying"
  /\ UNCHANGED <<graph, moved, intents, first, walk, edges>>

\* The related symbol and the call site are read again.
VerifyRows ==
  /\ at = "verifying"
  /\ LET verified == {row \in rows : row.related \notin moved /\ row.site[1] \notin moved}
     IN edges' = verified /\ complete' = complete \ MarksOf(rows \ verified)
  /\ rows' = {} /\ at' = "budget"
  /\ UNCHANGED <<graph, moved, intents, first, walk>>

\* enforce_project_map_budget: the last relation leaves a packet too long.
PopEdge ==
  /\ at = "budget"
  /\ \E row \in edges :
       /\ \A other \in edges : SortKey(other) <= SortKey(row)
       /\ edges' = edges \ {row}
       /\ complete' = complete \ MarksOf({row})
  /\ UNCHANGED <<graph, moved, intents, first, at, rows, walk>>

SendPacket ==
  /\ at = "budget" /\ at' = "sent"
  /\ UNCHANGED <<graph, moved, intents, first, rows, complete, walk, edges>>

MoveFile(symbol) ==
  /\ at # "sent" /\ symbol \notin moved /\ Cardinality(moved) < MaxMoves
  /\ moved' = moved \cup {symbol}
  /\ UNCHANGED <<graph, intents, first, at, rows, complete, walk, edges>>

-----------------------------------------------------------------------------
ProjectMapInit ==
  /\ graph \in SUBSET PossibleCalls
  /\ moved = {}
  /\ intents \in Modes /\ first \in BOOLEAN
  /\ at = "asked" /\ rows = {} /\ complete = Facets /\ walk = NoWalk /\ edges = {}

ProjectMapNext ==
  \/ ResolveDirect \/ WalkSymbol \/ WalkLevel \/ RankRows \/ VerifyRows \/ PopEdge \/ SendPacket
  \/ \E symbol \in Symbols : MoveFile(symbol)

ProjectMapSpec == ProjectMapInit /\ [][ProjectMapNext]_projectMapVars

-----------------------------------------------------------------------------
(* Properties.                                                             *)

\* The callers of every symbol of S that are no tests are in S.
ClosedUnderCallers(S) == \A s \in Plain, t \in S : <<s, t>> \in graph => s \in S

\* Symbols that reach the lead through calls, tests aside: the least such set.
Reaching ==
  {s \in Plain : \A S \in SUBSET (Plain \cup {Lead}) :
                  Lead \in S /\ ClosedUnderCallers(S) => s \in S}

BehavioralTests == {t \in TestSymbols : \E s \in Reaching : <<t, s>> \in graph}

\* A recursive call has one row for its site, either way: FacetsReturned.
SitesOf(facet) ==
  LET sites == {c \in graph : c[1] # c[2]}
  IN IF facet = "callers" THEN {c \in sites : c[2] = Lead /\ c[1] \notin TestSymbols}
     ELSE IF facet = "callees" THEN {c \in sites : c[1] = Lead}
     ELSE {c \in sites : c[2] = Lead /\ c[1] \in TestSymbols}

LeadsOf(S) == {row.related : row \in {r \in S : r.kind = "behavioral_test_lead"}}

\* What the packet shows of a facet is all of it.
ShowsAll(facet) ==
  IF facet = "leads" THEN BehavioralTests \subseteq LeadsOf(edges)
  ELSE SitesOf(facet) \subseteq {row.site : row \in edges}

\* A facet that reports complete_in_projection leaves nothing out, whatever
\* pruned, capped, changed or cut the rows on the way: each direct relation of
\* the projection has its site in the packet, and each test that reaches the
\* lead through its callers is a lead.  The one exception is a query that names
\* no intent ("mixed"): its leads are requested but never traversed, and the
\* facet reports itself complete with none.  CompleteMeansAll is without it.
FacetsComplete ==
  at = "sent" =>
    \A facet \in Requested \cap complete :
      \/ ShowsAll(facet)
      \/ facet = "leads" /\ "tests" \notin intents /\ LeadsOf(edges) = {}

\* What docs/project-index.md says of the fixed facets, "complete_in_projection"
\* within the indexed static projection, with no exception for a mixed query.
\* The code does not give it.
CompleteMeansAll ==
  at = "sent" => \A facet \in Requested \cap complete : ShowsAll(facet)

=============================================================================
