------------------------------- MODULE Answer -------------------------------
(***************************************************************************)
(* What a question gets: two-hop retrieval over the graph of facts         *)
(* (src/app/retriever.py), the context assembled under a token budget      *)
(* (src/app/context_builder.py, src/app/memory_planner.py), and the budget *)
(* itself, settings.context_max_tokens, which is global: a request with    *)
(* max_tokens replaces it while its context is assembled (src/app/main.py, *)
(* src/app/api_v1.py, src/app/services/answer_chain.py).                   *)
(*                                                                         *)
(* The handlers run in a pool of threads, without a lock.  A step is one   *)
(* access to the shared setting; retrieval and assembly are local.  Of a   *)
(* text only its number of words is kept: the simple tokenizer counts      *)
(* words.  The graph does not change here, and its names are given lower   *)
(* case forms by Fold; the entities of a question are lower case already.  *)
(***************************************************************************)
EXTENDS Integers, Sequences, FiniteSets, SequencesExt

CONSTANTS Requests,
          Names, Fold,  \* names in the graph and their lower case forms
          Graphs,       \* sets of facts the graph may hold
          Queries, Asks, \* questions, and what each asks
          DefaultLimit, \* context_max_tokens as configured
          None

Channels == {"semantic", "facts", "beliefs", "episodes", "decisions", "experiences"}
Sections == {"conflicts", "current_beliefs", "facts", "episodes", "decisions",
             "relevant_experience", "semantic_notes"}

\* MemoryPlanner: what an intent retrieves, and what it shows, in this order.
Profiles ==
  [full |-> [channels |-> Channels,
             sections |-> <<"conflicts", "current_beliefs", "facts", "episodes",
                            "decisions", "relevant_experience", "semantic_notes">>],
   answer_question |-> [channels |-> {"semantic", "facts", "beliefs"},
             sections |-> <<"conflicts", "current_beliefs", "facts", "semantic_notes">>],
   make_decision |-> [channels |-> {"decisions", "experiences"},
             sections |-> <<"decisions", "relevant_experience">>],
   debug_failure |-> [channels |-> {"experiences"},
             sections |-> <<"relevant_experience">>],
   plan_task |-> [channels |-> Channels \ {"episodes"},
             sections |-> <<"current_beliefs", "facts", "decisions",
                            "relevant_experience", "semantic_notes">>],
   write_code |-> [channels |-> {"semantic", "decisions", "experiences"},
             sections |-> <<"decisions", "relevant_experience", "semantic_notes">>]]

Facts == [subject : Names, object : Names]

\* An unknown intent has the profile "full".  The lines of a section are what
\* the repositories hold for the question; limit is its max_tokens.
IsQuery(q) ==
  /\ q.intent \in DOMAIN Profiles
  /\ q.seeds \subseteq {Fold[n] : n \in Names}
  /\ q.limit \in Nat \cup {None}
  /\ q.lines \in [Sections \ {"facts"} -> Seq(Nat)]

ASSUME AnswerConstants ==
  /\ Fold \in [Names -> Names]
  /\ \A n \in Names : Fold[Fold[n]] = Fold[n]
  /\ \A g \in Graphs : g \subseteq Facts /\ IsFiniteSet(g)
  /\ DOMAIN Asks = Queries
  /\ \A q \in Queries : IsQuery(Asks[q])
  /\ DefaultLimit \in Nat
  /\ None \notin Nat \cup Queries

VARIABLES graph,    \* facts in the graph repository
          limit,    \* settings.context_max_tokens
          query,    \* per request
          bundle,   \* per request: the facts it retrieved
          pc,       \* per request: the step it is about to take
          old,      \* per request: the setting it is to restore
          budget,   \* per request: the setting its context was built with
          context,  \* per request: its context
          overlap   \* history: <<p, r>> where p had replaced the setting, or
                    \* was about to, when r read it

vars == <<graph, limit, query, bundle, pc, old, budget, context, overlap>>

-------------------------------------------------------------------------------
(* Retriever._expand_graph_two_hop.                                        *)

\* A defect: a name is looked up as it is spelled only.
VariantsOne(n) == {n}

Variants(n) == {n, Fold[n]}
Touching(n) == {f \in graph : {f.subject, f.object} \cap Variants(n) # {}}

FirstHop(seeds) == UNION {Touching(n) : n \in seeds}

\* The subject and the object of the first fact, of the second, and so on.
Ends(order) ==
  [k \in 1..(2 * Len(order)) |->
     IF k % 2 = 1 THEN order[(k + 1) \div 2].subject ELSE order[k \div 2].object]

\* The second frontier, given the order the graph lists the first facts in: of
\* the ends with one lower case form the first stands for all, none if that
\* form is a seed.
Frontier(seeds, order) ==
  {Ends(order)[i] : i \in {j \in DOMAIN Ends(order) :
    /\ Fold[Ends(order)[j]] \notin seeds
    /\ \A k \in 1..(j - 1) : Fold[Ends(order)[k]] # Fold[Ends(order)[j]]}}

SecondHop(seeds, order) == UNION {Touching(n) : n \in Frontier(seeds, order)}

-------------------------------------------------------------------------------
(* build_context.  A section taken is the words of its lines.              *)

Lesser(m, n) == IF m < n THEN m ELSE n
Greater(m, n) == IF m < n THEN n ELSE m

Words(lines) ==
  LET sum[k \in 0..Len(lines)] == IF k = 0 THEN 0 ELSE sum[k - 1] + lines[k]
  IN  sum[Len(lines)]

\* A defect: the search keeps the first number of words that is too large.
FitsOver(room, words) == Lesser(words, room + 1)

\* The number of words of a line that fit: a search by halves.
Fits(room, words) ==
  LET search[s \in [lo : Nat, hi : Int, best : Nat]] ==
        LET mid == (s.lo + s.hi) \div 2
        IN  IF s.lo > s.hi THEN s.best
            ELSE IF mid <= room THEN search[[lo |-> mid + 1, hi |-> s.hi, best |-> mid]]
            ELSE search[[lo |-> s.lo, hi |-> mid - 1, best |-> s.best]]
  IN  search[[lo |-> 0, hi |-> words, best |-> 0]]

\* The number of lines that fit whole, from the first.
Fitting(lines, room) ==
  CHOOSE n \in 0..Len(lines) :
    /\ Words(SubSeq(lines, 1, n)) <= room
    /\ n < Len(lines) => Words(SubSeq(lines, 1, n + 1)) > room

\* _take_lines_up_to_budget: the line that does not fit is cut, gets an
\* ellipsis, a word of its own that is not counted here, and ends the section.
Take(lines, room) ==
  LET n == Fitting(lines, room)
      whole == SubSeq(lines, 1, n)
      best == Fits(room - Words(whole), lines[n + 1])
  IN  IF n = Len(lines) THEN [lines |-> lines, trimmed |-> FALSE]
      ELSE [lines |-> IF best > 0 THEN Append(whole, best + 1) ELSE whole, trimmed |-> TRUE]

\* Lines of each section; a fact has three words.
LinesOf(q, found, s) ==
  LET has(c) == c \in Profiles[q.intent].channels
  IN  CASE s = "facts" -> [i \in 1..Cardinality(found) |-> 3]
        [] s = "conflicts" -> IF found = {} THEN <<>> ELSE q.lines[s]
        [] s = "current_beliefs" -> IF found # {} /\ has("beliefs") THEN q.lines[s] ELSE <<>>
        [] s = "episodes" -> IF has("episodes") THEN q.lines[s] ELSE <<>>
        [] s = "decisions" -> IF has("decisions") THEN q.lines[s] ELSE <<>>
        [] s = "relevant_experience" -> IF has("experiences") THEN q.lines[s] ELSE <<>>
        [] s = "semantic_notes" -> IF has("semantic") THEN q.lines[s] ELSE <<>>

\* Sections that are left out, without a word, when the budget is used up.
Optional == {"episodes", "decisions", "relevant_experience", "semantic_notes"}

\* A defect: a section does not use up the budget.
HandleFree(pack, s, lines) ==
  IF lines = <<>> \/ (s \in Optional /\ pack.left <= 0) THEN pack
  ELSE LET taken == Take(lines, pack.left)
       IN  [sections |-> Append(pack.sections, [title |-> s, lines |-> taken.lines]),
            advisories |-> IF taken.trimmed THEN pack.advisories \cup {s} ELSE pack.advisories,
            left |-> pack.left]

\* One strategy of the chain.
Handle(pack, s, lines) ==
  IF lines = <<>> \/ (s \in Optional /\ pack.left <= 0) THEN pack
  ELSE LET taken == Take(lines, pack.left)
       IN  [sections |-> Append(pack.sections, [title |-> s, lines |-> taken.lines]),
            advisories |-> IF taken.trimmed THEN pack.advisories \cup {s} ELSE pack.advisories,
            left |-> Greater(0, pack.left - Words(taken.lines))]

NoContext == [sections |-> <<>>, advisories |-> {}, left |-> 0]

\* The context; advisories are the titles of the sections that were trimmed.
Context(q, found, room) ==
  LET order == Profiles[q.intent].sections
      pack[k \in 0..Len(order)] ==
        IF k = 0 THEN [NoContext EXCEPT !.left = room]
        ELSE Handle(pack[k - 1], order[k], LinesOf(q, found, order[k]))
  IN  pack[Len(order)]

-------------------------------------------------------------------------------
(* The handlers.                                                           *)

TypeOK ==
  /\ graph \subseteq Facts
  /\ limit \in Nat
  /\ query \in [Requests -> Queries \cup {None}]
  /\ bundle \in [Requests -> SUBSET Facts]
  /\ pc \in [Requests -> {"new", "save", "set", "assemble", "restore", "done"}]
  /\ old \in [Requests -> Nat]
  /\ budget \in [Requests -> Nat \cup {None}]
  /\ overlap \subseteq Requests \X Requests

Init ==
  /\ graph \in Graphs
  /\ limit = DefaultLimit
  /\ query = [r \in Requests |-> None]
  /\ bundle = [r \in Requests |-> {}]
  /\ pc = [r \in Requests |-> "new"]
  /\ old = [r \in Requests |-> 0]
  /\ budget = [r \in Requests |-> None]
  /\ context = [r \in Requests |-> NoContext]
  /\ overlap = {}

\* A defect: a question without max_tokens replaces the setting as well.
OverridesAny(q) == Asks[q].limit # 0

\* max_tokens counts if it is given and not 0.
Overrides(q) == Asks[q].limit \notin {None, 0}

\* Requests that have read the setting in order to replace it, and not put it
\* back yet.
Replacing == {r \in Requests : pc[r] \in {"set", "assemble", "restore"} /\ Overrides(query[r])}

\* plan_retrieval.
Plan(r, q) ==
  /\ pc[r] = "new"
  /\ query' = [query EXCEPT ![r] = q]
  /\ IF "facts" \in Profiles[Asks[q].intent].channels
     THEN LET seeds == Asks[q].seeds
          IN  \E order \in SetToSeqs(FirstHop(seeds)) :
                bundle' = [bundle EXCEPT ![r] = FirstHop(seeds) \cup SecondHop(seeds, order)]
     ELSE UNCHANGED bundle
  /\ pc' = [pc EXCEPT ![r] = IF Overrides(q) THEN "save" ELSE "assemble"]
  /\ UNCHANGED <<graph, limit, old, budget, context, overlap>>

Met(r) == overlap' = overlap \cup ((Replacing \ {r}) \X {r})

SaveLimit(r) ==
  /\ pc[r] = "save"
  /\ old' = [old EXCEPT ![r] = limit]
  /\ pc' = [pc EXCEPT ![r] = "set"]
  /\ Met(r)
  /\ UNCHANGED <<graph, limit, query, bundle, budget, context>>

SetLimit(r) ==
  /\ pc[r] = "set"
  /\ limit' = Asks[query[r]].limit
  /\ pc' = [pc EXCEPT ![r] = "assemble"]
  /\ UNCHANGED <<graph, query, bundle, old, budget, context, overlap>>

\* assemble_context reads the setting once.
Assemble(r) ==
  /\ pc[r] = "assemble"
  /\ budget' = [budget EXCEPT ![r] = limit]
  /\ context' = [context EXCEPT ![r] = Context(Asks[query[r]], bundle[r], limit)]
  /\ pc' = [pc EXCEPT ![r] = IF Overrides(query[r]) THEN "restore" ELSE "done"]
  /\ Met(r)
  /\ UNCHANGED <<graph, limit, query, bundle, old>>

\* A defect: the setting is not put back.
RestoreNothing(r) ==
  /\ pc[r] = "restore"
  /\ pc' = [pc EXCEPT ![r] = "done"]
  /\ UNCHANGED <<graph, limit, query, bundle, old, budget, context, overlap>>

RestoreLimit(r) ==
  /\ pc[r] = "restore"
  /\ limit' = old[r]
  /\ pc' = [pc EXCEPT ![r] = "done"]
  /\ UNCHANGED <<graph, query, bundle, old, budget, context, overlap>>

Next ==
  \E r \in Requests :
    \/ \E q \in Queries : Plan(r, q)
    \/ SaveLimit(r) \/ SetLimit(r) \/ Assemble(r) \/ RestoreLimit(r)

Spec == Init /\ [][Next]_vars

-------------------------------------------------------------------------------
(* Properties.                                                             *)

Due(r) == IF Overrides(query[r]) THEN Asks[query[r]].limit ELSE DefaultLimit

\* Two requests replaced the setting at the same time.
Tangled == \E p, r \in Requests : <<p, r>> \in overlap /\ Overrides(query[r])

\* The setting is what is configured while nobody replaces it, and a context is
\* built with the budget its request asked for, unless two requests replaced
\* the setting at the same time; a request that did not ask may also have met
\* one that had replaced it.
LimitExplained ==
  ~Tangled =>
    /\ Replacing = {} => limit = DefaultLimit
    /\ \A r \in Requests : budget[r] # None =>
         budget[r] = Due(r) \/ \E p \in Requests : <<p, r>> \in overlap

Answered(r) == budget[r] # None
Lines(r, s) == LinesOf(Asks[query[r]], bundle[r], s)

\* The lines of a section that are in the context, none if it is not.
Shown(r, s) ==
  LET i == {j \in DOMAIN context[r].sections : context[r].sections[j].title = s}
  IN  IF i = {} THEN <<>> ELSE context[r].sections[CHOOSE j \in i : TRUE].lines

\* The context has at most one word more than its budget, the ellipsis of the
\* one line that may be cut.
BudgetHolds ==
  \A r \in Requests : Answered(r) =>
    Words([i \in DOMAIN context[r].sections |-> Words(context[r].sections[i].lines)])
      <= budget[r] + (IF context[r].advisories = {} THEN 0 ELSE 1)

\* What comes first in the profile has the budget first: once a line is missing
\* or cut, the sections that follow show nothing, the budget is used up, and an
\* advisory says so unless it ended between two sections.
PriorityKept ==
  \A r \in Requests : Answered(r) =>
    LET order == Profiles[Asks[query[r]].intent].sections
    IN  \A i \in DOMAIN order : Shown(r, order[i]) # Lines(r, order[i]) =>
          /\ \A j \in (i + 1)..Len(order) : Words(Shown(r, order[j])) = 0
          /\ Words([j \in DOMAIN order |-> Words(Shown(r, order[j]))]) >= budget[r]
          /\ order[i] \in context[r].advisories \/
               (order[i] \in Optional /\ Shown(r, order[i]) = <<>>)

\* Names of the ends of facts that touch a seed.
Reached(r) == {f.subject : f \in FirstHop(Asks[query[r]].seeds)} \cup
              {f.object : f \in FirstHop(Asks[query[r]].seeds)}

\* Retrieval finds every fact about a seed, and every fact about an end of
\* those except under a spelling that was passed over because another spelling
\* of the same name was a seed or an end as well; and nothing else.
TwoHopsOnly ==
  \A r \in Requests : pc[r] # "new" /\ "facts" \in Profiles[Asks[query[r]].intent].channels =>
    /\ FirstHop(Asks[query[r]].seeds) \subseteq bundle[r]
    /\ \A n \in Reached(r) : \A f \in Touching(n) \ bundle[r] :
         \E m \in Asks[query[r]].seeds \cup Reached(r) : m # n /\ Fold[m] = Fold[n]
    /\ \A n \in Reached(r) : \A f \in Touching(Fold[n]) : f \in bundle[r]
    /\ bundle[r] \subseteq UNION {Touching(n) : n \in Asks[query[r]].seeds \cup Reached(r)}
==============================================================================
