--------------------------------- MODULE Sizzle ---------------------------------
(***************************************************************************)
(* The selector engine of jquery.js: a compiled selector is tried on one   *)
(* element after the other, from its last compound to its first.  The      *)
(* combinators that go up or back more than one step (" " and "~") cache   *)
(* on the nodes they pass what they found, marked with the run (dirruns)   *)
(* and the combinator (doneName), and :not() runs another matcher in the   *)
(* middle.  Between two queries the page may change.                        *)
(*                                                                         *)
(* Nodes are numbered in document order, 0 is the document.  A selector is *)
(* a sequence of compounds, each with the combinator on its left; that of  *)
(* the first leads to the context.  Left out: positional selectors (:first,*)
(* :eq), which filter sets, the compounds' own syntax, and the seed that   *)
(* select() takes from the last compound to have fewer elements to try.    *)
(***************************************************************************)
EXTENDS Integers, Sequences

CONSTANTS
  Pages,       \* records [parentNode, name] of sequences over the elements
  Names,       \* what compounds tell elements by (tag, class, attribute)
  Contexts,    \* the nodes that queries start from
  Queries,     \* records [groups, negated]: the selectors of a list, and the
               \*   selector that :not() stands for in them
  MaxQueries   \* bound: queries on one page

VARIABLES
  parentNode, name,    \* the page
  groups, negated,     \* the compiled selectors, in the order they are tried:
                       \*   the last of the list first
  context, outermost,  \* of the query, and the node whose descendants are tried
  tried, group,        \* the element and the selector of the list being tried
  at,                  \* "rest", "changed", "ask", "loop", "answer"
  question,            \* [sel, pos, node, cleared]: does that part match the node?
  answer,              \* to the question
  calls,               \* the matchers that wait, the innermost last
  arrays, uniqueCache,   \* the cache arrays [run, done, found], and per node and
                       \*   direction the array it holds
  dirruns, unique,     \* dirruns and dirrunsUnique
  runs, queries        \* runs and queries so far; the runs number dirruns

sizzleVars == <<parentNode, name, groups, negated, context, outermost, tried, group,
                at, question, answer, calls, arrays, uniqueCache, dirruns,
                unique, runs, queries>>
page == <<parentNode, name, groups, negated>>

Document == 0
Nothing == -1
Found == DOMAIN parentNode
Dirs == {"parentNode", "previousSibling"}
Dir(combinator) == IF combinator \in {" ", ">"} THEN "parentNode" ELSE "previousSibling"
First(combinator) == combinator \in {">", "+"}

Greatest(s) == CHOOSE x \in s : \A y \in s : y <= x
Previous(n) == {m \in Found : m < n /\ parentNode[m] = parentNode[n]}

\* One step in the direction; only the way to the context passes the document.
Towards(dir, base, n) ==
  CASE n = Document -> Nothing
    [] n # Document /\ dir = "parentNode" ->
         IF parentNode[n] = Document /\ ~ base THEN Nothing ELSE parentNode[n]
    [] n # Document /\ dir = "previousSibling" ->
         IF Previous(n) = {} THEN Nothing ELSE Greatest(Previous(n))

\* All the steps, towards smaller numbers.
Way(dir, base, n) ==
  LET way[m \in Document..n] ==
        LET next == Towards(dir, base, m)
        IN IF next = Nothing THEN {} ELSE {next} \cup way[next]
  IN way[n]

Within(n) == {m \in Found : n \in Way("parentNode", TRUE, m)}

\* Selector 0 is the one in :not().
Compounds(sel) == IF sel = 0 THEN negated ELSE groups[sel]
Part(sel, pos, n) == [sel |-> sel, pos |-> pos, node |-> n, cleared |-> FALSE]

SizzleInit ==
  /\ \E p \in Pages : parentNode = p.parentNode /\ name = p.name
  /\ \E q \in Queries : groups = q.groups /\ negated = q.negated
  /\ context = Document /\ outermost = Document /\ tried = 0 /\ group = 0
  /\ at = "rest" /\ question = Part(0, 0, 0) /\ answer = FALSE
  /\ calls = << >> /\ arrays = << >>
  /\ uniqueCache = [n \in Found \cup {Document} |-> [d \in Dirs |-> 0]]
  /\ dirruns = 0 /\ unique = 0 /\ runs = 0 /\ queries = 0

-----------------------------------------------------------------------------
\* The page names an element anew between two queries.
Rename(n, x) ==
  /\ at = "rest" /\ queries \in 1..(MaxQueries - 1) /\ name[n] # x
  /\ name' = [name EXCEPT ![n] = x] /\ at' = "changed"
  /\ UNCHANGED <<parentNode, groups, negated, context, outermost, tried, group,
                 question, answer, calls, arrays, uniqueCache, dirruns, unique,
                 runs, queries>>

Siblings == \E s \in DOMAIN groups : \E k \in DOMAIN groups[s] : groups[s][k].left \in {"+", "~"}

\* The matcher is tried on the next element under `outermost', if there is one.
TryNext(after, around) ==
  LET left == {m \in Within(around) : m > after}
      next == CHOOSE m \in left : \A k \in left : m <= k
  IN IF left = {} THEN at' = "rest" /\ UNCHANGED <<tried, group, question>>
     ELSE /\ tried' = next /\ group' = 1 /\ at' = "ask"
          /\ question' = Part(1, Len(groups[1]), next)

\* A run has a number of its own: the next integer, or, for a matcher in the
\* middle of a query, a random fraction more, taken never to repeat.
NewRun == runs' = runs + 1 /\ dirruns' = runs'

\* find(): a selector with siblings looks around the context as well.
Query(c) ==
  /\ at \in {"rest", "changed"} /\ queries < MaxQueries /\ queries' = queries + 1
  /\ context' = c
  /\ outermost' = IF Siblings /\ c # Document THEN parentNode[c] ELSE c
  /\ NewRun /\ unique' = dirruns'
  /\ TryNext(Document, outermost')
  /\ UNCHANGED <<page, answer, calls, arrays, uniqueCache>>

-----------------------------------------------------------------------------
Compound(q) == Compounds(q.sel)[q.pos]
Answers(a) == at' = "answer" /\ answer' = a /\ UNCHANGED question
Asks(q) == at' = "ask" /\ question' = q /\ UNCHANGED answer
Searching == UNCHANGED <<page, context, outermost, unique, queries>>
Same == UNCHANGED <<tried, group>>
SameRun == UNCHANGED <<dirruns, runs>>

\* The way from the first compound has ended at this node.
CheckContext ==
  /\ at = "ask" /\ question.pos = 0
  /\ Answers(question.node = context)
  /\ Searching /\ Same /\ SameRun /\ UNCHANGED <<calls, arrays, uniqueCache>>

\* :not() runs its matcher as a run of its own, in the middle of this one.
AskNot ==
  /\ at = "ask" /\ question.pos > 0
  /\ Compound(question).not /\ ~ question.cleared
  /\ NewRun
  /\ calls' = Append(calls, [question EXCEPT !.cleared = TRUE])
  /\ Asks(Part(0, Len(negated), question.node))
  /\ Searching /\ Same /\ UNCHANGED <<arrays, uniqueCache>>

IsNamed == Compound(question).name \in {"*", name[question.node]}

\* The document as the context, and the matcher in :not(), need no check.
Unbounded(q) == /\ q.pos = 1 /\ Compound(q).left = " "
                /\ q.sel = 0 \/ context = Document

\* The compound itself, before its combinator: to one node, or in a loop that
\* has a cache array of its own.
Match ==
  /\ at = "ask" /\ question.pos > 0
  /\ Compound(question).not => question.cleared
  /\ LET left == Compound(question).left
         next == Towards(Dir(left), question.pos = 1, question.node)
     IN \/ /\ ~ IsNamed \/ Unbounded(question)
           /\ Answers(IsNamed) /\ UNCHANGED <<calls, arrays>>
        \/ /\ IsNamed /\ ~ Unbounded(question) /\ First(left)
           /\ IF next = Nothing THEN Answers(FALSE)
              ELSE Asks(Part(question.sel, question.pos - 1, next))
           /\ UNCHANGED <<calls, arrays>>
        \/ /\ IsNamed /\ ~ Unbounded(question) /\ ~ First(left)
           /\ arrays' = Append(arrays, [run |-> dirruns, done |-> <<question.sel, question.pos>>,
                                    found |-> FALSE])
           /\ calls' = Append(calls, [sel |-> question.sel, pos |-> question.pos,
                                      node |-> question.node, dir |-> Dir(left),
                                      newCache |-> Len(arrays')])
           /\ at' = "loop" /\ UNCHANGED <<question, answer>>
  /\ Searching /\ Same /\ SameRun /\ UNCHANGED uniqueCache

Waiting == calls[Len(calls)]
Others == SubSeq(calls, 1, Len(calls) - 1)

\* Mutant: what an earlier run left is believed.
CachedInAnyRun(old) == old # 0 /\ arrays[old].done = <<Waiting.sel, Waiting.pos>>

\* The node holds an array of this run and this combinator.
Cached(old) ==
  old # 0 /\ arrays[old].run = dirruns /\ arrays[old].done = <<Waiting.sel, Waiting.pos>>

\* The next node on the way: what the cache says of it, or the matcher is asked.
Loop ==
  /\ at = "loop"
  /\ LET n == Towards(Waiting.dir, Waiting.pos = 1, Waiting.node)
         old == uniqueCache[n][Waiting.dir]
     IN \/ /\ n = Nothing
           /\ Answers(FALSE) /\ calls' = Others /\ UNCHANGED <<arrays, uniqueCache>>
        \/ /\ n # Nothing /\ Cached(old)
           /\ arrays' = [arrays EXCEPT ![Waiting.newCache].found = arrays[old].found]
           /\ Answers(arrays[old].found) /\ calls' = Others /\ UNCHANGED uniqueCache
        \/ /\ n # Nothing /\ ~ Cached(old)
           /\ uniqueCache' = [uniqueCache EXCEPT ![n][Waiting.dir] = Waiting.newCache]
           /\ calls' = [calls EXCEPT ![Len(calls)].node = n]
           /\ Asks(Part(Waiting.sel, Waiting.pos - 1, n)) /\ UNCHANGED arrays
  /\ Searching /\ Same /\ SameRun

InLoop == calls # << >> /\ "newCache" \in DOMAIN Waiting

\* A combinator's matcher has answered: every node it passed learns it.
LoopHears ==
  /\ at = "answer" /\ InLoop
  /\ arrays' = [arrays EXCEPT ![Waiting.newCache].found = answer]
  /\ IF answer THEN calls' = Others /\ UNCHANGED at ELSE at' = "loop" /\ UNCHANGED calls
  /\ Searching /\ Same /\ SameRun /\ UNCHANGED <<question, answer, uniqueCache>>

NotHears ==
  /\ at = "answer" /\ calls # << >> /\ ~ InLoop
  /\ calls' = Others
  /\ IF answer THEN Answers(FALSE) ELSE Asks(Waiting)
  /\ Searching /\ Same /\ SameRun /\ UNCHANGED <<arrays, uniqueCache>>

\* The selectors of the list are tried until one matches; then the next
\* element's turn comes, with the run's own dirruns again.
Decided ==
  /\ at = "answer" /\ calls = << >>
  /\ IF ~ answer /\ group < Len(groups)
     THEN /\ group' = group + 1
          /\ Asks(Part(group', Len(groups[group']), tried))
          /\ UNCHANGED <<tried, dirruns>>
     ELSE /\ TryNext(tried, outermost)
          /\ dirruns' = unique /\ UNCHANGED answer
  /\ Searching /\ UNCHANGED <<calls, arrays, uniqueCache, runs>>

SizzleNext ==
  \/ \E n \in Found, x \in Names : Rename(n, x)
  \/ \E c \in Contexts : Query(c)
  \/ CheckContext \/ AskNot \/ Match \/ Loop \/ LoopHears \/ NotHears \/ Decided

SizzleSpec == SizzleInit /\ [][SizzleNext]_sizzleVars

-----------------------------------------------------------------------------
(* What a selector means, without caches and from left to right. *)

Steps(combinator, base, n) ==
  IF First(combinator) THEN {Towards(Dir(combinator), base, n)}
  ELSE Way(Dir(combinator), base, n)

Selected(sel) ==
  LET sub[s \in 0..Len(groups)] ==
        LET part[k \in 0..Len(Compounds(s))] ==
              IF k = 0 THEN {context}
              ELSE LET c == Compounds(s)[k]
                   IN {n \in Found :
                         /\ c.name \in {"*", name[n]}
                         /\ c.not => n \notin sub[0]
                         /\ \/ k = 1 /\ c.left = " " /\ (s = 0 \/ context = Document)
                            \/ Steps(c.left, k = 1, n) \cap part[k - 1] # {}}
        IN part[Len(Compounds(s))]
  IN sub[sel]

\* An element is found if and only if the selector selects it on the page as
\* it is now, whatever the cache holds from elements tried before, from other
\* combinators, from matchers in :not() and from queries before a change.
FindsSelected ==
  at = "answer" /\ calls = << >> => answer = (tried \in Selected(group))
=============================================================================
