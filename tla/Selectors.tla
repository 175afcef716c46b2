------------------------------- MODULE Selectors -------------------------------
(***************************************************************************)
(* The selector engine of jQuery (Sizzle in                                *)
(* src/APP/html/script/jquery-1.11.1.js) where the browser's own is not    *)
(* used: for XML, such as the answers of the device that the page searches *)
(* with find, and for HTML when querySelectorAll fails.                    *)
(*                                                                         *)
(* A selector is compiled to a matcher, which works from right to left. In *)
(* HTML every node remembers, in one slot per direction, whether it or     *)
(* something beyond it matched the rest: marked with the search and the    *)
(* combinator, because nothing ever clears a slot. Compiled selectors are  *)
(* kept as well. Selectors are made of tags here; ids, classes, attributes *)
(* and positional filters are left out.                                    *)
(***************************************************************************)
EXTENDS Integers, Sequences, Sublists

CONSTANTS
  NumElements,  (* bound: elements of the document                          *)
  TagsOf,       (* what tags they may have: functions on 1 .. NumElements   *)
  SelectorSet,  (* what is searched: sequences of groups                    *)
  ContextSets,  (* and where: sets of nodes                                 *)
  CacheLength,  (* Expr.cacheLength                                         *)
  MaxFinds      (* bound: calls of find                                     *)

Document == 0
Elements == 1 .. NumElements      (* in document order; 1 is the root       *)
Nodes == {Document} \cup Elements
Nobody == -1

Dir(c) == IF c \in {">", " "} THEN "parentNode" ELSE "previousSibling"
IsFirst(c) == c \in {">", "+"}
rsibling == {"+", "~"}
relative == {">", " "} \cup rsibling

(* A group of a selector, between commas: tags and combinators by turns;    *)
(* lead: the combinator it begins with, or " " when it begins with none.    *)
Groups == [lead : relative, leading : BOOLEAN, tokens : Seq(STRING) \ {<< >>}]

(* Of every node and direction: search, combinator, value.                  *)
Slot == [run : Nat, doneName : Nat \X Nat \X Nat, value : {"pending", "yes", "no"}]
Slots == [Nodes -> [{"parentNode", "previousSibling"} -> Slot]]
NoSlot == [run |-> 0, doneName |-> <<0, 0, 0>>, value |-> "pending"]

ASSUME DocumentAssumption ==
  /\ NumElements \in Nat \ {0} /\ TagsOf \subseteq [Elements -> STRING]
  /\ ContextSets \subseteq SUBSET Nodes
(* As in CSS, a selector has groups, and a group ends with a tag, never     *)
(* with a combinator.                                                       *)
ASSUME SelectorAssumption ==
  /\ SelectorSet \subseteq Seq(Groups)
  /\ \A groups \in SelectorSet : groups # << >>
  /\ \A groups \in SelectorSet : \A i \in DOMAIN groups :
       /\ ~ groups[i].leading => groups[i].lead = " "
       /\ groups[i].tokens[Len(groups[i].tokens)] \notin relative
ASSUME CacheAssumption == CacheLength \in Nat \ {0}

VARIABLES
  isHTML,       (* documentIsHTML                                           *)
  parent, tag,  (* the document                                             *)
  slots,        (* what the nodes remember                                  *)
  dirruns,      (* searches so far                                          *)
  compilations, (* selectors compiled so far                                *)
  compilerCache,  (* the last of them, with their numbers                   *)
  last, finds   (* what was searched last, and found; searches so far       *)

selectorVars == <<isHTML, parent, tag, slots, dirruns, compilations, compilerCache, last, finds>>

NoFind == [groups |-> << >>, contexts |-> {}, found |-> << >>]

InOrder(nodes) == Without([i \in 1 .. NumElements + 1 |-> i - 1], Nodes \ nodes)

Ancestors(p) ==
  LET Above[e \in Nodes] == IF e = Document THEN {} ELSE {p[e]} \cup Above[p[e]] IN Above
contains(n, e) == n \in Ancestors(parent)[e]
Siblings(n) == {e \in Elements : n # Document /\ e < n /\ parent[e] = parent[n]}

(* The next node in a direction.                                            *)
Step(dir, n) ==
  IF n = Document THEN Nobody
  ELSE IF dir = "parentNode" THEN parent[n]
  ELSE IF Siblings(n) = {} THEN Nobody
  ELSE CHOOSE e \in Siblings(n) : \A b \in Siblings(n) : b <= e

TAG(t, e) == t = "*" \/ tag[e] = t
getElementsByTagName(t, n) == InOrder({e \in Elements : contains(n, e) /\ TAG(t, e)})

-----------------------------------------------------------------------------
(* Matchers, for a search s: context, run (its dirruns), fn (the number of  *)
(* the compiled selector), groups. For an element and the slots S, a        *)
(* matcher gives whether it matches, and the slots as it leaves them.       *)

Result(ok, S) == [ok |-> ok, slots |-> S]

(* Variant: a slot does not say for which combinator it was filled.         *)
Filled_AnyCombinator(slot, s, doneName) == slot.run = s.run /\ slot.value # "pending"

Filled(slot, s, doneName) == slot.run = s.run /\ slot.doneName = doneName

Pending(s, doneName) == [run |-> s.run, doneName |-> doneName, value |-> "pending"]
Put(S, n, dir, slot) ==
  [m \in Nodes |-> IF m = n THEN [S[n] EXCEPT ![dir] = slot] ELSE S[m]]

(* newCache is one object, shared by the nodes that were passed.            *)
Settle(S, dir, s, doneName, value) ==
  [n \in Nodes |-> IF S[n][dir] = Pending(s, doneName)
                   THEN [S[n] EXCEPT ![dir].value = value] ELSE S[n]]

(* What comes before the k-th token of group g matches the next node, or    *)
(* one beyond it. Before what comes first (k = 0) is the context, which may *)
(* be the document.                                                         *)
addCombinator(s, g, k, combinator, matcher) ==
  LET dir == Dir(combinator)
      doneName == <<s.fn, g, k>>
      Is(n) == n \in Elements \/ (k = 0 /\ n = Document)
      Ends(ok, S) == Result(ok, Settle(S, dir, s, doneName, IF ok THEN "yes" ELSE "no"))
      Here(n, S) ==
        matcher[n][IF isHTML THEN Put(S, n, dir, Pending(s, doneName)) ELSE S]
      First == [e \in Nodes |-> [S \in Slots |->
        IF Is(Step(dir, e)) THEN matcher[Step(dir, e)][S] ELSE Result(FALSE, S)]]
      All[e \in Nodes] == [S \in Slots |->
        LET n == Step(dir, e)
            Onward(r) == IF r.ok THEN Ends(TRUE, r.slots) ELSE All[n][r.slots]
        IN  IF ~ Is(n) THEN Ends(FALSE, S)
            ELSE IF isHTML /\ Filled(S[n][dir], s, doneName) THEN Ends(S[n][dir].value = "yes", S)
            ELSE Onward(Here(n, S))]
  IN  IF IsFirst(combinator) THEN First ELSE All

(* The matchers of a group's beginnings. What is searched in the whole      *)
(* document needs no way to the context.                                    *)
matchers(s, g) ==
  LET group == s.groups[g]
      Anything == [e \in Nodes |-> [S \in Slots |-> Result(TRUE, S)]]
      IsContext == [e \in Nodes |-> [S \in Slots |-> Result(e = s.context, S)]]
      With[k \in 0 .. Len(group.tokens)] ==
        IF k = 0 THEN IF ~ group.leading /\ (~ isHTML \/ s.context = Document) THEN Anything
                      ELSE addCombinator(s, g, k, group.lead, IsContext)
        ELSE IF group.tokens[k] \in relative
             THEN addCombinator(s, g, k, group.tokens[k], With[k - 1])
             ELSE [e \in Nodes |-> [S \in Slots |->
                     IF TAG(group.tokens[k], e) THEN With[k - 1][e][S] ELSE Result(FALSE, S)]]
  IN  With
matcherFromTokens(s, g) == matchers(s, g)[Len(s.groups[g].tokens)]

(* matcherFromGroupMatchers: some of the groups matches, the last is tried  *)
(* first; and the elements for which one does.                              *)
elementMatchers(s) ==
  LET Some[g \in 0 .. Len(s.groups)] == [e \in Nodes |-> [S \in Slots |->
        LET Or(r) == IF r.ok THEN r ELSE Some[g - 1][e][r.slots]
        IN  IF g = 0 THEN Result(FALSE, S) ELSE Or(matcherFromTokens(s, g)[e][S])]]
  IN  Some
superMatcher(s, elems, S) ==
  LET Upto[i \in 0 .. Len(elems)] ==
        LET found == Upto[i - 1].found
            With(r) == [found |-> IF r.ok THEN Append(found, elems[i]) ELSE found,
                        slots |-> r.slots]
        IN  IF i = 0 THEN [found |-> << >>, slots |-> S]
            ELSE With(elementMatchers(s)[Len(s.groups)][elems[i]][Upto[i - 1].slots])
  IN  Upto[Len(elems)]

-----------------------------------------------------------------------------
(* compile and select, as functions of what the engine keeps: E has slots,  *)
(* run (dirruns), done, cache (compilerCache) and found.                    *)

Compiled(cache, groups) == {i \in DOMAIN cache : cache[i].groups = groups}

compile(E, groups) ==
  LET more == Append(E.cache, [groups |-> groups, fn |-> E.done + 1])
  IN  IF Compiled(E.cache, groups) # {} THEN [done |-> E.done, cache |-> E.cache]
      ELSE [done |-> E.done + 1, cache |-> IF Len(more) <= CacheLength THEN more ELSE Tail(more)]
NumberOf(cache, groups) == cache[CHOOSE i \in Compiled(cache, groups) : TRUE].fn

(* Variant: a search is not told from the one before.                       *)
Search_SameRun(E, groups, context, elems) ==
  LET with == compile(E, groups)
      Ends(out) == [slots |-> out.slots, run |-> E.run + 1, done |-> with.done,
                    cache |-> with.cache, found |-> E.found \o out.found]
  IN  Ends(superMatcher([groups |-> groups, context |-> context, run |-> 1,
                         fn |-> NumberOf(with.cache, groups)], elems, E.slots))

Search(E, groups, context, elems) ==
  LET with == compile(E, groups)
      Ends(out) == [slots |-> out.slots, run |-> E.run + 1, done |-> with.done,
                    cache |-> with.cache, found |-> E.found \o out.found]
  IN  Ends(superMatcher([groups |-> groups, context |-> context, run |-> E.run + 1,
                         fn |-> NumberOf(with.cache, groups)], elems, E.slots))

(* With one group, the elements with its last tag are a seed, from which    *)
(* the rest is matched. Otherwise all elements are tried: those around the  *)
(* context, too, if there are siblings in the selector.                     *)
HasSiblings(groups) ==
  \E i \in DOMAIN groups :
    groups[i].lead \in rsibling \/ \E k \in DOMAIN groups[i].tokens : groups[i].tokens[k] \in rsibling

select(E, groups, context) ==
  LET g == groups[1]
      n == Len(g.tokens)
      seed == getElementsByTagName(g.tokens[n], context)
      outermost == IF HasSiblings(groups) /\ context # Document THEN parent[context] ELSE context
  IN  IF Len(groups) > 1 \/ g.leading
      THEN Search(E, groups, context, getElementsByTagName("*", outermost))
      ELSE IF seed = << >> \/ n = 1 THEN [E EXCEPT !.found = @ \o seed]
      ELSE Search(E, <<[g EXCEPT !.tokens = SubSeq(@, 1, n - 1)]>>, context, seed)

(* jQuery.fn.find: what several contexts give is sorted, without doubles.   *)
find ==
  /\ finds < MaxFinds /\ finds' = finds + 1
  /\ \E groups \in SelectorSet, contexts \in ContextSets :
       LET self == InOrder(contexts)
           After[i \in 0 .. Len(self)] ==
             IF i = 0 THEN [slots |-> slots, run |-> dirruns, done |-> compilations,
                            cache |-> compilerCache, found |-> << >>]
             ELSE select(After[i - 1], groups, self[i])
           Ends(E) ==
             /\ slots' = E.slots /\ dirruns' = E.run
             /\ compilations' = E.done /\ compilerCache' = E.cache
             /\ last' = [groups |-> groups, contexts |-> contexts,
                         found |-> IF Len(self) <= 1 THEN E.found
                                   ELSE InOrder({E.found[i] : i \in DOMAIN E.found})]
       IN  Ends(After[Len(self)])
  /\ UNCHANGED <<isHTML, parent, tag>>

-----------------------------------------------------------------------------
(* The page's documents. Elements may move.                                 *)

Trees ==
  {p \in [Elements -> 0 .. NumElements - 1] :
     /\ p[1] = Document
     /\ \A e \in Elements \ {1} :
          p[e] # Document /\ p[e] < e /\ p[e] \in {e - 1} \cup Ancestors(p)[e - 1]}

Move ==
  /\ last # NoFind /\ finds < MaxFinds /\ last' = NoFind
  /\ parent' \in Trees \ {parent}
  /\ UNCHANGED <<isHTML, tag, slots, dirruns, compilations, compilerCache, finds>>

SelectorsInit ==
  /\ isHTML \in BOOLEAN /\ parent \in Trees /\ tag \in TagsOf
  /\ slots = [n \in Nodes |-> [dir \in {"parentNode", "previousSibling"} |-> NoSlot]]
  /\ dirruns = 0 /\ compilations = 0 /\ compilerCache = << >>
  /\ last = NoFind /\ finds = 0

SelectorsNext == find \/ Move
SelectorsSpec == SelectorsInit /\ [][SelectorsNext]_selectorVars

-----------------------------------------------------------------------------
(* Property.                                                                *)

(* The nodes to which a combinator leads from an element.                   *)
Related(c, e) ==
  CASE c = ">" -> {n \in Nodes : parent[e] = n}
    [] c = " " -> Ancestors(parent)[e]
    [] c = "+" -> {n \in Siblings(e) : \A b \in Siblings(e) : b <= n}
    [] c = "~" -> Siblings(e)

(* The elements that a group, and its beginnings, mean, in a context.       *)
MeantUpto(group, context) ==
  LET Upto[k \in 0 .. Len(group.tokens)] ==
        IF k = 0 THEN {e \in Elements : (~ isHTML /\ ~ group.leading)
                                          \/ context \in Related(group.lead, e)}
        ELSE IF group.tokens[k] \in relative
             THEN {e \in Elements : Upto[k - 1] \cap Related(group.tokens[k], e) # {}}
             ELSE {e \in Upto[k - 1] : TAG(group.tokens[k], e)}
  IN  Upto
Meant(group, context) ==
  {e \in MeantUpto(group, context)[Len(group.tokens)] : group.leading \/ contains(context, e)}

(* find gives exactly the elements that the selector means, each once and   *)
(* in document order, whatever was searched before in the document, and     *)
(* with whatever result, and however its elements have moved since. (In XML *)
(* only the last element needs to be within the context; with several       *)
(* groups of which one has siblings, not even that.)                        *)
FindsExactly ==
  isHTML \/ Len(last.groups) = 1 \/ ~ HasSiblings(last.groups) =>
    last.found = InOrder(UNION {Meant(last.groups[i], c) :
                                  i \in DOMAIN last.groups, c \in last.contexts})

=============================================================================
