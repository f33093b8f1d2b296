-------------------------- MODULE CaseProfileProofs --------------------------
(***************************************************************************)
(* What the profile of a case always is, whatever its documents and        *)
(* however many tasks and requests write it back: the whole of the         *)
(* documents it lists, in facts and in a timeline that agree, each         *)
(* document counted once and each contradiction known on both sides.       *)
(* Ingesting is followed event by event: the first lemmas are what makes   *)
(* an induction over the events of a document possible.                    *)
(***************************************************************************)
EXTENDS CaseIngestionProofs, FiniteSetTheorems, WellFoundedInduction

\* What holds of 0, and of i + 1 if it holds of i, holds up to n.
LEMMA SetInduction ==
  ASSUME NEW n \in Nat, NEW S, 0 \in S, \A i \in 0 .. n : i < n /\ i \in S => i + 1 \in S
  PROVE  0 .. n \subseteq S
<1> DEFINE T == {i \in 0 .. n : i \notin S}
<1> SUFFICES ASSUME T # {}
             PROVE  FALSE
  OBVIOUS
<1>1. T \subseteq Nat
  OBVIOUS
<1> HIDE DEF T
<1>2. \E x \in T : \A y \in T : ~ (<<y, x>> \in OpToRel(<, Nat))
  BY <1>1, NatLessThanWellFounded, WFMin
<1>3. PICK m \in T : \A y \in T : ~ (y < m)
  BY <1>1, <1>2 DEF OpToRel
<1>4. m \in 0 .. n /\ m \notin S /\ m # 0
  BY DEF T
<1>5. m - 1 \notin T /\ m - 1 \in 0 .. n /\ m - 1 < n
  BY <1>1, <1>3, <1>4
<1>6. m - 1 \in S
  BY <1>5 DEF T
<1> QED BY <1>4, <1>5, <1>6

\* step[i] is what the i-th step makes of an element of F; f[i], what i steps make of x.
Steps(step, n, F) == step \in [1 .. n -> [F -> F]]

IsRun(f, step, n, F, x) ==
  /\ f \in [0 .. n -> F] /\ f[0] = x
  /\ \A i \in 1 .. n : f[i] = step[i][f[i - 1]]

\* A function may be built step by step.
LEMMA Iterates ==
  ASSUME NEW n \in Nat, NEW F, NEW x \in F, NEW step, Steps(step, n, F)
  PROVE  \E f : IsRun(f, step, n, F, x)
<1> USE DEF Steps
<1> DEFINE Built(f, i) == /\ f \in [0 .. i -> F] /\ f[0] = x
                          /\ \A j \in 1 .. i : f[j] = step[j][f[j - 1]]
           S == {i \in 0 .. n : \E f : Built(f, i)}
<1>1. 0 \in S
  <2> DEFINE f == [j \in 0 .. 0 |-> x]
  <2>1. Built(f, 0)
    OBVIOUS
  <2> HIDE DEF Built
  <2>2. \E f1 : Built(f1, 0)
    BY <2>1
  <2> QED BY <2>2
<1>2. ASSUME NEW i \in 0 .. n, i < n, i \in S
      PROVE  i + 1 \in S
  <2>1. PICK f : Built(f, i)
    BY <1>2
  <2> DEFINE e == step[i + 1][f[i]]
             g == [j \in 0 .. i + 1 |-> IF j = i + 1 THEN e ELSE f[j]]
  <2>2. i + 1 \in 1 .. n /\ f[i] \in F
    BY <1>2, <2>1
  <2>3. e \in F
    BY <2>2
  <2>4. g \in [0 .. i + 1 -> F] /\ g[0] = x
    BY <2>1, <2>3
  <2>5. ASSUME NEW j \in 1 .. i + 1
        PROVE  g[j] = step[j][g[j - 1]]
    <3>1. CASE j = i + 1
      <4>1. g[j] = e /\ j - 1 = i /\ g[j - 1] = f[i]
        BY <1>2, <3>1
      <4> QED BY <3>1, <4>1
    <3>2. CASE j # i + 1
      <4>1. j \in 1 .. i /\ g[j] = f[j] /\ g[j - 1] = f[j - 1]
        BY <1>2, <3>2
      <4> QED BY <2>1, <4>1
    <3> QED BY <3>1, <3>2
  <2> HIDE DEF g
  <2>6. Built(g, i + 1)
    BY <2>4, <2>5
  <2> HIDE DEF Built
  <2>7. \E f1 : Built(f1, i + 1)
    BY <2>6
  <2> QED BY <1>2, <2>7
<1> HIDE DEF S
<1>3. \A i \in 0 .. n : i < n /\ i \in S => i + 1 \in S
  BY <1>2
<1>4. 0 .. n \subseteq S
  BY <1>1, <1>3, SetInduction
<1>5. n \in S
  BY <1>4
<1>6. PICK f : Built(f, n)
  BY <1>5 DEF S
<1>7. IsRun(f, step, n, F, x)
  BY <1>6 DEF IsRun
<1> QED BY <1>7

-----------------------------------------------------------------------------
(* What the events of a document make of the facts and of the timeline     *)

FactTable == [Descriptions -> Fact \cup {None}]
EntryTable == [Dates \X Descriptions -> Entry \cup {None}]

LEMMA CorroboratedType ==
  ASSUME NEW fact \in Fact, NEW d \in Documents
  PROVE  Corroborated(fact, d) \in Fact
<1> DEFINE cs == fact.confirming \cup {d}
           n == fact.boosts + 1
<1>1. cs \in SUBSET Documents /\ n \in Nat
  BY DEF Fact
<1>2. Corroborated(fact, d) \in {fact, [fact EXCEPT !.confirming = cs, !.boosts = n]}
  BY DEF Corroborated, Fact
<1> HIDE DEF cs, n
<1>3. [fact EXCEPT !.confirming = cs, !.boosts = n] \in Fact
  BY <1>1 DEF Fact
<1> QED BY <1>2, <1>3

LEMMA NewFactType ==
  ASSUME NEW facts \in FactTable, NEW e \in Event, NEW d \in Documents
  PROVE  NewFact(facts, e, d) \in Fact
<1>1. \A x \in Rivals(facts, e.date) : facts[x] \in Fact /\ facts[x].sources \subseteq Documents
  BY DEF Rivals, FactTable, Fact
<1>2. UNION {facts[x].sources : x \in Rivals(facts, e.date)} \subseteq Documents
  BY <1>1
<1> DEFINE cs == UNION {facts[x].sources : x \in Rivals(facts, e.date)}
<1>3. NewFact(facts, e, d) = [date |-> e.date, sources |-> {d}, confirming |-> {}, boosts |-> 0,
                              contradicting |-> cs]
  BY DEF NewFact
<1>4. e.date \in Dates /\ cs \in SUBSET Documents
  BY <1>2 DEF Event
<1> HIDE DEF cs
<1> QED BY <1>3, <1>4 DEF Fact

LEMMA FactIngestedType ==
  ASSUME NEW facts \in FactTable, NEW e \in Event, NEW d \in Documents
  PROVE  FactIngested(facts, e, d) \in FactTable
<1>1. e.description \in Descriptions
  BY DEF Event
<1>2. CASE facts[e.description] # None
  <2>1. Corroborated(facts[e.description], d) \in Fact
    BY <1>1, <1>2, CorroboratedType DEF FactTable
  <2> QED BY <1>2, <2>1 DEF FactIngested, FactTable
<1>3. CASE facts[e.description] = None
  <2> DEFINE new(x) == CASE x = e.description -> NewFact(facts, e, d)
                         [] x \in Rivals(facts, e.date) ->
                              [facts[x] EXCEPT !.contradicting = @ \cup {d}]
                         [] OTHER -> facts[x]
  <2>1. NewFact(facts, e, d) \in Fact
    BY NewFactType
  <2>2. \A x \in Rivals(facts, e.date) :
          facts[x] \in Fact /\ [facts[x] EXCEPT !.contradicting = @ \cup {d}] \in Fact
    BY DEF Rivals, FactTable, Fact
  <2>3. \A x \in Descriptions : new(x) \in Fact \cup {None}
    BY <2>1, <2>2 DEF FactTable
  <2>4. FactIngested(facts, e, d) = [x \in Descriptions |-> new(x)]
    BY <1>3 DEF FactIngested
  <2> HIDE DEF new
  <2> QED BY <2>3, <2>4 DEF FactTable
<1> QED BY <1>2, <1>3

LEMMA ConsolidatedType ==
  ASSUME NEW timeline \in EntryTable, NEW e \in Event, NEW d \in Documents
  PROVE  Consolidated(timeline, e, d) \in EntryTable
<1> DEFINE k == <<e.date, e.description>>
           entry == timeline[k]
           new == IF entry = None THEN [docs |-> {d}, boosts |-> 0]
                  ELSE IF d \in entry.docs THEN entry
                  ELSE [docs |-> entry.docs \cup {d}, boosts |-> entry.boosts + 1]
<1>1. k \in Dates \X Descriptions /\ entry \in Entry \cup {None}
  BY DEF Event, EntryTable
<1>2. new \in Entry \cup {None}
  BY <1>1 DEF Entry
<1>3. Consolidated(timeline, e, d) = [timeline EXCEPT ![k] = new]
  BY DEF Consolidated
<1> HIDE DEF new
<1> QED BY <1>1, <1>2, <1>3 DEF EntryTable

\* f[i] is what the first i events make of the facts.
FactSteps(f, facts, events, d) ==
  /\ f[0] = facts /\ f[Len(events)] = FactsUpdated(facts, events, d)
  /\ \A i \in 0 .. Len(events) : f[i] \in FactTable
  /\ \A i \in 1 .. Len(events) : f[i] = FactIngested(f[i - 1], events[i], d)

LEMMA FactsRun ==
  ASSUME NEW facts \in FactTable, NEW events \in Seq(Event), NEW d \in Documents
  PROVE  \E f : FactSteps(f, facts, events, d)
<1> DEFINE n == Len(events)
           step == [i \in 1 .. n |-> [g \in FactTable |-> FactIngested(g, events[i], d)]]
           Made(g, i) == IF i = 0 THEN facts ELSE FactIngested(g[i - 1], events[i], d)
           f == CHOOSE g : g = [i \in 0 .. n |-> Made(g, i)]
<1>1. n \in Nat /\ \A i \in 1 .. n : events[i] \in Event
  OBVIOUS
<1>2. \E g : g = [i \in 0 .. n |-> Made(g, i)]
  <2>1. step \in [1 .. n -> [FactTable -> FactTable]]
    BY <1>1, FactIngestedType
  <2>2. n \in Nat /\ Steps(step, n, FactTable)
    BY <1>1, <2>1 DEF Steps
  <2>3. PICK g : IsRun(g, step, n, FactTable, facts)
    <3> HIDE DEF n, step
    <3> QED BY <2>2, Iterates
  <2>4. \A i \in 1 .. n : g[i - 1] \in FactTable /\ g[i] = step[i][g[i - 1]]
    BY <1>1, <2>3 DEF IsRun
  <2>5. \A i \in 1 .. n : g[i] = FactIngested(g[i - 1], events[i], d)
    BY <2>4
  <2> HIDE DEF n, step
  <2>6. g = [i \in 0 .. n |-> Made(g, i)]
    BY <1>1, <2>3, <2>5 DEF IsRun
  <2> QED BY <2>6
<1>3. f = [i \in 0 .. n |-> Made(f, i)]
  <2> HIDE DEF n, Made
  <2> QED BY <1>2
<1>4. FactsUpdated(facts, events, d) = f[n]
  BY DEF FactsUpdated
<1> HIDE DEF n, f
<1>5. f[0] = facts /\ \A i \in 1 .. n : f[i] = FactIngested(f[i - 1], events[i], d)
  BY <1>1, <1>3
<1> DEFINE S == {i \in 0 .. n : f[i] \in FactTable}
<1>6. 0 \in S
  BY <1>1, <1>5
<1>7. \A i \in 0 .. n : i < n /\ i \in S => i + 1 \in S
  <2> SUFFICES ASSUME NEW i \in 0 .. n, i < n, f[i] \in FactTable
               PROVE  f[i + 1] \in FactTable
    BY <1>1
  <2>1. i + 1 \in 1 .. n /\ (i + 1) - 1 = i
    BY <1>1
  <2>2. f[i + 1] = FactIngested(f[i], events[i + 1], d)
    BY <1>5, <2>1
  <2> QED BY <1>1, <2>1, <2>2, FactIngestedType
<1> HIDE DEF S
<1>8. 0 .. n \subseteq S
  BY <1>1, <1>6, <1>7, SetInduction
<1>9. FactSteps(f, facts, events, d)
  BY <1>4, <1>5, <1>8 DEF FactSteps, S, n
<1> QED BY <1>9

\* t[i] is what the first i events make of the timeline.
EntrySteps(t, timeline, events, d) ==
  /\ t[0] = timeline /\ t[Len(events)] = TimelineUpdated(timeline, events, d)
  /\ \A i \in 0 .. Len(events) : t[i] \in EntryTable
  /\ \A i \in 1 .. Len(events) : t[i] = Consolidated(t[i - 1], events[i], d)

LEMMA TimelineRun ==
  ASSUME NEW timeline \in EntryTable, NEW events \in Seq(Event), NEW d \in Documents
  PROVE  \E t : EntrySteps(t, timeline, events, d)
<1> DEFINE n == Len(events)
           step == [i \in 1 .. n |-> [g \in EntryTable |-> Consolidated(g, events[i], d)]]
           Made(g, i) == IF i = 0 THEN timeline ELSE Consolidated(g[i - 1], events[i], d)
           t == CHOOSE g : g = [i \in 0 .. n |-> Made(g, i)]
<1>1. n \in Nat /\ \A i \in 1 .. n : events[i] \in Event
  OBVIOUS
<1>2. \E g : g = [i \in 0 .. n |-> Made(g, i)]
  <2>1. step \in [1 .. n -> [EntryTable -> EntryTable]]
    BY <1>1, ConsolidatedType
  <2>2. n \in Nat /\ Steps(step, n, EntryTable)
    BY <1>1, <2>1 DEF Steps
  <2>3. PICK g : IsRun(g, step, n, EntryTable, timeline)
    <3> HIDE DEF n, step
    <3> QED BY <2>2, Iterates
  <2>4. \A i \in 1 .. n : g[i - 1] \in EntryTable /\ g[i] = step[i][g[i - 1]]
    BY <1>1, <2>3 DEF IsRun
  <2>5. \A i \in 1 .. n : g[i] = Consolidated(g[i - 1], events[i], d)
    BY <2>4
  <2> HIDE DEF n, step
  <2>6. g = [i \in 0 .. n |-> Made(g, i)]
    BY <1>1, <2>3, <2>5 DEF IsRun
  <2> QED BY <2>6
<1>3. t = [i \in 0 .. n |-> Made(t, i)]
  <2> HIDE DEF n, Made
  <2> QED BY <1>2
<1>4. TimelineUpdated(timeline, events, d) = t[n]
  BY DEF TimelineUpdated
<1> HIDE DEF n, t
<1>5. t[0] = timeline /\ \A i \in 1 .. n : t[i] = Consolidated(t[i - 1], events[i], d)
  BY <1>1, <1>3
<1> DEFINE S == {i \in 0 .. n : t[i] \in EntryTable}
<1>6. 0 \in S
  BY <1>1, <1>5
<1>7. \A i \in 0 .. n : i < n /\ i \in S => i + 1 \in S
  <2> SUFFICES ASSUME NEW i \in 0 .. n, i < n, t[i] \in EntryTable
               PROVE  t[i + 1] \in EntryTable
    BY <1>1
  <2>1. i + 1 \in 1 .. n /\ (i + 1) - 1 = i
    BY <1>1
  <2>2. t[i + 1] = Consolidated(t[i], events[i + 1], d)
    BY <1>5, <2>1
  <2> QED BY <1>1, <2>1, <2>2, ConsolidatedType
<1> HIDE DEF S
<1>8. 0 .. n \subseteq S
  BY <1>1, <1>6, <1>7, SetInduction
<1>9. EntrySteps(t, timeline, events, d)
  BY <1>4, <1>5, <1>8 DEF EntrySteps, S, n
<1> QED BY <1>9

-----------------------------------------------------------------------------
(* What one event changes                                                  *)

Sup(facts, x) == facts[x].sources \cup facts[x].confirming

LEMMA OldFact ==
  ASSUME NEW facts \in FactTable, NEW e \in Event, NEW d \in Documents,
         facts[e.description] # None
  PROVE  LET new == FactIngested(facts, e, d)  x == e.description IN
         /\ new[x] = Corroborated(facts[x], d) /\ facts[x] \in Fact
         /\ \A y \in Descriptions \ {x} : new[y] = facts[y]
BY DEF FactIngested, FactTable, Event

Contradicted(fact, d) == [fact EXCEPT !.contradicting = @ \cup {d}]

LEMMA FreshFact ==
  ASSUME NEW facts \in FactTable, NEW e \in Event, NEW d \in Documents,
         facts[e.description] = None
  PROVE  LET new == FactIngested(facts, e, d)  x == e.description IN
         /\ new[x] = NewFact(facts, e, d)
         /\ \A y \in Descriptions \ {x} :
              new[y] = IF y \in Rivals(facts, e.date) THEN Contradicted(facts[y], d) ELSE facts[y]
<1> DEFINE made(y) == CASE y = e.description -> NewFact(facts, e, d)
                        [] y \in Rivals(facts, e.date) -> Contradicted(facts[y], d)
                        [] OTHER -> facts[y]
<1>1. FactIngested(facts, e, d) = [y \in Descriptions |-> made(y)]
  BY DEF FactIngested, Contradicted
<1>2. e.description \in Descriptions /\ e.description \notin Rivals(facts, e.date)
  BY DEF Event, Rivals
<1>3. made(e.description) = NewFact(facts, e, d)
  BY <1>2
<1>4. \A y \in Descriptions \ {e.description} :
        made(y) = IF y \in Rivals(facts, e.date) THEN Contradicted(facts[y], d) ELSE facts[y]
  OBVIOUS
<1> HIDE DEF made
<1> QED BY <1>1, <1>2, <1>3, <1>4

\* A fact that gains a document that confirms it.
LEMMA CorroboratedFields ==
  ASSUME NEW fact \in Fact, NEW d \in Documents
  PROVE  LET new == Corroborated(fact, d) IN
         /\ new.date = fact.date /\ new.sources = fact.sources
         /\ new.contradicting = fact.contradicting
         /\ new.confirming = IF d \in fact.sources THEN fact.confirming
                             ELSE fact.confirming \cup {d}
         /\ new.boosts = IF d \in fact.sources \cup fact.confirming THEN fact.boosts
                         ELSE fact.boosts + 1
<1>1. CASE d \in fact.sources \cup fact.confirming
  BY <1>1 DEF Corroborated
<1>2. CASE d \notin fact.sources \cup fact.confirming
  <2> DEFINE cs == fact.confirming \cup {d}
             n == fact.boosts + 1
             new == [fact EXCEPT !.confirming = cs, !.boosts = n]
  <2>1. Corroborated(fact, d) = new
    BY <1>2 DEF Corroborated, Fact
  <2> HIDE DEF cs, n
  <2>2. /\ new.date = fact.date /\ new.sources = fact.sources
        /\ new.contradicting = fact.contradicting /\ new.confirming = cs /\ new.boosts = n
    BY DEF Fact
  <2> HIDE DEF new
  <2> QED BY <1>2, <2>1, <2>2 DEF cs, n
<1> QED BY <1>1, <1>2

\* A fact that learns who contradicts it.
LEMMA ContradictedFields ==
  ASSUME NEW fact \in Fact, NEW d \in Documents
  PROVE  LET new == Contradicted(fact, d) IN
         /\ new \in Fact /\ new.date = fact.date /\ new.sources = fact.sources
         /\ new.confirming = fact.confirming /\ new.boosts = fact.boosts
         /\ new.contradicting = fact.contradicting \cup {d}
<1> DEFINE ds == fact.contradicting \cup {d}
           new == [fact EXCEPT !.contradicting = ds]
<1>1. Contradicted(fact, d) = new /\ ds \in SUBSET Documents
  BY DEF Contradicted, Fact
<1> HIDE DEF ds
<1>2. /\ new \in Fact /\ new.date = fact.date /\ new.sources = fact.sources
      /\ new.confirming = fact.confirming /\ new.boosts = fact.boosts
      /\ new.contradicting = ds
  BY <1>1 DEF Fact
<1> HIDE DEF new
<1> QED BY <1>1, <1>2 DEF ds

\* The fact of the event has the document, and the others only learn who contradicts them.
LEMMA FactShape ==
  ASSUME NEW facts \in FactTable, NEW e \in Event, NEW d \in Documents
  PROVE  LET new == FactIngested(facts, e, d)  x == e.description IN
         /\ x \in Descriptions /\ new[x] # None
         /\ Sup(new, x) = (IF facts[x] = None THEN {} ELSE Sup(facts, x)) \cup {d}
         /\ \A y \in Descriptions : facts[y] # None =>
              /\ new[y] # None /\ new[y].date = facts[y].date
              /\ new[y].sources = facts[y].sources
              /\ facts[y].contradicting \subseteq new[y].contradicting
         /\ \A y \in Descriptions \ {x} :
              /\ new[y] = None <=> facts[y] = None
              /\ facts[y] # None => /\ new[y].confirming = facts[y].confirming
                                   /\ new[y].boosts = facts[y].boosts
<1> DEFINE new == FactIngested(facts, e, d)
           x == e.description
<1>1. x \in Descriptions /\ new \in FactTable
  BY FactIngestedType DEF Event
<1>2. CASE facts[x] # None
  <2>1. /\ new[x] = Corroborated(facts[x], d) /\ facts[x] \in Fact
        /\ \A y \in Descriptions \ {x} : new[y] = facts[y]
    BY <1>2, OldFact
  <2> HIDE DEF new, x
  <2>2. new[x] # None
    BY <2>1, CorroboratedType, NoneAssumption
  <2>3. /\ new[x].date = facts[x].date /\ new[x].sources = facts[x].sources
        /\ new[x].contradicting = facts[x].contradicting
        /\ new[x].confirming = IF d \in facts[x].sources THEN facts[x].confirming
                               ELSE facts[x].confirming \cup {d}
    <3> DEFINE c == Corroborated(facts[x], d)
    <3>1. /\ c.date = facts[x].date /\ c.sources = facts[x].sources
          /\ c.contradicting = facts[x].contradicting
          /\ c.confirming = IF d \in facts[x].sources THEN facts[x].confirming
                            ELSE facts[x].confirming \cup {d}
      BY <2>1, CorroboratedFields
    <3> HIDE DEF c
    <3> QED BY <2>1, <3>1 DEF c
  <2>4. Sup(new, x) = Sup(facts, x) \cup {d}
    BY <2>3 DEF Sup
  <2> QED BY <1>1, <1>2, <2>1, <2>2, <2>3, <2>4 DEF new, x
<1>3. CASE facts[x] = None
  <2>1. /\ new[x] = NewFact(facts, e, d)
        /\ \A y \in Descriptions \ {x} :
             new[y] = IF y \in Rivals(facts, e.date) THEN Contradicted(facts[y], d) ELSE facts[y]
    BY <1>3, FreshFact
  <2> HIDE DEF new, x
  <2>2. new[x] \in Fact /\ new[x].sources = {d} /\ new[x].confirming = {}
    BY <2>1, NewFactType DEF NewFact
  <2>3. ASSUME NEW y \in Descriptions \ {x}
        PROVE  /\ new[y] = None <=> facts[y] = None
               /\ facts[y] # None =>
                    /\ new[y].date = facts[y].date /\ new[y].sources = facts[y].sources
                    /\ facts[y].contradicting \subseteq new[y].contradicting
                    /\ new[y].confirming = facts[y].confirming
                    /\ new[y].boosts = facts[y].boosts
    <3>1. CASE y \in Rivals(facts, e.date)
      <4>1. facts[y] \in Fact /\ facts[y] # None
        BY <3>1 DEF Rivals, FactTable
      <4>2. new[y] = Contradicted(facts[y], d)
        BY <2>1, <3>1
      <4>3. /\ Contradicted(facts[y], d) \in Fact
            /\ new[y].date = facts[y].date /\ new[y].sources = facts[y].sources
            /\ new[y].confirming = facts[y].confirming /\ new[y].boosts = facts[y].boosts
            /\ new[y].contradicting = facts[y].contradicting \cup {d}
        BY <4>1, <4>2, ContradictedFields
      <4> QED BY <4>1, <4>2, <4>3, NoneAssumption
    <3>2. CASE y \notin Rivals(facts, e.date)
      BY <2>1, <3>2
    <3> QED BY <3>1, <3>2
  <2>4. new[x] # None
    BY <2>2, NoneAssumption
  <2> QED BY <1>1, <1>3, <2>2, <2>3, <2>4 DEF Sup, new, x
<1> QED BY <1>2, <1>3

LEMMA EntryShape ==
  ASSUME NEW timeline \in EntryTable, NEW e \in Event, NEW d \in Documents
  PROVE  LET new == Consolidated(timeline, e, d)  k == <<e.date, e.description>> IN
         /\ k \in Dates \X Descriptions /\ new[k] # None
         /\ new[k].docs = (IF timeline[k] = None THEN {} ELSE timeline[k].docs) \cup {d}
         /\ new[k].boosts = IF timeline[k] = None THEN 0
                            ELSE IF d \in timeline[k].docs THEN timeline[k].boosts
                            ELSE timeline[k].boosts + 1
         /\ \A j \in (Dates \X Descriptions) \ {k} : new[j] = timeline[j]
<1> DEFINE k == <<e.date, e.description>>
           entry == timeline[k]
           new == IF entry = None THEN [docs |-> {d}, boosts |-> 0]
                  ELSE IF d \in entry.docs THEN entry
                  ELSE [docs |-> entry.docs \cup {d}, boosts |-> entry.boosts + 1]
<1>1. k \in Dates \X Descriptions /\ entry \in Entry \cup {None}
  BY DEF Event, EntryTable
<1>2. Consolidated(timeline, e, d) = [timeline EXCEPT ![k] = new]
  BY DEF Consolidated
<1>3. new \in Entry
  BY <1>1 DEF Entry
<1>4. /\ new.docs = (IF entry = None THEN {} ELSE entry.docs) \cup {d}
      /\ new.boosts = IF entry = None THEN 0
                      ELSE IF d \in entry.docs THEN entry.boosts ELSE entry.boosts + 1
  OBVIOUS
<1> HIDE DEF new
<1>5. /\ Consolidated(timeline, e, d)[k] = new
      /\ \A j \in (Dates \X Descriptions) \ {k} : Consolidated(timeline, e, d)[j] = timeline[j]
  BY <1>1, <1>2 DEF EntryTable
<1> QED BY <1>1, <1>3, <1>4, <1>5, NoneAssumption

-----------------------------------------------------------------------------
(* What one event preserves                                                *)

\* A fact counts each document that confirms it once; so does an entry.
FactsCounted(facts) ==
  \A x \in Descriptions : facts[x] # None =>
    /\ IsFiniteSet(facts[x].confirming) /\ facts[x].sources \cap facts[x].confirming = {}
    /\ facts[x].boosts = Cardinality(facts[x].confirming)

EntriesCounted(timeline) ==
  \A k \in Dates \X Descriptions : timeline[k] # None =>
    /\ IsFiniteSet(timeline[k].docs)
    /\ timeline[k].boosts + 1 = Cardinality(timeline[k].docs)

\* Facts of one date know of each other.
Mutual(facts) ==
  \A x, y \in Descriptions :
    x # y /\ facts[x] # None /\ facts[y] # None /\ facts[x].date = facts[y].date =>
      facts[x].sources \subseteq facts[y].contradicting

\* The timeline has the documents of the facts, and no others.
Match(facts, timeline) ==
  /\ \A k \in Dates \X Descriptions :
       timeline[k] # None => facts[k[2]] # None /\ timeline[k].docs \subseteq Sup(facts, k[2])
  /\ \A x \in Descriptions : facts[x] # None =>
       \A d \in Sup(facts, x) :
         \E a \in Dates : timeline[<<a, x>>] # None /\ d \in timeline[<<a, x>>].docs

Within(facts, docs) == \A x \in Descriptions : facts[x] # None => Sup(facts, x) \subseteq docs

\* An event of document d is on record.
Recorded(facts, timeline, e, d) ==
  /\ facts[e.description] # None /\ d \in Sup(facts, e.description)
  /\ timeline[<<e.date, e.description>>] # None
  /\ d \in timeline[<<e.date, e.description>>].docs

LEMMA FactsCountedStep ==
  ASSUME NEW facts \in FactTable, NEW e \in Event, NEW d \in Documents, FactsCounted(facts)
  PROVE  FactsCounted(FactIngested(facts, e, d))
<1> DEFINE new == FactIngested(facts, e, d)
           x == e.description
<1> SUFFICES ASSUME NEW y \in Descriptions, new[y] # None
             PROVE  /\ IsFiniteSet(new[y].confirming) /\ new[y].sources \cap new[y].confirming = {}
                    /\ new[y].boosts = Cardinality(new[y].confirming)
  BY DEF FactsCounted
<1>1. CASE y # x
  <2>1. facts[y] # None /\ new[y].sources = facts[y].sources
        /\ new[y].confirming = facts[y].confirming /\ new[y].boosts = facts[y].boosts
    <3> HIDE DEF new, x
    <3> QED BY <1>1, FactShape DEF new, x
  <2> HIDE DEF new
  <2> QED BY <2>1 DEF FactsCounted
<1>2. CASE y = x /\ facts[x] # None
  <2> DEFINE old == facts[x]
  <2>1. old \in Fact /\ new[y] = Corroborated(old, d)
    BY <1>2, OldFact
  <2> HIDE DEF new
  <2>2. /\ IsFiniteSet(old.confirming) /\ old.sources \cap old.confirming = {}
        /\ old.boosts = Cardinality(old.confirming)
    BY <1>2 DEF FactsCounted
  <2> HIDE DEF old
  <2> DEFINE c == Corroborated(old, d)
  <2>3. /\ c.sources = old.sources
        /\ c.confirming = IF d \in old.sources THEN old.confirming ELSE old.confirming \cup {d}
        /\ c.boosts = IF d \in old.sources \cup old.confirming THEN old.boosts ELSE old.boosts + 1
    BY <2>1, CorroboratedFields
  <2> HIDE DEF c
  <2>4. /\ IsFiniteSet(old.confirming \cup {d})
        /\ Cardinality(old.confirming \cup {d}) =
             IF d \in old.confirming THEN Cardinality(old.confirming)
             ELSE Cardinality(old.confirming) + 1
    BY <2>2, FS_AddElement
  <2>5. /\ IsFiniteSet(c.confirming) /\ c.sources \cap c.confirming = {}
        /\ c.boosts = Cardinality(c.confirming)
    BY <2>2, <2>3, <2>4
  <2> QED BY <2>1, <2>5 DEF c
<1>3. CASE y = x /\ facts[x] = None
  <2>1. new[y] = NewFact(facts, e, d)
    BY <1>3, FreshFact
  <2> HIDE DEF new
  <2> QED BY <2>1, FS_EmptySet DEF NewFact
<1> QED BY <1>1, <1>2, <1>3

LEMMA EntriesCountedStep ==
  ASSUME NEW timeline \in EntryTable, NEW e \in Event, NEW d \in Documents,
         EntriesCounted(timeline)
  PROVE  EntriesCounted(Consolidated(timeline, e, d))
<1> DEFINE new == Consolidated(timeline, e, d)
           k == <<e.date, e.description>>
<1>1. /\ k \in Dates \X Descriptions
      /\ new[k].docs = (IF timeline[k] = None THEN {} ELSE timeline[k].docs) \cup {d}
      /\ new[k].boosts = IF timeline[k] = None THEN 0
                         ELSE IF d \in timeline[k].docs THEN timeline[k].boosts
                         ELSE timeline[k].boosts + 1
      /\ \A j \in (Dates \X Descriptions) \ {k} : new[j] = timeline[j]
  BY EntryShape
<1> HIDE DEF new, k
<1>2. CASE timeline[k] = None
  <2>1. new[k].docs = {d} /\ new[k].boosts = 0
    BY <1>1, <1>2
  <2>2. IsFiniteSet({d}) /\ Cardinality({d}) = 1
    BY FS_Singleton
  <2>3. IsFiniteSet(new[k].docs) /\ new[k].boosts + 1 = Cardinality(new[k].docs)
    BY <2>1, <2>2
  <2>4. EntriesCounted(new)
    BY <1>1, <2>3 DEF EntriesCounted
  <2> QED BY <2>4 DEF new
<1>3. CASE timeline[k] # None
  <2> DEFINE old == timeline[k]
  <2>1. /\ IsFiniteSet(old.docs) /\ old.boosts + 1 = Cardinality(old.docs) /\ old.boosts \in Nat
    BY <1>1, <1>3 DEF EntriesCounted, EntryTable, Entry
  <2>2. /\ new[k].docs = old.docs \cup {d}
        /\ new[k].boosts = IF d \in old.docs THEN old.boosts ELSE old.boosts + 1
    BY <1>1, <1>3
  <2> HIDE DEF old
  <2>3. /\ IsFiniteSet(old.docs \cup {d})
        /\ Cardinality(old.docs \cup {d}) =
             IF d \in old.docs THEN Cardinality(old.docs) ELSE Cardinality(old.docs) + 1
    BY <2>1, FS_AddElement
  <2>4. IsFiniteSet(new[k].docs) /\ new[k].boosts + 1 = Cardinality(new[k].docs)
    BY <2>1, <2>2, <2>3
  <2> QED BY <1>1, <2>4 DEF EntriesCounted, new
<1> QED BY <1>2, <1>3

\* A fact that comes new knows those of its date, and they learn of it.
LEMMA MutualStep ==
  ASSUME NEW facts \in FactTable, NEW e \in Event, NEW d \in Documents, Mutual(facts)
  PROVE  Mutual(FactIngested(facts, e, d))
<1> DEFINE new == FactIngested(facts, e, d)
           x == e.description
<1>1. /\ \A y \in Descriptions : facts[y] # None =>
           /\ new[y] # None /\ new[y].date = facts[y].date
           /\ new[y].sources = facts[y].sources
           /\ facts[y].contradicting \subseteq new[y].contradicting
      /\ \A y \in Descriptions \ {x} : new[y] = None <=> facts[y] = None
      /\ x \in Descriptions
  BY FactShape
<1>2. ASSUME facts[x] = None, NEW y \in Descriptions, y # x, facts[y] # None, facts[y].date = e.date
      PROVE  facts[y].sources \subseteq new[x].contradicting /\ d \in new[y].contradicting
  <2>1. y \in Rivals(facts, e.date) /\ facts[y] \in Fact
    BY <1>2 DEF Rivals, FactTable
  <2>2. new[x] = NewFact(facts, e, d) /\ new[y] = Contradicted(facts[y], d)
    BY <1>2, <2>1, FreshFact
  <2> HIDE DEF new
  <2>3. new[x].contradicting = UNION {facts[z].sources : z \in Rivals(facts, e.date)}
    BY <2>2 DEF NewFact
  <2>4. d \in Contradicted(facts[y], d).contradicting
    BY <2>1, ContradictedFields
  <2> QED BY <2>1, <2>2, <2>3, <2>4
<1>3. facts[x] = None => new[x].date = e.date /\ new[x].sources = {d}
  <2>1. facts[x] = None => new[x] = NewFact(facts, e, d)
    BY FreshFact
  <2> HIDE DEF new
  <2> QED BY <2>1 DEF NewFact
<1> HIDE DEF new, x
<1> SUFFICES ASSUME NEW y \in Descriptions, NEW z \in Descriptions, y # z,
                    new[y] # None, new[z] # None, new[y].date = new[z].date
             PROVE  new[y].sources \subseteq new[z].contradicting
  BY DEF Mutual, new
<1>4. CASE facts[y] # None /\ facts[z] # None
  <2>1. facts[y].sources \subseteq facts[z].contradicting
    BY <1>1, <1>4 DEF Mutual
  <2> QED BY <1>1, <1>4, <2>1
<1>5. CASE facts[y] = None
  <2>1. y = x /\ z # x /\ facts[z] # None
    BY <1>1, <1>5
  <2> QED BY <1>1, <1>2, <1>3, <1>5, <2>1
<1>6. CASE facts[z] = None
  <2>1. z = x /\ y # x /\ facts[y] # None
    BY <1>1, <1>6
  <2> QED BY <1>1, <1>2, <1>3, <1>6, <2>1
<1> QED BY <1>4, <1>5, <1>6

LEMMA SupportStep ==
  ASSUME NEW facts \in FactTable, NEW e \in Event, NEW d \in Documents
  PROVE  LET new == FactIngested(facts, e, d)  x == e.description IN
         /\ x \in Descriptions /\ new[x] # None
         /\ Sup(new, x) = (IF facts[x] = None THEN {} ELSE Sup(facts, x)) \cup {d}
         /\ \A y \in Descriptions \ {x} :
              /\ new[y] = None <=> facts[y] = None
              /\ facts[y] # None => Sup(new, y) = Sup(facts, y)
<1> DEFINE new == FactIngested(facts, e, d)
           x == e.description
<1>1. ASSUME NEW y \in Descriptions \ {x}
      PROVE  /\ new[y] = None <=> facts[y] = None
             /\ facts[y] # None => new[y].sources = facts[y].sources
                                  /\ new[y].confirming = facts[y].confirming
  BY FactShape
<1>2. \A y \in Descriptions \ {x} : facts[y] # None => Sup(new, y) = Sup(facts, y)
  <2> HIDE DEF new
  <2> QED BY <1>1 DEF Sup
<1>3. /\ x \in Descriptions /\ new[x] # None
      /\ Sup(new, x) = (IF facts[x] = None THEN {} ELSE Sup(facts, x)) \cup {d}
  BY FactShape
<1> QED BY <1>1, <1>2, <1>3

LEMMA MatchStep ==
  ASSUME NEW facts \in FactTable, NEW timeline \in EntryTable, NEW e \in Event,
         NEW d \in Documents, Match(facts, timeline)
  PROVE  Match(FactIngested(facts, e, d), Consolidated(timeline, e, d))
<1> DEFINE f == FactIngested(facts, e, d)
           t == Consolidated(timeline, e, d)
           x == e.description
           k == <<e.date, x>>
<1>1. /\ x \in Descriptions /\ f[x] # None
      /\ Sup(f, x) = (IF facts[x] = None THEN {} ELSE Sup(facts, x)) \cup {d}
      /\ \A y \in Descriptions \ {x} :
           /\ f[y] = None <=> facts[y] = None
           /\ facts[y] # None => Sup(f, y) = Sup(facts, y)
  BY SupportStep
<1>2. /\ k \in Dates \X Descriptions /\ t[k] # None
      /\ t[k].docs = (IF timeline[k] = None THEN {} ELSE timeline[k].docs) \cup {d}
      /\ \A j \in (Dates \X Descriptions) \ {k} : t[j] = timeline[j]
  BY EntryShape
<1>3. e.date \in Dates /\ k[2] = x
  BY DEF Event
<1> HIDE DEF f, t, x
<1>4. \A y \in Descriptions : facts[y] # None => f[y] # None /\ Sup(facts, y) \subseteq Sup(f, y)
  BY <1>1
<1>5. ASSUME NEW j \in Dates \X Descriptions, t[j] # None
      PROVE  f[j[2]] # None /\ t[j].docs \subseteq Sup(f, j[2])
  <2>1. CASE j = k /\ timeline[k] = None
    BY <1>1, <1>2, <1>3, <2>1
  <2>2. CASE j = k /\ timeline[k] # None
    <3>1. facts[x] # None /\ timeline[k].docs \subseteq Sup(facts, x)
      BY <1>2, <1>3, <2>2 DEF Match
    <3> QED BY <1>1, <1>2, <1>3, <2>2, <3>1
  <2>3. CASE j # k
    <3>1. t[j] = timeline[j]
      BY <1>2, <2>3
    <3>2. facts[j[2]] # None /\ timeline[j].docs \subseteq Sup(facts, j[2]) /\ j[2] \in Descriptions
      BY <1>5, <3>1 DEF Match
    <3> QED BY <1>4, <3>1, <3>2
  <2> QED BY <2>1, <2>2, <2>3
<1>6. ASSUME NEW y \in Descriptions, NEW s, NEW a \in Dates,
             timeline[<<a, y>>] # None, s \in timeline[<<a, y>>].docs
      PROVE  t[<<a, y>>] # None /\ s \in t[<<a, y>>].docs
  <2>1. CASE <<a, y>> = k
    BY <1>2, <1>6, <2>1
  <2>2. CASE <<a, y>> # k
    <3>1. <<a, y>> \in (Dates \X Descriptions) \ {k}
      BY <2>2
    <3>2. t[<<a, y>>] = timeline[<<a, y>>]
      BY <1>2, <3>1
    <3> QED BY <1>6, <3>2
  <2> QED BY <2>1, <2>2
<1>7. ASSUME NEW y \in Descriptions, f[y] # None, NEW s \in Sup(f, y)
      PROVE  \E a \in Dates : t[<<a, y>>] # None /\ s \in t[<<a, y>>].docs
  <2>1. CASE facts[y] # None /\ s \in Sup(facts, y)
    <3>1. PICK a \in Dates : timeline[<<a, y>>] # None /\ s \in timeline[<<a, y>>].docs
      BY <2>1 DEF Match
    <3> QED BY <1>6, <3>1
  <2>2. CASE y = x /\ s = d
    BY <1>2, <1>3, <2>2 DEF k
  <2> QED BY <1>1, <1>7, <2>1, <2>2
<1> QED BY <1>5, <1>7 DEF Match, f, t

LEMMA WithinStep ==
  ASSUME NEW facts \in FactTable, NEW e \in Event, NEW d \in Documents, NEW docs,
         d \in docs, Within(facts, docs)
  PROVE  Within(FactIngested(facts, e, d), docs)
<1> DEFINE new == FactIngested(facts, e, d)
           x == e.description
<1>1. /\ Sup(new, x) = (IF facts[x] = None THEN {} ELSE Sup(facts, x)) \cup {d}
      /\ \A y \in Descriptions \ {x} :
           /\ new[y] = None <=> facts[y] = None
           /\ facts[y] # None => Sup(new, y) = Sup(facts, y)
  BY SupportStep
<1> HIDE DEF new, x
<1> QED BY <1>1 DEF Within, new

\* What is on record stays, and the event is.
LEMMA RecordedStep ==
  ASSUME NEW facts \in FactTable, NEW timeline \in EntryTable, NEW e \in Event,
         NEW d \in Documents
  PROVE  LET f == FactIngested(facts, e, d)  t == Consolidated(timeline, e, d) IN
         /\ Recorded(f, t, e, d)
         /\ \A o \in Event, s \in Documents :
              Recorded(facts, timeline, o, s) => Recorded(f, t, o, s)
<1> DEFINE f == FactIngested(facts, e, d)
           t == Consolidated(timeline, e, d)
           x == e.description
           k == <<e.date, x>>
<1>1. /\ x \in Descriptions /\ f[x] # None
      /\ Sup(f, x) = (IF facts[x] = None THEN {} ELSE Sup(facts, x)) \cup {d}
      /\ \A y \in Descriptions \ {x} :
           /\ f[y] = None <=> facts[y] = None
           /\ facts[y] # None => Sup(f, y) = Sup(facts, y)
  BY SupportStep
<1>2. /\ k \in Dates \X Descriptions /\ t[k] # None
      /\ t[k].docs = (IF timeline[k] = None THEN {} ELSE timeline[k].docs) \cup {d}
      /\ \A j \in (Dates \X Descriptions) \ {k} : t[j] = timeline[j]
  BY EntryShape
<1> HIDE DEF f, t
<1>3. Recorded(f, t, e, d)
  BY <1>1, <1>2 DEF Recorded
<1>4. ASSUME NEW o \in Event, NEW s \in Documents, Recorded(facts, timeline, o, s)
      PROVE  Recorded(f, t, o, s)
  <2> DEFINE y == o.description
             j == <<o.date, y>>
  <2>1. /\ facts[y] # None /\ s \in Sup(facts, y) /\ timeline[j] # None /\ s \in timeline[j].docs
        /\ y \in Descriptions /\ j \in Dates \X Descriptions
    BY <1>4 DEF Recorded, Event
  <2> HIDE DEF x, k, y, j
  <2>2. f[y] # None /\ s \in Sup(f, y)
    BY <1>1, <2>1
  <2>3. t[j] # None /\ s \in t[j].docs
    BY <1>2, <2>1
  <2> QED BY <2>2, <2>3 DEF Recorded, y, j
<1> QED BY <1>3, <1>4 DEF f, t

-----------------------------------------------------------------------------
(* What ingesting a whole document preserves                               *)

Sound(facts, timeline, docs) ==
  /\ FactsCounted(facts) /\ EntriesCounted(timeline) /\ Mutual(facts)
  /\ Match(facts, timeline) /\ Within(facts, docs)

Whole(facts, timeline, docs) ==
  \A d \in docs : \A i \in DOMAIN Content[d] : Recorded(facts, timeline, Content[d][i], d)

GoodProfile(p) ==
  /\ p \in Profiles
  /\ Sound(p.facts, p.timeline, p.docs) /\ Whole(p.facts, p.timeline, p.docs)

LEMMA SoundStep ==
  ASSUME NEW facts \in FactTable, NEW timeline \in EntryTable, NEW e \in Event,
         NEW d \in Documents, NEW docs, d \in docs, Sound(facts, timeline, docs)
  PROVE  Sound(FactIngested(facts, e, d), Consolidated(timeline, e, d), docs)
<1>1. /\ FactsCounted(facts) /\ EntriesCounted(timeline) /\ Mutual(facts)
      /\ Match(facts, timeline) /\ Within(facts, docs)
  BY DEF Sound
<1>2. FactsCounted(FactIngested(facts, e, d)) /\ Mutual(FactIngested(facts, e, d))
  BY <1>1, FactsCountedStep, MutualStep
<1>3. EntriesCounted(Consolidated(timeline, e, d))
  BY <1>1, EntriesCountedStep
<1>4. Match(FactIngested(facts, e, d), Consolidated(timeline, e, d))
  BY <1>1, MatchStep
<1>5. Within(FactIngested(facts, e, d), docs)
  BY <1>1, WithinStep
<1> QED BY <1>2, <1>3, <1>4, <1>5 DEF Sound

LEMMA TablesSet ==
  ASSUME NEW p, IsProfile(p)
  PROVE  \A v : [p EXCEPT !.facts = v].facts = v /\ [p EXCEPT !.timeline = v].timeline = v
                /\ [p EXCEPT !.timeline = v].facts = p.facts
BY DEF IsProfile

LEMMA IngestedFields ==
  ASSUME NEW p \in Profiles, NEW events, NEW d
  PROVE  Ingested(p, events, d) =
           [docs |-> p.docs \cup {d}, deleted |-> p.deleted,
            facts |-> FactsUpdated(p.facts, events, d),
            timeline |-> TimelineUpdated(p.timeline, events, d)]
<1> DEFINE ds == p.docs \cup {d}
           fs == FactsUpdated(p.facts, events, d)
           ts == TimelineUpdated(p.timeline, events, d)
           q == [p EXCEPT !.docs = ds]
           r == [q EXCEPT !.facts = fs]
           s == [r EXCEPT !.timeline = ts]
<1>1. IsProfile(p)
  BY DEF Profiles, IsProfile
<1>2. Ingested(p, events, d) = s
  BY <1>1 DEF Ingested, IsProfile
<1> HIDE DEF ds, fs, ts
<1>3. IsProfile(q) /\ q.docs = ds /\ q.deleted = p.deleted
  BY <1>1, ProfileFields
<1> HIDE DEF q
<1>4. IsProfile(r) /\ r.docs = ds /\ r.deleted = p.deleted /\ r.facts = fs
  <2>1. IsProfile(r) /\ r.docs = ds /\ r.deleted = p.deleted
    BY <1>3, ProfileFields
  <2>2. r.facts = fs
    BY <1>3, TablesSet
  <2> QED BY <2>1, <2>2
<1> HIDE DEF r
<1>5. /\ IsProfile(s) /\ s.docs = ds /\ s.deleted = p.deleted /\ s.facts = fs
      /\ s.timeline = ts
  <2>1. IsProfile(s) /\ s.docs = ds /\ s.deleted = p.deleted
    BY <1>4, ProfileFields
  <2>2. s.facts = fs /\ s.timeline = ts
    BY <1>4, TablesSet
  <2> QED BY <2>1, <2>2
<1> HIDE DEF s
<1>6. s = [docs |-> ds, deleted |-> p.deleted, facts |-> fs, timeline |-> ts]
  BY <1>5 DEF IsProfile
<1> QED BY <1>2, <1>6 DEF ds, fs, ts

\* Event by event, what was right stays right and what was on record stays.
LEMMA EventsIngested ==
  ASSUME NEW facts \in FactTable, NEW timeline \in EntryTable, NEW d \in Documents,
         NEW events \in Seq(Event), NEW docs, d \in docs, Sound(facts, timeline, docs)
  PROVE  LET fs == FactsUpdated(facts, events, d)  ts == TimelineUpdated(timeline, events, d) IN
         /\ fs \in FactTable /\ ts \in EntryTable /\ Sound(fs, ts, docs)
         /\ \A o \in Event, s \in Documents :
              Recorded(facts, timeline, o, s) => Recorded(fs, ts, o, s)
         /\ \A j \in DOMAIN events : Recorded(fs, ts, events[j], d)
<1>1. PICK f : FactSteps(f, facts, events, d)
  BY FactsRun
<1>2. PICK t : EntrySteps(t, timeline, events, d)
  BY TimelineRun
<1> DEFINE n == Len(events)
           Kept(i) == \A o \in Event, s \in Documents :
                        Recorded(facts, timeline, o, s) => Recorded(f[i], t[i], o, s)
           Done(i) == \A j \in 1 .. i : Recorded(f[i], t[i], events[j], d)
           S == {i \in 0 .. n : Sound(f[i], t[i], docs) /\ Kept(i) /\ Done(i)}
<1>3. /\ n \in Nat /\ DOMAIN events = 1 .. n /\ \A i \in 1 .. n : events[i] \in Event
      /\ f[0] = facts /\ f[n] = FactsUpdated(facts, events, d)
      /\ t[0] = timeline /\ t[n] = TimelineUpdated(timeline, events, d)
      /\ \A i \in 0 .. n : f[i] \in FactTable /\ t[i] \in EntryTable
      /\ \A i \in 1 .. n : /\ f[i] = FactIngested(f[i - 1], events[i], d)
                           /\ t[i] = Consolidated(t[i - 1], events[i], d)
  BY <1>1, <1>2 DEF FactSteps, EntrySteps
<1> HIDE DEF n
<1>4. 0 \in S
  BY <1>3
<1>5. ASSUME NEW i \in 0 .. n, i < n, i \in S
      PROVE  i + 1 \in S
  <2> DEFINE e == events[i + 1]
             g == FactIngested(f[i], e, d)
             u == Consolidated(t[i], e, d)
  <2>1. i + 1 \in 1 .. n /\ (i + 1) - 1 = i /\ i \in Nat
    BY <1>3, <1>5
  <2>2. e \in Event /\ f[i] \in FactTable /\ t[i] \in EntryTable
    BY <1>3, <2>1
  <2>3. f[i + 1] = g /\ t[i + 1] = u
    BY <1>3, <2>1
  <2>4. Sound(f[i], t[i], docs) /\ Kept(i) /\ Done(i)
    BY <1>5
  <2>5. Sound(g, u, docs)
    BY <2>2, <2>4, SoundStep
  <2>6. /\ Recorded(g, u, e, d)
        /\ \A o \in Event, s \in Documents : Recorded(f[i], t[i], o, s) => Recorded(g, u, o, s)
    BY <2>2, RecordedStep
  <2> HIDE DEF g, u
  <2>7. Kept(i + 1)
    BY <2>3, <2>4, <2>6
  <2>8. Done(i + 1)
    <3> SUFFICES ASSUME NEW j \in 1 .. i + 1
                 PROVE  Recorded(g, u, events[j], d)
      BY <2>3
    <3>1. CASE j = i + 1
      BY <2>6, <3>1
    <3>2. CASE j # i + 1
      <4>1. j \in 1 .. i /\ j \in 1 .. n
        BY <1>3, <1>5, <2>1, <3>2
      <4>2. Recorded(f[i], t[i], events[j], d) /\ events[j] \in Event
        BY <1>3, <2>4, <4>1
      <4> QED BY <2>6, <4>2
    <3> QED BY <3>1, <3>2
  <2> HIDE DEF Kept, Done
  <2> QED BY <2>1, <2>3, <2>5, <2>7, <2>8
<1> HIDE DEF S
<1>6. \A i \in 0 .. n : i < n /\ i \in S => i + 1 \in S
  BY <1>5
<1>7. 0 .. n \subseteq S
  BY <1>3, <1>4, <1>6, SetInduction
<1>8. n \in 0 .. n /\ n \in S
  BY <1>3, <1>7
<1>9. Sound(f[n], t[n], docs) /\ Kept(n) /\ Done(n)
  BY <1>8 DEF S
<1> QED BY <1>3, <1>8, <1>9

LEMMA IngestedGood ==
  ASSUME NEW p, GoodProfile(p), NEW d \in Documents
  PROVE  GoodProfile(Ingested(p, Content[d], d))
<1> DEFINE events == Content[d]
           ds == p.docs \cup {d}
           fs == FactsUpdated(p.facts, events, d)
           ts == TimelineUpdated(p.timeline, events, d)
           q == [docs |-> ds, deleted |-> p.deleted, facts |-> fs, timeline |-> ts]
<1>1. /\ p \in Profiles /\ p.docs \subseteq Documents /\ p.deleted \in {"no", "yes"}
      /\ p.facts \in FactTable /\ p.timeline \in EntryTable
      /\ Sound(p.facts, p.timeline, p.docs) /\ Whole(p.facts, p.timeline, p.docs)
  BY DEF GoodProfile, Profiles, FactTable, EntryTable
<1>2. events \in Seq(Event) /\ \A c \in Documents : Content[c] \in Seq(Event)
  BY ContentAssumption
<1>3. Ingested(p, events, d) = q
  BY <1>1, IngestedFields
<1>4. Sound(p.facts, p.timeline, ds)
  BY <1>1 DEF Sound, Within
<1>5. d \in ds
  OBVIOUS
<1> HIDE DEF events, ds
<1>6. /\ fs \in FactTable /\ ts \in EntryTable /\ Sound(fs, ts, ds)
      /\ \A o \in Event, s \in Documents :
           Recorded(p.facts, p.timeline, o, s) => Recorded(fs, ts, o, s)
      /\ \A j \in DOMAIN events : Recorded(fs, ts, events[j], d)
  BY <1>1, <1>2, <1>4, <1>5, EventsIngested
<1> HIDE DEF fs, ts
<1>7. Whole(fs, ts, ds)
  <2> SUFFICES ASSUME NEW c \in ds, NEW i \in DOMAIN Content[c]
               PROVE  Recorded(fs, ts, Content[c][i], c)
    BY DEF Whole
  <2>1. CASE c = d
    BY <1>6, <2>1 DEF events
  <2>2. CASE c # d
    <3>1. c \in p.docs /\ c \in Documents
      BY <1>1, <2>2 DEF ds
    <3>2. Recorded(p.facts, p.timeline, Content[c][i], c)
      BY <1>1, <3>1 DEF Whole
    <3>3. Content[c][i] \in Event
      BY <1>2, <3>1
    <3> QED BY <1>6, <3>1, <3>2, <3>3
  <2> QED BY <2>1, <2>2
<1>8. ds \in SUBSET Documents
  BY <1>1 DEF ds
<1>9. /\ q \in Profiles /\ q.docs = ds /\ q.facts = fs /\ q.timeline = ts
  BY <1>1, <1>6, <1>8 DEF Profiles, FactTable, EntryTable
<1> HIDE DEF q
<1>10. GoodProfile(q)
  BY <1>6, <1>7, <1>9 DEF GoodProfile
<1> QED BY <1>3, <1>10 DEF events

LEMMA EmptyGood == GoodProfile(EmptyProfile)
<1>1. /\ EmptyProfile \in Profiles /\ EmptyProfile.docs = {}
      /\ \A x \in Descriptions : EmptyProfile.facts[x] = None
      /\ \A k \in Dates \X Descriptions : EmptyProfile.timeline[k] = None
  BY DEF EmptyProfile, Profiles
<1> DEFINE fs == EmptyProfile.facts
           ts == EmptyProfile.timeline
<1> HIDE DEF fs, ts
<1>2. /\ \A x \in Descriptions : fs[x] = None
      /\ \A k \in Dates \X Descriptions : ts[k] = None
  BY <1>1 DEF fs, ts
<1>3. Sound(fs, ts, {}) /\ Whole(fs, ts, {})
  BY <1>2 DEF Sound, FactsCounted, EntriesCounted, Mutual, Match, Within, Whole
<1> QED BY <1>1, <1>3 DEF GoodProfile, fs, ts

LEMMA DeletedGood ==
  ASSUME NEW p, GoodProfile(p)
  PROVE  GoodProfile([p EXCEPT !.deleted = "yes"])
<1> DEFINE q == [p EXCEPT !.deleted = "yes"]
<1>1. /\ q \in Profiles /\ q.docs = p.docs /\ q.facts = p.facts /\ q.timeline = p.timeline
  BY DEF GoodProfile, Profiles
<1> HIDE DEF q
<1>2. GoodProfile(q)
  BY <1>1 DEF GoodProfile
<1> QED BY <1>2 DEF q
-----------------------------------------------------------------------------
(* The latest version of a document                                        *)

LEMMA HasLatest ==
  ASSUME NEW rows \in Seq(Row), rows # <<>>
  PROVE  \E i \in DOMAIN rows : \A j \in DOMAIN rows : rows[j].version <= rows[i].version
<1> DEFINE n == Len(rows)
           Top(k, i) == \A j \in 1 .. i : rows[j].version <= rows[k].version
           S == {i \in 0 .. n : i = 0 \/ \E k \in 1 .. i : Top(k, i)}
<1>1. n \in Nat \ {0} /\ DOMAIN rows = 1 .. n /\ \A i \in 1 .. n : rows[i].version \in Nat
  <2>1. n \in Nat \ {0} /\ DOMAIN rows = 1 .. n
    OBVIOUS
  <2>2. \A i \in 1 .. n : rows[i] \in Row
    OBVIOUS
  <2> HIDE DEF n
  <2>3. \A r \in Row : r.version \in Nat
    BY DEF Row
  <2> QED BY <2>1, <2>2, <2>3
<1> HIDE DEF n
<1>2. 0 \in S
  BY <1>1
<1>3. ASSUME NEW i \in 0 .. n, i < n, i \in S
      PROVE  i + 1 \in S
  <2>1. i + 1 \in 1 .. n /\ i \in Nat
    BY <1>1, <1>3
  <2>2. CASE i = 0
    <3>1. Top(1, i + 1)
      BY <1>1, <2>1, <2>2
    <3> QED BY <2>1, <2>2, <3>1
  <2>3. CASE i # 0
    <3>1. PICK k \in 1 .. i : Top(k, i)
      BY <1>3, <2>3
    <3>2. k \in 1 .. n /\ k \in 1 .. i + 1
      BY <1>1, <1>3, <3>1
    <3>3. CASE rows[i + 1].version <= rows[k].version
      <4>1. Top(k, i + 1)
        BY <1>1, <2>1, <3>1, <3>2, <3>3
      <4> QED BY <2>1, <3>2, <4>1
    <3>4. CASE ~ (rows[i + 1].version <= rows[k].version)
      <4>1. rows[k].version <= rows[i + 1].version
        BY <1>1, <2>1, <3>2, <3>4
      <4>2. ASSUME NEW j \in 1 .. i + 1
            PROVE  rows[j].version <= rows[i + 1].version
        <5>1. CASE j = i + 1
          BY <1>1, <2>1, <5>1
        <5>2. CASE j # i + 1
          <6>1. j \in 1 .. i /\ j \in 1 .. n
            BY <1>1, <1>3, <5>2
          <6>2. rows[j].version <= rows[k].version
            BY <3>1, <6>1
          <6> QED BY <1>1, <2>1, <3>2, <4>1, <6>1, <6>2
        <5> QED BY <5>1, <5>2
      <4>3. Top(i + 1, i + 1)
        BY <4>2
      <4>4. i + 1 \in 1 .. i + 1
        BY <2>1
      <4> HIDE DEF Top
      <4> QED BY <2>1, <4>3, <4>4
    <3> QED BY <3>3, <3>4
  <2> QED BY <2>2, <2>3
<1> HIDE DEF S
<1>4. \A i \in 0 .. n : i < n /\ i \in S => i + 1 \in S
  BY <1>3
<1>5. 0 .. n \subseteq S
  BY <1>1, <1>2, <1>4, SetInduction
<1>6. n \in S /\ n # 0
  BY <1>1, <1>5
<1> HIDE DEF Top
<1>7. PICK k \in 1 .. n : Top(k, n)
  BY <1>6 DEF S
<1>8. \A j \in 1 .. n : rows[j].version <= rows[k].version
  BY <1>7 DEF Top
<1> QED BY <1>1, <1>7, <1>8

\* The rows of a document: its upload, then what processing it stored.
Filed(rows) ==
  /\ rows # <<>> => rows[1].version = 1
  /\ \A i \in 2 .. Len(rows) : rows[i].status = "processed" /\ rows[i].version >= 2

\* Once a document has been processed, its latest version is a processed one.
LEMMA LatestRow ==
  ASSUME NEW d \in Documents, records[d] \in Seq(Row), records[d] # <<>>, Filed(records[d])
  PROVE  /\ Latest(d) \in Row
         /\ Len(records[d]) >= 2 => Latest(d).status = "processed"
<1> DEFINE rows == records[d]
           Best(i) == \A j \in DOMAIN rows : rows[j].version <= rows[i].version
           i == CHOOSE k \in DOMAIN rows : Best(k)
<1>1. Latest(d) = rows[i]
  BY DEF Latest
<1>2. \E k \in DOMAIN rows : Best(k)
  BY HasLatest
<1> HIDE DEF Best
<1>3. i \in DOMAIN rows /\ Best(i)
  BY <1>2
<1> HIDE DEF i
<1>4. DOMAIN rows = 1 .. Len(rows) /\ Len(rows) \in Nat /\ \A j \in DOMAIN rows : rows[j] \in Row
  OBVIOUS
<1>5. ASSUME Len(rows) >= 2
      PROVE  rows[i].status = "processed"
  <2>1. 2 \in DOMAIN rows /\ 2 \in 2 .. Len(rows)
    BY <1>4, <1>5
  <2>2. rows[2].version >= 2 /\ rows[2].version <= rows[i].version
    BY <1>3, <2>1 DEF Best, Filed
  <2>3. i # 1
    <3> SUFFICES ASSUME i = 1
                 PROVE  FALSE
      OBVIOUS
    <3>1. rows[i].version = 1 /\ rows[2].version \in Nat
      BY <1>4, <2>1 DEF Filed, Row
    <3> QED BY <2>2, <3>1
  <2>4. i \in 2 .. Len(rows)
    BY <1>3, <1>4, <2>3
  <2> QED BY <2>4 DEF Filed
<1> QED BY <1>1, <1>3, <1>4, <1>5
-----------------------------------------------------------------------------
(* The invariant                                                           *)

\* What a task holds, when recs are the rows of the documents.
Holds(r, recs) ==
  /\ r.at \in {"version", "insert", "trigger"} => r.op = "process" /\ recs[r.doc] # <<>>
  /\ r.at = "insert" => r.number >= 2
  /\ r.at = "trigger" => Len(recs[r.doc]) >= 2
  /\ r.op = "ingest" => r.events = Content[r.doc]
  /\ r.at \in {"create", "insert_profile"} => r.copy = EmptyProfile
  /\ r.at = "save" => GoodProfile(r.copy)

\* A message is about a document on record; a case is triggered once it is processed.
Queued(q, recs) ==
  \A m \in Messages : q[m] > 0 =>
    /\ recs[m.doc] # <<>>
    /\ m.task = "ingest" => Len(recs[m.doc]) >= 2

CaseInv ==
  /\ TypeOK
  /\ \A d \in Documents : Filed(records[d])
  /\ Queued(queue, records)
  /\ \A x \in Processes : Holds(task[x], records)
  /\ profile # NoRow => GoodProfile(profile)
-----------------------------------------------------------------------------
(* What becomes of a task                                                  *)

Places == {"idle", "version", "insert", "trigger", "get", "create", "insert_profile", "save",
           "over"}

Ops == {"process", "ingest", "none"} \cup Requests

LEMMA AtSet ==
  ASSUME NEW r \in Task, NEW v \in Places
  PROVE  LET q == [r EXCEPT !.at = v] IN
         /\ q \in Task /\ q.at = v /\ q.op = r.op /\ q.doc = r.doc /\ q.number = r.number
         /\ q.events = r.events /\ q.copy = r.copy
BY DEF Task, Places

LEMMA NumberSet ==
  ASSUME NEW r \in Task, NEW v \in Nat
  PROVE  LET q == [r EXCEPT !.number = v] IN
         /\ q \in Task /\ q.number = v /\ q.op = r.op /\ q.doc = r.doc /\ q.at = r.at
         /\ q.events = r.events /\ q.copy = r.copy
BY DEF Task

LEMMA CopySet ==
  ASSUME NEW r \in Task, NEW v \in Profiles
  PROVE  LET q == [r EXCEPT !.copy = v] IN
         /\ q \in Task /\ q.copy = v /\ q.op = r.op /\ q.doc = r.doc /\ q.at = r.at
         /\ q.events = r.events /\ q.number = r.number
BY DEF Task

LEMMA OpSet ==
  ASSUME NEW r \in Task, NEW v \in Ops
  PROVE  LET q == [r EXCEPT !.op = v] IN
         /\ q \in Task /\ q.op = v /\ q.copy = r.copy /\ q.doc = r.doc /\ q.at = r.at
         /\ q.events = r.events /\ q.number = r.number
BY DEF Task, Ops

LEMMA FinishedHolds ==
  ASSUME NEW x, NEW recs
  PROVE  Finished(x) \in Task /\ Holds(Finished(x), recs) /\ NoTask \in Task /\ Holds(NoTask, recs)
<1> DEFINE at == IF x \in Clerks THEN "over" ELSE "idle"
           r == [NoTask EXCEPT !.at = at]
<1>1. Finished(x) = r /\ at \in {"idle", "over"}
  BY DEF Finished
<1>2. NoTask \in Task /\ NoTask.at = "idle" /\ NoTask.op = "none"
  BY DEF NoTask, Task
<1> HIDE DEF at
<1>3. r \in Task /\ r.at = at /\ r.op = "none"
  <2>1. at \in Places
    BY <1>1 DEF Places
  <2> QED BY <1>2, <2>1, AtSet
<1> HIDE DEF r
<1>4. Holds(r, recs) /\ Holds(NoTask, recs)
  BY <1>1, <1>2, <1>3 DEF Holds
<1> QED BY <1>1, <1>2, <1>3, <1>4

\* A task goes on, with rows and messages that only come.
LEMMA CaseKept ==
  ASSUME CaseInv, NEW x \in Processes, NEW r \in Task, task' = [task EXCEPT ![x] = r],
         Holds(r, records), records' = records,
         queue' \in [Messages -> Nat], Queued(queue', records),
         redelivered' = redelivered, failed' \subseteq Documents,
         settled' \subseteq Documents \cup Clerks,
         profile' = NoRow \/ GoodProfile(profile')
  PROVE  CaseInv'
<1>1. /\ task' \in [Processes -> Task]
      /\ \A y \in Processes : Holds(task'[y], records)
  BY DEF CaseInv, TypeOK
<1>2. profile' = NoRow \/ profile' \in Profiles
  BY DEF GoodProfile
<1>3. TypeOK'
  BY <1>1, <1>2 DEF CaseInv, TypeOK
<1> QED BY <1>1, <1>3 DEF CaseInv

\* A step of x alone.
LEMMA CaseStep ==
  ASSUME CaseInv, NEW x \in Processes, NEW r \in Task, task' = [task EXCEPT ![x] = r],
         Holds(r, records), UNCHANGED <<records, queue, redelivered>>,
         failed' \subseteq Documents, settled' \subseteq Documents \cup Clerks,
         profile' = NoRow \/ GoodProfile(profile')
  PROVE  CaseInv'
<1>1. queue' \in [Messages -> Nat] /\ Queued(queue', records) /\ records' = records
      /\ redelivered' = redelivered
  BY DEF CaseInv, TypeOK
<1> QED BY <1>1, CaseKept
-----------------------------------------------------------------------------
(* The upload, the broker and process_document                             *)

LEMMA RowsGrow ==
  ASSUME LastingInv, CaseInv, NEW d \in Documents, NEW rows \in Seq(Row),
         records' = [records EXCEPT ![d] = rows],
         rows # <<>>, Len(rows) >= Len(records[d]), Filed(rows)
  PROVE  /\ records' \in [Documents -> Seq(Row)]
         /\ records'[d] = rows
         /\ \A c \in Documents : Filed(records'[c])
         /\ Queued(queue, records')
         /\ \A x \in Processes : Holds(task[x], records')
<1>1. /\ records \in [Documents -> Seq(Row)] /\ \A c \in Documents : Filed(records[c])
      /\ Queued(queue, records) /\ \A x \in Processes : Holds(task[x], records)
      /\ task \in [Processes -> Task]
  BY DEF CaseInv, TypeOK
<1>2. /\ records' \in [Documents -> Seq(Row)] /\ records'[d] = rows
      /\ \A c \in Documents \ {d} : records'[c] = records[c]
  BY <1>1
<1>3. \A c \in Documents : Filed(records'[c])
  BY <1>1, <1>2
<1>4. \A c \in Documents : /\ records[c] # <<>> => records'[c] # <<>>
                           /\ Len(records[c]) >= 2 => Len(records'[c]) >= 2
  <2>1. Len(rows) \in Nat /\ Len(records[d]) \in Nat
    BY <1>1
  <2> QED BY <1>2, <2>1
<1>5. Queued(queue, records')
  BY <1>1, <1>4 DEF Queued, Messages
<1>6. ASSUME NEW x \in Processes
      PROVE  Holds(task[x], records')
  <2>1. task[x].op = "process" => task[x].doc \in Documents
    BY DEF LastingInv, Shapes, Fits
  <2> QED BY <1>1, <1>4, <2>1 DEF Holds
<1> QED BY <1>2, <1>3, <1>5, <1>6

LEMMA QueueMore ==
  ASSUME queue \in [Messages -> Nat], NEW m \in Messages, NEW recs, Queued(queue, recs),
         queue' = [queue EXCEPT ![m] = @ + 1],
         recs[m.doc] # <<>>, m.task = "ingest" => Len(recs[m.doc]) >= 2
  PROVE  queue' \in [Messages -> Nat] /\ Queued(queue', recs)
<1>1. /\ queue' \in [Messages -> Nat]
      /\ \A o \in Messages \ {m} : queue'[o] = queue[o]
  OBVIOUS
<1> QED BY <1>1 DEF Queued

LEMMA CaseUpload ==
  ASSUME LastingInv, CaseInv, NEW d \in Documents, Upload(d)
  PROVE  CaseInv'
<1> DEFINE row == [version |-> 1, status |-> "received"]
           m == [task |-> "process", doc |-> d]
<1>1. /\ records' = [records EXCEPT ![d] = <<row>>] /\ records[d] = <<>>
      /\ profile' = profile /\ task' = task /\ redelivered' = redelivered /\ settled' = settled
      /\ failed' \in {failed, failed \cup {d}}
      /\ queue' = queue \/ queue' = [queue EXCEPT ![m] = @ + 1]
  BY DEF Upload
<1>2. row \in Row /\ row.version = 1
  BY DEF Row, Statuses
<1> HIDE DEF row
<1>3. <<row>> \in Seq(Row) /\ <<row>> # <<>> /\ Len(<<row>>) = 1 /\ Len(<<>>) = 0
      /\ <<row>>[1] = row
  BY <1>2
<1>4. Filed(<<row>>) /\ Len(<<row>>) >= Len(records[d])
  BY <1>1, <1>2, <1>3 DEF Filed
<1>5. /\ records' \in [Documents -> Seq(Row)] /\ records'[d] = <<row>>
      /\ \A c \in Documents : Filed(records'[c])
      /\ Queued(queue, records')
      /\ \A x \in Processes : Holds(task[x], records')
  BY <1>1, <1>3, <1>4, RowsGrow
<1>6. queue \in [Messages -> Nat]
  BY DEF CaseInv, TypeOK
<1>7. m \in Messages /\ m.doc = d /\ m.task = "process"
  BY DEF Messages
<1> HIDE DEF m
<1>8. queue' \in [Messages -> Nat] /\ Queued(queue', records')
  <2>1. CASE queue' = queue
    BY <1>5, <1>6, <2>1
  <2>2. CASE queue' = [queue EXCEPT ![m] = @ + 1]
    BY <1>3, <1>5, <1>6, <1>7, <2>2, QueueMore
  <2> QED BY <1>1, <2>1, <2>2
<1>9. TypeOK'
  BY <1>1, <1>5, <1>8 DEF CaseInv, TypeOK
<1> QED BY <1>1, <1>5, <1>8, <1>9 DEF CaseInv

LEMMA CaseRedeliver ==
  ASSUME CaseInv, NEW m \in Messages, Redeliver(m)
  PROVE  CaseInv'
<1>1. /\ queue[m] > 0 /\ queue' = [queue EXCEPT ![m] = @ + 1] /\ redelivered < MaxRedeliveries
      /\ redelivered' = redelivered + 1
      /\ UNCHANGED <<records, profile, task, failed, settled>>
  BY DEF Redeliver
<1>2. queue \in [Messages -> Nat] /\ Queued(queue, records) /\ redelivered \in 0 .. MaxRedeliveries
  BY DEF CaseInv, TypeOK
<1>3. records[m.doc] # <<>> /\ (m.task = "ingest" => Len(records[m.doc]) >= 2)
  BY <1>1, <1>2 DEF Queued
<1>4. queue' \in [Messages -> Nat] /\ Queued(queue', records)
  BY <1>1, <1>2, <1>3, QueueMore
<1>5. redelivered' \in 0 .. MaxRedeliveries
  BY <1>1, <1>2, ProcessesAssumption
<1>6. TypeOK'
  BY <1>1, <1>4, <1>5 DEF CaseInv, TypeOK
<1> QED BY <1>1, <1>4, <1>6 DEF CaseInv

LEMMA CaseTake ==
  ASSUME LastingInv, CaseInv, NEW w \in Workers, NEW m \in Messages, Take(w, m)
  PROVE  CaseInv'
<1> DEFINE at == IF m.task = "process" THEN "version" ELSE "get"
           ev == IF m.task = "ingest" /\ Latest(m.doc).status = "processed"
                 THEN Content[m.doc] ELSE <<>>
           r == [NoTask EXCEPT !.op = m.task, !.doc = m.doc, !.at = at, !.events = ev]
<1>1. /\ queue[m] > 0 /\ queue' = [queue EXCEPT ![m] = @ - 1]
      /\ task' = [task EXCEPT ![w] = r]
      /\ UNCHANGED <<records, profile, redelivered, failed, settled>>
  BY DEF Take
<1>2. /\ w \in Processes /\ m.task \in {"process", "ingest"} /\ m.doc \in Documents
  BY DEF Processes, Messages
<1>3. /\ queue \in [Messages -> Nat] /\ Queued(queue, records)
      /\ records[m.doc] \in Seq(Row) /\ Filed(records[m.doc])
      /\ failed \subseteq Documents /\ settled \subseteq Documents \cup Clerks
      /\ profile = NoRow \/ GoodProfile(profile)
  BY <1>2 DEF CaseInv, TypeOK
<1>4. records[m.doc] # <<>> /\ (m.task = "ingest" => Len(records[m.doc]) >= 2)
  BY <1>1, <1>3 DEF Queued
<1>5. m.task = "ingest" => Latest(m.doc).status = "processed"
  BY <1>2, <1>3, <1>4, LatestRow
<1>6. Content[m.doc] \in Seq(Event)
  BY <1>2, ContentAssumption
<1>7. /\ ev \in Seq(Event) /\ (m.task = "ingest" => ev = Content[m.doc])
      /\ at \in Places /\ m.task \in Ops
      /\ (m.task = "process" => at = "version") /\ (m.task = "ingest" => at = "get")
  BY <1>2, <1>5, <1>6 DEF Places, Ops
<1> HIDE DEF at, ev
<1>8. r \in Task /\ r.op = m.task /\ r.doc = m.doc /\ r.at = at /\ r.events = ev
  <2> DEFINE o == m.task
             c == m.doc
  <2>1. o \in Ops /\ c \in Documents /\ at \in Places /\ ev \in Seq(Event)
    BY <1>2, <1>7
  <2>2. r = [NoTask EXCEPT !.op = o, !.doc = c, !.at = at, !.events = ev]
    OBVIOUS
  <2> HIDE DEF o, c
  <2> DEFINE q == [NoTask EXCEPT !.op = o, !.doc = c, !.at = at, !.events = ev]
  <2>3. q \in Task /\ q.op = o /\ q.doc = c /\ q.at = at /\ q.events = ev
    BY <2>1 DEF Task, Ops, Places, NoTask
  <2> HIDE DEF q
  <2>4. r = q
    BY <2>2 DEF q
  <2> HIDE DEF r
  <2> QED BY <2>3, <2>4 DEF o, c
<1> HIDE DEF r
<1>9. Holds(r, records)
  BY <1>2, <1>4, <1>7, <1>8 DEF Holds
<1>10. queue' \in [Messages -> Nat] /\ Queued(queue', records)
  <2>1. queue[m] \in Nat /\ queue[m] - 1 \in Nat
    BY <1>1, <1>3
  <2>2. /\ queue' \in [Messages -> Nat] /\ queue'[m] = queue[m] - 1
        /\ \A o \in Messages \ {m} : queue'[o] = queue[o]
    BY <1>1, <1>3, <2>1
  <2>3. \A o \in Messages : queue'[o] > 0 => queue[o] > 0
    BY <1>1, <2>2
  <2> QED BY <1>3, <2>2, <2>3 DEF Queued
<1>11. /\ failed' \subseteq Documents /\ settled' \subseteq Documents \cup Clerks
       /\ profile' = NoRow \/ GoodProfile(profile')
       /\ records' = records /\ redelivered' = redelivered
  <2>1. profile' = profile /\ failed' = failed /\ settled' = settled /\ records' = records
        /\ redelivered' = redelivered
    BY <1>1
  <2> QED BY <1>3, <2>1
<1> QED BY <1>1, <1>2, <1>8, <1>9, <1>10, <1>11, CaseKept
\* What holds of any process of the case, whatever it does next.
LEMMA CaseFacts ==
  ASSUME LastingInv, CaseInv, NEW x \in Processes
  PROVE  /\ task[x] \in Task /\ Holds(task[x], records) /\ Fits(x, task[x])
         /\ failed \subseteq Documents /\ settled \subseteq Documents \cup Clerks
         /\ profile = NoRow \/ GoodProfile(profile)
         /\ failed \cup ({task[x].doc} \ {None}) \subseteq Documents
<1>1. /\ task[x] \in Task /\ Holds(task[x], records) /\ Fits(x, task[x])
      /\ failed \subseteq Documents /\ settled \subseteq Documents \cup Clerks
      /\ profile = NoRow \/ GoodProfile(profile)
  BY DEF CaseInv, TypeOK, LastingInv, Shapes
<1>2. task[x].doc \in Documents \cup {None}
  BY <1>1 DEF Task
<1> QED BY <1>1, <1>2

LEMMA CaseReadVersion ==
  ASSUME LastingInv, CaseInv, NEW w \in Workers, ReadVersion(w)
  PROVE  CaseInv'
<1> DEFINE n == Latest(task[w].doc).version + 1
           q == [task[w] EXCEPT !.at = "insert"]
           r == [q EXCEPT !.number = n]
<1>0. w \in Processes
  BY DEF Processes
<1>1. /\ task[w] \in Task /\ Holds(task[w], records) /\ Fits(w, task[w])
      /\ failed \subseteq Documents /\ settled \subseteq Documents \cup Clerks
      /\ profile = NoRow \/ GoodProfile(profile)
  BY <1>0, CaseFacts
<1>2. /\ task[w].at = "version"
      /\ task' = [task EXCEPT ![w] = r]
      /\ UNCHANGED <<records, queue, redelivered>>
      /\ profile' = profile /\ failed' = failed /\ settled' = settled
  BY <1>0 DEF ReadVersion, CaseInv, TypeOK
<1>3. task[w].op = "process" /\ task[w].doc \in Documents /\ records[task[w].doc] # <<>>
  BY <1>1, <1>2 DEF Holds, Fits
<1>4. Latest(task[w].doc) \in Row
  BY <1>3, LatestRow DEF CaseInv, TypeOK
<1>5. n \in Nat /\ n >= 2
  BY <1>4 DEF Row
<1> HIDE DEF n
<1>6. q \in Task /\ q.at = "insert" /\ q.op = "process" /\ q.doc = task[w].doc
  <2>1. "insert" \in Places
    BY DEF Places
  <2> QED BY <1>1, <1>3, <2>1, AtSet
<1> HIDE DEF q
<1>7. r \in Task /\ r.at = "insert" /\ r.op = "process" /\ r.doc = task[w].doc /\ r.number = n
  BY <1>5, <1>6, NumberSet
<1> HIDE DEF r
<1>8. Holds(r, records)
  BY <1>3, <1>5, <1>7 DEF Holds
<1> QED BY <1>0, <1>1, <1>2, <1>7, <1>8, CaseStep

LEMMA CaseInsertRecord ==
  ASSUME LastingInv, CaseInv, NEW w \in Workers, InsertRecord(w)
  PROVE  CaseInv'
<1> DEFINE d == task[w].doc
           row == [version |-> task[w].number, status |-> "processed"]
           old == records[d]
           rows == Append(old, row)
           r == [task[w] EXCEPT !.at = "trigger"]
<1>0. w \in Processes
  BY DEF Processes
<1>1. /\ task[w] \in Task /\ Holds(task[w], records) /\ Fits(w, task[w])
  BY <1>0, CaseFacts
<1>2. /\ task[w].at = "insert"
      /\ records' = [records EXCEPT ![d] = rows]
      /\ task' = [task EXCEPT ![w] = r]
      /\ UNCHANGED <<queue, profile, redelivered, failed, settled>>
  BY DEF InsertRecord
<1>3. task[w].op = "process" /\ d \in Documents /\ old # <<>> /\ task[w].number >= 2
      /\ task[w].number \in Nat
  BY <1>1, <1>2 DEF Holds, Fits, Task
<1>4. old \in Seq(Row) /\ Filed(old)
  BY <1>3 DEF CaseInv, TypeOK
<1>5. row \in Row /\ row.version >= 2 /\ row.status = "processed"
  BY <1>3 DEF Row, Statuses
<1>6. "trigger" \in Places
  BY DEF Places
<1>7. r \in Task /\ r.at = "trigger" /\ r.op = "process" /\ r.doc = d
  BY <1>1, <1>3, <1>6, AtSet
<1> HIDE DEF row, r, d, old
<1>8. /\ rows \in Seq(Row) /\ Len(rows) = Len(old) + 1 /\ Len(old) \in Nat \ {0}
      /\ \A i \in 1 .. Len(old) : rows[i] = old[i]
      /\ rows[Len(old) + 1] = row
  BY <1>3, <1>4, <1>5
<1>9. /\ Len(rows) >= 2 /\ Len(rows) >= Len(old) /\ rows # <<>>
  BY <1>8
<1> HIDE DEF rows
<1>10. Filed(rows)
  <2>1. rows[1].version = 1
    BY <1>3, <1>4, <1>8 DEF Filed
  <2>2. ASSUME NEW i \in 2 .. Len(rows)
        PROVE  rows[i].status = "processed" /\ rows[i].version >= 2
    <3>1. CASE i = Len(old) + 1
      BY <1>5, <1>8, <3>1
    <3>2. CASE i # Len(old) + 1
      <4>1. i \in 2 .. Len(old) /\ i \in 1 .. Len(old)
        BY <1>8, <3>2
      <4> QED BY <1>4, <1>8, <4>1 DEF Filed
    <3> QED BY <3>1, <3>2
  <2> QED BY <2>1, <2>2 DEF Filed
<1>11. /\ records' \in [Documents -> Seq(Row)] /\ records'[d] = rows
       /\ \A c \in Documents : Filed(records'[c])
       /\ Queued(queue, records')
       /\ \A x \in Processes : Holds(task[x], records')
  BY <1>2, <1>3, <1>8, <1>9, <1>10, RowsGrow DEF old
<1>12. Holds(r, records')
  BY <1>7, <1>9, <1>11 DEF Holds
<1>13. task' \in [Processes -> Task] /\ \A x \in Processes : Holds(task'[x], records')
  BY <1>0, <1>2, <1>7, <1>11, <1>12 DEF CaseInv, TypeOK
<1>14. TypeOK'
  BY <1>2, <1>11, <1>13 DEF CaseInv, TypeOK
<1> QED BY <1>2, <1>11, <1>13, <1>14 DEF CaseInv

LEMMA CaseTrigger ==
  ASSUME LastingInv, CaseInv, NEW w \in Workers, Trigger(w)
  PROVE  CaseInv'
<1> DEFINE m == [task |-> "ingest", doc |-> task[w].doc]
<1>0. w \in Processes
  BY DEF Processes
<1>1. /\ Holds(task[w], records) /\ Fits(w, task[w])
      /\ failed \subseteq Documents /\ settled \subseteq Documents \cup Clerks
      /\ profile = NoRow \/ GoodProfile(profile)
  BY <1>0, CaseFacts
<1>2. /\ task[w].at = "trigger"
      /\ queue' = [queue EXCEPT ![m] = @ + 1] /\ task' = [task EXCEPT ![w] = NoTask]
      /\ records' = records /\ redelivered' = redelivered
      /\ profile' = profile /\ failed' = failed /\ settled' = settled
  BY DEF Trigger
<1>3. /\ task[w].doc \in Documents /\ records[task[w].doc] # <<>>
      /\ Len(records[task[w].doc]) >= 2
  BY <1>1, <1>2 DEF Holds, Fits
<1>4. m \in Messages /\ m.doc = task[w].doc
  BY <1>3 DEF Messages
<1>5. queue \in [Messages -> Nat] /\ Queued(queue, records)
  BY DEF CaseInv, TypeOK
<1> HIDE DEF m
<1>6. queue' \in [Messages -> Nat] /\ Queued(queue', records)
  BY <1>2, <1>3, <1>4, <1>5, QueueMore
<1>7. NoTask \in Task /\ Holds(NoTask, records)
  BY FinishedHolds
<1> QED BY <1>0, <1>1, <1>2, <1>6, <1>7, CaseKept

-----------------------------------------------------------------------------
(* The profile                                                             *)

LEMMA CaseAsk ==
  ASSUME LastingInv, CaseInv, NEW c \in Clerks, NEW op \in Requests, Ask(c, op)
  PROVE  CaseInv'
<1> DEFINE q == [task[c] EXCEPT !.op = op]
           r == [q EXCEPT !.at = "get"]
<1>0. c \in Processes /\ op \in Ops /\ op # "ingest" /\ "get" \in Places
  BY DEF Processes, Requests, Ops, Places
<1>1. /\ task[c] \in Task
      /\ failed \subseteq Documents /\ settled \subseteq Documents \cup Clerks
      /\ profile = NoRow \/ GoodProfile(profile)
  BY <1>0, CaseFacts
<1>2. /\ task' = [task EXCEPT ![c] = r] /\ UNCHANGED <<records, queue, redelivered>>
      /\ profile' = profile /\ failed' = failed /\ settled' = settled
  BY <1>0 DEF Ask, CaseInv, TypeOK
<1>3. q \in Task /\ q.op = op
  BY <1>0, <1>1, OpSet
<1> HIDE DEF q
<1>4. r \in Task /\ r.op = op /\ r.at = "get"
  BY <1>0, <1>3, AtSet
<1> HIDE DEF r
<1>5. Holds(r, records)
  BY <1>0, <1>4 DEF Holds
<1> QED BY <1>0, <1>1, <1>2, <1>4, <1>5, CaseStep

\* x ends, whether it is done or not.
LEMMA CaseEnds ==
  ASSUME LastingInv, CaseInv, NEW x \in Processes, task' = [task EXCEPT ![x] = Finished(x)],
         UNCHANGED <<records, queue, redelivered>>,
         failed' \subseteq Documents, settled' \subseteq Documents \cup Clerks,
         profile' = NoRow \/ GoodProfile(profile')
  PROVE  CaseInv'
<1>1. Finished(x) \in Task /\ Holds(Finished(x), records)
  BY FinishedHolds
<1> QED BY <1>1, CaseStep

LEMMA CaseOpen ==
  ASSUME LastingInv, CaseInv, NEW x \in Processes, OpenProfile(x)
  PROVE  CaseInv'
<1>1. /\ task[x] \in Task /\ Holds(task[x], records) /\ Fits(x, task[x])
      /\ failed \subseteq Documents /\ settled \subseteq Documents \cup Clerks
      /\ profile = NoRow \/ GoodProfile(profile)
  BY CaseFacts
<1>2. /\ task[x].at = "get" /\ task[x].op \in {"ingest"} \cup Requests
      /\ UNCHANGED <<records, queue, redelivered>>
      /\ profile' = profile /\ failed' = failed /\ settled' = settled
  BY <1>1 DEF OpenProfile, Fits
<1>3. CASE profile = NoRow /\ task[x].op \in {"ingest", "create"}
  <2> DEFINE q == [task[x] EXCEPT !.at = "create"]
             r == [q EXCEPT !.copy = EmptyProfile]
  <2>1. task' = [task EXCEPT ![x] = r]
    BY <1>1, <1>3 DEF OpenProfile, Task
  <2>2. "create" \in Places /\ EmptyProfile \in Profiles
    BY EmptyGood DEF Places, GoodProfile
  <2>3. /\ q \in Task /\ q.at = "create" /\ q.op = task[x].op /\ q.doc = task[x].doc
        /\ q.events = task[x].events
    BY <1>1, <2>2, AtSet
  <2> HIDE DEF q
  <2>4. /\ r \in Task /\ r.at = "create" /\ r.op = task[x].op /\ r.doc = task[x].doc
        /\ r.events = task[x].events /\ r.copy = EmptyProfile
    BY <2>2, <2>3, CopySet
  <2> HIDE DEF r
  <2>5. Holds(r, records)
    BY <1>1, <2>4 DEF Holds
  <2> QED BY <1>1, <1>2, <2>1, <2>4, <2>5, CaseStep
<1>4. CASE profile # NoRow /\ task[x].op # "create"
  <2> DEFINE q == [task[x] EXCEPT !.at = "save"]
             r == [q EXCEPT !.copy = profile]
  <2>1. task' = [task EXCEPT ![x] = r]
    BY <1>1, <1>4 DEF OpenProfile, Task
  <2>2. "save" \in Places /\ GoodProfile(profile) /\ profile \in Profiles
    BY <1>1, <1>4 DEF Places, GoodProfile
  <2>3. /\ q \in Task /\ q.at = "save" /\ q.op = task[x].op /\ q.doc = task[x].doc
        /\ q.events = task[x].events
    BY <1>1, <2>2, AtSet
  <2> HIDE DEF q
  <2>4. /\ r \in Task /\ r.at = "save" /\ r.op = task[x].op /\ r.doc = task[x].doc
        /\ r.events = task[x].events /\ r.copy = profile
    BY <2>2, <2>3, CopySet
  <2> HIDE DEF r
  <2>5. Holds(r, records)
    BY <1>1, <2>2, <2>4 DEF Holds
  <2> QED BY <1>1, <1>2, <2>1, <2>4, <2>5, CaseStep
<1>5. CASE \/ profile = NoRow /\ task[x].op \notin {"ingest", "create"}
           \/ profile # NoRow /\ task[x].op = "create"
  <2>1. task' = [task EXCEPT ![x] = Finished(x)]
    BY <1>5 DEF OpenProfile
  <2> QED BY <1>1, <1>2, <2>1, CaseEnds
<1> QED BY <1>3, <1>4, <1>5

\* Where x goes with the empty profile it has found no row for.
LEMMA CreatedHolds ==
  ASSUME LastingInv, CaseInv, NEW x \in Processes, task[x].at \in {"create", "insert_profile"}
  PROVE  Created(x) \in Task /\ Holds(Created(x), records)
<1>1. /\ task[x] \in Task /\ Holds(task[x], records)
  BY CaseFacts
<1>2. CASE task[x].op = "create"
  BY <1>2, FinishedHolds DEF Created
<1>3. CASE task[x].op # "create"
  <2> DEFINE r == [task[x] EXCEPT !.at = "save"]
  <2>1. Created(x) = r /\ "save" \in Places
    BY <1>3 DEF Created, Places
  <2>2. r \in Task /\ r.at = "save" /\ r.op = task[x].op /\ r.doc = task[x].doc
        /\ r.copy = task[x].copy /\ r.events = task[x].events
    BY <1>1, <2>1, AtSet
  <2> HIDE DEF r
  <2>3. Holds(r, records)
    BY <1>1, <2>2, EmptyGood DEF Holds
  <2> QED BY <2>1, <2>2, <2>3
<1> QED BY <1>2, <1>3

LEMMA CaseMerge ==
  ASSUME LastingInv, CaseInv, NEW x \in Processes, MergeEmpty(x)
  PROVE  CaseInv'
<1>1. /\ task[x] \in Task /\ Holds(task[x], records)
      /\ failed \subseteq Documents /\ settled \subseteq Documents \cup Clerks
      /\ profile = NoRow \/ GoodProfile(profile)
  BY CaseFacts
<1>2. /\ task[x].at = "create" /\ UNCHANGED <<records, queue, redelivered>>
      /\ failed' = failed /\ settled' = settled
  BY DEF MergeEmpty
<1>3. CASE profile = NoRow
  <2> DEFINE r == [task[x] EXCEPT !.at = "insert_profile"]
  <2>1. task' = [task EXCEPT ![x] = r] /\ profile' = profile
    BY <1>3 DEF MergeEmpty
  <2>2. "insert_profile" \in Places
    BY DEF Places
  <2>3. r \in Task /\ r.at = "insert_profile" /\ r.op = task[x].op /\ r.doc = task[x].doc
        /\ r.copy = task[x].copy /\ r.events = task[x].events
    BY <1>1, <2>2, AtSet
  <2> HIDE DEF r
  <2>4. Holds(r, records)
    BY <1>1, <1>2, <2>3 DEF Holds
  <2> QED BY <1>1, <1>2, <2>1, <2>3, <2>4, CaseStep
<1>4. CASE profile # NoRow
  <2>1. task' = [task EXCEPT ![x] = Created(x)] /\ profile' = EmptyProfile
    BY <1>4 DEF MergeEmpty
  <2>2. Created(x) \in Task /\ Holds(Created(x), records)
    BY <1>2, CreatedHolds
  <2> QED BY <1>1, <1>2, <2>1, <2>2, EmptyGood, CaseStep
<1> QED BY <1>3, <1>4

LEMMA CaseInsert ==
  ASSUME LastingInv, CaseInv, NEW x \in Processes, InsertEmpty(x)
  PROVE  CaseInv'
<1>1. /\ failed \subseteq Documents /\ settled \subseteq Documents \cup Clerks
      /\ profile = NoRow \/ GoodProfile(profile)
      /\ failed \cup ({task[x].doc} \ {None}) \subseteq Documents
  BY CaseFacts
<1>2. /\ task[x].at = "insert_profile" /\ UNCHANGED <<records, queue, redelivered>>
      /\ settled' = settled
  BY DEF InsertEmpty
<1>3. CASE profile = NoRow
  <2>1. task' = [task EXCEPT ![x] = Created(x)] /\ profile' = EmptyProfile /\ failed' = failed
    BY <1>3 DEF InsertEmpty
  <2>2. Created(x) \in Task /\ Holds(Created(x), records)
    BY <1>2, CreatedHolds
  <2> QED BY <1>1, <1>2, <2>1, <2>2, EmptyGood, CaseStep
<1>4. CASE profile # NoRow
  <2>1. /\ task' = [task EXCEPT ![x] = Finished(x)] /\ profile' = profile
        /\ failed' = failed \cup ({task[x].doc} \ {None})
    BY <1>4 DEF InsertEmpty
  <2> QED BY <1>1, <1>2, <2>1, CaseEnds
<1> QED BY <1>3, <1>4

\* What x saves is a good profile if the copy it read was one.
LEMMA CaseSave ==
  ASSUME LastingInv, CaseInv, NEW x \in Processes, SaveProfile(x)
  PROVE  CaseInv'
<1>1. /\ task[x] \in Task /\ Holds(task[x], records) /\ Fits(x, task[x])
      /\ failed \subseteq Documents /\ settled \subseteq Documents \cup Clerks
  BY CaseFacts
<1>2. /\ task[x].at = "save" /\ UNCHANGED <<records, queue, redelivered>> /\ failed' = failed
      /\ profile' = Changed(x) /\ task' = [task EXCEPT ![x] = Finished(x)]
      /\ settled' \in {settled, settled \cup Change(x)}
  BY DEF SaveProfile
<1>3. GoodProfile(task[x].copy) /\ task[x].op \in {"ingest", "delete", "rename"}
  BY <1>1, <1>2 DEF Holds, Fits
<1>4. GoodProfile(Changed(x)) /\ Change(x) \subseteq Documents \cup Clerks
  <2>1. CASE task[x].op = "ingest"
    <3>1. /\ Changed(x) = Ingested(task[x].copy, Content[task[x].doc], task[x].doc)
          /\ Change(x) = {task[x].doc} /\ task[x].doc \in Documents
      BY <1>1, <2>1 DEF Changed, Change, Holds, Fits
    <3> QED BY <1>3, <3>1, IngestedGood
  <2>2. CASE task[x].op = "delete"
    <3>1. /\ Changed(x) = [task[x].copy EXCEPT !.deleted = "yes"]
          /\ Change(x) = {x} /\ x \in Clerks
      BY <1>1, <2>2 DEF Changed, Change, Fits, Requests
    <3> QED BY <1>3, <3>1, DeletedGood
  <2>3. CASE task[x].op = "rename"
    <3>1. Changed(x) = task[x].copy /\ Change(x) = {}
      BY <2>3 DEF Changed, Change
    <3> QED BY <1>3, <3>1
  <2> QED BY <1>3, <2>1, <2>2, <2>3
<1> QED BY <1>1, <1>2, <1>4, CaseEnds

LEMMA CaseDies ==
  ASSUME LastingInv, CaseInv, NEW x \in Processes, Dies(x)
  PROVE  CaseInv'
<1>1. /\ settled \subseteq Documents \cup Clerks
      /\ profile = NoRow \/ GoodProfile(profile)
      /\ failed \cup ({task[x].doc} \ {None}) \subseteq Documents
  BY CaseFacts
<1>2. /\ task' = [task EXCEPT ![x] = Finished(x)] /\ UNCHANGED <<records, queue, redelivered>>
      /\ failed' = failed \cup ({task[x].doc} \ {None})
      /\ profile' = profile /\ settled' = settled
  BY DEF Dies, Finished
<1> QED BY <1>1, <1>2, CaseEnds
-----------------------------------------------------------------------------
(* The theorems                                                            *)

LEMMA CaseNext == LastingInv /\ CaseInv /\ [Next]_vars => CaseInv'
<1> SUFFICES ASSUME LastingInv, CaseInv, [Next]_vars
             PROVE  CaseInv'
  OBVIOUS
<1>1. CASE UNCHANGED vars
  <2>1. UNCHANGED <<records, queue, profile, task, redelivered, failed, settled>>
    BY <1>1 DEF vars
  <2>2. TypeOK'
    BY <2>1 DEF CaseInv, TypeOK
  <2> QED BY <2>1, <2>2 DEF CaseInv
<1>2. ASSUME NEW d \in Documents, Upload(d)
      PROVE  CaseInv'
  BY <1>2, CaseUpload
<1>3. ASSUME NEW m \in Messages, Redeliver(m) \/ \E w \in Workers : Take(w, m)
      PROVE  CaseInv'
  BY <1>3, CaseRedeliver, CaseTake
<1>4. ASSUME NEW x \in Processes, Step(x)
      PROVE  CaseInv'
  BY <1>4, CaseOpen, CaseMerge, CaseInsert, CaseSave DEF Step
<1>5. ASSUME NEW w \in Workers, Work(w)
      PROVE  CaseInv'
  BY <1>4, <1>5, CaseReadVersion, CaseInsertRecord, CaseTrigger DEF Work, Processes
<1>6. ASSUME NEW c \in Clerks, Step(c) \/ \E op \in Requests : Ask(c, op)
      PROVE  CaseInv'
  BY <1>4, <1>6, CaseAsk DEF Processes
<1>7. ASSUME NEW x \in Processes, Dies(x)
      PROVE  CaseInv'
  BY <1>7, CaseDies
<1> QED BY <1>1, <1>2, <1>3, <1>5, <1>6, <1>7 DEF Next

LEMMA CaseInit == Init => LastingInv /\ CaseInv
<1> SUFFICES ASSUME Init
             PROVE  LastingInv /\ CaseInv
  OBVIOUS
<1>1. /\ records = [d \in Documents |-> <<>>] /\ queue = [m \in Messages |-> 0]
      /\ task = [x \in Processes |-> NoTask] /\ profile = NoRow
      /\ redelivered = 0 /\ failed = {} /\ settled = {}
  BY DEF Init
<1>2. LastingInv
  <2>1. \A x \in Processes : Fits(x, NoTask)
    BY NoTaskShape DEF Fits, Requests
  <2>2. Shapes
    BY <1>1, <2>1 DEF Shapes
  <2>3. \A x \in Processes : task[x].at = "idle"
    BY <1>1, NoTaskShape
  <2> QED BY <1>1, <2>2, <2>3 DEF LastingInv, Has
<1>3. NoTask \in Task /\ Holds(NoTask, records)
  BY FinishedHolds
<1>4. TypeOK
  BY <1>1, <1>3, ProcessesAssumption DEF TypeOK
<1>5. \A d \in Documents : Filed(records[d])
  BY <1>1 DEF Filed
<1>6. Queued(queue, records)
  BY <1>1 DEF Queued
<1>7. \A x \in Processes : Holds(task[x], records)
  BY <1>1, <1>3
<1> QED BY <1>1, <1>2, <1>4, <1>5, <1>6, <1>7 DEF CaseInv

LEMMA CaseInductive == Spec => [](LastingInv /\ CaseInv)
BY CaseInit, CaseNext, NextStep, PTL DEF Spec

\* The rows, the messages, the profile and what the tasks hold keep their types.
THEOREM TypeCorrect == Spec => []TypeOK
<1>1. CaseInv => TypeOK
  BY DEF CaseInv
<1> QED BY <1>1, CaseInductive, PTL

\* Every event of every document the profile lists is a fact that rests on the
\* document and an entry of the timeline that names it.
THEOREM ListedDocumentsAreWhole == Spec => []DocumentsAreWhole
<1>1. CaseInv => DocumentsAreWhole
  <2> SUFFICES ASSUME CaseInv, profile # NoRow,
                      NEW d \in profile.docs, NEW i \in DOMAIN Content[d]
               PROVE  LET e == Content[d][i] IN
                      /\ e.description \in Facts /\ d \in Support(e.description)
                      /\ <<e.date, e.description>> \in Entries
                      /\ d \in profile.timeline[<<e.date, e.description>>].docs
    BY DEF DocumentsAreWhole
  <2> DEFINE e == Content[d][i]
  <2>1. GoodProfile(profile)
    BY DEF CaseInv
  <2>2. Recorded(profile.facts, profile.timeline, e, d)
    BY <2>1 DEF GoodProfile, Whole
  <2>3. e \in Event
    <3>1. d \in Documents
      BY <2>1 DEF GoodProfile, Profiles
    <3>2. Content[d] \in Seq(Event)
      BY <3>1, ContentAssumption
    <3> QED BY <3>2
  <2> HIDE DEF e
  <2>4. e.description \in Descriptions /\ <<e.date, e.description>> \in Dates \X Descriptions
    BY <2>3 DEF Event
  <2>5. /\ e.description \in Facts /\ d \in Support(e.description)
        /\ <<e.date, e.description>> \in Entries
        /\ d \in profile.timeline[<<e.date, e.description>>].docs
    BY <2>2, <2>4 DEF Recorded, Facts, Entries, Support, Sup
  <2> QED BY <2>5 DEF e
<1> QED BY <1>1, CaseInductive, PTL

\* Facts and timeline, merged by different rules, rest on the same documents, and
\* only on those the profile lists.
THEOREM FactsAndTimelineAgree == Spec => []FactsMatchTimeline
<1>1. CaseInv => FactsMatchTimeline
  <2> SUFFICES ASSUME CaseInv
               PROVE  FactsMatchTimeline
    OBVIOUS
  <2>1. CASE profile = NoRow
    BY <2>1 DEF FactsMatchTimeline, Facts, Entries
  <2>2. CASE profile # NoRow
    <3> DEFINE fs == profile.facts
               ts == profile.timeline
               Named(x) == UNION {ts[k].docs : k \in {j \in Entries : j[2] = x}}
    <3>1. Match(fs, ts) /\ Within(fs, profile.docs)
      BY <2>2 DEF CaseInv, GoodProfile, Sound
    <3>2. /\ \A x : x \in Facts <=> x \in Descriptions /\ fs[x] # None
          /\ \A k : k \in Entries <=> k \in Dates \X Descriptions /\ ts[k] # None
          /\ \A x : Support(x) = Sup(fs, x)
      BY <2>2 DEF Facts, Entries, Support, Sup
    <3> HIDE DEF fs, ts
    <3>3. \A k \in Entries : k[2] \in Facts /\ ts[k].docs \subseteq Sup(fs, k[2])
      BY <3>1, <3>2 DEF Match
    <3>4. ASSUME NEW x \in Facts
          PROVE  Support(x) = Named(x) /\ Support(x) \subseteq profile.docs
      <4>1. Named(x) \subseteq Support(x)
        BY <3>2, <3>3
      <4>2. ASSUME NEW d \in Support(x)
            PROVE  d \in Named(x)
        <5>1. PICK a \in Dates : ts[<<a, x>>] # None /\ d \in ts[<<a, x>>].docs
          BY <3>1, <3>2, <3>4, <4>2 DEF Match
        <5>2. <<a, x>> \in Entries /\ <<a, x>>[2] = x
          BY <3>2, <3>4, <5>1
        <5> QED BY <5>1, <5>2
      <4>3. Support(x) \subseteq profile.docs
        BY <3>1, <3>2, <3>4 DEF Within
      <4> HIDE DEF Named
      <4> QED BY <4>1, <4>2, <4>3
    <3> QED BY <3>3, <3>4 DEF FactsMatchTimeline, ts
  <2> QED BY <2>1, <2>2
<1> QED BY <1>1, CaseInductive, PTL

\* However often a document is delivered, it counts once for a fact and once for
\* an entry of the timeline.
THEOREM DeliveredTwiceCountsOnce == Spec => []CountedOnce
<1>1. CaseInv => CountedOnce
  <2> SUFFICES ASSUME CaseInv
               PROVE  CountedOnce
    OBVIOUS
  <2>1. CASE profile = NoRow
    BY <2>1 DEF CountedOnce, Facts, Entries
  <2>2. CASE profile # NoRow
    <3>1. FactsCounted(profile.facts) /\ EntriesCounted(profile.timeline)
      BY <2>2 DEF CaseInv, GoodProfile, Sound
    <3> QED BY <2>2, <3>1 DEF CountedOnce, Facts, Entries, FactsCounted, EntriesCounted
  <2> QED BY <2>1, <2>2
<1> QED BY <1>1, CaseInductive, PTL

\* In whatever order the documents came, two facts of one date know of each other.
THEOREM ContradictionsGoBothWays == Spec => []ContradictionsAreMutual
<1>1. CaseInv => ContradictionsAreMutual
  <2> SUFFICES ASSUME CaseInv
               PROVE  ContradictionsAreMutual
    OBVIOUS
  <2>1. CASE profile = NoRow
    BY <2>1 DEF ContradictionsAreMutual, Facts
  <2>2. CASE profile # NoRow
    <3>1. Mutual(profile.facts)
      BY <2>2 DEF CaseInv, GoodProfile, Sound
    <3> QED BY <2>2, <3>1 DEF ContradictionsAreMutual, Facts, Mutual
  <2> QED BY <2>1, <2>2
<1> QED BY <1>1, CaseInductive, PTL
=============================================================================
