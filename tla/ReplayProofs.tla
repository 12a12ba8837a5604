----------------------------- MODULE ReplayProofs -----------------------------
(***************************************************************************)
(* A replay acts on the element its step was taught on or on none, while   *)
(* that element is there; and replays next to each other, or cut short,    *)
(* save no rule with values of two deployments.  For any number of         *)
(* replays, deployments, rules and changes of the router's pages.          *)
(***************************************************************************)
EXTENDS Replay, TLAPS

-----------------------------------------------------------------------------
(* The steps of the workflows.                                             *)

LEMMA CreateA ==
  LET steps == Steps("A", "create")
  IN  /\ Len(steps) = 5
      /\ steps[1] = Use("fill", "name") /\ steps[2] = Use("fill", "port")
      /\ steps[3] = Use("click", "save") /\ steps[4] = Use("click", "status")
      /\ steps[5] = Do("verify")
<1>1. Steps("A", "create") = <<Use("fill", "name"), Use("fill", "port")>>
                               \o <<Use("click", "save"), Use("click", "status"), Do("verify")>>
  BY DEF Steps, Fill
<1>2. QED
  BY <1>1

LEMMA CreateB ==
  LET steps == Steps("B", "create")
  IN  /\ Len(steps) = 7
      /\ steps[1] = Do("navigate") /\ steps[2] = Do("wait")
      /\ steps[3] = Use("fill", "name") /\ steps[4] = Use("fill", "port")
      /\ steps[5] = Use("click", "save") /\ steps[6] = Do("confirm")
      /\ steps[7] = Do("verify")
<1>1. Steps("B", "create") = <<Do("navigate"), Do("wait")>>
                               \o <<Use("fill", "name"), Use("fill", "port")>>
                               \o <<Use("click", "save"), Do("confirm"), Do("verify")>>
  BY DEF Steps, Fill
<1>2. QED
  BY <1>1

LEMMA OtherSteps ==
  /\ \A k \in {"A", "B"} : Len(Steps(k, "find")) = 1 /\ Steps(k, "find")[1] = Do("verify")
  /\ Len(Steps("A", "delete")) = 2
  /\ Steps("A", "delete")[1] = Do("verify") /\ Steps("A", "delete")[2] = Use("click", "save")
  /\ Len(Steps("B", "delete")) = 3
  /\ Steps("B", "delete")[1] = Do("navigate") /\ Steps("B", "delete")[2] = Do("wait")
  /\ Steps("B", "delete")[3] = Do("verify")
BY DEF Steps

LEMMA StepsLength ==
  ASSUME NEW k \in {"A", "B"}, NEW f \in Flows
  PROVE  Len(Steps(k, f)) \in Nat \ {0}
BY CreateA, CreateB, OtherSteps DEF Flows

LEMMA StepsUse ==
  ASSUME NEW k \in {"A", "B"}, NEW f \in Flows, NEW n \in 1..Len(Steps(k, f)),
         Steps(k, f)[n].on # "none"
  PROVE  \E e \in Taught(k) : e.ref = Steps(k, f)[n].on
<1>1. CASE k = "A"
  <2>1. Steps(k, f)[n].on \in {"name", "port", "save", "status"}
    BY <1>1, CreateA, OtherSteps DEF Flows, Use, Do
  <2>2. \A x \in {"name", "port", "save", "status"} : \E e \in Taught(k) : e.ref = x
    BY <1>1 DEF Taught, Element
  <2>3. QED
    BY <2>1, <2>2
<1>2. CASE k = "B"
  <2>1. Steps(k, f)[n].on \in {"name", "port", "save"}
    <3>1. CASE f = "create"
      <4>1. n \in {1, 2, 3, 4, 5, 6, 7}
        BY <1>2, <3>1, CreateB
      <4>2. QED
        BY <1>2, <3>1, <4>1, CreateB DEF Use, Do
    <3>2. CASE f # "create"
      BY <1>2, <3>2, OtherSteps DEF Flows, Do
    <3>3. QED
      BY <3>1, <3>2
  <2>2. \A x \in {"name", "port", "save"} : \E e \in Taught(k) : e.ref = x
    BY <1>2 DEF Taught, Element
  <2>3. QED
    BY <2>1, <2>2
<1>3. QED
  BY <1>1, <1>2

LEMMA ActingStepsUse ==
  ASSUME NEW k \in {"A", "B"}, NEW f \in Flows, NEW n \in 1..Len(Steps(k, f)),
         Steps(k, f)[n].do \in {"fill", "click"}
  PROVE  Steps(k, f)[n].on # "none"
<1>1. CASE k = "A" /\ f = "create"
  <2>1. n \in {1, 2, 3, 4, 5}
    BY <1>1, CreateA
  <2>2. QED
    BY <1>1, <2>1, CreateA DEF Use, Do
<1>2. CASE k = "B" /\ f = "create"
  <2>1. n \in {1, 2, 3, 4, 5, 6, 7}
    BY <1>2, CreateB
  <2>2. QED
    BY <1>2, <2>1, CreateB DEF Use, Do
<1>3. CASE f # "create"
  BY <1>3, OtherSteps DEF Flows, Use, Do
<1>4. QED
  BY <1>1, <1>2, <1>3

LEMMA StepIsOne ==
  ASSUME ReplayTypeOK, NEW r \in Replays
  PROVE  /\ kind \in {"A", "B"} /\ replay[r].flow \in Flows
         /\ replay[r].next \in 1..Len(Steps(kind, replay[r].flow))
         /\ Step(r) = Steps(kind, replay[r].flow)[replay[r].next]
<1>1. kind \in {"A", "B"} /\ replay[r].next \in 1..Len(Steps(kind, replay[r].flow))
  BY DEF ReplayTypeOK
<1>2. replay[r].flow \in Flows
  BY DEF ReplayTypeOK
<1>3. QED
  BY <1>1, <1>2 DEF Step

LEMMA TaughtElementIs ==
  ASSUME ReplayTypeOK, NEW r \in Replays, Step(r).on # "none"
  PROVE  /\ TaughtElement(Step(r).on) \in Taught(kind)
         /\ TaughtElement(Step(r).on).ref = Step(r).on
<1>1. \E e \in Taught(kind) : e.ref = Step(r).on
  BY StepIsOne, StepsUse
<1>2. QED
  BY <1>1 DEF TaughtElement

(* A set of locators has a best one.                                       *)
LEMMA BestIsOne ==
  ASSUME NEW locs, locs # {}, \A l \in locs : l.by \in Strategies
  PROVE  Best(locs) \in locs
<1>1. \E l \in locs : \A m \in locs : Score[m.by] <= Score[l.by]
  BY DEF Strategies, Score
<1>2. QED
  BY <1>1 DEF Best

(* A locator that resolves a step is one the step was taught with, and     *)
(* finds exactly one element.                                              *)
LEMMA ResolvedIsTaught ==
  ASSUME ReplayTypeOK, NEW r \in Replays, Step(r).on # "none", NEW l \in ResolveStep(r)
  PROVE  /\ l \in LocatorsOf(TaughtElement(Step(r).on), kind, browser)
         /\ Uniquely(Visible(PageOf(r)), l)
<1> DEFINE locs   == LocatorsOf(TaughtElement(Step(r).on), kind, browser)
           unique == {m \in locs : Uniquely(Visible(PageOf(r)), m)}
<1>1. unique # {} /\ l = Best(unique)
  BY DEF ResolveStep, Resolution
<1>2. \A m \in locs : m.by \in Strategies
  BY DEF LocatorsOf, BuildLocators
<1>3. l \in unique
  BY <1>1, <1>2, BestIsOne
<1>4. QED
  BY <1>3

-----------------------------------------------------------------------------
(* Type correctness.                                                       *)

Locators == UNION {BuildLocators(e) : e \in Taught(kind)}
ReplayRecord == [flow : Flows, for : Values, next : Nat,
                 state : {"free", "running", "ok", "repair"},
                 pick : Locators \cup {Nothing}, fresh : BOOLEAN]
Page == [nat : BOOLEAN, loading : BOOLEAN, dialog : BOOLEAN, form : [Fields -> Values]]
Rule == [values : [Fields -> Values], by : Flows]

InRange(r) == replay[r].next \in 1..Len(Steps(kind, replay[r].flow))

LEMMA TypeIs ==
  ReplayTypeOK <=>
    /\ kind \in {"A", "B"} /\ browser \in BOOLEAN
    /\ present \subseteq Taught(kind) \cup Strangers \cup {Heading}
    /\ page \in [Pages -> Page]
    /\ replay \in [Replays -> ReplayRecord]
    /\ \A r \in Replays : InRange(r)
    /\ rules \in Seq(Rule) /\ Len(rules) <= MaxRules
    /\ changes \in 0..MaxChanges
    /\ strayed \subseteq {"led astray", "taught element gone", "text taken for element",
                         "changed after the look"}
BY DEF ReplayTypeOK, ReplayRecord, Locators, Page, Rule, InRange

(* Passes goes to the next step or ends the replay, and Stops ends it; both*)
(* forget the locator that was picked and leave the other replays alone.   *)
LEMMA PassesOne ==
  ASSUME ReplayTypeOK, NEW r \in Replays, Passes(r)
  PROVE  /\ replay' \in [Replays -> ReplayRecord]
         /\ \A q \in Replays \ {r} : replay'[q] = replay[q]
         /\ replay'[r].flow = replay[r].flow /\ replay'[r].for = replay[r].for
         /\ replay'[r].pick = Nothing
         /\ \/ /\ replay[r].next = Len(Steps(kind, replay[r].flow))
               /\ replay'[r].next = replay[r].next /\ replay'[r].state = "ok"
            \/ /\ replay[r].next < Len(Steps(kind, replay[r].flow))
               /\ replay'[r].next = replay[r].next + 1
               /\ replay'[r].state = replay[r].state
<1>1. replay \in [Replays -> ReplayRecord] /\ InRange(r)
  BY TypeIs
<1>2. Len(Steps(kind, replay[r].flow)) \in Nat \ {0}
  BY StepIsOne, StepsLength
<1>3. replay[r] \in ReplayRecord
  BY <1>1
<1> DEFINE old  == replay[r]
           last == old.next = Len(Steps(kind, old.flow))
<1>4. replay' = [replay EXCEPT ![r].state = IF last THEN "ok" ELSE @,
                               ![r].next = IF last THEN @ ELSE @ + 1,
                               ![r].pick = Nothing, ![r].fresh = TRUE]
  BY DEF Passes
<1>5. ~last => old.next < Len(Steps(kind, old.flow))
  BY <1>1, <1>2 DEF InRange
<1>6. old.next \in Nat
  BY <1>1 DEF InRange
<1>7. CASE last
  <2> DEFINE new == [old EXCEPT !.state = "ok", !.pick = Nothing, !.fresh = TRUE]
  <2> HIDE DEF last
  <2>1. replay' = [replay EXCEPT ![r].state = "ok", ![r].next = @,
                                 ![r].pick = Nothing, ![r].fresh = TRUE]
    BY <1>4, <1>7
  <2>2. replay' = [replay EXCEPT ![r] = new]
    BY <1>1, <1>3, <2>1 DEF ReplayRecord
  <2>3. new \in ReplayRecord
    BY <1>3 DEF ReplayRecord
  <2>4. QED
    BY <1>1, <1>3, <1>7, <2>2, <2>3 DEF ReplayRecord, last
<1>8. CASE ~last
  <2> DEFINE new == [old EXCEPT !.next = old.next + 1, !.pick = Nothing, !.fresh = TRUE]
  <2> HIDE DEF last
  <2>1. replay' = [replay EXCEPT ![r].state = @, ![r].next = @ + 1,
                                 ![r].pick = Nothing, ![r].fresh = TRUE]
    BY <1>4, <1>8
  <2>2. replay' = [replay EXCEPT ![r] = new]
    BY <1>1, <1>3, <2>1 DEF ReplayRecord
  <2>3. new \in ReplayRecord
    <3>1. old.next + 1 \in Nat
      BY <1>6
    <3>2. QED
      BY <1>3, <3>1 DEF ReplayRecord
  <2>4. QED
    BY <1>1, <1>3, <1>5, <1>8, <2>2, <2>3 DEF ReplayRecord, last
<1>9. QED
  BY <1>7, <1>8

LEMMA StopsOne ==
  ASSUME ReplayTypeOK, NEW r \in Replays, Stops(r)
  PROVE  /\ replay' \in [Replays -> ReplayRecord]
         /\ \A q \in Replays \ {r} : replay'[q] = replay[q]
         /\ replay'[r].flow = replay[r].flow /\ replay'[r].next = replay[r].next
         /\ replay'[r].pick = Nothing /\ replay'[r].state = "repair"
<1>1. replay \in [Replays -> ReplayRecord]
  BY TypeIs
<1>2. replay' = [replay EXCEPT ![r] =
                  [replay[r] EXCEPT !.state = "repair", !.pick = Nothing, !.fresh = TRUE]]
  BY <1>1 DEF Stops, ReplayRecord
<1>3. [replay[r] EXCEPT !.state = "repair", !.pick = Nothing, !.fresh = TRUE] \in ReplayRecord
  BY <1>1 DEF ReplayRecord
<1>4. QED
  BY <1>1, <1>2, <1>3 DEF ReplayRecord

LEMMA RangeKept ==
  ASSUME ReplayTypeOK, NEW r \in Replays, Passes(r) \/ Stops(r), kind' = kind
  PROVE  \A q \in Replays : InRange(q)'
<1>1. \A q \in Replays : InRange(q)
  BY TypeIs
<1>2. replay[r].next \in Nat /\ Len(Steps(kind, replay[r].flow)) \in Nat
  BY TypeIs, StepIsOne, StepsLength DEF ReplayRecord
<1>3. CASE Passes(r)
  BY <1>1, <1>2, <1>3, PassesOne DEF InRange
<1>4. CASE Stops(r)
  BY <1>1, <1>2, <1>4, StopsOne DEF InRange
<1>5. QED
  BY <1>3, <1>4

Elements == Taught(kind) \cup Strangers \cup {Heading}
Ways == {"led astray", "taught element gone", "text taken for element", "changed after the look"}

LEMMA Assemble ==
  ASSUME ReplayTypeOK, kind' = kind, browser' = browser, present' \subseteq Elements,
         page' \in [Pages -> Page],
         replay' \in [Replays -> ReplayRecord], \A q \in Replays : InRange(q)',
         rules' \in Seq(Rule), Len(rules') <= MaxRules,
         changes' \in 0..MaxChanges, strayed' \subseteq Ways
  PROVE  ReplayTypeOK'
<1>1. kind' \in {"A", "B"} /\ browser' \in BOOLEAN
  BY TypeIs
<1>2. QED
  BY <1>1 DEF ReplayTypeOK, ReplayRecord, Locators, Page, Rule, InRange, Elements, Ways

LEMMA WatchTypes ==
  ASSUME ReplayTypeOK, NEW r \in Replays, NEW e, Watch(r, e)
  PROVE  strayed' \subseteq Ways /\ strayed \subseteq strayed'
<1>1. strayed \subseteq Ways
  BY TypeIs DEF Ways
<1>2. QED
  BY <1>1 DEF Watch, Ways

LEMMA PageIs ==
  ASSUME ReplayTypeOK, NEW r \in Replays
  PROVE  PageOf(r) \in Pages /\ page[PageOf(r)] \in Page
BY TypeIs DEF PageOf, Pages

LEMMA AddRuleTypes ==
  ASSUME ReplayTypeOK, NEW r \in Replays, Len(rules) < MaxRules
  PROVE  AddRule(r) \in Seq(Rule) /\ Len(AddRule(r)) <= MaxRules
<1>1. page[PageOf(r)].form \in [Fields -> Values]
  BY PageIs DEF Page
<1>2. replay[r].flow \in Flows
  BY TypeIs DEF ReplayRecord
<1>3. [values |-> page[PageOf(r)].form, by |-> replay[r].flow] \in Rule
  BY <1>1, <1>2 DEF Rule
<1>4. rules \in Seq(Rule) /\ MaxRules \in Nat
  BY TypeIs, ReplayAssumption
<1>5. QED
  BY <1>3, <1>4 DEF AddRule

LEMMA TypePreserved == ReplayTypeOK /\ [Next]_vars => ReplayTypeOK'
<1> SUFFICES ASSUME ReplayTypeOK, [Next]_vars PROVE ReplayTypeOK'
  OBVIOUS
<1>1. /\ present \subseteq Elements /\ page \in [Pages -> Page]
      /\ replay \in [Replays -> ReplayRecord] /\ \A q \in Replays : InRange(q)
      /\ rules \in Seq(Rule) /\ Len(rules) <= MaxRules
      /\ changes \in 0..MaxChanges /\ strayed \subseteq Ways
  BY TypeIs DEF Elements, Ways
<1>2. ASSUME NEW r \in Replays, NEW d \in Deps, NEW flow \in Flows, Start(r, d, flow)
      PROVE  ReplayTypeOK'
  <2> DEFINE new == [NoReplay EXCEPT !.flow = flow, !.for = d, !.state = "running"]
  <2>1. new \in ReplayRecord /\ new.next = 1 /\ new.flow = flow
    BY DEF NoReplay, ReplayRecord, Values, Flows
  <2>2. replay' = [replay EXCEPT ![r] = new] /\ kind' = kind
    BY <1>2 DEF Start
  <2> HIDE DEF new
  <2>3. replay' \in [Replays -> ReplayRecord]
    BY <1>1, <2>1, <2>2
  <2>4. \A q \in Replays : InRange(q)'
    <3>1. 1 \in 1..Len(Steps(kind, flow))
      <4>1. Len(Steps(kind, flow)) \in Nat \ {0}
        BY StepsLength, TypeIs
      <4>2. QED
        BY <4>1
    <3>2. QED
      BY <1>1, <2>1, <2>2, <3>1 DEF InRange
  <2>5. page' \in [Pages -> Page]
    <3>1. FreshPage \in Page
      BY DEF FreshPage, Page, Values
    <3>2. QED
      BY <1>1, <1>2, <3>1 DEF Start, Pages
  <2>6. QED
    BY <1>1, <1>2, <2>3, <2>4, <2>5, Assemble DEF Start
<1>3. ASSUME NEW r \in Replays, Navigate(r) \/ WaitLoad(r)
      PROVE  ReplayTypeOK'
  <2>1. page' \in [Pages -> Page]
    <3> DEFINE p == PageOf(r)
    <3>1. p \in Pages /\ page[p] \in Page
      BY PageIs
    <3>2. [page[p] EXCEPT !.nat = TRUE, !.loading = TRUE] \in Page
      BY <3>1 DEF Page
    <3>3. [page[p] EXCEPT !.loading = FALSE] \in Page
      BY <3>1 DEF Page
    <3>4. Navigate(r) => page' = [page EXCEPT ![p] = [page[p] EXCEPT !.nat = TRUE, !.loading = TRUE]]
      BY <1>1, <3>1 DEF Navigate, Page
    <3>5. WaitLoad(r) => page' = [page EXCEPT ![p] = [page[p] EXCEPT !.loading = FALSE]]
      BY <1>1, <3>1 DEF WaitLoad, Page
    <3> HIDE DEF p
    <3>6. QED
      BY <1>1, <1>3, <3>1, <3>2, <3>3, <3>4, <3>5
  <2>2. replay' \in [Replays -> ReplayRecord] /\ \A q \in Replays : InRange(q)'
    BY <1>3, PassesOne, RangeKept DEF Navigate, WaitLoad
  <2>3. QED
    BY <1>1, <1>3, <2>1, <2>2, Assemble DEF Navigate, WaitLoad
<1>4. ASSUME NEW r \in Replays, Look(r) PROVE ReplayTypeOK'
  <2>1. PICK l \in ResolveStep(r) : replay' = [replay EXCEPT ![r].pick = l]
    BY <1>4 DEF Look
  <2>2. l \in Locators
    <3>1. Step(r).on # "none"
      BY <1>4 DEF Look
    <3>2. l \in BuildLocators(TaughtElement(Step(r).on))
      BY <3>1, ResolvedIsTaught DEF LocatorsOf
    <3>3. QED
      BY <3>1, <3>2, TaughtElementIs DEF Locators
  <2>3. replay' \in [Replays -> ReplayRecord] /\ \A q \in Replays :
          replay'[q].flow = replay[q].flow /\ replay'[q].next = replay[q].next
    BY <1>1, <2>1, <2>2 DEF ReplayRecord
  <2>4. \A q \in Replays : InRange(q)'
    BY <1>1, <1>4, <2>3 DEF InRange, Look
  <2>5. QED
    BY <1>1, <1>4, <2>3, <2>4, Assemble DEF Look
<1>5. ASSUME NEW r \in Replays, FillField(r) PROVE ReplayTypeOK'
  <2>1. PICK e : SetValue(PageOf(r), e, BindingValue(r)) /\ Watch(r, e)
    BY <1>5 DEF FillField
  <2>2. BindingValue(r) \in Values
    BY <1>1 DEF BindingValue, ReplayRecord
  <2>3. page' \in [Pages -> Page]
    BY <1>1, <2>1, <2>2, PageIs DEF SetValue, Page
  <2>4. replay' \in [Replays -> ReplayRecord] /\ \A q \in Replays : InRange(q)'
    BY <1>5, PassesOne, RangeKept DEF FillField
  <2>5. QED
    BY <1>1, <1>5, <2>1, <2>3, <2>4, WatchTypes, Assemble DEF FillField
<1>6. ASSUME NEW r \in Replays, Click(r) PROVE ReplayTypeOK'
  <2>1. PICK e : /\ e.ref = "save" => Len(rules) < MaxRules
                 /\ AskFirst(PageOf(r), e)
                 /\ rules' = IF e.ref = "save" /\ kind = "A" THEN AddRule(r) ELSE rules
                 /\ Watch(r, e)
    BY <1>6 DEF Click
  <2>2. page' \in [Pages -> Page]
    BY <1>1, <2>1, PageIs DEF AskFirst, Page
  <2>3. rules' \in Seq(Rule) /\ Len(rules') <= MaxRules
    BY <1>1, <2>1, AddRuleTypes
  <2>4. replay' \in [Replays -> ReplayRecord] /\ \A q \in Replays : InRange(q)'
    BY <1>6, PassesOne, RangeKept DEF Click
  <2>5. QED
    BY <1>1, <1>6, <2>1, <2>2, <2>3, <2>4, WatchTypes, Assemble DEF Click
<1>7. ASSUME NEW r \in Replays, Confirm(r) PROVE ReplayTypeOK'
  <2>1. page' \in [Pages -> Page]
    <3> DEFINE p == PageOf(r)
    <3>1. p \in Pages /\ page[p] \in Page
      BY PageIs
    <3>2. [page[p] EXCEPT !.dialog = FALSE] \in Page
      BY <3>1 DEF Page
    <3>3. page' = page \/ page' = [page EXCEPT ![p] = [page[p] EXCEPT !.dialog = FALSE]]
      BY <1>7 DEF Confirm
    <3> HIDE DEF p
    <3>4. QED
      BY <1>1, <3>1, <3>2, <3>3
  <2>2. rules' \in Seq(Rule) /\ Len(rules') <= MaxRules
    BY <1>1, <1>7, AddRuleTypes DEF Confirm
  <2>3. replay' \in [Replays -> ReplayRecord] /\ \A q \in Replays : InRange(q)'
    BY <1>7, PassesOne, StopsOne, RangeKept DEF Confirm
  <2>4. QED
    BY <1>1, <1>7, <2>1, <2>2, <2>3, Assemble DEF Confirm
<1>8. ASSUME NEW r \in Replays, Refuse(r) \/ Verify(r) \/ Throw(r) PROVE ReplayTypeOK'
  <2>1. replay' \in [Replays -> ReplayRecord] /\ \A q \in Replays : InRange(q)'
    BY <1>8, PassesOne, StopsOne, RangeKept DEF Refuse, Verify, Throw
  <2>2. QED
    BY <1>1, <1>8, <2>1, Assemble DEF Refuse, Verify, Throw
<1>9. ASSUME Change PROVE ReplayTypeOK'
  <2>1. present' \subseteq Elements
    BY <1>1, <1>9 DEF Change, Elements
  <2>2. changes' \in 0..MaxChanges
    BY <1>1, <1>9, ReplayAssumption DEF Change
  <2>3. replay' \in [Replays -> ReplayRecord] /\ \A q \in Replays :
          replay'[q].flow = replay[q].flow /\ replay'[q].next = replay[q].next
    BY <1>1, <1>9 DEF Change, ReplayRecord
  <2>4. \A q \in Replays : InRange(q)'
    BY <1>1, <1>9, <2>3 DEF InRange, Change
  <2>5. QED
    BY <1>1, <1>9, <2>1, <2>2, <2>3, <2>4, Assemble DEF Change
<1>10. CASE UNCHANGED vars
  <2>1. \A q \in Replays : InRange(q)'
    BY <1>1, <1>10 DEF vars, InRange
  <2>2. QED
    BY <1>1, <1>10, <2>1, Assemble DEF vars
<1>11. QED
  BY <1>2, <1>3, <1>4, <1>5, <1>6, <1>7, <1>8, <1>9, <1>10 DEF Next, Acts

LEMMA InitTypes == Init => ReplayTypeOK
<1> SUFFICES ASSUME Init PROVE ReplayTypeOK
  OBVIOUS
<1>1. FreshPage \in Page /\ NoReplay \in ReplayRecord
  BY DEF FreshPage, Page, Values, NoReplay, ReplayRecord, Flows
<1>2. \A r \in Replays : InRange(r)
  BY StepsLength DEF Init, InRange, NoReplay, Flows
<1>3. rules \in Seq(Rule) /\ Len(rules) <= MaxRules /\ changes \in 0..MaxChanges
  BY ReplayAssumption DEF Init
<1>4. QED
  BY <1>1, <1>2, <1>3, TypeIs DEF Init

(* Routers, pages, replays and rules keep their types, and a replay is     *)
(* never past the end of its workflow (the loops of fake.ts and real.ts).  *)
THEOREM TypeCorrect == Spec => []ReplayTypeOK
BY InitTypes, TypePreserved, PTL DEF Spec

-----------------------------------------------------------------------------
(* A step acts on the element it was taught on, or on none.                *)

(* The locator a browser has picked is one the step was taught with, and   *)
(* finds one element as long as the pages are those it was picked on.      *)
Looked(r) ==
  replay[r].pick # Nothing =>
    /\ browser /\ Step(r).on # "none"
    /\ replay[r].pick \in LocatorsOf(TaughtElement(Step(r).on), kind, browser)
    /\ replay[r].fresh => Uniquely(Visible(PageOf(r)), replay[r].pick)

LookInv == \A r \in Replays : Looked(r)

(* A locator of the taught element finds it when it is there, unless it    *)
(* goes by the text near it.                                               *)
LEMMA TaughtIsFound ==
  ASSUME NEW e, NEW els, NEW l \in LocatorsOf(e, kind, browser), e \in els,
         ~(browser /\ l.by \in Nearby)
  PROVE  e \in Hits(els, l)
<1>1. l \in BuildLocators(e)
  BY DEF LocatorsOf
<1>2. e.at[l.by] = l.value
  BY <1>1 DEF BuildLocators
<1>3. QED
  BY <1>2 DEF Hits, Matches

(* What a step acts on is the taught element, if that is there, the page   *)
(* is as it was looked at, and it is not the text near the element.        *)
LEMMA TargetIsTaught ==
  ASSUME ReplayTypeOK, NEW r \in Replays, Looked(r), Step(r).on # "none",
         NEW e \in Targets(r), e # Heading, replay[r].fresh,
         TaughtElement(Step(r).on) \in Visible(PageOf(r))
  PROVE  e.ref = Step(r).on
<1> DEFINE els == Visible(PageOf(r))
           own == TaughtElement(Step(r).on)
<1>1. PICK l : /\ l \in LocatorsOf(own, kind, browser)
               /\ Uniquely(els, l) /\ e \in Hits(els, l)
  <2>1. CASE browser
    BY <2>1 DEF Targets, Looked
  <2>2. CASE ~browser
    BY <2>2, ResolvedIsTaught DEF Targets
  <2>3. QED
    BY <2>1, <2>2
<1>2. ~(browser /\ l.by \in Nearby)
  BY <1>1 DEF Hits, Matches
<1>3. own \in Hits(els, l)
  BY <1>1, <1>2, TaughtIsFound
<1>4. e = own
  BY <1>1, <1>3 DEF Uniquely
<1>5. QED
  BY <1>4, TaughtElementIs

LEMMA NotLedAstray ==
  ASSUME ReplayTypeOK, NEW r \in Replays, Looked(r), Step(r).on # "none",
         NEW e \in Targets(r), Watch(r, e), ActsOnTaught
  PROVE  ActsOnTaught'
<1>1. CASE e.ref = Step(r).on
  BY <1>1 DEF Watch, ActsOnTaught
<1>2. CASE e.ref # Step(r).on
  <2>1. \/ TaughtElement(Step(r).on) \notin Visible(PageOf(r))
        \/ e = Heading \/ ~replay[r].fresh
    BY <1>2, TargetIsTaught
  <2>2. QED
    BY <1>2, <2>1 DEF Watch, ActsOnTaught
<1>3. QED
  BY <1>1, <1>2

(* What others do changes nothing of a look.                               *)
LEMMA LookedKept ==
  ASSUME NEW q \in Replays, Looked(q), kind' = kind, browser' = browser,
         replay'[q] = replay[q],
         browser => /\ present' = present
                    /\ page'[q].nat = page[q].nat /\ page'[q].loading = page[q].loading
  PROVE  Looked(q)'
<1>1. Step(q)' = Step(q)
  BY DEF Step
<1>2. TaughtElement(Step(q).on)' = TaughtElement(Step(q).on)
  BY <1>1 DEF TaughtElement
<1>3. browser => Visible(PageOf(q))' = Visible(PageOf(q))
  BY DEF Visible, PageOf
<1>4. browser => \A l : Uniquely(Visible(PageOf(q)), l)' = Uniquely(Visible(PageOf(q)), l)
  BY <1>3 DEF Uniquely, Hits, Matches
<1>5. QED
  BY <1>1, <1>2, <1>3, <1>4 DEF Looked, Uniquely, Hits, Matches

(* A step of one replay that forgets its look, and changes no page but its *)
(* own, keeps all looks.                                                   *)
LEMMA LookInvKept ==
  ASSUME ReplayTypeOK, LookInv, NEW r \in Replays, kind' = kind, browser' = browser,
         present' = present,
         \A q \in Replays \ {r} : replay'[q] = replay[q], replay'[r].pick = Nothing,
         browser => \A q \in Replays \ {r} : page'[q] = page[q]
  PROVE  LookInv'
<1>1. \A q \in Replays \ {r} : Looked(q)'
  BY LookedKept DEF LookInv
<1>2. Looked(r)'
  BY DEF Looked
<1>3. QED
  BY <1>1, <1>2 DEF LookInv

(* A browser changes its own page only.                                    *)
LEMMA OwnPage ==
  ASSUME ReplayTypeOK, NEW r \in Replays, browser,
         \/ Navigate(r) \/ WaitLoad(r) \/ FillField(r) \/ Click(r)
         \/ Refuse(r) \/ Confirm(r) \/ Verify(r) \/ Throw(r),
         NEW q \in Replays \ {r}
  PROVE  page'[q] = page[q]
<1>1. page \in [Pages -> Page]
  BY TypeIs
<1>2. q \in Pages /\ PageOf(r) = r
  BY DEF Pages, PageOf
<1>3. CASE Navigate(r) \/ WaitLoad(r)
  BY <1>1, <1>2, <1>3 DEF Navigate, WaitLoad
<1>4. CASE FillField(r) \/ Click(r)
  BY <1>1, <1>2, <1>4 DEF FillField, Click, SetValue, AskFirst
<1>5. CASE Refuse(r) \/ Confirm(r) \/ Verify(r) \/ Throw(r)
  BY <1>1, <1>2, <1>5 DEF Refuse, Confirm, Verify, Throw
<1>6. QED
  BY <1>3, <1>4, <1>5

LEMMA LookPreserved == ReplayTypeOK /\ LookInv /\ [Next]_vars => LookInv'
<1> SUFFICES ASSUME ReplayTypeOK, LookInv, [Next]_vars PROVE LookInv'
  OBVIOUS
<1>1. page \in [Pages -> Page] /\ replay \in [Replays -> ReplayRecord]
  BY TypeIs
<1>2. ASSUME NEW r \in Replays, NEW d \in Deps, NEW flow \in Flows, Start(r, d, flow)
      PROVE  LookInv'
  <2>1. /\ \A q \in Replays \ {r} : replay'[q] = replay[q]
        /\ replay'[r].pick = Nothing
    BY <1>1, <1>2 DEF Start, NoReplay
  <2>2. \A q \in Replays \ {r} : page'[q] = page[q]
    BY <1>1, <1>2 DEF Start, Pages
  <2>3. QED
    BY <1>2, <2>1, <2>2, LookInvKept DEF Start
<1>3. ASSUME NEW r \in Replays, Look(r) PROVE LookInv'
  <2>1. PICK l \in ResolveStep(r) : replay' = [replay EXCEPT ![r].pick = l]
    BY <1>3 DEF Look
  <2>2. \A q \in Replays \ {r} : Looked(q)'
    BY <1>1, <1>3, <2>1, LookedKept DEF Look, LookInv
  <2>3. Looked(r)'
    <3>1. /\ replay'[r].pick = l /\ replay'[r].flow = replay[r].flow
          /\ replay'[r].next = replay[r].next
      BY <1>1, <2>1 DEF ReplayRecord
    <3>2. Step(r)' = Step(r)
      BY <1>3, <3>1 DEF Step, Look
    <3>3. TaughtElement(Step(r).on)' = TaughtElement(Step(r).on)
      BY <1>3, <3>2 DEF TaughtElement, Look
    <3>4. /\ l \in LocatorsOf(TaughtElement(Step(r).on), kind, browser)
          /\ Uniquely(Visible(PageOf(r)), l)
      BY <1>3, <2>1, ResolvedIsTaught DEF Look
    <3>5. Visible(PageOf(r))' = Visible(PageOf(r))
      BY <1>3 DEF Look, Visible, PageOf
    <3>6. QED
      BY <1>3, <3>1, <3>2, <3>3, <3>4, <3>5 DEF Looked, Look, Uniquely, Hits, Matches
  <2>4. QED
    BY <2>2, <2>3 DEF LookInv
<1>4. ASSUME NEW r \in Replays,
             \/ Navigate(r) \/ WaitLoad(r) \/ FillField(r) \/ Click(r)
             \/ Refuse(r) \/ Confirm(r) \/ Verify(r) \/ Throw(r)
      PROVE  LookInv'
  <2>1. Passes(r) \/ Stops(r)
    BY <1>4 DEF Navigate, WaitLoad, FillField, Click, Refuse, Confirm, Verify, Throw
  <2>2. /\ \A q \in Replays \ {r} : replay'[q] = replay[q]
        /\ replay'[r].pick = Nothing
    BY <2>1, PassesOne, StopsOne
  <2>3. browser => \A q \in Replays \ {r} : page'[q] = page[q]
    BY <1>4, OwnPage
  <2>4. kind' = kind /\ browser' = browser /\ present' = present
    BY <1>4 DEF Navigate, WaitLoad, FillField, Click, Refuse, Confirm, Verify, Throw
  <2>5. QED
    BY <2>2, <2>3, <2>4, LookInvKept
<1>5. ASSUME Change PROVE LookInv'
  <2> SUFFICES ASSUME NEW q \in Replays PROVE Looked(q)'
    BY DEF LookInv
  <2>1. /\ replay'[q].pick = replay[q].pick /\ replay'[q].flow = replay[q].flow
        /\ replay'[q].next = replay[q].next
        /\ replay'[q].fresh = (replay[q].pick = Nothing)
    BY <1>1, <1>5 DEF Change, ReplayRecord
  <2>2. Step(q)' = Step(q) /\ kind' = kind /\ browser' = browser
    BY <1>5, <2>1 DEF Step, Change
  <2>3. TaughtElement(Step(q).on)' = TaughtElement(Step(q).on)
    BY <2>2 DEF TaughtElement
  <2>4. QED
    BY <2>1, <2>2, <2>3 DEF Looked, LookInv
<1>6. CASE UNCHANGED vars
  BY <1>6, LookedKept DEF vars, LookInv
<1>7. QED
  BY <1>2, <1>3, <1>4, <1>5, <1>6 DEF Next, Acts

LEMMA AstrayPreserved ==
  ReplayTypeOK /\ LookInv /\ ActsOnTaught /\ [Next]_vars => ActsOnTaught'
<1> SUFFICES ASSUME ReplayTypeOK, LookInv, ActsOnTaught, [Next]_vars PROVE ActsOnTaught'
  OBVIOUS
<1>1. ASSUME NEW r \in Replays, FillField(r) \/ Click(r) PROVE ActsOnTaught'
  <2>1. PICK e \in Targets(r) : Watch(r, e)
    BY <1>1 DEF FillField, Click
  <2>2. Step(r).on # "none"
    <3>1. Step(r).do \in {"fill", "click"}
      BY <1>1 DEF FillField, Click
    <3>2. QED
      BY <3>1, StepIsOne, ActingStepsUse
  <2>3. QED
    BY <2>1, <2>2, NotLedAstray DEF LookInv
<1>2. ASSUME NEW r \in Replays,
             \/ \E d \in Deps, flow \in Flows : Start(r, d, flow)
             \/ Navigate(r) \/ WaitLoad(r) \/ Look(r)
             \/ Refuse(r) \/ Confirm(r) \/ Verify(r) \/ Throw(r)
      PROVE  ActsOnTaught'
  BY <1>2 DEF Start, Navigate, WaitLoad, Look, Refuse, Confirm, Verify, Throw, ActsOnTaught
<1>3. CASE Change \/ UNCHANGED vars
  BY <1>3 DEF Change, vars, ActsOnTaught
<1>4. QED
  BY <1>1, <1>2, <1>3 DEF Next, Acts

(* While the element a step was taught on is there, the step acts on it or *)
(* on none (resolveLocators, resolveAsync), but for the text near it and a *)
(* page that changes between the look and the act.                         *)
THEOREM ActsCorrect == Spec => []ActsOnTaught
<1>1. Init => LookInv /\ ActsOnTaught
  BY DEF Init, LookInv, Looked, NoReplay, ActsOnTaught
<1>2. QED
  BY <1>1, TypeCorrect, LookPreserved, AstrayPreserved, PTL DEF Spec

-----------------------------------------------------------------------------
(* A create replay saves the rule of its deployment.                       *)

(* The step before the two fields of the rule, and the one that adds it.   *)
Lead   == IF kind = "A" THEN 0 ELSE 2
SaveAt == IF kind = "A" THEN 3 ELSE 6

Saved(r) ==
  \E i \in DOMAIN rules :
    rules[i].by = "create" /\ \A f \in Fields : rules[i].values[f] = replay[r].for

FormFilled(r) ==
  LET form == page[PageOf(r)].form
  IN  /\ replay[r].next > Lead + 1 => form["name"] = replay[r].for
      /\ replay[r].next > Lead + 2 => form["port"] = replay[r].for

(* A create replay has filled the form of its page as far as it has come,  *)
(* and past the step that saves there is its rule.                         *)
OnItsWay(r) ==
  replay[r].flow = "create" =>
    /\ Running(r) => FormFilled(r) /\ (replay[r].next > SaveAt => Saved(r))
    /\ replay[r].state = "ok" => Saved(r)

Whole(rule) == rule.by = "create" => rule.values["name"] = rule.values["port"]

OneAtATime == ~browser => \A q, r \in Replays : Running(q) /\ Running(r) => q = r

CreateInv ==
  /\ OneAtATime
  /\ strayed = {} => /\ \A r \in Replays : OnItsWay(r)
                     /\ \A i \in DOMAIN rules : Whole(rules[i])

(* Where the steps of a create workflow are.                               *)
LEMMA CreatePlaces ==
  ASSUME ReplayTypeOK, NEW r \in Replays, replay[r].flow = "create"
  PROVE  LET n == replay[r].next IN
         /\ n \in Nat /\ Lead \in Nat /\ SaveAt \in Nat
         /\ SaveAt > Lead + 2 /\ Len(Steps(kind, "create")) = SaveAt + (IF kind = "A" THEN 2 ELSE 1)
         /\ Step(r).do = "fill" => \/ n = Lead + 1 /\ Step(r).on = "name"
                                   \/ n = Lead + 2 /\ Step(r).on = "port"
         /\ n \in {Lead + 1, Lead + 2} => Step(r).do = "fill"
         /\ kind = "A" => ((Step(r).do = "click" /\ Step(r).on = "save") <=> n = SaveAt)
         /\ kind = "B" => (Step(r).do = "confirm" <=> n = SaveAt)
         /\ Step(r).do = "confirm" => kind = "B"
<1>1. CASE kind = "A"
  <2>1. replay[r].next \in {1, 2, 3, 4, 5} /\ Step(r) = Steps("A", "create")[replay[r].next]
    BY <1>1, StepIsOne, CreateA
  <2>2. QED
    <3>1. Lead = 0 /\ SaveAt = 3 /\ Len(Steps(kind, "create")) = 5
      BY <1>1, CreateA DEF Lead, SaveAt
    <3>2. kind = "A" /\ replay[r].next \in Nat
      BY <1>1, <2>1
    <3>3. QED
      BY <2>1, <3>1, <3>2, CreateA DEF Use, Do
<1>2. CASE kind = "B"
  <2>1. /\ replay[r].next \in {1, 2, 3, 4, 5, 6, 7}
        /\ Step(r) = Steps("B", "create")[replay[r].next]
    BY <1>2, StepIsOne, CreateB
  <2>2. QED
    <3>1. Lead = 2 /\ SaveAt = 6 /\ Len(Steps(kind, "create")) = 7
      BY <1>2, CreateB DEF Lead, SaveAt
    <3>2. kind = "B" /\ replay[r].next \in Nat
      BY <1>2, <2>1
    <3>3. QED
      BY <2>1, <3>1, <3>2, CreateB DEF Use, Do
<1>3. QED
  BY <1>1, <1>2, TypeIs

(* Rules are only ever added.                                              *)
LEMMA SavedStays ==
  ASSUME ReplayTypeOK, NEW q \in Replays, Saved(q), replay'[q].for = replay[q].for,
         rules' = rules \/ \E x : rules' = Append(rules, x)
  PROVE  Saved(q)'
<1>1. rules \in Seq(Rule)
  BY TypeIs
<1>2. \A i \in DOMAIN rules : i \in DOMAIN rules' /\ rules'[i] = rules[i]
  BY <1>1
<1>3. QED
  BY <1>2 DEF Saved

LEMMA OthersStay ==
  ASSUME ReplayTypeOK, OneAtATime, NEW r \in Replays, Running(r),
         kind' = kind, browser' = browser,
         NEW q \in Replays \ {r}, OnItsWay(q), replay'[q] = replay[q],
         rules' = rules \/ \E x : rules' = Append(rules, x),
         browser => page'[q] = page[q]
  PROVE  OnItsWay(q)'
<1>1. Saved(q) => Saved(q)'
  BY SavedStays
<1>2. Running(q)' => /\ Running(q) /\ browser
                     /\ page'[PageOf(q)]= page[PageOf(q)] /\ PageOf(q)' = PageOf(q)
  BY DEF Running, OneAtATime, PageOf
<1>3. Lead' = Lead /\ SaveAt' = SaveAt
  BY DEF Lead, SaveAt
<1>4. Running(q)' => (FormFilled(q) => FormFilled(q)')
  BY <1>2, <1>3 DEF FormFilled
<1>5. QED
  BY <1>1, <1>2, <1>3, <1>4 DEF OnItsWay, Running

(* The rule a create replay adds when it comes to save is its own.         *)
LEMMA AddedIsWhole ==
  ASSUME ReplayTypeOK, NEW r \in Replays, Running(r), OnItsWay(r),
         replay[r].flow = "create" => replay[r].next = SaveAt
  PROVE  LET rule == [values |-> page[PageOf(r)].form, by |-> replay[r].flow] IN
         /\ Whole(rule)
         /\ replay[r].flow = "create" => \A f \in Fields : rule.values[f] = replay[r].for
<1>1. CASE replay[r].flow = "create"
  <2>1. replay[r].next > Lead + 1 /\ replay[r].next > Lead + 2
    BY <1>1, CreatePlaces
  <2>2. FormFilled(r)
    BY <1>1 DEF OnItsWay
  <2>3. QED
    BY <1>1, <2>1, <2>2 DEF FormFilled, Whole, Fields
<1>2. CASE replay[r].flow # "create"
  BY <1>2 DEF Whole
<1>3. QED
  BY <1>1, <1>2

LEMMA RuleAdded ==
  ASSUME ReplayTypeOK, NEW r \in Replays, NEW rule, Whole(rule),
         \A i \in DOMAIN rules : Whole(rules[i]), rules' = Append(rules, rule)
  PROVE  /\ \A i \in DOMAIN rules' : Whole(rules'[i])
         /\ \E i \in DOMAIN rules' : rules'[i] = rule
<1>1. rules \in Seq(Rule) /\ Len(rules) \in Nat
  <2>1. rules \in Seq(Rule)
    BY TypeIs
  <2>2. QED
    BY <2>1
<1>2. /\ DOMAIN rules' = 1..Len(rules) + 1 /\ DOMAIN rules = 1..Len(rules)
      /\ \A i \in 1..Len(rules) : rules'[i] = rules[i]
      /\ rules'[Len(rules) + 1] = rule
  BY <1>1
<1>3. \A i \in DOMAIN rules' : i \in DOMAIN rules \/ i = Len(rules) + 1
  BY <1>1, <1>2
<1>4. QED
  BY <1>1, <1>2, <1>3

(* What a replay has to do to its form and its rule by a step, for it to   *)
(* stay on its way when the step passes.                                   *)
Does(r) ==
  LET n    == replay[r].next
      form == page[PageOf(r)].form
      new  == page'[PageOf(r)].form
  IN  /\ new["name"] = IF n = Lead + 1 THEN replay[r].for ELSE form["name"]
      /\ new["port"] = IF n = Lead + 2 THEN replay[r].for ELSE form["port"]
      /\ rules' = rules \/ \E x : rules' = Append(rules, x)
      /\ n = SaveAt => \E i \in DOMAIN rules' :
                         /\ rules'[i].by = "create"
                         /\ \A f \in Fields : rules'[i].values[f] = replay[r].for

LEMMA OwnPasses ==
  ASSUME ReplayTypeOK, NEW r \in Replays, Running(r), OnItsWay(r), Passes(r),
         kind' = kind, browser' = browser, replay[r].flow = "create" => Does(r)
  PROVE  OnItsWay(r)'
<1> SUFFICES ASSUME replay[r].flow = "create" PROVE OnItsWay(r)'
  BY PassesOne DEF OnItsWay
<1> DEFINE n == replay[r].next
<1>1. /\ replay'[r].for = replay[r].for
      /\ replay'[r].state = "ok" => n = Len(Steps(kind, "create"))
      /\ replay'[r].next = n \/ replay'[r].next = n + 1
  <2>1. Running(r) => replay[r].state # "ok"
    BY DEF Running
  <2>2. QED
    BY <2>1, PassesOne
<1>2. /\ n \in Nat /\ Lead \in Nat /\ SaveAt \in Nat /\ SaveAt > Lead + 2
      /\ Len(Steps(kind, "create")) > SaveAt
  BY CreatePlaces
<1>3. FormFilled(r) /\ (n > SaveAt => Saved(r))
  BY DEF OnItsWay
<1>4. PageOf(r)' = PageOf(r) /\ Lead' = Lead /\ SaveAt' = SaveAt
  BY DEF PageOf, Lead, SaveAt
<1>5. FormFilled(r)'
  <2>1. /\ replay'[r].next > Lead + 1 => n > Lead + 1 \/ n = Lead + 1
        /\ replay'[r].next > Lead + 2 => n > Lead + 2 \/ n = Lead + 2
        /\ n > Lead + 1 => n # Lead + 1
        /\ n > Lead + 2 => n # Lead + 2
    BY <1>1, <1>2
  <2>2. QED
    BY <1>1, <1>3, <1>4, <2>1 DEF FormFilled, Does
<1>6. n >= SaveAt => Saved(r)'
  <2>1. n > SaveAt => Saved(r)'
    BY <1>1, <1>3, SavedStays DEF Does
  <2>2. n = SaveAt => Saved(r)'
    BY <1>1 DEF Does, Saved
  <2>3. QED
    BY <1>2, <2>1, <2>2
<1>7. (replay'[r].next > SaveAt => n >= SaveAt) /\ (replay'[r].state = "ok" => n >= SaveAt)
  BY <1>1, <1>2
<1>8. QED
  BY <1>4, <1>5, <1>6, <1>7 DEF OnItsWay

LEMMA OwnStops ==
  ASSUME ReplayTypeOK, NEW r \in Replays, Stops(r)
  PROVE  OnItsWay(r)'
BY StopsOne DEF OnItsWay, Running

LEMMA OneAtATimePreserved ==
  ReplayTypeOK /\ OneAtATime /\ [Next]_vars => OneAtATime'
<1> SUFFICES ASSUME ReplayTypeOK, OneAtATime, [Next]_vars PROVE OneAtATime'
  OBVIOUS
<1>1. replay \in [Replays -> ReplayRecord]
  BY TypeIs
<1>2. ASSUME NEW r \in Replays, NEW d \in Deps, NEW flow \in Flows, Start(r, d, flow)
      PROVE  OneAtATime'
  <2>1. \A q \in Replays \ {r} : replay'[q] = replay[q]
    BY <1>1, <1>2 DEF Start
  <2>2. browser' = browser /\ (~browser => \A q \in Replays : ~Running(q))
    BY <1>2 DEF Start
  <2>3. QED
    BY <2>1, <2>2 DEF OneAtATime, Running
<1>3. ASSUME NEW r \in Replays, Acts(r) PROVE OneAtATime'
  <2>1. \A q \in Replays : Running(q)' => Running(q)
    <3>1. CASE Look(r)
      BY <1>1, <3>1 DEF Look, Running, ReplayRecord
    <3>2. CASE ~Look(r)
      <4>1. Running(r) /\ (Passes(r) \/ Stops(r))
        BY <1>3, <3>2 DEF Acts, Navigate, WaitLoad, FillField, Click, Refuse, Confirm,
           Verify, Throw
      <4>2. \A q \in Replays \ {r} : replay'[q] = replay[q]
        BY <4>1, PassesOne, StopsOne
      <4>3. QED
        BY <4>1, <4>2 DEF Running
    <3>3. QED
      BY <3>1, <3>2
  <2>2. browser' = browser
    BY <1>3 DEF Acts, Navigate, WaitLoad, Look, FillField, Click, Refuse, Confirm, Verify, Throw
  <2>3. QED
    BY <2>1, <2>2 DEF OneAtATime
<1>4. CASE Change
  BY <1>1, <1>4 DEF Change, OneAtATime, Running, ReplayRecord
<1>5. CASE UNCHANGED vars
  BY <1>5 DEF vars, OneAtATime, Running
<1>6. QED
  BY <1>2, <1>3, <1>4, <1>5 DEF Next

(* When no step went astray, each acted on its element.                    *)
LEMMA OnItsElement ==
  ASSUME ReplayTypeOK, NEW r \in Replays, NEW e, Watch(r, e), strayed' = {}
  PROVE  e.ref = Step(r).on /\ strayed = {}
<1>1. strayed \subseteq strayed'
  BY WatchTypes
<1>2. CASE e.ref # Step(r).on
  BY <1>2 DEF Watch
<1>3. QED
  BY <1>1, <1>2

(* A step of one replay, seen from all.                                    *)
LEMMA StepOfOne ==
  ASSUME ReplayTypeOK, OneAtATime, \A q \in Replays : OnItsWay(q), NEW r \in Replays,
         \/ Navigate(r) \/ WaitLoad(r) \/ FillField(r) \/ Click(r)
         \/ Refuse(r) \/ Confirm(r) \/ Verify(r) \/ Throw(r),
         rules' = rules \/ \E x : rules' = Append(rules, x),
         Passes(r) /\ replay[r].flow = "create" => Does(r)
  PROVE  \A q \in Replays : OnItsWay(q)'
<1>1. Running(r) /\ (Passes(r) \/ Stops(r)) /\ kind' = kind /\ browser' = browser
  BY DEF Navigate, WaitLoad, FillField, Click, Refuse, Confirm, Verify, Throw
<1>2. OnItsWay(r)'
  BY <1>1, OwnPasses, OwnStops
<1>3. \A q \in Replays \ {r} : OnItsWay(q)'
  BY <1>1, PassesOne, StopsOne, OwnPage, OthersStay
<1>4. QED
  BY <1>2, <1>3

(* A replay that adds the rule of its form when it comes to save.          *)
LEMMA Adds ==
  ASSUME ReplayTypeOK, NEW r \in Replays, Running(r), OnItsWay(r),
         \A i \in DOMAIN rules : Whole(rules[i]), rules' = AddRule(r),
         replay[r].flow = "create" => replay[r].next = SaveAt
  PROVE  /\ \A i \in DOMAIN rules' : Whole(rules'[i])
         /\ replay[r].flow = "create" =>
              \E i \in DOMAIN rules' :
                /\ rules'[i].by = "create"
                /\ \A f \in Fields : rules'[i].values[f] = replay[r].for
         /\ \E x : rules' = Append(rules, x)
<1> DEFINE rule == [values |-> page[PageOf(r)].form, by |-> replay[r].flow]
<1>1. rules' = Append(rules, rule)
  BY DEF AddRule
<1>2. /\ Whole(rule) /\ rule.by = replay[r].flow
      /\ replay[r].flow = "create" => \A f \in Fields : rule.values[f] = replay[r].for
  BY AddedIsWhole
<1> HIDE DEF rule
<1>3. /\ \A i \in DOMAIN rules' : Whole(rules'[i])
      /\ \E i \in DOMAIN rules' : rules'[i] = rule
  BY <1>1, <1>2, RuleAdded
<1>4. QED
  BY <1>1, <1>2, <1>3

LEMMA CreatePreserved == ReplayTypeOK /\ CreateInv /\ [Next]_vars => CreateInv'
<1> SUFFICES ASSUME ReplayTypeOK, CreateInv, [Next]_vars, strayed' = {}
             PROVE  /\ \A r \in Replays : OnItsWay(r)'
                    /\ \A i \in DOMAIN rules' : Whole(rules'[i])
  BY OneAtATimePreserved DEF CreateInv
<1> DEFINE Goal == /\ \A r \in Replays : OnItsWay(r)'
                   /\ \A i \in DOMAIN rules' : Whole(rules'[i])
           Given == /\ \A r \in Replays : OnItsWay(r)
                    /\ \A i \in DOMAIN rules : Whole(rules[i])
<1>1. /\ OneAtATime /\ (strayed = {} => Given)
      /\ page \in [Pages -> Page] /\ replay \in [Replays -> ReplayRecord]
  BY TypeIs DEF CreateInv
<1>2. ASSUME NEW r \in Replays, NEW d \in Deps, NEW flow \in Flows, Start(r, d, flow)
      PROVE  Goal
  <2>1. /\ strayed = {} /\ rules' = rules /\ kind' = kind /\ browser' = browser
        /\ ~browser => \A q \in Replays : ~Running(q)
    BY <1>2 DEF Start
  <2>2. Given
    BY <1>1, <2>1
  <2>3. /\ \A q \in Replays \ {r} : replay'[q] = replay[q]
        /\ replay'[r].next = 1 /\ replay'[r].state = "running"
    BY <1>1, <1>2 DEF Start, NoReplay
  <2>4. browser => \A q \in Replays \ {r} : page'[q] = page[q]
    BY <1>1, <1>2 DEF Start, Pages
  <2>5. \A q \in Replays \ {r} : OnItsWay(q)'
    BY <2>1, <2>2, <2>3, <2>4 DEF OnItsWay, Running, FormFilled, Saved, PageOf, Lead, SaveAt
  <2>6. OnItsWay(r)'
    <3>1. ~(1 > Lead + 1) /\ ~(1 > Lead + 2) /\ ~(1 > SaveAt)
      BY DEF Lead, SaveAt
    <3>2. Lead' = Lead /\ SaveAt' = SaveAt
      BY <2>1 DEF Lead, SaveAt
    <3>3. QED
      BY <2>3, <3>1, <3>2 DEF OnItsWay, FormFilled
  <2>7. QED
    BY <2>1, <2>2, <2>5, <2>6
<1>3. ASSUME NEW r \in Replays, Navigate(r) \/ WaitLoad(r) \/ Verify(r) PROVE Goal
  <2>1. strayed = {} /\ rules' = rules /\ Step(r).do \in {"navigate", "wait", "verify"}
    BY <1>3 DEF Navigate, WaitLoad, Verify
  <2>2. Given
    BY <1>1, <2>1
  <2>3. page'[PageOf(r)].form = page[PageOf(r)].form
    BY <1>1, <1>3, PageIs DEF Navigate, WaitLoad, Verify, Page
  <2>4. replay[r].flow = "create" => Does(r)
    BY <2>1, <2>3, TypeIs, CreatePlaces DEF Does
  <2>5. QED
    BY <1>1, <1>3, <2>1, <2>2, <2>4, StepOfOne
<1>4. ASSUME NEW r \in Replays, Refuse(r) \/ Throw(r) PROVE Goal
  <2>1. strayed = {} /\ rules' = rules /\ Stops(r)
    BY <1>4 DEF Refuse, Throw
  <2>2. Given /\ replay'[r].state = "repair" /\ replay[r].state = "running"
    BY <1>1, <1>4, <2>1, StopsOne DEF Refuse, Throw, Running
  <2>3. ~Passes(r)
    BY <2>2, PassesOne
  <2>4. QED
    BY <1>1, <1>4, <2>1, <2>2, <2>3, StepOfOne
<1>5. ASSUME NEW r \in Replays, Look(r) PROVE Goal
  <2>1. PICK l : replay' = [replay EXCEPT ![r].pick = l]
    BY <1>5 DEF Look
  <2>2. \A q \in Replays :
          /\ replay'[q].flow = replay[q].flow /\ replay'[q].next = replay[q].next
          /\ replay'[q].for = replay[q].for /\ replay'[q].state = replay[q].state
    BY <1>1, <2>1 DEF ReplayRecord
  <2>3. /\ kind' = kind /\ browser' = browser /\ page' = page /\ rules' = rules
        /\ strayed = {}
    BY <1>5 DEF Look
  <2>4. QED
    BY <1>1, <2>2, <2>3 DEF OnItsWay, Running, FormFilled, Saved, PageOf, Lead, SaveAt
<1>6. ASSUME NEW r \in Replays, FillField(r) PROVE Goal
  <2>1. PICK e : SetValue(PageOf(r), e, BindingValue(r)) /\ Watch(r, e)
    BY <1>6 DEF FillField
  <2>2. e.ref = Step(r).on /\ strayed = {}
    BY <2>1, OnItsElement
  <2>3. Given
    BY <1>1, <2>2
  <2>4. rules' = rules /\ Step(r).do = "fill"
    BY <1>6 DEF FillField
  <2>5. replay[r].flow = "create" => Does(r)
    <3> SUFFICES ASSUME replay[r].flow = "create" PROVE Does(r)
      OBVIOUS
    <3> DEFINE n == replay[r].next
    <3>1. /\ \/ n = Lead + 1 /\ Step(r).on = "name"
             \/ n = Lead + 2 /\ Step(r).on = "port"
          /\ n # SaveAt /\ Lead + 1 # Lead + 2
      BY <2>4, CreatePlaces
    <3>2. /\ Step(r).on \in Fields
          /\ page' = [page EXCEPT ![PageOf(r)].form[Step(r).on] = replay[r].for]
      BY <2>1, <2>2, <3>1 DEF SetValue, BindingValue, Fields
    <3>3. \A f \in Fields : page'[PageOf(r)].form[f] =
            IF f = Step(r).on THEN replay[r].for ELSE page[PageOf(r)].form[f]
      BY <1>1, <3>2, PageIs DEF Page
    <3>4. QED
      BY <2>4, <3>1, <3>3 DEF Does, Fields
  <2>6. QED
    BY <1>1, <1>6, <2>3, <2>4, <2>5, StepOfOne
<1>7. ASSUME NEW r \in Replays, Click(r) PROVE Goal
  <2>1. PICK e : /\ AskFirst(PageOf(r), e) /\ Watch(r, e)
                 /\ rules' = IF e.ref = "save" /\ kind = "A" THEN AddRule(r) ELSE rules
    BY <1>7 DEF Click
  <2>2. e.ref = Step(r).on /\ strayed = {}
    BY <2>1, OnItsElement
  <2>3. Given /\ Running(r) /\ Step(r).do = "click"
    BY <1>1, <1>7, <2>2 DEF Click
  <2>4. page'[PageOf(r)].form = page[PageOf(r)].form
    BY <1>1, <2>1, PageIs DEF AskFirst, Page
  <2>5. CASE e.ref = "save" /\ kind = "A"
    <3>1. replay[r].flow = "create" => replay[r].next = SaveAt
      BY <2>2, <2>3, <2>5, CreatePlaces
    <3>2. /\ \A i \in DOMAIN rules' : Whole(rules'[i])
          /\ replay[r].flow = "create" =>
               \E i \in DOMAIN rules' :
                 /\ rules'[i].by = "create"
                 /\ \A f \in Fields : rules'[i].values[f] = replay[r].for
          /\ \E x : rules' = Append(rules, x)
      BY <2>1, <2>3, <2>5, <3>1, Adds
    <3>3. replay[r].flow = "create" => Does(r)
      BY <2>3, <2>4, <3>2, CreatePlaces DEF Does
    <3>4. QED
      BY <1>1, <1>7, <2>3, <3>2, <3>3, StepOfOne
  <2>6. CASE ~(e.ref = "save" /\ kind = "A")
    <3>1. rules' = rules
      BY <2>1, <2>6
    <3>2. replay[r].flow = "create" => Does(r)
      BY <2>2, <2>3, <2>4, <2>6, <3>1, TypeIs, CreatePlaces DEF Does
    <3>3. QED
      BY <1>1, <1>7, <2>3, <3>1, <3>2, StepOfOne
  <2>7. QED
    BY <2>5, <2>6
<1>8. ASSUME NEW r \in Replays, Confirm(r) PROVE Goal
  <2>1. strayed = {} /\ Running(r) /\ Step(r).do = "confirm"
    BY <1>8 DEF Confirm
  <2>2. Given
    BY <1>1, <2>1
  <2>3. CASE page[PageOf(r)].dialog
    <3>1. rules' = AddRule(r) /\ page'[PageOf(r)].form = page[PageOf(r)].form
      BY <1>1, <1>8, <2>3, PageIs DEF Confirm, Page
    <3>2. replay[r].flow = "create" => replay[r].next = SaveAt
      BY <2>1, CreatePlaces
    <3>3. /\ \A i \in DOMAIN rules' : Whole(rules'[i])
          /\ replay[r].flow = "create" =>
               \E i \in DOMAIN rules' :
                 /\ rules'[i].by = "create"
                 /\ \A f \in Fields : rules'[i].values[f] = replay[r].for
          /\ \E x : rules' = Append(rules, x)
      BY <2>1, <2>2, <3>1, <3>2, Adds
    <3>4. replay[r].flow = "create" => Does(r)
      BY <2>1, <3>1, <3>3, CreatePlaces DEF Does
    <3>5. QED
      BY <1>1, <1>8, <2>2, <3>3, <3>4, StepOfOne
  <2>4. CASE ~page[PageOf(r)].dialog
    <3>1. rules' = rules /\ Stops(r)
      BY <1>8, <2>4 DEF Confirm
    <3>2. ~Passes(r)
      BY <2>1, <3>1, StopsOne, PassesOne DEF Running
    <3>3. QED
      BY <1>1, <1>8, <2>2, <3>1, <3>2, StepOfOne
  <2>5. QED
    BY <2>3, <2>4
<1>9. ASSUME Change PROVE Goal
  <2>1. \A q \in Replays :
          /\ replay'[q].flow = replay[q].flow /\ replay'[q].next = replay[q].next
          /\ replay'[q].for = replay[q].for /\ replay'[q].state = replay[q].state
    BY <1>1, <1>9 DEF Change, ReplayRecord
  <2>2. /\ kind' = kind /\ browser' = browser /\ page' = page /\ rules' = rules
        /\ strayed = {}
    BY <1>9 DEF Change
  <2>3. QED
    BY <1>1, <2>1, <2>2 DEF OnItsWay, Running, FormFilled, Saved, PageOf, Lead, SaveAt
<1>10. CASE UNCHANGED vars
  BY <1>1, <1>10 DEF vars, OnItsWay, Running, FormFilled, Saved, PageOf, Lead, SaveAt
<1>11. QED
  BY <1>2, <1>3, <1>4, <1>5, <1>6, <1>7, <1>8, <1>9, <1>10 DEF Next, Acts

LEMMA CreateInvSuffices == ReplayTypeOK /\ CreateInv => CreatesAreTrue
BY DEF CreateInv, OnItsWay, Saved, Whole, CreatesAreTrue

(* A rule that a create replay saved has all its values from one           *)
(* deployment, and a create that reports ok has saved the rule it was      *)
(* asked for, whichever replays ran next to it or stopped half-way (the    *)
(* one browser of fake.ts, the browser per replay of real.ts).             *)
THEOREM CreatesCorrect == Spec => []CreatesAreTrue
<1>1. Init => CreateInv
  BY DEF Init, CreateInv, OneAtATime, Running, OnItsWay, NoReplay
<1>2. QED
  BY <1>1, TypeCorrect, CreatePreserved, CreateInvSuffices, PTL DEF Spec
=============================================================================
