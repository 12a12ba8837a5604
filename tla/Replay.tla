-------------------------------- MODULE Replay --------------------------------
(***************************************************************************)
(* Taught workflows of a router and their replay: the recorder             *)
(* (providers-router/recorder.ts), the ranking of locators (core/          *)
(* locator.ts), the workflows, the two simulated routers (fixtures.ts) and *)
(* the two ways to replay: fake.ts on the one page of a simulated router,  *)
(* one replay at a time, and real.ts in a browser of its own per replay,   *)
(* step by step next to other replays.  The real router is taken to have   *)
(* the pages of the simulated ones; its elements come and go.              *)
(***************************************************************************)
EXTENDS Integers, Sequences

CONSTANTS
  Deps,       \* deployments, each with its values for the fields of a rule
  Replays,    \* replays that can be under way at one time
  Blank,      \* no value, no deployment
  Nothing,    \* an attribute an element does not have
  MaxChanges, \* bound: elements of the page that appear or go
  MaxRules    \* bound: rules a router holds

ASSUME ReplayAssumption == Blank \notin Deps /\ MaxChanges \in Nat /\ MaxRules \in Nat

VARIABLES
  kind,      \* the router: "A", one plain form, or "B", nested and asking
  browser,   \* replays run in browsers of their own (real.ts)
  present,   \* elements the router's pages have now
  page,      \* pages: where it is, its spinner, its dialog, its form
  replay,    \* replays
  rules,     \* the router's table of forwarding rules, and what saved them
  changes,   \* used up of the bound
  strayed    \* how a step came to act on another element than the taught one

vars == <<kind, browser, present, page, replay, rules, changes, strayed>>

Fields == {"name", "port"}      \* of the five fields: the key and a value
Values == Deps \cup {Blank}
Pages == Replays \cup {Blank}   \* Blank is the page of a simulated router

-----------------------------------------------------------------------------
(* Elements and locators *)

\* locatorScore
Score == [named |-> 100, label |-> 90, data |-> 85, attr |-> 80, id |-> 75,
          role |-> 70, heading |-> 55, row |-> 50, path |-> 30, generated |-> 20]
Strategies == DOMAIN Score

Element(ref, has) ==
  [ref |-> ref, at |-> [s \in Strategies |-> IF s \in DOMAIN has THEN has[s] ELSE Nothing]]

\* The elements of the two forms (page() of the fixtures): the taught ones, two
\* strangers that share attributes with a field, and in a browser the heading,
\* which is an element too.
Taught(k) ==
  IF k = "A"
  THEN {Element("name", [named |-> "t1", role |-> "t", label |-> "l1", attr |-> "n1", id |-> "i1"]),
        Element("port", [named |-> "t2", role |-> "t", label |-> "l2", attr |-> "n2", id |-> "i2"]),
        Element("save", [named |-> "b1", role |-> "b", id |-> "i3"]),
        Element("status", [named |-> "s1", role |-> "s", heading |-> "h1"])}
  ELSE {Element("name", [named |-> "t1", role |-> "t", label |-> "l1", data |-> "d1",
                         generated |-> "g1", heading |-> "h1"]),
        Element("port", [named |-> "t2", role |-> "t", label |-> "l2", data |-> "d2",
                         generated |-> "g2"]),
        Element("save", [named |-> "b1", role |-> "b", data |-> "d3", generated |-> "g3"])}
Strangers ==
  {Element("other", [named |-> "t2", role |-> "t", label |-> "l2", data |-> "d9"]),
   Element("twin", [named |-> "t1", role |-> "t", label |-> "l1", data |-> "d1"])}
Heading == Element("heading", <<>>)

\* buildLocators: one per attribute the element has, a role without a name only
\* when there is no name; coordinates match nothing and are left out.
BuildLocators(e) ==
  {[by |-> s, value |-> e.at[s]] :
     s \in {t \in Strategies : e.at[t] # Nothing
                               /\ (t = "role" => e.at["named"] = Nothing)}}

\* The fixture workflows find a field by its label and the rest by role and name,
\* B also by a data attribute; a recording has all.
FixtureStrategies(k, ref) ==
  {IF ref \in Fields THEN "label" ELSE "named"} \cup (IF k = "B" THEN {"data"} ELSE {})
LocatorsOf(e, k, recorded) ==
  {l \in BuildLocators(e) : recorded \/ l.by \in FixtureStrategies(k, e.ref)}

\* matches of the simulated pages, and toPw of the browser, where the locator of
\* an element by the text near it finds the text itself.  A browser also finds a
\* text within another one; no name or label here is part of another.
Nearby == {"heading", "row"}
Matches(e, l) ==
  IF browser /\ l.by \in Nearby THEN e = Heading ELSE e.at[l.by] = l.value
Hits(els, l) == {e \in els : Matches(e, l)}
Uniquely(els, l) == \E e \in els : Hits(els, l) = {e}

Best(locs) == CHOOSE l \in locs : \A m \in locs : Score[m.by] <= Score[l.by]

\* Mutant of Resolution: the best locator that matches anything.
ResolutionGuess(els, locs) ==
  LET hitting == {l \in locs : Hits(els, l) # {}} IN
  IF hitting = {} THEN {} ELSE {Best(hitting)}

\* resolveLocators: the best of the locators that match exactly one element, if
\* there is one; none is "missing" or "ambiguous" in the report.
Resolution(els, locs) ==
  LET unique == {l \in locs : Uniquely(els, l)} IN
  IF unique = {} THEN {} ELSE {Best(unique)}

-----------------------------------------------------------------------------
(* Workflows *)

Do(what) == [do |-> what, on |-> "none"]
Use(what, ref) == [do |-> what, on |-> ref]

Fill == <<Use("fill", "name"), Use("fill", "port")>>

\* fixtureAWorkflows and fixtureBWorkflows, without login, whose fields are no
\* part of a rule.  Find is only probed (probeRule), which looks at the table as
\* its one step does.
Steps(k, flow) ==
  CASE flow = "create" /\ k = "A" ->
         Fill \o <<Use("click", "save"), Use("click", "status"), Do("verify")>>
    [] flow = "create" /\ k = "B" ->
         <<Do("navigate"), Do("wait")>> \o Fill
           \o <<Use("click", "save"), Do("confirm"), Do("verify")>>
    [] flow = "find"              -> <<Do("verify")>>
    [] flow = "delete" /\ k = "A" -> <<Do("verify"), Use("click", "save")>>
    [] flow = "delete" /\ k = "B" -> <<Do("navigate"), Do("wait"), Do("verify")>>
Flows == {"create", "find", "delete"}

-----------------------------------------------------------------------------
(* A replay *)

FreshPage == [nat |-> FALSE, loading |-> FALSE, dialog |-> FALSE,
              form |-> [f \in Fields |-> Blank]]
NoReplay == [flow |-> "find", for |-> Blank, next |-> 1, state |-> "free",
             pick |-> Nothing, fresh |-> TRUE]

PageOf(r) == IF browser THEN r ELSE Blank
Running(r) == replay[r].state = "running"
Step(r) == Steps(kind, replay[r].flow)[replay[r].next]

\* The elements a replay can see; those of B's form only on its own page, when
\* it has loaded.
Visible(p) == IF kind = "A" \/ (page[p].nat /\ ~page[p].loading) THEN present ELSE {}

\* replay: a browser of its own, or the simulated router as it was left.
Start(r, d, flow) ==
  /\ ~Running(r)
  /\ ~browser => \A q \in Replays : ~Running(q)
  /\ replay' = [replay EXCEPT ![r] = [NoReplay EXCEPT !.flow = flow, !.for = d, !.state = "running"]]
  /\ page' = IF browser THEN [page EXCEPT ![r] = FreshPage] ELSE page
  /\ UNCHANGED <<kind, browser, present, rules, changes, strayed>>

\* Mutant of Passes: the loop goes on after the last step.
PassesOn(r) == replay' = [replay EXCEPT ![r].next = @ + 1, ![r].pick = Nothing]

\* The step went well: to the next one, or the report is ok.
Passes(r) ==
  LET last == replay[r].next = Len(Steps(kind, replay[r].flow)) IN
  replay' = [replay EXCEPT ![r].state = IF last THEN "ok" ELSE @,
                           ![r].next = IF last THEN @ ELSE @ + 1,
                           ![r].pick = Nothing, ![r].fresh = TRUE]

\* The report asks for a repair at this step.
Stops(r) ==
  replay' = [replay EXCEPT ![r].state = "repair", ![r].pick = Nothing, ![r].fresh = TRUE]

\* navigate: fixture B shows a spinner on the page of the rules.
Navigate(r) ==
  /\ Running(r) /\ Step(r).do = "navigate"
  /\ page' = [page EXCEPT ![PageOf(r)].nat = TRUE, ![PageOf(r)].loading = TRUE]
  /\ Passes(r)
  /\ UNCHANGED <<kind, browser, present, rules, changes, strayed>>

\* waitLoad: drainLoading, or the browser's wait for an idle network.
WaitLoad(r) ==
  /\ Running(r) /\ Step(r).do = "wait"
  /\ page' = [page EXCEPT ![PageOf(r)].loading = FALSE]
  /\ Passes(r)
  /\ UNCHANGED <<kind, browser, present, rules, changes, strayed>>

\* The element a step was taught on, as the recorder saw it.
TaughtElement(ref) == CHOOSE e \in Taught(kind) : e.ref = ref

ResolveStep(r) ==
  Resolution(Visible(PageOf(r)), LocatorsOf(TaughtElement(Step(r).on), kind, browser))

\* resolveAsync: a browser counts what the locators match first and acts later;
\* the counts, one await each, are taken in one step.
Look(r) ==
  /\ Running(r) /\ browser /\ Step(r).on # "none" /\ replay[r].pick = Nothing
  /\ \E l \in ResolveStep(r) :
       replay' = [replay EXCEPT ![r].pick = l]
  /\ UNCHANGED <<kind, browser, present, page, rules, changes, strayed>>

\* What a step acts on: the first element its locator matches now, in an order
\* of the document that is not kept; a simulated router is resolved just then.
Targets(r) ==
  UNION {Hits(Visible(PageOf(r)), l) :
           l \in IF browser THEN {replay[r].pick} \ {Nothing} ELSE ResolveStep(r)}

\* What is known of a step that acts on element e.
Watch(r, e) ==
  LET how == CASE TaughtElement(Step(r).on) \notin Visible(PageOf(r)) -> "taught element gone"
               [] e = Heading -> "text taken for element"
               [] ~replay[r].fresh -> "changed after the look"
               [] OTHER -> "led astray"
  IN  strayed' = IF e.ref = Step(r).on THEN strayed ELSE strayed \cup {how}

\* setValue of the routers: an element that is no field changes no rule.
SetValue(p, e, value) ==
  page' = IF e.ref \in Fields THEN [page EXCEPT ![p].form[e.ref] = value] ELSE page

\* resolveBinding: the variables of a replay are its deployment's.
BindingValue(r) == replay[r].for

\* fill and select, which fail on what is no field (Throw).
FillField(r) ==
  /\ Running(r) /\ Step(r).do = "fill"
  /\ \E e \in Targets(r) \ {Heading} :
       /\ SetValue(PageOf(r), e, BindingValue(r))
       /\ Watch(r, e)
  /\ Passes(r)
  /\ UNCHANGED <<kind, browser, present, rules, changes>>

\* The router adds a rule with what its form holds.
AddRule(r) == Append(rules, [values |-> page[PageOf(r)].form, by |-> replay[r].flow])

\* Router B asks before it saves.
AskFirst(p, e) ==
  page' = IF e.ref = "save" /\ kind = "B" THEN [page EXCEPT ![p].dialog = TRUE] ELSE page

\* click: saving adds the rule of the form at once, or asks first.
Click(r) ==
  /\ Running(r) /\ Step(r).do = "click"
  /\ \E e \in Targets(r) :
       /\ e.ref = "save" => Len(rules) < MaxRules
       /\ AskFirst(PageOf(r), e)
       /\ rules' = IF e.ref = "save" /\ kind = "A"
                   THEN AddRule(r) ELSE rules
       /\ Watch(r, e)
  /\ Passes(r)
  /\ UNCHANGED <<kind, browser, present, changes>>

\* Mutant of Refuse: a field that is not found is passed over.
RefuseUnlessFill(r) ==
  /\ Running(r) /\ Step(r).on # "none" /\ replay[r].pick = Nothing
  /\ ResolveStep(r) = {}
  /\ IF Step(r).do = "fill" THEN Passes(r) ELSE Stops(r)
  /\ UNCHANGED <<kind, browser, present, page, rules, changes, strayed>>

\* No locator finds exactly one element: the replay refuses to guess.
Refuse(r) ==
  /\ Running(r) /\ Step(r).on # "none" /\ replay[r].pick = Nothing
  /\ ResolveStep(r) = {}
  /\ Stops(r)
  /\ UNCHANGED <<kind, browser, present, page, rules, changes, strayed>>

\* confirmDialog
Confirm(r) ==
  /\ Running(r) /\ Step(r).do = "confirm"
  /\ IF page[PageOf(r)].dialog
     THEN /\ Len(rules) < MaxRules /\ rules' = AddRule(r)
          /\ page' = [page EXCEPT ![PageOf(r)].dialog = FALSE]
          /\ Passes(r)
     ELSE Stops(r) /\ UNCHANGED <<rules, page>>
  /\ UNCHANGED <<kind, browser, present, changes, strayed>>

\* verifyRule: a rule of that name, whatever its values (in a browser the name
\* anywhere on the page: names are not part of others, nor of other texts).
HasRule(d) == \E i \in DOMAIN rules : rules[i].values["name"] = d
Verify(r) ==
  /\ Running(r) /\ Step(r).do = "verify"
  /\ IF HasRule(replay[r].for) THEN Passes(r) ELSE Stops(r)
  /\ UNCHANGED <<kind, browser, present, page, rules, changes, strayed>>

\* The browser fails at any step: replay throws, and closes it.
Throw(r) ==
  /\ Running(r) /\ browser
  /\ Stops(r)
  /\ UNCHANGED <<kind, browser, present, page, rules, changes, strayed>>

\* The router's pages change under the replays.
Change ==
  /\ changes < MaxChanges /\ changes' = changes + 1
  /\ \E e \in Taught(kind) \cup Strangers :
       present' = IF e \in present THEN present \ {e} ELSE present \cup {e}
  /\ replay' = [r \in Replays |-> [replay[r] EXCEPT !.fresh = (replay[r].pick = Nothing)]]
  /\ UNCHANGED <<kind, browser, page, rules, strayed>>

-----------------------------------------------------------------------------
Init ==
  /\ kind \in {"A", "B"} /\ browser \in BOOLEAN
  /\ present = Taught(kind) \cup (IF browser THEN {Heading} ELSE {})
  /\ page = [p \in Pages |-> FreshPage]
  /\ replay = [r \in Replays |-> NoReplay]
  /\ rules = <<>> /\ changes = 0 /\ strayed = {}

Acts(r) ==
  \/ Navigate(r) \/ WaitLoad(r) \/ Look(r) \/ FillField(r) \/ Click(r) \/ Refuse(r)
  \/ Confirm(r) \/ Verify(r) \/ Throw(r)

Next ==
  \/ \E r \in Replays : Acts(r) \/ \E d \in Deps, flow \in Flows : Start(r, d, flow)
  \/ Change

Spec == Init /\ [][Next]_vars

-----------------------------------------------------------------------------
(* Properties *)

ReplayTypeOK ==
  /\ kind \in {"A", "B"} /\ browser \in BOOLEAN
  /\ present \subseteq Taught(kind) \cup Strangers \cup {Heading}
  /\ page \in [Pages -> [nat : BOOLEAN, loading : BOOLEAN, dialog : BOOLEAN,
                         form : [Fields -> Values]]]
  /\ replay \in [Replays -> [flow : Flows, for : Values, next : Nat,
                             state : {"free", "running", "ok", "repair"},
                             pick : (UNION {BuildLocators(e) : e \in Taught(kind)}) \cup {Nothing},
                             fresh : BOOLEAN]]
  /\ \A r \in Replays : replay[r].next \in 1..Len(Steps(kind, replay[r].flow))
  /\ rules \in Seq([values : [Fields -> Values], by : Flows]) /\ Len(rules) <= MaxRules
  /\ changes \in 0..MaxChanges
  /\ strayed \subseteq {"led astray", "taught element gone", "text taken for element",
                    "changed after the look"}

\* While the element a step was taught on is there, the step acts on it or on
\* none, whatever else came onto the page (locator.ts "refusing to guess");
\* except that a browser may take the text near the element for the element,
\* and that the page may change between its look and its act.
ActsOnTaught == "led astray" \notin strayed

\* Replays next to each other, and those that stopped half-way and left their
\* form, mix nothing up: a rule that a create replay saved has all its values
\* from one deployment, so that none forwards the port of one to another; and a
\* create that reports ok has saved the rule it was asked for, although it
\* verifies the name only; unless a step had gone astray.
\* (The delete workflow of router A presses the button that adds a rule, with
\* the form as it is.)
CreatesAreTrue ==
  strayed = {} =>
    /\ \A i \in DOMAIN rules :
         rules[i].by = "create" => rules[i].values["name"] = rules[i].values["port"]
    /\ \A r \in Replays :
         replay[r].flow = "create" /\ replay[r].state = "ok" =>
           \E i \in DOMAIN rules :
             /\ rules[i].by = "create"
             /\ \A f \in Fields : rules[i].values[f] = replay[r].for
=============================================================================
