------------------------------- MODULE Rules -------------------------------
(***************************************************************************)
(* What the user taught Velvt, and how it classifies: the window, site and *)
(* application rules (persistence/sqlite.rs), the precedence in which the  *)
(* abstraction engine reads them (abstraction/engine.rs), and the router's *)
(* handlers that write and undo them (ipc/router.rs).                      *)
(*                                                                         *)
(* A window is one window key, the salted digest of (application name,     *)
(* title or host): its application name and host are therefore constants   *)
(* of it, while the bundle identifier arrives with each report and may be  *)
(* missing.  Two windows of one bundle under two names are an application  *)
(* before and after a rename.  The raw event buffer is a sequence, oldest  *)
(* first; the retention sweep takes its head.                              *)
(***************************************************************************)
EXTENDS Naturals, Sequences, FiniteSets

CONSTANTS
    Windows,       \* window keys
    Apps,          \* application names
    Bundles,       \* bundle identifiers
    Sites,         \* hosts that name a site (site_identity answers)
    Names,         \* what the user may type as the activity's name
    Taught,        \* categories the user may choose
    None,          \* SQL NULL, Option::None
    PrivateHost,   \* a host that names a machine, not a site
    AppOf,         \* window -> application name
    Reported,      \* window -> the bundle identifiers its reports carry, or None
    HostOf,        \* window -> None, PrivateHost or a site
    PluginSays,    \* window -> what the plugins answer, without a rule
    Browsers,      \* the application names is_browser_app knows
    Embeddable,    \* windows whose sketch Tier 2 computes in time
    PrototypeCap,  \* prototypes kept per category (12)
    Faults,        \* what may go wrong inside a correction
    MaxRows, MaxObservations, MaxAnswers   \* bounds of the model

ASSUME RulesAssumption ==
    /\ AppOf \in [Windows -> Apps]
    /\ Reported \in [Windows -> SUBSET (Bundles \cup {None})]
    /\ HostOf \in [Windows -> Sites \cup {None, PrivateHost}]
    /\ PluginSays \in [Windows -> [category : Taught, user : {FALSE}, confident : BOOLEAN]]
    /\ None \notin Apps \cup Bundles \cup Sites \cup Names \cup Taught \cup {PrivateHost}
    /\ None \notin [category : Taught, name : Names \cup {None}, app : Apps \cup {None}]
    /\ None \notin [category : Taught, name : Names \cup {None},
                    bundle : Bundles \cup {None}, only : BOOLEAN]
    /\ None \notin [category : Taught, name : Names \cup {None}]
    /\ Faults \subseteq {"app_write", "stopped"}
    /\ {MaxRows, MaxObservations, MaxAnswers, PrototypeCap} \subseteq Nat

VARIABLES
    windowRule,   \* personal_override: window -> rule or None
    appRule,      \* personal_app_override: application name -> rule or None
    siteRule,     \* personal_site_override: site -> rule or None
    mapping,      \* abstraction_map: the windows that have a row
    shown,        \* abstraction_map.display_name
    raw,          \* raw_event_buffer
    siteName,     \* local_site_name: the sites whose hostname is stored
    sketch,       \* semantic_embedding_cache: the windows with a row
    prototype,    \* personal_semantic_prototype: window -> category or None
    offered,      \* the applications and sites the client's list shows
    held,         \* InProgressDwells: the open dwell's abstraction, or None
    answers,      \* user requests left to the model
    reports       \* dwell reports left to the model

rules == <<windowRule, appRule, siteRule>>
stores == <<mapping, shown, raw, siteName, sketch, prototype, offered, held>>
vars == <<rules, stores, answers, reports>>

----------------------------------------------------------------------------
\* Rows and their readers

Optional(S) == S \cup {None}

Coalesce(new, old) == IF new # None THEN new ELSE old

\* focused_site.is_none(): the window says something about its application
app_scope_eligible(w) == HostOf[w] = None

\* The identity of the tab that holds in every browser, for a browser only
site_stable_id(w) ==
    IF AppOf[w] \in Browsers /\ HostOf[w] \in Sites THEN HostOf[w] ELSE None

\* A row whose keys a lost salt took names no application and no site
app_stable_id(row) == IF row.keyed THEN AppOf[row.window] ELSE None
bundle_stable_id(row) == IF row.keyed THEN row.bundle ELSE None

RowsOf(w) == {i \in DOMAIN raw : raw[i].window = w /\ raw[i].keyed}

\* Some buffered window of this identity took its meaning from a site
app_scope_identity_is_ineligible(app, bundle) ==
    \E i \in DOMAIN raw :
        /\ ~app_scope_eligible(raw[i].window)
        /\ \/ app_stable_id(raw[i]) = app
           \/ bundle # None /\ bundle_stable_id(raw[i]) = bundle

Generalizable(i) ==
    /\ app_stable_id(raw[i]) # None
    /\ app_scope_eligible(raw[i].window)

\* Mutant: only the event's own row is asked
EligibleByRowAlone(app, bundle) == TRUE

eligible_app_identity(app, bundle) == ~app_scope_identity_is_ineligible(app, bundle)

Identity(i) == [app |-> app_stable_id(raw[i]), bundle |-> bundle_stable_id(raw[i])]

IsAllowed(i) == eligible_app_identity(Identity(i).app, Identity(i).bundle)

\* The identity of one event, when it may carry a rule of its application
app_identity_for_event(i) ==
    IF i \in DOMAIN raw /\ Generalizable(i) /\ IsAllowed(i) THEN Identity(i) ELSE None

Latest(S) == CHOOSE i \in S : \A j \in S : j <= i

\* The newest generalizable event of the window, then the question whether
\* its application is one
identity_by_stable_id(w) ==
    LET found == {i \in RowsOf(w) : Generalizable(i)}
    IN  IF found = {} THEN None ELSE app_identity_for_event(Latest(found))

\* The newest event of the window that passes both questions
paired_app_key(w) ==
    LET found == {i \in RowsOf(w) : Generalizable(i) /\ IsAllowed(i)}
    IN  IF found = {} THEN None ELSE Identity(Latest(found)).app

NeedsACategory(row) ==
    /\ row.keyed /\ site_stable_id(row.window) # None
    /\ ~(row.confident /\ row.category # "UNLOGGED")
    /\ ~row.user

----------------------------------------------------------------------------
\* The engine: most specific rule first, then the plugins

ByUser(rule) == [category |-> rule.category, user |-> TRUE, confident |-> TRUE]

personal_app_override(key) ==
    {a \in Apps : appRule[a] # None /\ (a = key \/ appRule[a].bundle = key)}

process(w, bundle) ==
    LET site == site_stable_id(w)
        ofBundle == IF bundle = None THEN {} ELSE personal_app_override(bundle)
    IN  IF windowRule[w] # None THEN ByUser(windowRule[w])
        ELSE IF site # None /\ siteRule[site] # None THEN ByUser(siteRule[site])
        ELSE IF ofBundle # {} THEN ByUser(appRule[CHOOSE a \in ofBundle : TRUE])
        ELSE IF appRule[AppOf[w]] # None THEN ByUser(appRule[AppOf[w]])
        ELSE PluginSays[w]

\* The name the deciding rule carries (a curated label is derived, not kept)
process_name(w, bundle) ==
    LET site == site_stable_id(w)
        ofBundle == IF bundle = None THEN {} ELSE personal_app_override(bundle)
    IN  IF windowRule[w] # None THEN windowRule[w].name
        ELSE IF site # None /\ siteRule[site] # None THEN siteRule[site].name
        ELSE IF ofBundle # {} THEN appRule[CHOOSE a \in ofBundle : TRUE].name
        ELSE IF appRule[AppOf[w]] # None THEN appRule[AppOf[w]].name
        ELSE None

\* upsert of the mapping: a row is made or refreshed, a name never cleared
resolve_id(w, bundle) ==
    /\ mapping' = mapping \cup {w}
    /\ shown' = [shown EXCEPT ![w] = Coalesce(process_name(w, bundle), @)]

\* Tier 2's sketch of the window, when inference answers in time
observe(w) == sketch' \in IF w \in Embeddable THEN {sketch, sketch \cup {w}} ELSE {sketch}

Row(w, bundle, cls) ==
    [window |-> w, bundle |-> bundle, category |-> cls.category, user |-> cls.user,
     confident |-> cls.confident, keyed |-> TRUE]

\* Mutant: the visit alone decides, not the rule taught meanwhile
RecordWhateverTaught(row) ==
    LET site == site_stable_id(row.window)
    IN  siteName' = IF NeedsACategory(row) THEN siteName \cup {site} ELSE siteName

record_local_site_name(row) ==
    LET site == site_stable_id(row.window)
    IN  siteName' = IF NeedsACategory(row) /\ siteRule[site] = None
                    THEN siteName \cup {site} ELSE siteName

insert(row) ==
    /\ Len(raw) < MaxRows
    /\ raw' = Append(raw, row)
    /\ record_local_site_name(row)

\* A closed report of a dwell not seen in progress
handle_raw_event(w, bundle) ==
    /\ reports > 0 /\ reports' = reports - 1
    /\ resolve_id(w, bundle)
    /\ observe(w)
    /\ insert(Row(w, bundle, process(w, bundle)))
    /\ UNCHANGED <<offered, rules, prototype, held, answers>>

\* An in-progress report inside a block is classified and held, nothing else
observe_dwell_in_progress(w, bundle) ==
    /\ reports > 0 /\ reports' = reports - 1
    /\ resolve_id(w, bundle)
    /\ observe(w)
    /\ held' = Row(w, bundle, process(w, bundle))
    /\ UNCHANGED <<offered, rules, raw, siteName, prototype, answers>>

\* Its closed report stores the classification made when the dwell began
handle_held_event ==
    /\ held # None
    /\ insert(held)
    /\ held' = None
    /\ UNCHANGED <<offered, rules, mapping, shown, sketch, prototype, answers, reports>>

----------------------------------------------------------------------------
\* The rule tables' writers

\* A row that claims the bundle under another name is this rule under the
\* name the application used to report: re-keyed, or dropped when a rule
\* under the new name exists.
upsert_app_scope_rule(id, category, name, only) ==
    LET claims == {a \in Apps \ {id.app} :
                      id.bundle # None /\ appRule[a] # None /\ appRule[a].bundle = id.bundle}
        prior == IF appRule[id.app] # None \/ claims = {} THEN appRule[id.app]
                 ELSE appRule[CHOOSE a \in claims : TRUE]
        row == IF prior = None
               THEN [bundle |-> id.bundle, category |-> category, name |-> name, only |-> only]
               ELSE [bundle |-> Coalesce(id.bundle, prior.bundle), category |-> category,
                     name |-> Coalesce(name, prior.name), only |-> only \/ prior.only]
    IN  [a \in Apps |-> IF a = id.app THEN row
                        ELSE IF a \in claims THEN None ELSE appRule[a]]

\* The rung a correction or an edit of a window also writes, best effort
save_personal_app_override(id, category, name) ==
    \/ /\ id # None
       /\ appRule' = upsert_app_scope_rule(id, category, name, FALSE)
    \/ /\ id = None \/ "app_write" \in Faults
       /\ UNCHANGED appRule

\* A category keeps its most corrected prototypes: which ones is left open
Trim(p, category) ==
    LET all == {v \in Windows : p[v] = category}
        kept == IF Cardinality(all) <= PrototypeCap THEN {all}
                ELSE {K \in SUBSET all : Cardinality(K) = PrototypeCap}
    IN  {[v \in Windows |-> IF v \in all \ K THEN None ELSE p[v]] : K \in kept}

save_personal_override(w, category, name) ==
    LET old == windowRule[w]
        app == paired_app_key(w)
    IN  /\ windowRule' = [windowRule EXCEPT ![w] =
              [category |-> category,
               name |-> IF old = None THEN name ELSE Coalesce(name, old.name),
               app |-> IF old = None THEN app ELSE Coalesce(app, old.app)]]
        /\ prototype' \in IF w \in sketch
                          THEN Trim([prototype EXCEPT ![w] = category], category)
                          ELSE Trim(prototype, category)

update_classification(i, category) ==
    raw' = [raw EXCEPT ![i].category = category, ![i].user = TRUE, ![i].confident = TRUE]

----------------------------------------------------------------------------
\* The router's handlers

Asked == answers > 0 /\ answers' = answers - 1

\* The event a card names is buffered, or its row is gone
EventsOf(w) == RowsOf(w) \cup {0}

CorrectEventClassification(w, i, category, name) ==
    /\ Asked /\ i \in EventsOf(w)
    /\ save_personal_app_override(app_identity_for_event(i), category, name)
    /\ \/ /\ w \in mapping
          /\ save_personal_override(w, category, name)
          /\ IF i = 0 THEN UNCHANGED raw ELSE update_classification(i, category)
       \/ /\ w \notin mapping \/ "stopped" \in Faults
          /\ UNCHANGED <<windowRule, prototype, raw>>
    /\ UNCHANGED <<offered, siteRule, mapping, shown, siteName, sketch, held, reports>>

\* The history's editor names a rule by the one key it is listed under
EditWindowRule(w, category, name) ==
    /\ Asked /\ windowRule[w] # None /\ w \in mapping
    /\ save_personal_app_override(identity_by_stable_id(w), category, name)
    /\ save_personal_override(w, category, name)
    /\ UNCHANGED <<offered, siteRule, mapping, shown, raw, siteName, sketch, held, reports>>

save_app_scope_override(id, category, name) ==
    IF app_scope_identity_is_ineligible(id.app, id.bundle)
    THEN UNCHANGED appRule
    ELSE appRule' = upsert_app_scope_rule(id, category, name, TRUE)

EditAppRule(a, category, name) ==
    /\ Asked /\ appRule[a] # None /\ appRule[a].only
    /\ save_app_scope_override([app |-> a, bundle |-> None], category, name)
    /\ UNCHANGED <<windowRule, siteRule, stores, reports>>

ClearNames(W) == shown' = [w \in Windows |-> IF w \in W THEN None ELSE shown[w]]

WindowsOfSite(s) ==
    {w \in Windows : RowsOf(w) # {} /\ site_stable_id(w) = s}

WindowsOfApp(a) == {w \in Windows : \E i \in RowsOf(w) : app_stable_id(raw[i]) = a}

edit_site_scope_override(s, category, name) ==
    /\ Asked /\ siteRule[s] # None
    /\ siteRule' = [siteRule EXCEPT ![s] = [category |-> category, name |-> name]]
    /\ ClearNames(IF name = None THEN WindowsOfSite(s) ELSE {})
    /\ UNCHANGED <<offered, windowRule, appRule, mapping, raw, siteName, sketch, prototype, held,
                   reports>>

\* Mutant: the copied sketch stays
RemoveKeepingPrototype(w) ==
    LET paired == windowRule[w].app
    IN  /\ Asked /\ windowRule[w] # None /\ w \in mapping
        /\ windowRule' = [windowRule EXCEPT ![w] = None]
        /\ appRule' = [a \in Apps |-> IF a = paired /\ appRule[a] # None /\ ~appRule[a].only
                                      THEN None ELSE appRule[a]]
        /\ ClearNames({w} \cup IF paired = None THEN {} ELSE WindowsOfApp(paired))
        /\ UNCHANGED <<offered, siteRule, mapping, raw, siteName, sketch, prototype, held,
                       reports>>

remove_personal_override(w) ==
    LET paired == windowRule[w].app
    IN  /\ Asked /\ windowRule[w] # None /\ w \in mapping
        /\ windowRule' = [windowRule EXCEPT ![w] = None]
        /\ prototype' = [prototype EXCEPT ![w] = None]
        /\ appRule' = [a \in Apps |-> IF a = paired /\ appRule[a] # None /\ ~appRule[a].only
                                      THEN None ELSE appRule[a]]
        /\ ClearNames({w} \cup IF paired = None THEN {} ELSE WindowsOfApp(paired))
        /\ UNCHANGED <<offered, siteRule, mapping, raw, siteName, sketch, held, reports>>

remove_app_scope_override(a) ==
    /\ Asked /\ appRule[a] # None /\ appRule[a].only
    /\ appRule' = [appRule EXCEPT ![a] = None]
    /\ ClearNames(WindowsOfApp(a))
    /\ UNCHANGED <<offered, windowRule, siteRule, mapping, raw, siteName, sketch, prototype, held,
                   reports>>

remove_site_scope_override(s) ==
    /\ Asked /\ siteRule[s] # None
    /\ siteRule' = [siteRule EXCEPT ![s] = None]
    /\ ClearNames(WindowsOfSite(s))
    /\ UNCHANGED <<offered, windowRule, appRule, mapping, raw, siteName, sketch, prototype, held,
                   reports>>

reset_personal_overrides ==
    /\ Asked
    /\ windowRule' = [w \in Windows |-> None]
    /\ appRule' = [a \in Apps |-> None]
    /\ siteRule' = [s \in Sites |-> None]
    /\ prototype' = [w \in Windows |-> None]
    /\ ClearNames(Windows)
    /\ UNCHANGED <<offered, mapping, raw, siteName, sketch, held, reports>>

----------------------------------------------------------------------------
\* Needs a category: the list, and teaching what it offers

unclassified_applications ==
    {a \in Apps : \E i \in DOMAIN raw :
        /\ raw[i].category = "UNLOGGED" /\ app_stable_id(raw[i]) = a
        /\ Generalizable(i) /\ IsAllowed(i)
        /\ appRule[a] = None
        /\ raw[i].bundle = None \/ \A b \in Apps :
               appRule[b] # None => appRule[b].bundle # raw[i].bundle}

unclassified_app_bundle_key(a) ==
    LET found == {i \in DOMAIN raw : /\ raw[i].category = "UNLOGGED"
                                     /\ app_stable_id(raw[i]) = a
                                     /\ raw[i].bundle # None}
    IN  IF found = {} THEN None ELSE raw[Latest(found)].bundle

unclassified_sites ==
    {s \in siteName : /\ siteRule[s] = None
                      /\ \E i \in DOMAIN raw : /\ NeedsACategory(raw[i])
                                               /\ site_stable_id(raw[i].window) = s}

\* The client answers from the list it was sent, which may be out of date
RequestUnclassifiedTriage ==
    /\ offered' = unclassified_applications \cup unclassified_sites
    /\ offered' # offered
    /\ UNCHANGED <<rules, mapping, shown, raw, siteName, sketch, prototype, held, answers,
                   reports>>

set_application_category(a, category, name) ==
    /\ Asked /\ a \in offered
    /\ save_app_scope_override([app |-> a, bundle |-> unclassified_app_bundle_key(a)],
                               category, name)
    /\ UNCHANGED <<windowRule, siteRule, stores, reports>>

save_site_scope_override(s, category, name) ==
    siteRule' = [siteRule EXCEPT ![s] =
        [category |-> category,
         name |-> IF @ = None THEN name ELSE Coalesce(name, @.name)]]

set_site_category(s, category, name) ==
    /\ Asked /\ s \in offered
    /\ save_site_scope_override(s, category, name)
    /\ siteName' = siteName \ {s}
    /\ UNCHANGED <<offered, windowRule, appRule, mapping, shown, raw, sketch, prototype, held, reports>>

----------------------------------------------------------------------------
\* Retention, and a start-up that finds no salt

ExpireRow ==
    /\ raw # <<>> /\ raw' = Tail(raw)
    /\ UNCHANGED <<offered, rules, mapping, shown, siteName, sketch, prototype, held, answers, reports>>

\* An open dwell's window was observed moments ago, so its row is fresh
delete_expired_mappings(w) ==
    /\ w \in mapping /\ windowRule[w] = None /\ RowsOf(w) = {}
    /\ held # None => held.window # w
    /\ mapping' = mapping \ {w}
    /\ shown' = [shown EXCEPT ![w] = None]
    /\ UNCHANGED <<offered, rules, raw, siteName, sketch, prototype, held, answers, reports>>

delete_expired_site_names(s) ==
    /\ s \in siteName /\ siteName' = siteName \ {s}
    /\ UNCHANGED <<offered, rules, mapping, shown, raw, sketch, prototype, held, answers, reports>>

delete_expired_semantic_embeddings(w) ==
    /\ w \in sketch /\ sketch' = sketch \ {w}
    /\ UNCHANGED <<offered, rules, mapping, shown, raw, siteName, prototype, held, answers, reports>>

\* A fresh salt reaches no row that an older one keyed; stable ids stay on
\* the events but name no mapping any more
stable_key_salt ==
    /\ mapping # {}
    /\ windowRule' = [w \in Windows |-> None]
    /\ appRule' = [a \in Apps |-> None]
    /\ siteRule' = [s \in Sites |-> None]
    /\ prototype' = [w \in Windows |-> None]
    /\ mapping' = {} /\ shown' = [w \in Windows |-> None]
    /\ siteName' = {} /\ sketch' = {} /\ held' = None /\ offered' = {}
    /\ raw' = [i \in DOMAIN raw |-> [raw[i] EXCEPT !.keyed = FALSE]]
    /\ Asked /\ UNCHANGED reports

----------------------------------------------------------------------------
Init ==
    /\ windowRule = [w \in Windows |-> None]
    /\ appRule = [a \in Apps |-> None]
    /\ siteRule = [s \in Sites |-> None]
    /\ mapping = {} /\ shown = [w \in Windows |-> None]
    /\ raw = <<>> /\ siteName = {} /\ sketch = {}
    /\ prototype = [w \in Windows |-> None]
    /\ held = None /\ offered = {} /\ answers = MaxAnswers /\ reports = MaxObservations

Report ==
    \/ \E w \in Windows : \E b \in Reported[w] :
          handle_raw_event(w, b) \/ observe_dwell_in_progress(w, b)
    \/ handle_held_event

Teach ==
    \E category \in Taught, name \in Optional(Names) :
        \/ \E w \in Windows :
              \/ \E i \in EventsOf(w) : CorrectEventClassification(w, i, category, name)
              \/ EditWindowRule(w, category, name)
        \/ \E a \in Apps : \/ EditAppRule(a, category, name)
                           \/ set_application_category(a, category, name)
        \/ \E s \in Sites : \/ edit_site_scope_override(s, category, name)
                            \/ set_site_category(s, category, name)

Undo ==
    \/ \E w \in Windows : remove_personal_override(w)
    \/ \E a \in Apps : remove_app_scope_override(a)
    \/ \E s \in Sites : remove_site_scope_override(s)
    \/ reset_personal_overrides

Sweep ==
    \/ ExpireRow
    \/ \E w \in Windows : delete_expired_mappings(w) \/ delete_expired_semantic_embeddings(w)
    \/ \E s \in Sites : delete_expired_site_names(s)

Next == Report \/ RequestUnclassifiedTriage \/ Teach \/ Undo \/ Sweep \/ stable_key_salt

Spec == Init /\ [][Next]_vars

----------------------------------------------------------------------------
\* Properties

RuleType ==
    /\ windowRule \in [Windows -> Optional([category : Taught, name : Optional(Names),
                                            app : Optional(Apps)])]
    /\ appRule \in [Apps -> Optional([category : Taught, name : Optional(Names),
                                      bundle : Optional(Bundles), only : BOOLEAN])]
    /\ siteRule \in [Sites -> Optional([category : Taught, name : Optional(Names)])]

RowType == [window : Windows, bundle : Optional(Bundles), category : Taught,
            user : BOOLEAN, confident : BOOLEAN, keyed : BOOLEAN]

TypeOK ==
    /\ RuleType
    /\ mapping \subseteq Windows /\ sketch \subseteq Windows /\ siteName \subseteq Sites
    /\ shown \in [Windows -> Optional(Names)]
    /\ prototype \in [Windows -> Optional(Taught)]
    /\ raw \in Seq(RowType) /\ held \in Optional(RowType)
    /\ offered \subseteq Apps \cup Sites /\ answers \in Nat /\ reports \in Nat

\* The correction history shows window rules through their mapping, the
\* application rules taught as such, and site rules.  Every rule the engine
\* can answer with is one of those, or the application rung of a window rule
\* that names it and takes it along when removed: what the user sees is what
\* they can undo, whatever expired in between.
WhatAppliesIsListed ==
    /\ \A w \in Windows : windowRule[w] # None => w \in mapping
    /\ \A a \in Apps : appRule[a] # None /\ ~appRule[a].only =>
           \E w \in Windows : windowRule[w] # None /\ windowRule[w].app = a

\* Through any sequence of renames, corrections and edits at most one
\* application rule claims a bundle identifier, so the engine's lookup by
\* bundle has one answer and the UNIQUE index never aborts a correction.
OneRungPerBundle ==
    \A a, b \in Apps :
        /\ appRule[a] # None /\ appRule[b] # None
        /\ appRule[a].bundle # None /\ appRule[a].bundle = appRule[b].bundle
        => a = b

\* A hostname is stored only to ask about its site: none is stored of a site
\* that has been taught, not even by a dwell classified before it was taught.
HostnameOnlyWhileAsked == \A s \in siteName : siteRule[s] = None

\* A copied sketch teaches Tier 2 only as long as the correction it was made
\* from: removing or resetting the rule takes the prototype with it.
PrototypeHasRule == \A w \in Windows : prototype[w] # None => windowRule[w] # None

\* No correction, edit or answer makes a rule for an application, or lets one
\* claim a bundle, while a buffered window of that identity shows that it is
\* a browser.
BrowserNeverTaught ==
    [][\A a \in Apps :
          appRule'[a] # None /\ (appRule[a] = None \/ appRule[a].bundle # appRule'[a].bundle)
          => ~app_scope_identity_is_ineligible(a, appRule'[a].bundle)]_vars

\* Nothing teaches the classifier that the user cannot see and take back:
\* every rung that applies is in the list of rules, every prototype has the
\* rule it was copied for, and one application rule speaks for a bundle.
RulesAreVisible == WhatAppliesIsListed /\ PrototypeHasRule /\ OneRungPerBundle

----------------------------------------------------------------------------
\* What makes RulesAreVisible inductive

\* A window rule names its window's application or none.
RungOfItsApp ==
    \A w \in Windows : windowRule[w] # None => windowRule[w].app \in {None, AppOf[w]}

\* A window that can still be corrected has its mapping: a buffered one whose
\* keys are known, and the open dwell's, which will be buffered.
CorrectableIsMapped ==
    /\ \A i \in DOMAIN raw : raw[i].keyed => raw[i].window \in mapping
    /\ held # None => held.window \in mapping

RulesInvariant ==
    TypeOK /\ RulesAreVisible /\ HostnameOnlyWhileAsked /\ RungOfItsApp /\ CorrectableIsMapped
=============================================================================
