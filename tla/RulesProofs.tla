---------------------------- MODULE RulesProofs ----------------------------
(***************************************************************************)
(* What the user taught, for any windows, applications, sites and bounds:  *)
(* every rule that classifies is one the user can see and take back, one   *)
(* application rule speaks for a bundle, no hostname is kept of a taught   *)
(* site, and no browser is taught.                                         *)
(***************************************************************************)
EXTENDS Rules, SequenceTheorems, WellFoundedInduction, TLAPS

-----------------------------------------------------------------------------
(* The newest of some rows is one of them.                                 *)

LEMMA LeastExists ==
    ASSUME NEW T, T \subseteq Nat, T # {}
    PROVE  \E m \in T : \A n \in T : m <= n
  <1>1. PICK m \in T : \A n \in T : ~ (<<n, m>> \in OpToRel(<, Nat))
    BY NatLessThanWellFounded, WFMin
  <1>2. ASSUME NEW a \in Nat, NEW b \in Nat, a < b PROVE <<a, b>> \in OpToRel(<, Nat)
    <2>1. <<a, b>> \in Nat \X Nat /\ <<a, b>>[1] = a /\ <<a, b>>[2] = b
      OBVIOUS
    <2> QED
      BY <1>2, <2>1 DEF OpToRel
  <1>3. ASSUME NEW n \in T PROVE m <= n
    <2>1. n \in Nat /\ m \in Nat
      OBVIOUS
    <2>2. ~(n < m)
      BY <1>1, <1>2, <2>1
    <2> QED
      BY <2>1, <2>2
  <1> QED
    BY <1>3

LEMMA GreatestExists ==
    ASSUME NEW S, NEW k \in Nat, S \subseteq 0..k, S # {}
    PROVE  \E m \in S : \A n \in S : n <= m
  <1> DEFINE T == {b \in Nat : \A n \in S : n <= b}
  <1>1. k \in T
    OBVIOUS
  <1>2. PICK b \in T : \A n \in T : b <= n
    BY <1>1, LeastExists
  <1>3. b \in S
    <2>1. CASE b = 0
      <3>1. \A n \in S : n = 0
        BY <1>2, <2>1
      <3> QED
        BY <2>1, <3>1
    <2>2. ASSUME b # 0, b \notin S PROVE FALSE
      <3>1. b - 1 \in T
        BY <2>2
      <3> QED
        BY <1>2, <2>2, <3>1
    <2> QED
      BY <2>1, <2>2
  <1> QED
    BY <1>2, <1>3

LEMMA RowsTyped ==
    ASSUME TypeOK
    PROVE  /\ Len(raw) \in Nat /\ DOMAIN raw = 1..Len(raw)
           /\ \A i \in DOMAIN raw : raw[i] \in RowType
           /\ 0 \notin DOMAIN raw
  BY DEF TypeOK

LEMMA LatestIsOne ==
    ASSUME TypeOK, NEW S, S \subseteq DOMAIN raw, S # {}
    PROVE  Latest(S) \in S
  <1>1. S \subseteq 0..Len(raw) /\ Len(raw) \in Nat
    BY RowsTyped
  <1>2. \E m \in S : \A n \in S : n <= m
    BY <1>1, GreatestExists
  <1> QED
    BY <1>2 DEF Latest

-----------------------------------------------------------------------------
(* Identities.                                                             *)

\* An identity a rule may be written for.
MayTeach(id) ==
    /\ id.app \in Apps /\ id.bundle \in Optional(Bundles)
    /\ ~app_scope_identity_is_ineligible(id.app, id.bundle)

LEMMA EventIdentity ==
    ASSUME TypeOK, NEW i, app_identity_for_event(i) # None
    PROVE  /\ i \in DOMAIN raw /\ raw[i].keyed /\ Generalizable(i) /\ IsAllowed(i)
           /\ app_identity_for_event(i).app = AppOf[raw[i].window]
           /\ MayTeach(app_identity_for_event(i))
  <1>1. i \in DOMAIN raw /\ Generalizable(i) /\ IsAllowed(i)
        /\ app_identity_for_event(i) = Identity(i)
    BY DEF app_identity_for_event
  <1>2. raw[i].keyed
    BY <1>1 DEF Generalizable, app_stable_id
  <1>3. raw[i].window \in Windows /\ raw[i].bundle \in Optional(Bundles)
    BY <1>1, RowsTyped DEF RowType
  <1>4. Identity(i).app = AppOf[raw[i].window] /\ Identity(i).bundle = raw[i].bundle
    BY <1>2 DEF Identity, app_stable_id, bundle_stable_id
  <1>5. AppOf[raw[i].window] \in Apps
    BY <1>3, RulesAssumption
  <1> QED
    BY <1>1, <1>2, <1>3, <1>4, <1>5 DEF MayTeach, IsAllowed, eligible_app_identity

\* The application a window's rule is paired with is the window's own.
LEMMA PairedKey ==
    ASSUME TypeOK, NEW w \in Windows
    PROVE  /\ paired_app_key(w) \in {None, AppOf[w]}
           /\ \A i \in RowsOf(w) : app_identity_for_event(i) # None =>
                 paired_app_key(w) = AppOf[w]
  <1> DEFINE found == {i \in RowsOf(w) : Generalizable(i) /\ IsAllowed(i)}
  <1>1. found \subseteq DOMAIN raw
    BY DEF RowsOf
  <1>2. ASSUME found # {} PROVE paired_app_key(w) = AppOf[w]
    <2>1. Latest(found) \in found
      BY <1>1, <1>2, LatestIsOne
    <2>2. paired_app_key(w) = Identity(Latest(found)).app
      BY <1>2 DEF paired_app_key
    <2> HIDE DEF found
    <2>3. raw[Latest(found)].window = w /\ raw[Latest(found)].keyed
      BY <2>1 DEF found, RowsOf
    <2> QED
      BY <2>2, <2>3 DEF Identity, app_stable_id
  <1>3. found = {} => paired_app_key(w) = None
    BY DEF paired_app_key
  <1>4. ASSUME NEW i \in RowsOf(w), app_identity_for_event(i) # None PROVE i \in found
    BY <1>4, EventIdentity
  <1> HIDE DEF found
  <1> QED
    BY <1>2, <1>3, <1>4

LEMMA WindowIdentity ==
    ASSUME TypeOK, NEW w \in Windows, identity_by_stable_id(w) # None
    PROVE  \E i \in RowsOf(w) : identity_by_stable_id(w) = app_identity_for_event(i)
  <1> DEFINE found == {i \in RowsOf(w) : Generalizable(i)}
  <1>1. found # {} /\ identity_by_stable_id(w) = app_identity_for_event(Latest(found))
    BY DEF identity_by_stable_id
  <1>2. found \subseteq DOMAIN raw
    BY DEF RowsOf
  <1>3. Latest(found) \in found
    BY <1>1, <1>2, LatestIsOne
  <1> QED
    BY <1>1, <1>3

-----------------------------------------------------------------------------
(* The writers of the rule tables.                                         *)

WindowRule == [category : Taught, name : Optional(Names), app : Optional(Apps)]
AppRule == [category : Taught, name : Optional(Names), bundle : Optional(Bundles), only : BOOLEAN]
SiteRule == [category : Taught, name : Optional(Names)]

LEMMA NoRuleIsNone ==
    /\ None \notin WindowRule /\ None \notin AppRule /\ None \notin SiteRule
    /\ None \notin Apps /\ None \notin Sites /\ None \notin Bundles
  BY RulesAssumption DEF WindowRule, AppRule, SiteRule, Optional

\* What an upsert for id leaves behind: one row under the application's name,
\* and no other that claims the bundle.
AppRuleWritten(id, only) ==
    /\ appRule' \in [Apps -> Optional(AppRule)]
    /\ appRule'[id.app] \in AppRule
    /\ only => appRule'[id.app].only
    /\ \A a \in Apps \ {id.app} : appRule'[a] \in {None, appRule[a]}
    /\ id.bundle # None =>
          /\ appRule'[id.app].bundle = id.bundle
          /\ \A a \in Apps \ {id.app} : appRule'[a] # None => appRule[a].bundle # id.bundle
    /\ id.bundle = None =>
          appRule'[id.app].bundle =
              IF appRule[id.app] = None THEN None ELSE appRule[id.app].bundle

LEMMA UpsertWrites ==
    ASSUME TypeOK, NEW id, id.app \in Apps, id.bundle \in Optional(Bundles),
           NEW category \in Taught, NEW name \in Optional(Names), NEW only \in BOOLEAN,
           appRule' = upsert_app_scope_rule(id, category, name, only)
    PROVE  AppRuleWritten(id, only)
  <1> DEFINE claims == {a \in Apps \ {id.app} : id.bundle # None /\ appRule[a] # None
                                                 /\ appRule[a].bundle = id.bundle}
             prior == IF appRule[id.app] # None \/ claims = {} THEN appRule[id.app]
                      ELSE appRule[CHOOSE a \in claims : TRUE]
             row == IF prior = None
                    THEN [bundle |-> id.bundle, category |-> category, name |-> name,
                          only |-> only]
                    ELSE [bundle |-> Coalesce(id.bundle, prior.bundle), category |-> category,
                          name |-> Coalesce(name, prior.name), only |-> only \/ prior.only]
  <1>1. appRule' = [a \in Apps |-> IF a = id.app THEN row
                                   ELSE IF a \in claims THEN None ELSE appRule[a]]
    BY DEF upsert_app_scope_rule
  <1>2. appRule \in [Apps -> Optional(AppRule)]
    BY DEF TypeOK, RuleType, AppRule
  <1>3. prior \in Optional(AppRule)
    <2>1. CASE appRule[id.app] # None \/ claims = {}
      BY <1>2, <2>1
    <2>2. CASE ~(appRule[id.app] # None \/ claims = {})
      <3>1. (CHOOSE a \in claims : TRUE) \in Apps
        BY <2>2
      <3> QED
        BY <1>2, <2>2, <3>1
    <2> QED
      BY <2>1, <2>2
  <1>4. id.bundle = None => prior = appRule[id.app]
    OBVIOUS
  <1> HIDE DEF prior
  <1>5. prior = None \/ (prior \in AppRule /\ prior # None)
    BY <1>3 DEF Optional
  <1>6. /\ row \in AppRule
        /\ only => row.only
        /\ id.bundle # None => row.bundle = id.bundle
        /\ id.bundle = None => row.bundle = IF prior = None THEN None ELSE prior.bundle
    <2>1. CASE prior = None
      BY <2>1 DEF AppRule, Optional
    <2>2. CASE prior \in AppRule /\ prior # None
      BY <2>2 DEF AppRule, Optional, Coalesce
    <2> QED
      BY <1>5, <2>1, <2>2
  <1> HIDE DEF row
  <1>7. \A a \in Apps : appRule'[a] = IF a = id.app THEN row
                                      ELSE IF a \in claims THEN None ELSE appRule[a]
    BY <1>1
  <1>8. appRule' \in [Apps -> Optional(AppRule)]
    BY <1>1, <1>2, <1>6 DEF Optional
  <1>9. \A a \in Apps \ {id.app} :
           /\ appRule'[a] \in {None, appRule[a]}
           /\ id.bundle # None /\ appRule'[a] # None => appRule[a].bundle # id.bundle
    BY <1>7
  <1> HIDE DEF claims
  <1> QED
    BY <1>4, <1>6, <1>7, <1>8, <1>9 DEF AppRuleWritten

\* One rule per bundle survives a write for one identity.
LEMMA WrittenOnePerBundle ==
    ASSUME TypeOK, OneRungPerBundle, NEW id, NEW only, id.app \in Apps, AppRuleWritten(id, only)
    PROVE  OneRungPerBundle'
  <1> SUFFICES ASSUME NEW a \in Apps, NEW b \in Apps, a # b,
                      appRule'[a] # None, appRule'[b] # None,
                      appRule'[a].bundle # None, appRule'[a].bundle = appRule'[b].bundle
               PROVE  FALSE
    BY DEF OneRungPerBundle
  <1>1. CASE a # id.app /\ b # id.app
    BY <1>1 DEF AppRuleWritten, OneRungPerBundle
  <1>2. CASE id.bundle # None /\ (a = id.app \/ b = id.app)
    BY <1>2 DEF AppRuleWritten
  <1>3. CASE id.bundle = None /\ (a = id.app \/ b = id.app)
    <2>1. appRule[id.app] # None /\ appRule'[id.app].bundle = appRule[id.app].bundle
      BY <1>3 DEF AppRuleWritten
    <2> QED
      BY <1>3, <2>1 DEF AppRuleWritten, OneRungPerBundle
  <1> QED
    BY <1>1, <1>2, <1>3

\* A best-effort write of a correction's application rung.
LEMMA RungSaved ==
    ASSUME TypeOK, NEW id, id = None \/ MayTeach(id),
           NEW category \in Taught, NEW name \in Optional(Names),
           save_personal_app_override(id, category, name)
    PROVE  UNCHANGED appRule \/ (id # None /\ MayTeach(id) /\ AppRuleWritten(id, FALSE))
  BY UpsertWrites DEF save_personal_app_override, MayTeach

LEMMA AppRuleSaved ==
    ASSUME TypeOK, NEW id, id.app \in Apps, id.bundle \in Optional(Bundles),
           NEW category \in Taught, NEW name \in Optional(Names),
           save_app_scope_override(id, category, name)
    PROVE  UNCHANGED appRule \/ (MayTeach(id) /\ AppRuleWritten(id, TRUE))
  BY UpsertWrites DEF save_app_scope_override, MayTeach

LEMMA Trimmed ==
    ASSUME NEW p \in [Windows -> Optional(Taught)], NEW category, NEW q \in Trim(p, category)
    PROVE  q \in [Windows -> Optional(Taught)] /\ \A v \in Windows : q[v] \in {None, p[v]}
  <1> DEFINE all == {v \in Windows : p[v] = category}
  <1>1. PICK K : q = [v \in Windows |-> IF v \in all \ K THEN None ELSE p[v]]
    BY DEF Trim
  <1> QED
    BY <1>1 DEF Optional

\* What saving a window's rule leaves behind.
LEMMA WindowSaved ==
    ASSUME TypeOK, NEW w \in Windows, NEW category \in Taught, NEW name \in Optional(Names),
           save_personal_override(w, category, name)
    PROVE  /\ windowRule' \in [Windows -> Optional(WindowRule)]
           /\ prototype' \in [Windows -> Optional(Taught)]
           /\ windowRule'[w] \in WindowRule
           /\ windowRule'[w].app =
                 IF paired_app_key(w) # None THEN paired_app_key(w)
                 ELSE IF windowRule[w] = None THEN None ELSE windowRule[w].app
           /\ \A v \in Windows \ {w} : /\ windowRule'[v] = windowRule[v]
                                       /\ prototype'[v] \in {None, prototype[v]}
  <1> DEFINE old == windowRule[w]
             app == paired_app_key(w)
             row == [category |-> category,
                     name |-> IF old = None THEN name ELSE Coalesce(name, old.name),
                     app |-> IF old = None THEN app ELSE Coalesce(app, old.app)]
  <1>1. windowRule' = [windowRule EXCEPT ![w] = row]
    BY DEF save_personal_override
  <1>2. /\ windowRule \in [Windows -> Optional(WindowRule)]
        /\ prototype \in [Windows -> Optional(Taught)]
    BY DEF TypeOK, RuleType, WindowRule
  <1>3. app \in Optional(Apps)
    BY PairedKey, RulesAssumption DEF Optional
  <1> HIDE DEF app
  <1>4. old = None \/ (old \in WindowRule /\ old # None)
    BY <1>2 DEF Optional
  <1> HIDE DEF old
  <1>5. row \in WindowRule
    BY <1>3, <1>4 DEF WindowRule, Coalesce, Optional
  <1>6. row.app = IF app # None THEN app ELSE IF old = None THEN None ELSE old.app
    BY DEF Coalesce
  <1> HIDE DEF row
  <1>7. /\ windowRule' \in [Windows -> Optional(WindowRule)] /\ windowRule'[w] = row
        /\ \A v \in Windows \ {w} : windowRule'[v] = windowRule[v]
    BY <1>1, <1>2, <1>5 DEF Optional
  <1>8. /\ prototype' \in [Windows -> Optional(Taught)]
        /\ \A v \in Windows \ {w} : prototype'[v] \in {None, prototype[v]}
    <2>1. PICK p \in {prototype, [prototype EXCEPT ![w] = category]} :
             prototype' \in Trim(p, category)
      BY DEF save_personal_override
    <2>2. p \in [Windows -> Optional(Taught)] /\ \A v \in Windows \ {w} : p[v] = prototype[v]
      BY <1>2, <2>1 DEF Optional
    <2> QED
      BY <2>1, <2>2, Trimmed
  <1> QED
    BY <1>5, <1>6, <1>7, <1>8 DEF old, app

-----------------------------------------------------------------------------
(* Types.                                                                  *)

LEMMA Appended ==
    ASSUME TypeOK, NEW row \in RowType, insert(row)
    PROVE  /\ raw' \in Seq(RowType) /\ siteName' \subseteq Sites
           /\ \A i \in DOMAIN raw' : (i \in DOMAIN raw /\ raw'[i] = raw[i]) \/ raw'[i] = row
  <1>1. raw' = Append(raw, row) /\ raw \in Seq(RowType)
    BY DEF insert, TypeOK
  <1>2. siteName' \subseteq Sites
    <2>1. site_stable_id(row.window) # None => site_stable_id(row.window) \in Sites
      BY DEF site_stable_id
    <2> QED
      BY <2>1 DEF insert, record_local_site_name, NeedsACategory, TypeOK
  <1> QED
    BY <1>1, <1>2

LEMMA Classified ==
    ASSUME TypeOK, NEW w \in Windows, NEW b \in Optional(Bundles)
    PROVE  process_name(w, b) \in Optional(Names) /\ Row(w, b, process(w, b)) \in RowType
  <1> DEFINE site == site_stable_id(w)
             ofBundle == IF b = None THEN {} ELSE personal_app_override(b)
             app == CHOOSE a \in ofBundle : TRUE
  <1>1. /\ windowRule[w] # None => windowRule[w] \in WindowRule
        /\ AppOf[w] \in Apps /\ (appRule[AppOf[w]] # None => appRule[AppOf[w]] \in AppRule)
    BY RulesAssumption DEF TypeOK, RuleType, WindowRule, AppRule, Optional
  <1>2. site # None /\ siteRule[site] # None => siteRule[site] \in SiteRule
    BY DEF site_stable_id, TypeOK, RuleType, SiteRule, Optional
  <1>3. ofBundle # {} => appRule[app] \in AppRule
    <2> SUFFICES ASSUME ofBundle # {} PROVE appRule[app] \in AppRule
      OBVIOUS
    <2>1. app \in ofBundle
      OBVIOUS
    <2>2. app \in Apps /\ appRule[app] # None
      BY <2>1 DEF personal_app_override
    <2> QED
      BY <2>2 DEF TypeOK, RuleType, AppRule, Optional
  <1>4. PluginSays[w] \in [category : Taught, user : BOOLEAN, confident : BOOLEAN]
    BY RulesAssumption
  <1>5. process_name(w, b) =
            IF windowRule[w] # None THEN windowRule[w].name
            ELSE IF site # None /\ siteRule[site] # None THEN siteRule[site].name
            ELSE IF ofBundle # {} THEN appRule[app].name
            ELSE IF appRule[AppOf[w]] # None THEN appRule[AppOf[w]].name
            ELSE None
    BY DEF process_name
  <1>6. process(w, b) =
            IF windowRule[w] # None THEN ByUser(windowRule[w])
            ELSE IF site # None /\ siteRule[site] # None THEN ByUser(siteRule[site])
            ELSE IF ofBundle # {} THEN ByUser(appRule[app])
            ELSE IF appRule[AppOf[w]] # None THEN ByUser(appRule[AppOf[w]])
            ELSE PluginSays[w]
    BY DEF process
  <1> HIDE DEF site, ofBundle, app
  <1>7. process_name(w, b) \in Optional(Names)
    BY <1>1, <1>2, <1>3, <1>5 DEF WindowRule, AppRule, SiteRule, Optional
  <1>8. process(w, b) \in [category : Taught, user : BOOLEAN, confident : BOOLEAN]
    <2>1. ASSUME NEW r \in WindowRule \cup AppRule \cup SiteRule
          PROVE  ByUser(r) \in [category : Taught, user : BOOLEAN, confident : BOOLEAN]
      BY DEF ByUser, WindowRule, AppRule, SiteRule
    <2> QED
      BY <1>1, <1>2, <1>3, <1>4, <1>6, <2>1
  <1> QED
    BY <1>7, <1>8 DEF Row, RowType

LEMMA Resolved ==
    ASSUME TypeOK, NEW w \in Windows, NEW b \in Optional(Bundles), resolve_id(w, b), observe(w)
    PROVE  /\ mapping' \subseteq Windows /\ mapping' = mapping \cup {w}
           /\ shown' \in [Windows -> Optional(Names)] /\ sketch' \subseteq Windows
  <1>1. process_name(w, b) \in Optional(Names)
    BY Classified
  <1>2. shown' \in [Windows -> Optional(Names)]
    BY <1>1 DEF resolve_id, TypeOK, Coalesce
  <1> QED
    BY <1>2 DEF resolve_id, observe, TypeOK

LEMMA Reporting ==
    ASSUME NEW w \in Windows, NEW b \in Reported[w]
    PROVE  b \in Optional(Bundles)
  BY RulesAssumption DEF Optional

LEMMA NamesCleared ==
    ASSUME TypeOK, NEW W, ClearNames(W)
    PROVE  shown' \in [Windows -> Optional(Names)]
  BY DEF ClearNames, TypeOK, Optional

LEMMA Answered ==
    ASSUME TypeOK, Asked
    PROVE  answers' \in Nat
  BY DEF Asked, TypeOK

\* The rules' types after an application write and, maybe, a window's.
LEMMA CorrectionTypes ==
    ASSUME TypeOK, NEW w \in Windows, NEW id, id = None \/ MayTeach(id),
           NEW category \in Taught, NEW name \in Optional(Names),
           save_personal_app_override(id, category, name),
           \/ save_personal_override(w, category, name)
           \/ UNCHANGED <<windowRule, prototype>>,
           UNCHANGED siteRule
    PROVE  RuleType' /\ prototype' \in [Windows -> Optional(Taught)]
  <1>1. appRule' \in [Apps -> Optional(AppRule)]
    BY RungSaved DEF AppRuleWritten, TypeOK, RuleType, AppRule
  <1>2. /\ windowRule' \in [Windows -> Optional(WindowRule)]
        /\ prototype' \in [Windows -> Optional(Taught)]
    BY WindowSaved DEF TypeOK, RuleType, WindowRule
  <1> QED
    BY <1>1, <1>2 DEF TypeOK, RuleType, AppRule, WindowRule

\* What teaching an application leaves behind.
LEMMA AppRuleTaught ==
    ASSUME TypeOK, NEW a \in Apps, NEW category \in Taught, NEW name \in Optional(Names),
           EditAppRule(a, category, name) \/ set_application_category(a, category, name)
    PROVE  /\ appRule' \in [Apps -> Optional(AppRule)]
           /\ \/ UNCHANGED appRule
              \/ \E id : id.app = a /\ MayTeach(id) /\ AppRuleWritten(id, TRUE)
  <1>1. unclassified_app_bundle_key(a) \in Optional(Bundles)
    <2> DEFINE found == {i \in DOMAIN raw : /\ raw[i].category = "UNLOGGED"
                                            /\ app_stable_id(raw[i]) = a
                                            /\ raw[i].bundle # None}
    <2>1. CASE found = {}
      BY <2>1 DEF unclassified_app_bundle_key, Optional
    <2>2. CASE found # {}
      <3>1. Latest(found) \in DOMAIN raw
        BY <2>2, LatestIsOne
      <3>2. unclassified_app_bundle_key(a) = raw[Latest(found)].bundle
        BY <2>2 DEF unclassified_app_bundle_key
      <3> HIDE DEF found
      <3> QED
        BY <3>1, <3>2, RowsTyped DEF RowType
    <2> QED
      BY <2>1, <2>2
  <1>2. PICK b \in Optional(Bundles) :
           save_app_scope_override([app |-> a, bundle |-> b], category, name)
    BY <1>1 DEF EditAppRule, set_application_category, Optional
  <1>3. UNCHANGED appRule \/ (MayTeach([app |-> a, bundle |-> b])
                              /\ AppRuleWritten([app |-> a, bundle |-> b], TRUE))
    BY <1>2, AppRuleSaved
  <1> QED
    BY <1>3 DEF AppRuleWritten, TypeOK, RuleType, AppRule

LEMMA TypesOfReports ==
    ASSUME TypeOK, Report
    PROVE  TypeOK'
  <1>1. ASSUME NEW w \in Windows, NEW b \in Reported[w], handle_raw_event(w, b)
        PROVE  TypeOK'
    <2>1. b \in Optional(Bundles)
      BY Reporting
    <2>2. Row(w, b, process(w, b)) \in RowType
      BY <2>1, Classified
    <2>3. raw' \in Seq(RowType) /\ siteName' \subseteq Sites
      BY <1>1, <2>2, Appended DEF handle_raw_event
    <2>4. mapping' \subseteq Windows /\ shown' \in [Windows -> Optional(Names)]
          /\ sketch' \subseteq Windows
      BY <1>1, <2>1, Resolved DEF handle_raw_event
    <2>5. /\ reports > 0 /\ reports' = reports - 1
          /\ UNCHANGED <<offered, windowRule, appRule, siteRule, prototype, held, answers>>
      BY <1>1 DEF handle_raw_event, rules
    <2>6. reports' \in Nat
      BY <2>5 DEF TypeOK
    <2> QED
      BY <2>3, <2>4, <2>5, <2>6 DEF TypeOK, RuleType
  <1>2. ASSUME NEW w \in Windows, NEW b \in Reported[w], observe_dwell_in_progress(w, b)
        PROVE  TypeOK'
    <2>1. b \in Optional(Bundles)
      BY Reporting
    <2>2. held' \in Optional(RowType)
      BY <1>2, <2>1, Classified DEF observe_dwell_in_progress, Optional
    <2>3. mapping' \subseteq Windows /\ shown' \in [Windows -> Optional(Names)]
          /\ sketch' \subseteq Windows
      BY <1>2, <2>1, Resolved DEF observe_dwell_in_progress
    <2>4. /\ reports > 0 /\ reports' = reports - 1
          /\ UNCHANGED <<offered, windowRule, appRule, siteRule, raw, siteName, prototype, answers>>
      BY <1>2 DEF observe_dwell_in_progress, rules
    <2>5. reports' \in Nat
      BY <2>4 DEF TypeOK
    <2> QED
      BY <2>2, <2>3, <2>4, <2>5 DEF TypeOK, RuleType
  <1>3. CASE handle_held_event
    <2>1. held \in RowType
      BY <1>3 DEF handle_held_event, TypeOK, Optional
    <2>2. raw' \in Seq(RowType) /\ siteName' \subseteq Sites
      BY <1>3, <2>1, Appended DEF handle_held_event
    <2> QED
      BY <1>3, <2>2 DEF handle_held_event, TypeOK, RuleType, rules, Optional
  <1> QED
    BY <1>1, <1>2, <1>3 DEF Report

\* Teaching a buffered event changes what it is, not whose it is.
LEMMA Retold ==
    ASSUME TypeOK, NEW i \in DOMAIN raw, NEW category \in Taught,
           update_classification(i, category)
    PROVE  /\ raw' \in Seq(RowType) /\ DOMAIN raw' = DOMAIN raw
           /\ \A j \in DOMAIN raw : raw'[j].window = raw[j].window /\ raw'[j].keyed = raw[j].keyed
  <1> DEFINE r == [raw[i] EXCEPT !.category = category, !.user = TRUE, !.confident = TRUE]
  <1>1. raw' = [raw EXCEPT ![i] = r]
    BY DEF update_classification
  <1>2. r \in RowType /\ r.window = raw[i].window /\ r.keyed = raw[i].keyed
    BY RowsTyped DEF RowType
  <1> HIDE DEF r
  <1>3. raw \in Seq(RowType)
    BY DEF TypeOK
  <1> QED
    BY <1>1, <1>2, <1>3

\* The identity a card's event carries, and the editor's.
LEMMA TaughtIdentities ==
    ASSUME TypeOK, NEW w \in Windows
    PROVE  /\ \A i \in EventsOf(w) : LET id == app_identity_for_event(i) IN
                 id = None \/ (MayTeach(id) /\ i \in RowsOf(w) /\ id.app = AppOf[w])
           /\ LET id == identity_by_stable_id(w) IN
                 id = None \/ (MayTeach(id) /\ RowsOf(w) # {} /\ id.app = AppOf[w])
           /\ app_identity_for_event(0) = None
  <1>1. ASSUME NEW i \in EventsOf(w), app_identity_for_event(i) # None
        PROVE  /\ MayTeach(app_identity_for_event(i)) /\ i \in RowsOf(w)
               /\ app_identity_for_event(i).app = AppOf[w]
    <2>1. i \in DOMAIN raw
      BY <1>1, EventIdentity
    <2>2. i \in RowsOf(w)
      BY <2>1, RowsTyped DEF EventsOf
    <2> QED
      BY <1>1, <2>2, EventIdentity DEF RowsOf
  <1>2. app_identity_for_event(0) = None
    BY RowsTyped DEF app_identity_for_event
  <1>3. \A i \in RowsOf(w) : i \in EventsOf(w)
    BY DEF EventsOf
  <1> QED
    BY <1>1, <1>2, <1>3, WindowIdentity

LEMMA TypesOfTeaching ==
    ASSUME TypeOK, Teach
    PROVE  TypeOK'
  <1>1. PICK category \in Taught, name \in Optional(Names) :
           \/ \E w \in Windows :
                 \/ \E i \in EventsOf(w) : CorrectEventClassification(w, i, category, name)
                 \/ EditWindowRule(w, category, name)
           \/ \E a \in Apps : \/ EditAppRule(a, category, name)
                              \/ set_application_category(a, category, name)
           \/ \E s \in Sites : \/ edit_site_scope_override(s, category, name)
                               \/ set_site_category(s, category, name)
    BY DEF Teach
  <1>2. answers' \in Nat
    BY <1>1, Answered DEF CorrectEventClassification, EditWindowRule, EditAppRule,
       set_application_category, edit_site_scope_override, set_site_category
  <1>3. ASSUME NEW w \in Windows, NEW i \in EventsOf(w),
               CorrectEventClassification(w, i, category, name)
        PROVE  TypeOK'
    <2>1. RuleType' /\ prototype' \in [Windows -> Optional(Taught)]
      BY <1>3, CorrectionTypes, TaughtIdentities DEF CorrectEventClassification
    <2>2. raw' \in Seq(RowType)
      <3>1. CASE UNCHANGED raw
        BY <3>1 DEF TypeOK
      <3>2. CASE i # 0 /\ update_classification(i, category)
        BY <3>2, Retold DEF EventsOf, RowsOf
      <3> QED
        BY <1>3, <3>1, <3>2 DEF CorrectEventClassification
    <2> QED
      BY <1>2, <1>3, <2>1, <2>2 DEF CorrectEventClassification, TypeOK
  <1>4. ASSUME NEW w \in Windows, EditWindowRule(w, category, name)
        PROVE  TypeOK'
    <2>1. RuleType' /\ prototype' \in [Windows -> Optional(Taught)]
      BY <1>4, CorrectionTypes, TaughtIdentities DEF EditWindowRule
    <2> QED
      BY <1>2, <1>4, <2>1 DEF EditWindowRule, TypeOK
  <1>5. ASSUME NEW a \in Apps,
               EditAppRule(a, category, name) \/ set_application_category(a, category, name)
        PROVE  TypeOK'
    <2>1. appRule' \in [Apps -> Optional(AppRule)]
      BY <1>5, AppRuleTaught
    <2> QED
      BY <1>2, <1>5, <2>1
      DEF EditAppRule, set_application_category, TypeOK, RuleType, AppRule, stores
  <1>6. ASSUME NEW s \in Sites, edit_site_scope_override(s, category, name)
        PROVE  TypeOK'
    <2>1. siteRule' \in [Sites -> Optional(SiteRule)]
      BY <1>6 DEF edit_site_scope_override, TypeOK, RuleType, SiteRule, Optional
    <2>2. shown' \in [Windows -> Optional(Names)]
      BY <1>6, NamesCleared DEF edit_site_scope_override
    <2> QED
      BY <1>2, <1>6, <2>1, <2>2 DEF edit_site_scope_override, TypeOK, RuleType, SiteRule
  <1>7. ASSUME NEW s \in Sites, set_site_category(s, category, name)
        PROVE  TypeOK'
    <2>1. siteRule' \in [Sites -> Optional(SiteRule)]
      BY <1>7 DEF set_site_category, save_site_scope_override, TypeOK, RuleType, SiteRule,
                  Optional, Coalesce
    <2> QED
      BY <1>2, <1>7, <2>1 DEF set_site_category, TypeOK, RuleType, SiteRule
  <1> QED
    BY <1>1, <1>3, <1>4, <1>5, <1>6, <1>7

LEMMA TypesOfUndo ==
    ASSUME TypeOK, Undo
    PROVE  TypeOK'
  <1>1. answers' \in Nat /\ shown' \in [Windows -> Optional(Names)]
    BY Answered, NamesCleared
    DEF Undo, remove_personal_override, remove_app_scope_override, remove_site_scope_override,
        reset_personal_overrides
  <1>2. /\ windowRule' \in [Windows -> Optional(WindowRule)]
        /\ appRule' \in [Apps -> Optional(AppRule)]
        /\ siteRule' \in [Sites -> Optional(SiteRule)]
        /\ prototype' \in [Windows -> Optional(Taught)]
    BY DEF TypeOK, RuleType, WindowRule, AppRule, SiteRule, Optional,
           Undo, remove_personal_override, remove_app_scope_override,
           remove_site_scope_override, reset_personal_overrides
  <1>3. UNCHANGED <<mapping, raw, siteName, sketch, held, offered, reports>>
    BY DEF Undo, remove_personal_override, remove_app_scope_override,
           remove_site_scope_override, reset_personal_overrides
  <1>4. RuleType'
    BY <1>2 DEF RuleType, WindowRule, AppRule, SiteRule
  <1> QED
    BY <1>1, <1>2, <1>3, <1>4 DEF TypeOK

LEMMA TypesOfSweep ==
    ASSUME TypeOK, Sweep
    PROVE  TypeOK'
  <1>1. CASE ExpireRow
    <2>1. raw' \in Seq(RowType)
      BY <1>1 DEF ExpireRow, TypeOK
    <2> QED
      BY <1>1, <2>1 DEF ExpireRow, TypeOK, RuleType, rules
  <1>2. ASSUME NEW w \in Windows, delete_expired_mappings(w) PROVE TypeOK'
    <2>1. shown' \in [Windows -> Optional(Names)]
      BY <1>2 DEF delete_expired_mappings, TypeOK, Optional
    <2> QED
      BY <1>2, <2>1 DEF delete_expired_mappings, TypeOK, RuleType, rules
  <1>3. ASSUME NEW w \in Windows, delete_expired_semantic_embeddings(w) PROVE TypeOK'
    BY <1>3 DEF delete_expired_semantic_embeddings, TypeOK, RuleType, rules
  <1>4. ASSUME NEW s \in Sites, delete_expired_site_names(s) PROVE TypeOK'
    BY <1>4 DEF delete_expired_site_names, TypeOK, RuleType, rules
  <1> QED
    BY <1>1, <1>2, <1>3, <1>4 DEF Sweep

LEMMA TypesOfSalt ==
    ASSUME TypeOK, stable_key_salt
    PROVE  TypeOK'
  <1>1. raw' \in Seq(RowType)
    <2>1. raw' = [i \in 1..Len(raw) |-> [raw[i] EXCEPT !.keyed = FALSE]]
      BY RowsTyped DEF stable_key_salt
    <2>2. \A i \in 1..Len(raw) : [raw[i] EXCEPT !.keyed = FALSE] \in RowType
      BY RowsTyped DEF RowType
    <2> QED
      BY <2>1, <2>2, RowsTyped
  <1>2. answers' \in Nat
    BY Answered DEF stable_key_salt
  <1> QED
    BY <1>1, <1>2 DEF stable_key_salt, TypeOK, RuleType, Optional

LEMMA TypesKept == TypeOK /\ [Next]_vars => TypeOK'
  <1> SUFFICES ASSUME TypeOK, [Next]_vars PROVE TypeOK'
    OBVIOUS
  <1>1. CASE RequestUnclassifiedTriage
    BY <1>1 DEF RequestUnclassifiedTriage, unclassified_applications, unclassified_sites, TypeOK,
                RuleType, rules
  <1>2. CASE UNCHANGED vars
    BY <1>2 DEF vars, rules, stores, TypeOK, RuleType
  <1> QED
    BY <1>1, <1>2, TypesOfReports, TypesOfTeaching, TypesOfUndo, TypesOfSweep, TypesOfSalt
    DEF Next

\* Whatever is corrected, edited, answered, undone, swept or lost with its
\* salt, the rule tables hold rules of their own kind, the event buffer holds
\* rows, and no counter of the model goes below zero.
THEOREM RulesTypeCorrect == Spec => []TypeOK
  <1>1. Init => TypeOK
    BY RulesAssumption DEF Init, TypeOK, RuleType, Optional
  <1> QED
    BY <1>1, TypesKept, PTL DEF Spec

-----------------------------------------------------------------------------
(* Sites.                                                                  *)

LEMMA SiteStep ==
    TypeOK /\ HostnameOnlyWhileAsked /\ [Next]_vars => HostnameOnlyWhileAsked'
  <1> SUFFICES ASSUME TypeOK, HostnameOnlyWhileAsked, [Next]_vars
               PROVE  HostnameOnlyWhileAsked'
    OBVIOUS
  <1>1. ASSUME UNCHANGED siteRule, siteName' \subseteq siteName PROVE HostnameOnlyWhileAsked'
    BY <1>1 DEF HostnameOnlyWhileAsked
  <1>2. ASSUME NEW row, insert(row), UNCHANGED siteRule PROVE HostnameOnlyWhileAsked'
    BY <1>2 DEF insert, record_local_site_name, HostnameOnlyWhileAsked
  <1>3. CASE Report
    <2>1. ASSUME NEW w \in Windows, NEW b \in Reported[w], handle_raw_event(w, b)
          PROVE  HostnameOnlyWhileAsked'
      BY <1>2, <2>1 DEF handle_raw_event, rules
    <2>2. ASSUME NEW w \in Windows, NEW b \in Reported[w], observe_dwell_in_progress(w, b)
          PROVE  HostnameOnlyWhileAsked'
      BY <1>1, <2>2 DEF observe_dwell_in_progress, rules
    <2>3. CASE handle_held_event
      BY <1>2, <2>3 DEF handle_held_event, rules
    <2> QED
      BY <1>3, <2>1, <2>2, <2>3 DEF Report
  <1>4. CASE Teach
    <2>1. PICK category \in Taught, name \in Optional(Names) :
             \/ \E w \in Windows :
                   \/ \E i \in EventsOf(w) : CorrectEventClassification(w, i, category, name)
                   \/ EditWindowRule(w, category, name)
             \/ \E a \in Apps : \/ EditAppRule(a, category, name)
                                \/ set_application_category(a, category, name)
             \/ \E s \in Sites : \/ edit_site_scope_override(s, category, name)
                                 \/ set_site_category(s, category, name)
      BY <1>4 DEF Teach
    <2>2. ASSUME NEW s \in Sites, edit_site_scope_override(s, category, name)
          PROVE  HostnameOnlyWhileAsked'
      <3>1. s \notin siteName
        BY <2>2 DEF edit_site_scope_override, HostnameOnlyWhileAsked
      <3>2. siteName' = siteName /\ \A t \in Sites \ {s} : siteRule'[t] = siteRule[t]
        BY <2>2 DEF edit_site_scope_override, TypeOK, RuleType
      <3> QED
        BY <3>1, <3>2 DEF HostnameOnlyWhileAsked, TypeOK
    <2>3. ASSUME NEW s \in Sites, set_site_category(s, category, name)
          PROVE  HostnameOnlyWhileAsked'
      <3>1. siteName' = siteName \ {s} /\ \A t \in Sites \ {s} : siteRule'[t] = siteRule[t]
        BY <2>3 DEF set_site_category, save_site_scope_override, TypeOK, RuleType
      <3> QED
        BY <3>1 DEF HostnameOnlyWhileAsked, TypeOK
    <2> QED
      BY <1>1, <2>1, <2>2, <2>3
      DEF CorrectEventClassification, EditWindowRule, EditAppRule, set_application_category, stores
  <1>5. CASE Undo
    BY <1>5 DEF Undo, remove_personal_override, remove_app_scope_override,
                remove_site_scope_override, reset_personal_overrides, HostnameOnlyWhileAsked,
                TypeOK, RuleType
  <1>6. CASE Sweep
    BY <1>1, <1>6 DEF Sweep, ExpireRow, delete_expired_mappings, delete_expired_semantic_embeddings,
                      delete_expired_site_names, rules
  <1>7. CASE stable_key_salt
    BY <1>7 DEF stable_key_salt, HostnameOnlyWhileAsked
  <1>8. CASE RequestUnclassifiedTriage \/ UNCHANGED vars
    BY <1>1, <1>8 DEF RequestUnclassifiedTriage, vars, rules, stores
  <1> QED
    BY <1>3, <1>4, <1>5, <1>6, <1>7, <1>8 DEF Next

\* Teaching a site and the dwell that would store its hostname are separate
\* requests, and a held dwell is stored long after it was classified; still
\* record_local_site_name asks the table, set_site_category deletes the name
\* in the rule's own transaction, and the site editor only rewrites a rule.
\* So no hostname is ever stored of a site that has been taught.
THEOREM TaughtSitesHideHostnames == Spec => []HostnameOnlyWhileAsked
  <1>1. Init => TypeOK /\ HostnameOnlyWhileAsked
    BY RulesAssumption DEF Init, TypeOK, RuleType, Optional, HostnameOnlyWhileAsked
  <1>2. (TypeOK /\ HostnameOnlyWhileAsked) /\ [Next]_vars => (TypeOK /\ HostnameOnlyWhileAsked)'
    BY TypesKept, SiteStep
  <1> QED
    BY <1>1, <1>2, PTL DEF Spec

-----------------------------------------------------------------------------
(* Applications.                                                           *)

\* What any step does to the application rules: it writes one for an
\* identity that may be taught, or takes some away.
LEMMA AppRuleSteps ==
    ASSUME TypeOK, [Next]_vars
    PROVE  \/ \E id, only : MayTeach(id) /\ AppRuleWritten(id, only)
           \/ \A a \in Apps : appRule'[a] \in {None, appRule[a]}
  <1>1. CASE UNCHANGED appRule
    BY <1>1
  <1>2. ASSUME Teach, appRule' # appRule
        PROVE  \E id, only : MayTeach(id) /\ AppRuleWritten(id, only)
    <2>1. PICK category \in Taught, name \in Optional(Names) :
             \/ \E w \in Windows :
                   \/ \E i \in EventsOf(w) : CorrectEventClassification(w, i, category, name)
                   \/ EditWindowRule(w, category, name)
             \/ \E a \in Apps : \/ EditAppRule(a, category, name)
                                \/ set_application_category(a, category, name)
             \/ \E s \in Sites : \/ edit_site_scope_override(s, category, name)
                                 \/ set_site_category(s, category, name)
      BY <1>2 DEF Teach
    <2>2. ASSUME NEW w \in Windows, NEW i \in EventsOf(w),
                 CorrectEventClassification(w, i, category, name)
          PROVE  \E id, only : MayTeach(id) /\ AppRuleWritten(id, only)
      <3>1. save_personal_app_override(app_identity_for_event(i), category, name)
        BY <2>2 DEF CorrectEventClassification
      <3> QED
        BY <1>2, <3>1, TaughtIdentities, RungSaved
    <2>3. ASSUME NEW w \in Windows, EditWindowRule(w, category, name)
          PROVE  \E id, only : MayTeach(id) /\ AppRuleWritten(id, only)
      <3>1. save_personal_app_override(identity_by_stable_id(w), category, name)
        BY <2>3 DEF EditWindowRule
      <3> QED
        BY <1>2, <3>1, TaughtIdentities, RungSaved
    <2>4. ASSUME NEW a \in Apps,
                 EditAppRule(a, category, name) \/ set_application_category(a, category, name)
          PROVE  \E id, only : MayTeach(id) /\ AppRuleWritten(id, only)
      BY <1>2, <2>4, AppRuleTaught
    <2> QED
      BY <1>2, <2>1, <2>2, <2>3, <2>4 DEF edit_site_scope_override, set_site_category
  <1>3. ASSUME Undo \/ stable_key_salt
        PROVE  \A a \in Apps : appRule'[a] \in {None, appRule[a]}
    BY <1>3 DEF Undo, remove_personal_override, remove_app_scope_override,
                remove_site_scope_override, reset_personal_overrides, stable_key_salt,
                TypeOK, RuleType
  <1>4. ASSUME Report \/ RequestUnclassifiedTriage \/ Sweep \/ UNCHANGED vars
        PROVE  UNCHANGED appRule
    BY <1>4 DEF Report, handle_raw_event, observe_dwell_in_progress, handle_held_event,
                RequestUnclassifiedTriage, Sweep, ExpireRow, delete_expired_mappings,
                delete_expired_semantic_embeddings, delete_expired_site_names, vars, rules
  <1> QED
    BY <1>1, <1>2, <1>3, <1>4 DEF Next

LEMMA BrowserStep ==
    ASSUME TypeOK, [Next]_vars
    PROVE  \A a \in Apps :
              appRule'[a] # None /\ (appRule[a] = None \/ appRule[a].bundle # appRule'[a].bundle)
              => ~app_scope_identity_is_ineligible(a, appRule'[a].bundle)
  <1> SUFFICES ASSUME NEW a \in Apps, appRule'[a] # None,
                      appRule[a] = None \/ appRule[a].bundle # appRule'[a].bundle
               PROVE  ~app_scope_identity_is_ineligible(a, appRule'[a].bundle)
    OBVIOUS
  <1>1. PICK id, only : MayTeach(id) /\ AppRuleWritten(id, only)
    BY AppRuleSteps
  <1>2. a = id.app
    BY <1>1 DEF AppRuleWritten
  <1>3. appRule'[a].bundle = id.bundle
    BY <1>1, <1>2 DEF AppRuleWritten
  <1> QED
    BY <1>1, <1>2, <1>3 DEF MayTeach

\* Whether an application is a browser is read off the event buffer, which
\* renames, corrections and the sweep keep changing.  Every write of an
\* application rule, from a correction, from either editor or from the list
\* of what needs a category, asks first: an identity that some buffered
\* window shows to be a browser is given no rule, and none claims its bundle.
THEOREM BrowsersAreNeverTaught == Spec => BrowserNeverTaught
  <1>1. TypeOK /\ [Next]_vars =>
           [\A a \in Apps :
               appRule'[a] # None /\ (appRule[a] = None \/ appRule[a].bundle # appRule'[a].bundle)
               => ~app_scope_identity_is_ineligible(a, appRule'[a].bundle)]_vars
    BY BrowserStep
  <1> QED
    BY <1>1, RulesTypeCorrect, PTL DEF Spec, BrowserNeverTaught

LEMMA OnePerBundleStep ==
    ASSUME TypeOK, OneRungPerBundle, [Next]_vars
    PROVE  OneRungPerBundle'
  <1>1. ASSUME \A a \in Apps : appRule'[a] \in {None, appRule[a]}
        PROVE  OneRungPerBundle'
    BY <1>1 DEF OneRungPerBundle
  <1> QED
    BY <1>1, AppRuleSteps, WrittenOnePerBundle DEF MayTeach

-----------------------------------------------------------------------------
(* The list.                                                               *)

\* A row added with its window mapped, or held with it, keeps them correctable.
LEMMA AddedIsMapped ==
    ASSUME TypeOK, CorrectableIsMapped, NEW row \in RowType, insert(row),
           row.window \in mapping', mapping \subseteq mapping'
    PROVE  \A i \in DOMAIN raw' : raw'[i].keyed => raw'[i].window \in mapping'
  BY Appended DEF CorrectableIsMapped

LEMMA MappedAfterReports ==
    ASSUME TypeOK, CorrectableIsMapped, Report
    PROVE  CorrectableIsMapped'
  <1>1. ASSUME NEW w \in Windows, NEW b \in Reported[w], handle_raw_event(w, b)
        PROVE  CorrectableIsMapped'
    <2>1. b \in Optional(Bundles)
      BY Reporting
    <2>2. Row(w, b, process(w, b)) \in RowType /\ Row(w, b, process(w, b)).window = w
      BY <2>1, Classified DEF Row
    <2>3. mapping' = mapping \cup {w} /\ insert(Row(w, b, process(w, b))) /\ held' = held
      BY <1>1 DEF handle_raw_event, resolve_id
    <2>4. \A i \in DOMAIN raw' : raw'[i].keyed => raw'[i].window \in mapping'
      BY <2>2, <2>3, AddedIsMapped
    <2> QED
      BY <2>3, <2>4 DEF CorrectableIsMapped
  <1>2. ASSUME NEW w \in Windows, NEW b \in Reported[w], observe_dwell_in_progress(w, b)
        PROVE  CorrectableIsMapped'
    <2>1. mapping' = mapping \cup {w} /\ held' = Row(w, b, process(w, b)) /\ raw' = raw
      BY <1>2 DEF observe_dwell_in_progress, resolve_id
    <2>2. held'.window = w
      BY <2>1 DEF Row
    <2> QED
      BY <2>1, <2>2 DEF CorrectableIsMapped
  <1>3. CASE handle_held_event
    <2>1. held \in RowType /\ held # None
      BY <1>3 DEF handle_held_event, TypeOK, Optional
    <2>2. insert(held) /\ mapping' = mapping /\ held' = None
      BY <1>3 DEF handle_held_event
    <2>3. \A i \in DOMAIN raw' : raw'[i].keyed => raw'[i].window \in mapping'
      BY <2>1, <2>2, AddedIsMapped DEF CorrectableIsMapped
    <2> QED
      BY <2>2, <2>3 DEF CorrectableIsMapped
  <1> QED
    BY <1>1, <1>2, <1>3 DEF Report

LEMMA MappedAfterTeaching ==
    ASSUME TypeOK, CorrectableIsMapped, Teach
    PROVE  CorrectableIsMapped'
  <1>1. ASSUME UNCHANGED <<raw, mapping, held>> PROVE CorrectableIsMapped'
    BY <1>1 DEF CorrectableIsMapped
  <1>2. ASSUME NEW w \in Windows, NEW category \in Taught, NEW name, NEW i \in EventsOf(w),
               CorrectEventClassification(w, i, category, name)
        PROVE  CorrectableIsMapped'
    <2>1. mapping' = mapping /\ held' = held
      BY <1>2 DEF CorrectEventClassification
    <2>2. CASE UNCHANGED raw
      BY <1>1, <2>1, <2>2
    <2>3. CASE i # 0 /\ update_classification(i, category)
      <3>1. i \in DOMAIN raw
        BY <2>3 DEF EventsOf, RowsOf
      <3> QED
        BY <2>1, <2>3, <3>1, Retold DEF CorrectableIsMapped
    <2> QED
      BY <1>2, <2>2, <2>3 DEF CorrectEventClassification
  <1> QED
    BY <1>1, <1>2 DEF Teach, EditWindowRule, EditAppRule, set_application_category,
       edit_site_scope_override, set_site_category, stores

LEMMA CorrectableStep ==
    TypeOK /\ CorrectableIsMapped /\ [Next]_vars => CorrectableIsMapped'
  <1> SUFFICES ASSUME TypeOK, CorrectableIsMapped, [Next]_vars PROVE CorrectableIsMapped'
    OBVIOUS
  <1>1. ASSUME UNCHANGED <<raw, mapping, held>> PROVE CorrectableIsMapped'
    BY <1>1 DEF CorrectableIsMapped
  <1>2. CASE ExpireRow
    <2>1. /\ raw # <<>> /\ raw' = Tail(raw) /\ raw \in Seq(RowType)
          /\ mapping' = mapping /\ held' = held
      BY <1>2 DEF ExpireRow, TypeOK
    <2>2. \A i \in DOMAIN raw' : i + 1 \in DOMAIN raw /\ raw'[i] = raw[i + 1]
      BY <2>1
    <2> QED
      BY <2>1, <2>2 DEF CorrectableIsMapped
  <1>3. ASSUME NEW w \in Windows, delete_expired_mappings(w) PROVE CorrectableIsMapped'
    BY <1>3 DEF delete_expired_mappings, RowsOf, CorrectableIsMapped
  <1>4. CASE stable_key_salt
    <2>1. held' = None /\ raw' = [i \in DOMAIN raw |-> [raw[i] EXCEPT !.keyed = FALSE]]
      BY <1>4 DEF stable_key_salt
    <2>2. \A i \in DOMAIN raw' : ~raw'[i].keyed
      BY <2>1, RowsTyped DEF RowType
    <2> QED
      BY <2>1, <2>2 DEF CorrectableIsMapped
  <1>5. CASE Undo \/ RequestUnclassifiedTriage \/ UNCHANGED vars
    BY <1>1, <1>5 DEF Undo, remove_personal_override, remove_app_scope_override,
       remove_site_scope_override, reset_personal_overrides, RequestUnclassifiedTriage,
       vars, stores
  <1>6. CASE Sweep
    BY <1>1, <1>2, <1>3, <1>6 DEF Sweep, delete_expired_semantic_embeddings,
       delete_expired_site_names
  <1> QED
    BY <1>4, <1>5, <1>6, MappedAfterReports, MappedAfterTeaching DEF Next

\* What the list needs, and what its proof needs of the rules.
Listed == WhatAppliesIsListed /\ PrototypeHasRule /\ RungOfItsApp

\* A correction or an edit that writes both rungs: the application's is the
\* one its window's rule names.
LEMMA BothRungs ==
    ASSUME TypeOK, Listed, NEW w \in Windows, w \in mapping, mapping' = mapping,
           NEW category \in Taught, NEW name \in Optional(Names), NEW id,
           \/ id = None
           \/ MayTeach(id) /\ id.app = AppOf[w] /\ paired_app_key(w) = AppOf[w],
           save_personal_app_override(id, category, name),
           save_personal_override(w, category, name)
    PROVE  Listed'
  <1>1. /\ windowRule'[w] \in WindowRule /\ windowRule'[w] # None
        /\ windowRule'[w].app =
               IF paired_app_key(w) # None THEN paired_app_key(w)
               ELSE IF windowRule[w] = None THEN None ELSE windowRule[w].app
        /\ \A v \in Windows \ {w} : /\ windowRule'[v] = windowRule[v]
                                    /\ prototype'[v] \in {None, prototype[v]}
    BY WindowSaved, NoRuleIsNone
  <1>2. paired_app_key(w) \in {None, AppOf[w]} /\ AppOf[w] \in Apps /\ AppOf[w] # None
    BY PairedKey, RulesAssumption
  <1>3. PrototypeHasRule' /\ RungOfItsApp'
    BY <1>1, <1>2 DEF Listed, PrototypeHasRule, RungOfItsApp
  <1>4. \A v \in Windows : windowRule'[v] # None => v \in mapping'
    BY <1>1 DEF Listed, WhatAppliesIsListed
  <1>5. ASSUME NEW a \in Apps, appRule[a] # None, ~appRule[a].only
        PROVE  \E v \in Windows : windowRule'[v] # None /\ windowRule'[v].app = a
    <2>1. PICK v \in Windows : windowRule[v] # None /\ windowRule[v].app = a
      BY <1>5 DEF Listed, WhatAppliesIsListed
    <2>2. CASE v # w
      BY <1>1, <2>1, <2>2
    <2>3. CASE v = w
      <3>1. a = AppOf[w]
        BY <1>5, <2>1, <2>3, NoRuleIsNone DEF Listed, RungOfItsApp
      <3> QED
        BY <1>1, <1>2, <2>1, <2>3, <3>1
    <2> QED
      BY <2>2, <2>3
  <1>6. ASSUME NEW a \in Apps, appRule'[a] # None, ~appRule'[a].only
        PROVE  \E v \in Windows : windowRule'[v] # None /\ windowRule'[v].app = a
    <2>1. CASE UNCHANGED appRule
      BY <1>5, <1>6, <2>1
    <2>2. CASE id # None /\ MayTeach(id) /\ AppRuleWritten(id, FALSE)
      <3>1. CASE a = id.app
        BY <1>1, <1>2, <2>2, <3>1
      <3>2. CASE a # id.app
        <4>1. appRule'[a] = appRule[a]
          BY <1>6, <2>2, <3>2 DEF AppRuleWritten
        <4> QED
          BY <1>5, <1>6, <4>1
      <3> QED
        BY <3>1, <3>2
    <2> QED
      BY <2>1, <2>2, RungSaved
  <1> QED
    BY <1>3, <1>4, <1>6 DEF Listed, WhatAppliesIsListed

\* A step that takes no window rule away, adds no rung and keeps the mappings.
LEMMA ListedShrinks ==
    ASSUME Listed, \A v \in Windows : windowRule'[v] = windowRule[v],
           \A v \in Windows : windowRule[v] # None /\ v \in mapping => v \in mapping',
           \A v \in Windows : prototype'[v] \in {None, prototype[v]},
           \A a \in Apps : appRule'[a] # None /\ ~appRule'[a].only => appRule'[a] = appRule[a]
    PROVE  Listed'
  BY DEF Listed, WhatAppliesIsListed, PrototypeHasRule, RungOfItsApp

\* A correction that the fault "stopped" does not interrupt.
LEMMA ListedAfterTeaching ==
    ASSUME TypeOK, CorrectableIsMapped, Listed, Teach, "stopped" \notin Faults
    PROVE  Listed'
  <1>1. PICK category \in Taught, name \in Optional(Names) :
           \/ \E w \in Windows :
                 \/ \E i \in EventsOf(w) : CorrectEventClassification(w, i, category, name)
                 \/ EditWindowRule(w, category, name)
           \/ \E a \in Apps : \/ EditAppRule(a, category, name)
                              \/ set_application_category(a, category, name)
           \/ \E s \in Sites : \/ edit_site_scope_override(s, category, name)
                               \/ set_site_category(s, category, name)
    BY DEF Teach
  <1>2. ASSUME NEW w \in Windows, NEW i \in EventsOf(w),
               CorrectEventClassification(w, i, category, name)
        PROVE  Listed'
    <2> DEFINE id == app_identity_for_event(i)
    <2>1. id = None \/ (MayTeach(id) /\ i \in RowsOf(w) /\ id.app = AppOf[w])
      BY TaughtIdentities
    <2>2. id # None => paired_app_key(w) = AppOf[w]
      BY <2>1, PairedKey
    <2>3. save_personal_app_override(id, category, name) /\ mapping' = mapping
      BY <1>2 DEF CorrectEventClassification
    <2>4. id # None => w \in mapping
      BY <2>1 DEF RowsOf, CorrectableIsMapped
    <2>5. CASE w \in mapping /\ save_personal_override(w, category, name)
      <3> HIDE DEF id
      <3> QED
        BY <2>1, <2>2, <2>3, <2>5, BothRungs
    <2>6. CASE w \notin mapping /\ UNCHANGED <<windowRule, prototype, raw>>
      <3>1. UNCHANGED appRule
        BY <2>3, <2>4, <2>6 DEF save_personal_app_override
      <3> QED
        BY <2>3, <2>6, <3>1, ListedShrinks
    <2> QED
      BY <1>2, <2>5, <2>6 DEF CorrectEventClassification
  <1>3. ASSUME NEW w \in Windows, EditWindowRule(w, category, name)
        PROVE  Listed'
    <2> DEFINE id == identity_by_stable_id(w)
    <2>1. id = None \/ (MayTeach(id) /\ id.app = AppOf[w])
      BY TaughtIdentities
    <2>2. id # None => paired_app_key(w) = AppOf[w]
      BY WindowIdentity, PairedKey
    <2>3. /\ w \in mapping /\ mapping' = mapping
          /\ save_personal_app_override(id, category, name)
          /\ save_personal_override(w, category, name)
      BY <1>3 DEF EditWindowRule
    <2> HIDE DEF id
    <2> QED
      BY <2>1, <2>2, <2>3, BothRungs
  <1>4. ASSUME NEW a \in Apps,
               EditAppRule(a, category, name) \/ set_application_category(a, category, name)
        PROVE  Listed'
    <2>1. UNCHANGED <<windowRule, mapping, prototype>>
      BY <1>4 DEF EditAppRule, set_application_category, stores
    <2>2. ASSUME NEW b \in Apps, appRule'[b] # None, ~appRule'[b].only
          PROVE  appRule'[b] = appRule[b]
      BY <1>4, <2>2, AppRuleTaught DEF AppRuleWritten
    <2> QED
      BY <2>1, <2>2, ListedShrinks
  <1>5. ASSUME NEW s \in Sites,
               edit_site_scope_override(s, category, name) \/ set_site_category(s, category, name)
        PROVE  Listed'
    BY <1>5, ListedShrinks DEF edit_site_scope_override, set_site_category
  <1> QED
    BY <1>1, <1>2, <1>3, <1>4, <1>5

LEMMA ListedAfterUndo ==
    ASSUME TypeOK, Listed, Undo
    PROVE  Listed'
  <1>1. ASSUME NEW w \in Windows, remove_personal_override(w) PROVE Listed'
    <2> DEFINE paired == windowRule[w].app
    <2>1. /\ windowRule'[w] = None /\ prototype'[w] = None /\ mapping' = mapping
          /\ \A v \in Windows \ {w} : windowRule'[v] = windowRule[v] /\ prototype'[v] = prototype[v]
          /\ \A a \in Apps : appRule'[a] = IF a = paired /\ appRule[a] # None /\ ~appRule[a].only
                                           THEN None ELSE appRule[a]
      BY <1>1 DEF remove_personal_override, TypeOK, RuleType
    <2>2. PrototypeHasRule' /\ RungOfItsApp'
      BY <2>1 DEF Listed, PrototypeHasRule, RungOfItsApp
    <2>3. ASSUME NEW a \in Apps, appRule'[a] # None, ~appRule'[a].only
          PROVE  \E v \in Windows : windowRule'[v] # None /\ windowRule'[v].app = a
      <3>1. appRule'[a] = appRule[a] /\ a # paired
        BY <2>1, <2>3
      <3>2. PICK v \in Windows : windowRule[v] # None /\ windowRule[v].app = a
        BY <2>3, <3>1 DEF Listed, WhatAppliesIsListed
      <3> QED
        BY <2>1, <3>1, <3>2
    <2> QED
      BY <2>1, <2>2, <2>3 DEF Listed, WhatAppliesIsListed
  <1>2. ASSUME NEW a \in Apps, remove_app_scope_override(a) PROVE Listed'
    BY <1>2, ListedShrinks DEF remove_app_scope_override, TypeOK, RuleType
  <1>3. ASSUME NEW s \in Sites, remove_site_scope_override(s) PROVE Listed'
    BY <1>3, ListedShrinks DEF remove_site_scope_override
  <1>4. CASE reset_personal_overrides
    BY <1>4 DEF reset_personal_overrides, Listed, WhatAppliesIsListed, PrototypeHasRule,
                RungOfItsApp
  <1> QED
    BY <1>1, <1>2, <1>3, <1>4 DEF Undo

LEMMA ListedStep ==
    ASSUME TypeOK, CorrectableIsMapped, Listed, [Next]_vars, "stopped" \notin Faults
    PROVE  Listed'
  <1>1. CASE Report
    <2>1. UNCHANGED <<windowRule, appRule, prototype>> /\ mapping \subseteq mapping'
      BY <1>1 DEF Report, handle_raw_event, observe_dwell_in_progress, handle_held_event,
                  resolve_id, rules
    <2> QED
      BY <2>1, ListedShrinks
  <1>2. CASE Sweep
    <2>1. UNCHANGED <<windowRule, appRule, prototype>>
          /\ \A v \in Windows : windowRule[v] # None /\ v \in mapping => v \in mapping'
      BY <1>2 DEF Sweep, ExpireRow, delete_expired_mappings, delete_expired_semantic_embeddings,
                  delete_expired_site_names, rules
    <2> QED
      BY <2>1, ListedShrinks
  <1>3. CASE RequestUnclassifiedTriage \/ UNCHANGED vars
    BY <1>3, ListedShrinks DEF RequestUnclassifiedTriage, vars, rules, stores
  <1>4. CASE stable_key_salt
    BY <1>4 DEF stable_key_salt, Listed, WhatAppliesIsListed, PrototypeHasRule, RungOfItsApp
  <1> QED
    BY <1>1, <1>2, <1>3, <1>4, ListedAfterTeaching, ListedAfterUndo DEF Next

\* A correction teaches its window and, best effort, the window's
\* application; the list shows the application's rung only through its
\* window's rule.  Renames re-key rungs, mappings and buffered events expire,
\* cards outlive the events they name, and an application write may fail; as
\* long as the process is not stopped between the two writes of a correction,
\* whatever classifies stays on the list or goes with what is on it.
THEOREM RulesStayVisible ==
    ASSUME "stopped" \notin Faults
    PROVE  Spec => []RulesAreVisible
  <1>1. Init => RulesInvariant
    <2> SUFFICES ASSUME Init PROVE RulesInvariant
      OBVIOUS
    <2>1. TypeOK
      BY RulesAssumption DEF Init, TypeOK, RuleType, Optional
    <2>2. CorrectableIsMapped /\ HostnameOnlyWhileAsked
      BY DEF Init, CorrectableIsMapped, HostnameOnlyWhileAsked
    <2>3. RulesAreVisible /\ RungOfItsApp
      BY DEF Init, RulesAreVisible, WhatAppliesIsListed, PrototypeHasRule, OneRungPerBundle,
             RungOfItsApp
    <2> QED
      BY <2>1, <2>2, <2>3 DEF RulesInvariant
  <1>2. RulesInvariant /\ [Next]_vars => RulesInvariant'
    BY TypesKept, SiteStep, CorrectableStep, ListedStep, OnePerBundleStep
    DEF RulesInvariant, RulesAreVisible, Listed
  <1>3. RulesInvariant => RulesAreVisible
    BY DEF RulesInvariant
  <1> QED
    BY <1>1, <1>2, <1>3, PTL DEF Spec

=============================================================================
