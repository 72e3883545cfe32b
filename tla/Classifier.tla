----------------------------- MODULE Classifier -----------------------------
(***************************************************************************)
(* What one window is: the classification tiers of the abstraction engine  *)
(* (abstraction/plugin.rs, sites.rs, taxonomy.rs) and the order in which   *)
(* register_builtin_plugins_with_embedding consults them.                  *)
(*                                                                         *)
(* A text is the sequence of its normalized words and a hostname the       *)
(* sequence of its labels, which is all that the token-phrase scan and the *)
(* suffix walk look at.  The compiled-in tables keep a few representative  *)
(* rows each, chosen so that every rule they can apply is applied by some  *)
(* input: rows that agree, rows that disagree, a seed under another seed.  *)
(* Scores are in hundredths.  The rungs of the user's own corrections,     *)
(* which come before every tier, are the module Rules.                     *)
(***************************************************************************)
EXTENDS Naturals, Sequences, FiniteSets, SequencesExt

CONSTANTS None, InvalidPluginResult, Events, Titles

VARIABLES
    event,    \* the facts of the raw event under classification
    verdict   \* what AbstractionEngine::process answered, None before

classifiervars == <<event, verdict>>

-----------------------------------------------------------------------------
(* Results (plugin.rs). *)

\* Categories in the order of their names, which breaks ties between scores.
CategoryOrder == <<"COMMUNICATION", "FOCUS_WORK", "PASSIVE_CONSUMPTION", "REFERENCE",
                   "SOCIAL_FEED", "SYSTEM", "TASK_MANAGEMENT", "UNLOGGED">>

Categories == Range(CategoryOrder)

InferredLabel ==
    [FOCUS_WORK |-> "document:inferred", PASSIVE_CONSUMPTION |-> "video:inferred",
     SOCIAL_FEED |-> "social:inferred", COMMUNICATION |-> "communication:inferred",
     TASK_MANAGEMENT |-> "task:inferred", REFERENCE |-> "reference:inferred",
     SYSTEM |-> "system:inferred", UNLOGGED |-> "unlogged"]

WithQuality(label, category, source, status, confidence) ==
    [label |-> label, category |-> category, source |-> source,
     status |-> status, confidence |-> confidence]

ExactMatch(label, category) == WithQuality(label, category, "Seed", "Classified", "High")

Inferred(category, source, confidence) ==
    WithQuality(InferredLabel[category], category, source, "Classified", confidence)

Ambiguous(source) == WithQuality("unlogged", "UNLOGGED", source, "Ambiguous", "Low")

Precedence(result) ==
    CASE result.source = "UserRule"              -> 8
      [] result.source = "Seed"                  -> 7
      [] result.source = "Heuristic"             -> 6
      [] result.source = "DeclaredDocumentTypes" -> 5
      [] result.source = "DeclaredAppCategory"   -> 4
      [] result.source = "Embedding"             -> 3
      [] result.source = "Fallback" /\ result.status = "Ambiguous" -> 2
      [] OTHER                                   -> 1

-----------------------------------------------------------------------------
(* Texts and hosts (normalize.rs, browser.rs, sites.rs). *)

ContainsTokenPhrase(haystack, phrase) ==
    /\ phrase # <<>>
    /\ \E i \in 1..Len(haystack) : IsPrefix(phrase, SubSeq(haystack, i, Len(haystack)))

BrowserNames == {<<"safari">>, <<"google", "chrome">>, <<"arc">>}

IsBrowserApp(name) == \E browser \in BrowserNames : ContainsTokenPhrase(name, browser)

\* A URL is hierarchical or not; only its authority's labels are kept, and a
\* trailing dot leaves an empty label that is trimmed.
FocusedSiteContext(url) ==
    IF url = None \/ ~url.hierarchical THEN None
    ELSE LET full == {i \in DOMAIN url.labels : url.labels[i] # ""}
             last == IF full = {} THEN 0 ELSE CHOOSE i \in full : \A j \in full : j <= i
         IN  IF last = 0 THEN None ELSE SubSeq(url.labels, 1, last)

PrivateNetworkNames == {<<"localhost">>, <<"home", "arpa">>, <<"lan">>}

NumericLabels == {"127", "0", "1"}

WithoutWww(host) == IF Len(host) > 1 /\ Head(host) = "www" THEN Tail(host) ELSE host

SiteIdentity(host) ==
    LET site == WithoutWww(host)
        well_formed == \A i \in DOMAIN site : site[i] # ""
        names_a_site == /\ Len(site) > 1
                        /\ \A name \in PrivateNetworkNames : ~IsSuffix(name, site)
                        /\ Last(site) \notin NumericLabels
    IN  IF well_formed /\ names_a_site THEN site ELSE None

\* The site of a browser window; any other window has none.
BrowserSite(e) ==
    IF ~IsBrowserApp(e.name) THEN None
    ELSE LET host == FocusedSiteContext(e.url)
         IN  IF host = None THEN None ELSE SiteIdentity(host)

HasReadableSite(e) == BrowserSite(e) # None

\* What the keyword tiers read: the application, the host and the title as one
\* run of words.
Haystack(e) ==
    LET host == FocusedSiteContext(e.url)
    IN  e.name \o (IF host = None THEN <<>> ELSE SelectSeq(host, LAMBDA l : l # "")) \o e.title

-----------------------------------------------------------------------------
(* The curated sites (site_seeds.rs, sites.rs). *)

Seed(host, scope, label, category) ==
    [host |-> host, scope |-> scope, label |-> label, category |-> category]

SiteSeeds ==
    {Seed(<<"docs", "google", "com">>, "HostOnly", "document:docs", "FOCUS_WORK"),
     Seed(<<"mail", "google", "com">>, "HostOnly", "communication:gmail", "COMMUNICATION"),
     Seed(<<"github", "com">>, "WithSubdomains", "reference:github", "REFERENCE"),
     Seed(<<"mail", "github", "com">>, "HostOnly", "communication:email", "COMMUNICATION"),
     Seed(<<"youtube", "com">>, "WithSubdomains", "video:youtube", "PASSIVE_CONSUMPTION")}

SeedAt(host) == CHOOSE seed \in SiteSeeds : seed.host = host

\* The longest suffix, that is the first in the hostname, at which there is a
\* seed that reaches the site; a HostOnly seed for a proper suffix does not.
SiteLookup(site) ==
    LET Suffix(k) == SubSeq(site, k, Len(site))
        reached == {k \in DOMAIN site :
                       /\ \E seed \in SiteSeeds : seed.host = Suffix(k)
                       /\ k = 1 \/ SeedAt(Suffix(k)).scope = "WithSubdomains"}
    IN  IF reached = {} THEN None
        ELSE SeedAt(Suffix(CHOOSE k \in reached : \A j \in reached : k <= j))

SeedLabelRefinements == {<<"document:docs", "document:sheets">>, <<"document:docs", "document:slides">>}

-----------------------------------------------------------------------------
(* The keyword rules (plugin.rs). *)

Rule(keywords, label, category) == [keywords |-> keywords, label |-> label, category |-> category]

BrowserContextRules ==
    <<Rule({<<"google", "sheets">>}, "document:sheets", "FOCUS_WORK"),
      Rule({<<"docs", "google", "com">>, <<"google", "docs">>}, "document:docs", "FOCUS_WORK"),
      Rule({<<"youtube">>}, "video:youtube", "PASSIVE_CONSUMPTION"),
      Rule({<<"github">>}, "reference:github", "REFERENCE"),
      Rule({<<"jira">>}, "task:manage", "TASK_MANAGEMENT")>>

PurposeRules ==
    <<Rule({<<"code">>, <<"terminal">>}, "document:code", "FOCUS_WORK"),
      Rule({<<"mail">>, <<"inbox">>}, "communication:email", "COMMUNICATION"),
      Rule({<<"jira">>, <<"work">>}, "task:manage", "TASK_MANAGEMENT")>>

ClassifyMatchingRules(haystack, rules) ==
    LET matches == SelectSeq(rules, LAMBDA rule :
                       \E k \in rule.keywords : ContainsTokenPhrase(haystack, k))
    IN  IF matches = <<>> THEN None
        ELSE IF \E i \in DOMAIN matches : matches[i].category # Head(matches).category
             THEN Ambiguous("Heuristic")
             ELSE WithQuality(Head(matches).label, Head(matches).category,
                              "Heuristic", "Classified", "Medium")

BrowserContextVerdict(e) == ClassifyMatchingRules(Haystack(e), BrowserContextRules)

-----------------------------------------------------------------------------
(* The tiers, in the order they are registered. *)

SiteSeedTier(e) ==
    LET seed == IF BrowserSite(e) = None THEN None ELSE SiteLookup(BrowserSite(e))
        refined == BrowserContextVerdict(e)
    IN  IF seed = None THEN None
        ELSE ExactMatch(IF /\ refined # None
                           /\ refined.status = "Classified"
                           /\ refined.category = seed.category
                           /\ <<seed.label, refined.label>> \in SeedLabelRefinements
                        THEN refined.label ELSE seed.label, seed.category)

BrowserContextTier(e) ==
    IF ~IsBrowserApp(e.name) \/ HasReadableSite(e) THEN None ELSE BrowserContextVerdict(e)

\* A seed application's own bundle identifier and the bundle-only seeds, merged.
SeedBundles ==
    [com_microsoft_VSCode |-> <<"document:code", "FOCUS_WORK">>,
     com_apple_MobileSMS  |-> <<"communication:chat", "COMMUNICATION">>]

BundleSeedTier(e) ==
    IF IsBrowserApp(e.name) \/ e.bundle \notin DOMAIN SeedBundles THEN None
    ELSE ExactMatch(SeedBundles[e.bundle][1], SeedBundles[e.bundle][2])

\* The shipped patterns are whole names and one name with a trailing star.
SeedApplications ==
    <<[pattern |-> <<"jira">>, star |-> FALSE, label |-> "task:manage", category |-> "TASK_MANAGEMENT"],
      [pattern |-> <<"twitter">>, star |-> TRUE, label |-> "social:twitter", category |-> "SOCIAL_FEED"]>>

PatternMatches(entry, name) ==
    IF entry.star THEN IsPrefix(entry.pattern, name) ELSE entry.pattern = name

SeedDictionaryTier(e) ==
    LET found == SelectInSeq(SeedApplications, LAMBDA entry :
                     ~IsBrowserApp(entry.pattern) /\ PatternMatches(entry, e.name))
    IN  IF found = 0 THEN None
        ELSE ExactMatch(SeedApplications[found].label, SeedApplications[found].category)

LocalPurposeHeuristicTier(e) ==
    IF HasReadableSite(e) THEN None ELSE ClassifyMatchingRules(Haystack(e), PurposeRules)

\* An image type implies nothing on its own and is in no row.
DocumentTypeCategory ==
    [public_source_code |-> "FOCUS_WORK", public_plain_text |-> "REFERENCE",
     public_movie |-> "PASSIVE_CONSUMPTION"]

UnambiguousDocumentTypeCategory(types) ==
    LET mapped == {i \in DOMAIN types : types[i] \in DOMAIN DocumentTypeCategory}
        count(c) == Cardinality({i \in mapped : DocumentTypeCategory[types[i]] = c})
        leader == CHOOSE c \in Categories : \A d \in Categories : count(d) <= count(c)
    IN  IF mapped # {} /\ count(leader) * 10 >= Cardinality(mapped) * 7 THEN leader ELSE None

DocumentTypeTier(e) ==
    LET category == UnambiguousDocumentTypeCategory(e.documentTypes)
    IN  IF IsBrowserApp(e.name) \/ category = None THEN None
        ELSE Inferred(category, "DeclaredDocumentTypes", "Medium")

\* "productivity" and the other deliberately unmapped values are in no row.
DeclaredAppCategory == [developer_tools |-> "FOCUS_WORK", video |-> "PASSIVE_CONSUMPTION",
                        reference |-> "REFERENCE"]

DeclaredCategoryTier(e) ==
    IF IsBrowserApp(e.name) \/ e.appCategory \notin DOMAIN DeclaredAppCategory THEN None
    ELSE Inferred(DeclaredAppCategory[e.appCategory], "DeclaredAppCategory", "Medium")

SubdomainLabelVotes == [mail |-> "COMMUNICATION", docs |-> "REFERENCE", jira |-> "TASK_MANAGEMENT"]
RegistrableTokenVotes == [wiki |-> "REFERENCE", mail |-> "COMMUNICATION"]
AccessLabels == {"login", "sso"}
MultiLabelPublicSuffixes == {<<"ac", "uk">>, <<"co", "uk">>}
\* The registrable label's hyphen-separated tokens.
TokensOf(label) == IF label = "arch-wiki" THEN {"arch", "wiki"} ELSE {label}

InstitutionalSuffix(site) ==
    \/ Last(site) = "edu"
    \/ Last(site) = "uk" /\ Len(site) > 1 /\ site[Len(site) - 1] \in {"ac", "gov"}

InferredSiteCategory(site) ==
    LET suffix == IF \E s \in MultiLabelPublicSuffixes : IsSuffix(s, site) /\ Len(site) > 2
                  THEN 2 ELSE 1
        registrable == Len(site) - suffix
        below == {site[i] : i \in 1..(registrable - 1)}
        votes == {SubdomainLabelVotes[l] : l \in below \cap DOMAIN SubdomainLabelVotes}
                 \cup {c \in {"REFERENCE"} : InstitutionalSuffix(site)}
                 \cup {RegistrableTokenVotes[t] :
                          t \in TokensOf(site[registrable]) \cap DOMAIN RegistrableTokenVotes}
    IN  IF registrable < 1 THEN None
        ELSE IF below \cap AccessLabels # {} THEN "SYSTEM"
        ELSE IF Cardinality(votes) = 1 THEN CHOOSE c \in votes : TRUE ELSE None

SiteInferenceTier(e) ==
    LET site == BrowserSite(e)
    IN  IF site = None \/ SiteLookup(site) # None \/ InferredSiteCategory(site) = None THEN None
        ELSE Inferred(InferredSiteCategory(site), "Heuristic", "Medium")

-----------------------------------------------------------------------------
(* Tier 2: the scores of a sketch against the prototypes.  e.sketch is None  *)
(* when there is no embedding, else the personal and the built-in scores.   *)

Better(a, b) ==
    LET at(c) == CHOOSE i \in DOMAIN CategoryOrder : CategoryOrder[i] = c
    IN  a.score > b.score \/ (a.score = b.score /\ at(a.category) < at(b.category))

\* The prototype at a place of the ranking has all the better ones before it.
Ranked(scores) ==
    [i \in 1..Cardinality(scores) |->
        CHOOSE s \in scores : Cardinality({r \in scores : Better(r, s)}) = i - 1]

\* Mutant: only the runner-up is looked at.
RunnerUp(ranked) ==
    IF Len(ranked) > 1 /\ ranked[2].category # ranked[1].category THEN 2 ELSE 0

\* The best prototype of another category than the leader's.
Contender(ranked) ==
    SelectInSeq(ranked, LAMBDA r : r.category # Head(ranked).category)

ClassifyPersonal(scores) ==
    LET ranked == Ranked(scores)
        contender == Contender(ranked)
    IN  IF ranked = <<>> \/ Head(ranked).score < 90 THEN None
        ELSE IF contender # 0 /\ Head(ranked).score - ranked[contender].score < 8
             THEN Ambiguous("UserRule")
             ELSE Inferred(Head(ranked).category, "UserRule", "High")

ClassifyBuiltin(scores) ==
    LET ranked == Ranked(scores)
    IN  IF ranked = <<>> \/ Head(ranked).score < 42 THEN None
        ELSE IF Len(ranked) > 1 /\ Head(ranked).score - ranked[2].score < 5
             THEN Ambiguous("Embedding")
             ELSE Inferred(Head(ranked).category, "Embedding",
                           IF Head(ranked).score >= 90 THEN "High" ELSE "Medium")

EmbeddingTier(e) ==
    IF e.sketch = None THEN None
    ELSE IF ClassifyPersonal(e.sketch.personal) # None
         THEN ClassifyPersonal(e.sketch.personal)
         ELSE ClassifyBuiltin(e.sketch.builtin)

GenericBrowserPriorTier(e) ==
    IF IsBrowserApp(e.name)
    THEN WithQuality("reference:browser", "REFERENCE", "Fallback", "Ambiguous", "Low") ELSE None

UnloggedFallbackTier(e) == WithQuality("unlogged", "UNLOGGED", "Fallback", "Unclassified", "None")

\* Registration order is the arbitration order.
Tiers(e) ==
    <<SiteSeedTier(e), BrowserContextTier(e), BundleSeedTier(e), SeedDictionaryTier(e),
      LocalPurposeHeuristicTier(e), DocumentTypeTier(e), DeclaredCategoryTier(e),
      SiteInferenceTier(e), EmbeddingTier(e), GenericBrowserPriorTier(e), UnloggedFallbackTier(e)>>

Classify(e) == LET tiers == Tiers(e) IN tiers[SelectInSeq(tiers, LAMBDA t : t # None)]

\* A label that is the raw name or title itself is refused.
MatchesRawInput(result, e) == <<result.label>> \in {e.name, e.title}

-----------------------------------------------------------------------------
\* What the raw event brings of a window, and the scores of its sketch.
PrototypeScore == [category : Categories, score : Nat]
RawEvent ==
    [name : Seq(STRING), title : Seq(STRING),
     url : {None} \cup [hierarchical : BOOLEAN, labels : Seq(STRING)],
     bundle : {None} \cup STRING, appCategory : {None} \cup STRING, documentTypes : Seq(STRING),
     sketch : {None} \cup [personal : SUBSET PrototypeScore, builtin : SUBSET PrototypeScore]]

ASSUME ClassifierAssumption ==
    /\ Events \subseteq RawEvent /\ Titles \subseteq Seq(STRING)
    /\ \A e \in Events : e.sketch # None => IsFiniteSet(e.sketch.personal)
    /\ None \notin SiteSeeds
    /\ \A label \in {seed.label : seed \in SiteSeeds} \cup {r[2] : r \in SeedLabelRefinements},
          category \in {seed.category : seed \in SiteSeeds} : ExactMatch(label, category) # None
    /\ \A e \in Events : UnloggedFallbackTier(e) # None

\* No browser goes by the name of an application in the seed dictionary: the
\* tier of the page's words comes before the dictionary and ranks below it.
ASSUME BrowsersAreNoSeeds ==
    \A e \in Events : IsBrowserApp(e.name) => SeedDictionaryTier(e) = None

ClassifierInit == event \in Events /\ verdict = None

Process ==
    /\ verdict = None
    /\ verdict' = IF MatchesRawInput(Classify(event), event) THEN InvalidPluginResult
                  ELSE Classify(event)
    /\ UNCHANGED event

ClassifierSpec == ClassifierInit /\ [][Process]_classifiervars

Classified == verdict \notin {None, InvalidPluginResult}

-----------------------------------------------------------------------------
(* A browser tab is its site.  Once the host of a tab can be read, neither   *)
(* the words of the page's title nor anything the browser declares about     *)
(* itself moves the tab's category, and when a curated seed reaches the site *)
(* the category is that of the most specific one (has_readable_site, the     *)
(* refusals of the declared tiers, SiteMatcher::lookup).  Tier 2 reads the   *)
(* title by design, so a tab that gets as far as a sketch is left out.       *)
TabIsItsSite ==
    (Classified /\ BrowserSite(event) # None) =>
        LET site == BrowserSite(event)
            Reaches(seed) == \/ seed.host = site
                             \/ seed.scope = "WithSubdomains" /\ IsSuffix(seed.host, site)
            reaching == {seed \in SiteSeeds : Reaches(seed)}
            bare == [event EXCEPT !.bundle = None, !.appCategory = None, !.documentTypes = <<>>]
        IN  /\ \A seed \in reaching :
                   (\A other \in reaching : Len(other.host) <= Len(seed.host)) =>
                       verdict.category = seed.category /\ verdict.source = "Seed"
            /\ event.sketch = None =>
                   \A t \in Titles : Classify([bare EXCEPT !.title = t]).category
                                             = verdict.category

(* The order of registration and ClassificationResult::precedence agree: no  *)
(* tier that would have answered outranks the one that did.  A verdict from  *)
(* the user's own prototypes is left out: it carries the source UserRule but *)
(* comes from the embedding tier, below the declared ones.                   *)
WinnerRanksHighest ==
    Classified =>
        \A i \in DOMAIN Tiers(event) :
            LET other == Tiers(event)[i]
            IN  other = None \/ other.source = "UserRule" \/ Precedence(other) <= Precedence(verdict)

(* A near tie between two of the user's own prototypes is never a confident  *)
(* answer, however many prototypes of the leading category come between      *)
(* them: a verdict from the user's prototypes leads every prototype of       *)
(* another category by the whole margin (classify_personal's contender).     *)
NearTieIsAmbiguous ==
    (Classified /\ verdict.source = "UserRule" /\ verdict.status = "Classified") =>
        \E best \in event.sketch.personal :
            /\ best.category = verdict.category
            /\ \A other \in event.sketch.personal :
                  other.category # best.category => best.score >= other.score + 8

(* A verdict can be defended: it is about the site that was on the tab, it   *)
(* comes from the highest tier that had one, and no near tie was decided.    *)
VerdictIsSound == TabIsItsSite /\ WinnerRanksHighest /\ NearTieIsAmbiguous
=============================================================================
