----------------------------- MODULE MCReadings -----------------------------
(***************************************************************************)
(* What the service reads out of the recorded activity, each in behaviours *)
(* of its own: the classification of an event, the sketches of its Tier 2, *)
(* the dashboard, the antecedents of a drift, and the evidence of a work   *)
(* block.  They share no state.                                            *)
(***************************************************************************)
EXTENDS Classifier, Sketches, Dashboard, Antecedents, Drift

CONSTANTS c1, c2, p1, p2, q

-----------------------------------------------------------------------------
(* Events: every combination of a few names, hosts, titles and             *)
(* declarations, and the score tables of Tier 2.                           *)

Url(labels) == [hierarchical |-> TRUE, labels |-> labels]

Names == {<<"safari">>, <<"arc", "studio">>, <<"jira">>, <<"twitter", "web">>, <<"unknown">>}

Urls ==
    {None, [hierarchical |-> FALSE, labels |-> <<"docs", "google", "com">>],
     Url(<<"docs", "google", "com">>), Url(<<"www", "github", "com", "">>),
     Url(<<"mail", "github", "com">>), Url(<<"x", "mail", "github", "com">>),
     Url(<<"m", "youtube", "com">>), Url(<<"x", "mail", "google", "com">>),
     Url(<<"login", "example", "edu">>), Url(<<"mail", "docs", "example", "com">>),
     Url(<<"docs", "example", "ac", "uk">>), Url(<<"arch-wiki", "org">>), Url(<<"ac", "uk">>),
     Url(<<"www", "com">>), Url(<<"localhost">>), Url(<<"nas", "lan">>),
     Url(<<"127", "0", "0", "1">>), Url(<<"a", "", "com">>), Url(<<"paper", "com">>)}

MCTitles == {<<>>, <<"google", "sheets">>, <<"youtube">>, <<"youtube", "jira">>, <<"great", "work">>,
           <<"unlogged">>}

DocumentTypeLists ==
    LET src == "public_source_code" txt == "public_plain_text"
    IN  {<<>>, <<src>>, <<src, txt, src>>, <<src, txt, src, src, "public_image">>}

Score(category, score) == [category |-> category, score |-> score]

NoPersonal == [personal |-> {}, builtin |-> {Score("REFERENCE", 42), Score("SYSTEM", 40)}]

Base == [name |-> <<"unknown">>, url |-> None, title |-> <<>>, bundle |-> None,
         appCategory |-> None, documentTypes |-> <<>>, sketch |-> None]

\* Any window of a browser or not, and what an application declares.
Windows ==
    {[Base EXCEPT !.name = n, !.url = u, !.title = t, !.sketch = s] :
        n \in Names, u \in Urls, t \in MCTitles, s \in {None, NoPersonal}}

Declared ==
    {[Base EXCEPT !.name = n, !.url = u, !.title = t, !.bundle = b, !.appCategory = a,
                  !.documentTypes = d, !.sketch = s] :
        n \in Names, u \in {None, Url(<<"docs", "google", "com">>)}, t \in {<<>>, <<"great", "work">>},
        b \in {None, "com_microsoft_VSCode"}, a \in {None, "developer_tools", "productivity"},
        d \in DocumentTypeLists, s \in {None, NoPersonal}}

\* Up to three of the user's prototypes and two built-in categories.
Personal == {Score(c, n) : c \in {"FOCUS_WORK", "REFERENCE", "SYSTEM"}, n \in {83, 90, 91, 98}}

Builtin == {Score("FOCUS_WORK", n) : n \in {41, 42, 90}}

Sketched ==
    {[Base EXCEPT !.name = n, !.sketch = [personal |-> p, builtin |-> {b, Score("REFERENCE", 38)}]] :
        n \in {<<"unknown">>, <<"safari">>},
        p \in UNION {kSubset(k, Personal) : k \in 0..3}, b \in Builtin}

MCEvents == Windows \cup Declared \cup Sketched

\* p1 and p2 are pages of one site, q is another site's.
MCKeyOf == (p1 :> "site") @@ (p2 :> "site") @@ (q :> "other")

-----------------------------------------------------------------------------
(* Retained events: a few of every kind over two local days, and long      *)
(* alternations around a work block.                                       *)

Kind(category, status, app, ticks) ==
    [category |-> category, status |-> status, app |-> app, ticks |-> ticks,
     confidence |-> IF status = "classified" THEN "high" ELSE "low"]

Kinds ==
    {Kind("FOCUS_WORK", "classified", "a", 0), Kind("FOCUS_WORK", "classified", "a", 3),
     Kind("FOCUS_WORK", "classified", "b", 1), Kind("REFERENCE", "classified", "a", 0),
     Kind("SYSTEM", "classified", "a", 0), Kind("REFERENCE", "ambiguous", "a", 2)}

At(k, t) == [at |-> t, ticks |-> k.ticks, app |-> k.app, category |-> k.category,
             status |-> k.status, confidence |-> k.confidence]

InOrder(set) == SelectSeq([i \in 1..15 |-> i - 1], LAMBDA t : t \in set)

\* Up to four events over two days, at times that fall on both sides of midnight.
Ordinary ==
    /\ \E set \in UNION {kSubset(n, {0, 7, 8, 9, 12}) : n \in 0..4} : \E kinds \in [set -> Kinds] :
           buffer = LET times == InOrder(set) IN [i \in DOMAIN times |-> At(kinds[times[i]], times[i])]
    /\ block = NoBlock

\* Switching back and forth, at every subset of the block's ticks.
Switching ==
    /\ \E set \in SUBSET (3..12) :
           buffer = LET times == InOrder(set)
                        category(i) == IF i % 2 = 0 THEN "FOCUS_WORK" ELSE "REFERENCE"
                    IN  [i \in DOMAIN times |-> At(Kind(category(i), "classified", "a", 0), times[i])]
    /\ block \in {NoBlock} \cup [from : {0, 4, 8, 9}, to : {9, 14}]

MCDays == <<0, 8>>

-----------------------------------------------------------------------------
(* Histories of episodes. *)

MCDimensions == {"day_type", "preceding_category", "run_index"}

Feature(weekend, category, run) ==
    [d \in MCDimensions |-> CASE d = "day_type" -> weekend
                              [] d = "preceding_category" -> category
                              [] d = "run_index" -> run]

Features == {Feature(FALSE, NotYet, 0), Feature(FALSE, 1, 3), Feature(TRUE, 1, 8)}

\* Days that only grow, one at a time.
DayPatterns == {d \in [1..5 -> 1..5] : d[1] = 1 /\ \A i \in 1..4 : d[i + 1] - d[i] \in 0..1}

MCEpisodes ==
    \E n \in {3, 5}, days \in DayPatterns, bad \in {{1}, {2, 3, 5}},
       kinds \in [1..3 -> Features] :
           episodes = [i \in 1..n |-> [day |-> days[i], outcome |-> i \in bad, features |-> kinds[((i - 1) % 3) + 1]]]

-----------------------------------------------------------------------------

VARIABLE part   \* what this behaviour is about

vars == <<part, classifiervars, sketchvars, dashboardvars, antecedentvars, driftVars>>

Classifies == IF part = "verdict" THEN ClassifierInit ELSE event = None /\ verdict = None
Reads == IF part = "dashboard" THEN Ordinary \/ Switching ELSE buffer = <<>> /\ block = NoBlock
Analyses == IF part = "antecedents" THEN MCEpisodes ELSE episodes = <<>>

Init ==
    /\ part \in {"verdict", "sketches", "dashboard", "antecedents", "drift"}
    /\ Classifies
    /\ SketchInit
    /\ Reads /\ DashboardInit
    /\ Analyses /\ AntecedentInit
    /\ DriftInit /\ (part # "drift" => user.cat = 0)

Next ==
    /\ UNCHANGED part
    /\ \/ /\ part = "verdict" /\ Process
          /\ UNCHANGED <<sketchvars, dashboardvars, antecedentvars, driftVars>>
       \/ /\ part = "sketches" /\ SketchStep
          /\ UNCHANGED <<classifiervars, dashboardvars, antecedentvars, driftVars>>
       \/ /\ part = "dashboard" /\ LocalDashboardResponse
          /\ UNCHANGED <<classifiervars, sketchvars, antecedentvars, driftVars>>
       \/ /\ part = "antecedents" /\ Analyse
          /\ UNCHANGED <<classifiervars, sketchvars, dashboardvars, driftVars>>
       \/ /\ part = "drift" /\ DriftNext
          /\ UNCHANGED <<classifiervars, sketchvars, dashboardvars, antecedentvars>>

\* A handler's thread runs and its timers fire; nothing is assumed of the model.
Fairness ==
    \A c \in Callers :
        WF_vars(part = "sketches" /\ CallerStep(c)
                  /\ UNCHANGED <<part, classifiervars, dashboardvars, antecedentvars, driftVars>>)

Spec == Init /\ [][Next]_vars /\ Fairness

-----------------------------------------------------------------------------

\* What the dashboard and the card of a finished block count adds up: the day
\* to its buckets, the chart and the clusters to the events, and the stretches
\* and returns of a block to its coverage and to one another.
ReportsAddUp == DashboardIsTrue /\ ShapeIsCoherent
=============================================================================
