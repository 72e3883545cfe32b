---------------------------- MODULE Antecedents -----------------------------
(***************************************************************************)
(* The antecedent miner (behavior/candidates.rs, behavior/antecedents.rs):  *)
(* which of a closed family of antecedents goes with an episode whose      *)
(* anchor is not seen again.  It has no caller in the shipped path; the    *)
(* four controls against a confident false pattern are modelled.           *)
(*                                                                         *)
(* An episode has its day, its outcome and its features.  The miner sorts  *)
(* episodes by day and onset; here they are in that order already.  Risk   *)
(* differences and the rank of the observed one among the day shifts are   *)
(* exact; the normal tail that turns a studentised difference into the     *)
(* p-value Benjamini-Hochberg ranks, and the sampled credible interval,    *)
(* are floating point and may come out as any value.  p-values are in      *)
(* thousandths.                                                            *)
(***************************************************************************)
EXTENDS Integers, Sequences, FiniteSets, SequencesExt, FiniteSetsExt

CONSTANTS
    NotYet,
    Dimensions,      \* the dimensions of the registry
    PrecedingCategories, \* the category indices of the two preceding-run dimensions
    PLevels,         \* the values a calibrated p-value may take
    MinSupport,      \* MIN_SUPPORT_PER_ARM
    MinDays,         \* MIN_DAYS_FOR_PERMUTATION
    MaxShifts,       \* REQUESTED_PERMUTATIONS
    SingleLook,      \* PRE_DECLARED_EPISODE_COUNT
    FdrQ,            \* FDR_Q, in thousandths
    ScreenAlpha      \* PERMUTATION_SCREEN_ALPHA, in thousandths

VARIABLES
    episodes,   \* the history, in the order of day and onset
    analysis    \* what analyse returned; NotYet before

antecedentvars == <<episodes, analysis>>

\* A calibrated p-value is at most one, and the rate of the correction below it.
ASSUME AntecedentAssumption ==
    /\ PLevels \subseteq 0..1000 /\ FdrQ \in 0..999
    /\ NotYet \notin {"AwaitingPreDeclaredN", "NoHeldOutWindow", "InsufficientEpisodes", "InsufficientDays"}

-----------------------------------------------------------------------------
(* The registry. *)

Bin(value, edges) == Cardinality({i \in DOMAIN edges : value >= edges[i]})

BlockElapsedEdges == <<600, 1500, 2700>>
RunIndexEdges == <<3, 8>>
GapEdges == <<60, 300>>

Levels(dimension) ==
    CASE dimension = "time_of_day"          -> 0..7
      [] dimension = "day_type"             -> BOOLEAN
      [] dimension = "preceding_category"   -> PrecedingCategories
      [] dimension = "preceding_transition" -> PrecedingCategories \X PrecedingCategories
      [] dimension = "block_elapsed"        -> 0..3
      [] dimension = "focus"                -> BOOLEAN
      [] dimension = "prior_block_phase"    -> 0..4
      [] dimension = "prior_intervention_outcome" -> 0..8
      [] dimension = "run_index"            -> 0..2
      [] dimension = "gap"                  -> 0..2

Registry == UNION {{[dimension |-> d, level |-> v] : v \in Levels(d)} : d \in Dimensions}

\* The family is closed: what it holds is fixed before any history is read.
ASSUME RegistryAssumption == IsFiniteSet(Registry)

FamilySize == Cardinality(Registry)

\* The order in which the candidates are registered: some order, the same always.
FamilyOrder == SetToSeq(Registry)

\* The level of a dimension that a feature falls in.
LevelOf(dimension, value) ==
    CASE dimension = "time_of_day"   -> value \div 3
      [] dimension = "block_elapsed" -> Bin(value, BlockElapsedEdges)
      [] dimension = "run_index"     -> Bin(value, RunIndexEdges)
      [] dimension = "gap"           -> Bin(value, GapEdges)
      [] OTHER                       -> value

\* A feature that was not asked of the episode is in neither arm.
Presence(candidate, features) ==
    LET value == features[candidate.dimension]
    IN  IF value = NotYet THEN "Unobserved"
        ELSE IF LevelOf(candidate.dimension, value) = candidate.level THEN "Present" ELSE "Absent"

-----------------------------------------------------------------------------
(* The permutation null: whole days, rotated. *)

DistinctDays(es) == {es[i].day : i \in DOMAIN es}

\* The order of a history: that of the days.
InOrderOfDays(es) ==
    /\ es \in Seq({es[i] : i \in DOMAIN es}) /\ \A i \in DOMAIN es : es[i].day \in Int
    /\ \A i, j \in DOMAIN es : i <= j => es[i].day <= es[j].day

\* Offsets of the first episode of each day.
DayStartIndices(es) == {i - 1 : i \in {j \in DOMAIN es : j = 1 \/ es[j].day # es[j - 1].day}}

\* All the day-aligned shifts but the identity, or a sample of them.
ChooseShifts(es) ==
    LET available == DayStartIndices(es) \ {0}
    IN  IF Cardinality(available) <= MaxShifts THEN {available}
        ELSE kSubset(MaxShifts, available)

ArmIndices(candidate, es, want) == {i \in DOMAIN es : Presence(candidate, es[i].features) = want}

Shifted(es, i, shift) == es[((i - 1 + shift) % Len(es)) + 1]

EventCount(es, arm, shift) == Cardinality({i \in arm : Shifted(es, i, shift).outcome})

\* The risk difference times the two arms' sizes, which every shift shares.
ShiftedRiskDifference(es, present, absent, shift) ==
    EventCount(es, present, shift) * Cardinality(absent) - EventCount(es, absent, shift) * Cardinality(present)

Abs(n) == IF n < 0 THEN -n ELSE n

\* (1 + how many shifts are at least as far from the null's mean) / (1 + shifts).
RankP(es, candidate, shifts) ==
    LET present == ArmIndices(candidate, es, "Present")
        absent  == ArmIndices(candidate, es, "Absent")
        m == Cardinality(shifts)
        Value(s) == ShiftedRiskDifference(es, present, absent, s)
        sum == MapThenSumSet(Value, shifts)
        Far(s) == Abs(Value(s) * m - sum)
        extreme == {s \in shifts : Far(s) >= Abs(ShiftedRiskDifference(es, present, absent, 0) * m - sum)}
    IN  IF m = 0 THEN 1000 ELSE (1000 * (1 + Cardinality(extreme))) \div (1 + m)

Supported(candidate, es) ==
    /\ Cardinality(ArmIndices(candidate, es, "Present")) >= MinSupport
    /\ Cardinality(ArmIndices(candidate, es, "Absent")) >= MinSupport

\* The sign of the difference as f64::signum has it: zero is positive.
Sign(candidate, es) ==
    ShiftedRiskDifference(es, ArmIndices(candidate, es, "Present"),
                              ArmIndices(candidate, es, "Absent"), 0) >= 0

-----------------------------------------------------------------------------
(* Benjamini-Hochberg over the registry, whatever was tested. *)

Denominator(p) == Max({FamilySize, Cardinality(DOMAIN p)})

\* A smaller p-value comes first, of equal ones the one registered first.
Precedes(p, c, d) ==
    LET at(e) == CHOOSE i \in DOMAIN FamilyOrder : FamilyOrder[i] = e
    IN  p[c] < p[d] \/ (p[c] = p[d] /\ at(c) < at(d))

\* The tested candidates in that order: each has all that precede it before it.
RankedByP(p) ==
    [i \in 1..Cardinality(DOMAIN p) |->
        CHOOSE c \in DOMAIN p : Cardinality({d \in DOMAIN p : Precedes(p, d, c)}) = i - 1]

\* Largest i with p_(i) <= i * q / K, then everything up to it.
PassedFdr(p) ==
    LET ranked == RankedByP(p)
        under == {i \in DOMAIN ranked : Denominator(p) * p[ranked[i]] <= i * FdrQ}
    IN  IF under = {} THEN {} ELSE {ranked[i] : i \in 1..Max(under)}

-----------------------------------------------------------------------------
(* Mining a window, and carrying what it finds to the held-out one. *)

Abstains(reason) == [abstention |-> reason, held |-> <<>>, shifts |-> {}, p |-> <<>>,
                     passed |-> {}, discoveries |-> {}, confirmed |-> {}]

\* Mutant: the held-out window is the later episodes, whole days or not.
LaterEpisodes(es, cut) ==
    LET n == (Len(es) * 6) \div 10
    IN  <<SubSeq(es, 1, n), SubSeq(es, n + 1, Len(es))>>

\* A day is in one window or the other; cut counts the days of discovery.  The
\* episodes before the boundary day come first.
SplitOnDays(es, cut) ==
    LET boundary == CHOOSE d \in DistinctDays(es) : Cardinality({e \in DistinctDays(es) : e < d}) = cut
        n == Max({0} \cup {i \in DOMAIN es : es[i].day < boundary})
    IN  <<SubSeq(es, 1, n), SubSeq(es, n + 1, Len(es))>>

\* The held-out test of one discovery; replicates is what the calibrated
\* p-value and the credible interval say of it.
Confirmed(candidate, discovery, held, replicates) ==
    /\ Supported(candidate, held)
    /\ Cardinality(DistinctDays(held)) >= MinDays
    /\ Sign(candidate, held) = Sign(candidate, discovery)
    /\ replicates

AwaitingPreDeclaredN ==
    /\ Len(episodes) < SingleLook
    /\ analysis' = Abstains("AwaitingPreDeclaredN")

\* Three fifths of the days are for discovery.
Cut == (Cardinality(DistinctDays(episodes)) * 6) \div 10

NoHeldOutWindow ==
    /\ Len(episodes) >= SingleLook
    /\ Cut = 0 \/ Cut = Cardinality(DistinctDays(episodes))
    /\ analysis' = Abstains("NoHeldOutWindow")

Mine ==
    LET windows == SplitOnDays(episodes, Cut)
        found == windows[1]
        held == windows[2]
        tested == {c \in Registry : Supported(c, found)}
    IN  /\ Len(episodes) >= SingleLook
        /\ Cut > 0 /\ Cut < Cardinality(DistinctDays(episodes))
        /\ \/ /\ Len(found) < 2 * Max({MinSupport, 1})
              /\ analysis' = Abstains("InsufficientEpisodes")
           \/ /\ Len(found) >= 2 * Max({MinSupport, 1})
              /\ Cardinality(DistinctDays(found)) < MinDays
              /\ analysis' = Abstains("InsufficientDays")
           \/ /\ Len(found) >= 2 * Max({MinSupport, 1})
              /\ Cardinality(DistinctDays(found)) >= MinDays
              /\ \E shifts \in ChooseShifts(found), p \in [tested -> PLevels] :
                    LET discoveries == {c \in PassedFdr(p) : RankP(found, c, shifts) <= ScreenAlpha}
                    IN  \E replicates \in SUBSET discoveries :
                           analysis' = [abstention |-> NotYet, held |-> held, shifts |-> shifts, p |-> p,
                                        passed |-> PassedFdr(p), discoveries |-> discoveries,
                                        confirmed |-> {c \in discoveries :
                                            Confirmed(c, found, held, c \in replicates)}]

\* For any history.
AntecedentInit == InOrderOfDays(episodes) /\ analysis = NotYet

Analyse ==
    /\ analysis = NotYet
    /\ AwaitingPreDeclaredN \/ NoHeldOutWindow \/ Mine
    /\ UNCHANGED episodes

AntecedentSpec == AntecedentInit /\ [][Analyse]_antecedentvars

-----------------------------------------------------------------------------
Discovery == SubSeq(episodes, 1, Len(episodes) - Len(analysis.held))

Mined == analysis # NotYet /\ analysis.abstention = NotYet

\* The outcomes of a window's days, in the order of the days, after a shift.
Outcomes(es) == [i \in DOMAIN es |-> es[i].outcome]

\* The candidates at or below a level that the line over the family allows.
RejectedOfFamily(p) ==
    LET P(c) == IF c \in DOMAIN p THEN p[c] ELSE 1000
        Below(t) == Cardinality({c \in Registry : P(c) <= t})
        steps == {t \in PLevels : FamilySize * t <= Below(t) * FdrQ}
    IN  {c \in Registry : \E t \in steps : P(c) <= t}

(* Nothing the data chose loosens the correction.  Exactly the candidates    *)
(* pass that Benjamini-Hochberg rejects over the whole registered family     *)
(* when every candidate without support counts as a hypothesis with p = 1;   *)
(* so a sparse history cannot shrink the denominator                         *)
(* (apply_fdr, FAMILY_SIZE).                                                 *)
FamilyIsCorrected == Mined => analysis.passed = RejectedOfFamily(analysis.p)

(* A day is never cut in two, by either control that depends on it: no day   *)
(* has episodes in the discovery window and in the held-out one, so nothing  *)
(* a finding is confirmed on shared a day with what it was found on; and     *)
(* each shift of the permutation null is a rotation of whole days, never     *)
(* the identity, which keeps every day's outcomes together                   *)
(* (analyse's split, day_start_indices, choose_shifts).                      *)
DaysStayWhole ==
    Mined =>
        /\ DistinctDays(Discovery) \cap DistinctDays(analysis.held) = {}
        /\ Discovery \o analysis.held = episodes
        /\ \A s \in analysis.shifts :
              /\ s \in 1..(Len(Discovery) - 1)
              /\ \A i, j \in DOMAIN Discovery :
                    i <= s /\ s < j => Discovery[i].day < Discovery[j].day
              /\ [i \in DOMAIN Discovery |-> Shifted(Discovery, i, s).outcome]
                    = Outcomes(SubSeq(Discovery, s + 1, Len(Discovery)) \o SubSeq(Discovery, 1, s))

(* A finding survives the two controls it was made under: the correction     *)
(* for all the candidates there are, and windows that share no day.          *)
FindingsAreControlled == FamilyIsCorrected /\ DaysStayWhole
=============================================================================
