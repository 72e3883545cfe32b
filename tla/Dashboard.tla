----------------------------- MODULE Dashboard ------------------------------
(***************************************************************************)
(* The local dashboard (dashboard.rs): from the retained events to the     *)
(* timeline of the last hour, its switches and clusters, the chart of one  *)
(* local day and the summary built on this Mac; and the outbound validator *)
(* the snapshot has to pass (delivery/shaper.rs).                          *)
(*                                                                         *)
(* A buffer is a sequence of events in the order of their time.  Times are *)
(* ticks; the constants keep the order of the code's own.  The ratio of    *)
(* the coverage bar is exact (three quarters), and copy is left out: a     *)
(* sentence is only there or not there.                                    *)
(***************************************************************************)
EXTENDS Integers, Sequences, FiniteSets, SequencesExt, FiniteSetsExt

CONSTANTS
    Unread,           \* no snapshot has been asked for
    NoBlock,          \* no work block to draw
    Unavailable,      \* the error that takes the place of the dashboard
    Now,
    WindowTicks,      \* MAX_WINDOW_SECONDS, and the window the app asks for
    DayTicks,         \* the length of a local day
    Days,             \* the starts of the local days drawn, oldest first
    MaxDwell,         \* MAX_EVENT_DURATION_SECONDS
    WindowCap,        \* MAX_WINDOW_EVENTS
    DayCap,           \* MAX_DAY_EVENTS
    ClusterMin,       \* SWITCHING_CLUSTER_MIN_TRANSITIONS
    ClusterTicks,     \* SWITCHING_CLUSTER_WINDOW_SECONDS
    TinyTicks,        \* TINY_SEGMENT_SECONDS
    MinorPercent,     \* MINOR_SEGMENT_PERCENT
    MaxBuckets,       \* MAX_DISPLAY_BUCKETS
    ReadyTicks,       \* EARLY_SIGNAL_REQUIRED_SECONDS
    SessionGap, Seam  \* SESSION_GAP_SECONDS, DWELL_SEAM_SECONDS

VARIABLES
    buffer,    \* raw_event_buffer, in the order of occurred_at
    block,     \* the work block's [from, to): to is now while it runs
    snapshot   \* the answer to RequestLocalDashboard, Unread before

dashboardvars == <<buffer, block, snapshot>>

-----------------------------------------------------------------------------
(* Reading and measuring. *)

\* ORDER BY occurred_at ASC LIMIT: the earliest events are the ones kept.
EventsBetween(from, to, limit) ==
    LET found == SelectSeq(buffer, LAMBDA e : from <= e.at /\ e.at <= to)
    IN  SubSeq(found, 1, Min({limit, Len(found)}))

Confident(e) == e.status = "classified" /\ e.confidence \in {"high", "medium"}

SafeCategory(e) == IF Confident(e) THEN e.category ELSE "UNCLASSIFIED"

Meaningful(category) == category \notin {"UNCLASSIFIED", "SYSTEM", "IDLE", "UNLOGGED"}

ConfidenceRank == [none |-> 0, low |-> 1, medium |-> 2, high |-> 3]

WeakerConfidence(a, b) == IF ConfidenceRank[a] <= ConfidenceRank[b] THEN a ELSE b

\* The part of [from, to) that event i was on screen; empty when from >= to.
MeasuredSpan(events, i, from, to) ==
    LET next == IF i < Len(events) THEN events[i + 1].at ELSE to
        end  == IF events[i].ticks > 0 THEN events[i].at + events[i].ticks ELSE next
    IN  [from |-> Max({events[i].at, from}), to |-> Min({end, next, to})]

Length(span) == IF span.to > span.from THEN span.to - span.from ELSE 0

BuildSegments(events, from, to) ==
    LET Add(segments, i) ==
            LET span == MeasuredSpan(events, i, from, to)
                category == SafeCategory(events[i])
                n == Len(segments)
            IN  IF Length(span) = 0 THEN segments
                ELSE IF n > 0 /\ segments[n].category = category /\ segments[n].to >= span.from
                THEN [segments EXCEPT ![n].to = Max({@, span.to}),
                                      ![n].confidence = WeakerConfidence(@, events[i].confidence)]
                ELSE Append(segments, [from |-> span.from, to |-> span.to, category |-> category,
                                       confidence |-> events[i].confidence])
    IN  FoldLeft(Add, <<>>, [i \in DOMAIN events |-> i])

Total(segments) == FoldLeft(LAMBDA n, s : n + Length(s), 0, segments)

Longest(segments) == FoldLeft(LAMBDA n, s : Max({n, Length(s)}), 0, segments)

Of(segments, Test(_)) == SelectSeq(segments, LAMBDA s : Test(s.category))

-----------------------------------------------------------------------------
(* Switches and clusters. *)

BuildTransitions(segments) ==
    LET shown == Of(segments, Meaningful)
        changes == SelectSeq([i \in 1..(Len(shown) - 1) |-> i],
                             LAMBDA i : shown[i].category # shown[i + 1].category)
    IN  [k \in DOMAIN changes |->
            [at |-> shown[changes[k] + 1].from,
             categories |-> {shown[changes[k]].category, shown[changes[k] + 1].category},
             confidence |-> WeakerConfidence(shown[changes[k]].confidence,
                                             shown[changes[k] + 1].confidence)]]

\* The last transition within a cluster's window of the one it starts with.
Reach(transitions, start) ==
    LET go[k \in 1..Len(transitions)] ==
            IF /\ k < Len(transitions)
               /\ transitions[k + 1].at - transitions[start].at <= ClusterTicks
            THEN go[k + 1] ELSE k
    IN  go[start]

GroupSwitchingClusters(transitions) ==
    LET qualifying == SelectSeq([s \in DOMAIN transitions |-> [first |-> s, last |-> Reach(transitions, s)]],
                                LAMBDA c : c.last + 1 - c.first >= ClusterMin)
        Merge(merged, c) ==
            IF merged # <<>> /\ c.first <= Last(merged).last
            THEN [merged EXCEPT ![Len(merged)].last = Max({@, c.last})]
            ELSE Append(merged, c)
    IN  FoldLeft(Merge, <<>>, qualifying)

Cluster(transitions, c) ==
    [from |-> transitions[c.first].at, to |-> transitions[c.last].at, count |-> c.last + 1 - c.first,
     categories |-> UNION {transitions[i].categories : i \in c.first..c.last},
     confidence |-> FoldLeft(LAMBDA v, t : WeakerConfidence(v, t.confidence), "high",
                             SubSeq(transitions, c.first, c.last))]

-----------------------------------------------------------------------------
(* A window: the last hour's, or the work block's. *)

TimeIn(segments, category) == Total(Of(segments, LAMBDA c : c = category))

CategoriesOf(segments) == {segments[i].category : i \in DOMAIN segments}

\* The category with the most time; any of several equal ones, of which the
\* code takes the first by name.
Dominant(segments) ==
    CHOOSE c \in CategoriesOf(segments) :
        \A d \in CategoriesOf(segments) : TimeIn(segments, d) <= TimeIn(segments, c)

\* Returns to the dominant category after it was first seen and then left.
RecoveryCount(segments) ==
    LET shown == Of(segments, Meaningful)
        Home(i) == shown[i].category = Dominant(shown)
    IN  Cardinality({i \in DOMAIN shown :
            i > 1 /\ Home(i) /\ ~Home(i - 1) /\ \E j \in 1..(i - 1) : Home(j)})

Coverage(observed, window) ==
    IF observed = 0 THEN "NoData"
    ELSE IF window = 0 \/ observed * 4 < window * 3 THEN "Partial" ELSE "Good"

EarlySignal(segments, count, through) ==
    LET shown == Of(segments, Meaningful)
        observed == Total(shown)
        ready == observed >= ReadyTicks /\ count > 0
    IN  [ready |-> ready, through |-> through, observed |-> observed,
         required |-> IF ready THEN 0 ELSE ReadyTicks - Min({observed, ReadyTicks}),
         focused |-> TimeIn(shown, "FOCUS_WORK"), longest |-> Longest(shown),
         switches |-> Len(BuildTransitions(segments)),
         observation |-> ready, suggestion |-> ready /\ shown # <<>>, action |-> ready]

AggregateWindow(events, from, to) ==
    LET segments == BuildSegments(events, from, to)
        transitions == BuildTransitions(segments)
        observed == Total(Of(segments, Meaningful))
        clusters == GroupSwitchingClusters(transitions)
    IN  [segments |-> segments, transitions |-> transitions, observed |-> observed,
         clusters |-> [i \in DOMAIN clusters |-> Cluster(transitions, clusters[i])],
         coverage |-> Coverage(observed, to - from), longest |-> Longest(Of(segments, Meaningful)),
         recoveries |-> RecoveryCount(segments),
         signal |-> EarlySignal(segments, Len(events), to)]

ReadWindow(from, to) == AggregateWindow(EventsBetween(from - MaxDwell, to, WindowCap), from, to)

WellCovered(window, ticks) == window.observed * 4 >= ticks * 3

DayOf(t) == Max({Days[i] : i \in {j \in DOMAIN Days : Days[j] <= t}})

\* A full hour of the block against the hour before it, when both were seen
\* and both are of the same local day.
EarlierTodayComparison(current, from, to) ==
    LET earlier == ReadWindow(from - WindowTicks, from)
    IN  IF /\ to - from >= WindowTicks
           /\ WellCovered(current, to - from)
           /\ from - WindowTicks >= DayOf(to)
           /\ WellCovered(earlier, WindowTicks)
        THEN <<Len(current.transitions) - Len(earlier.transitions)>>
        ELSE <<>>

\* The block's own window: its last hour when it is longer than one.
FocusFragmentation ==
    LET from == IF block.to - block.from > WindowTicks THEN block.to - WindowTicks ELSE block.from
        window == ReadWindow(from, block.to)
    IN  [from |-> from, to |-> block.to, window |-> window,
         comparison |-> EarlierTodayComparison(window, from, block.to)]

-----------------------------------------------------------------------------
(* The local days. *)

\* A read cut off at its cap holds the day only up to its last event.
EndOfRead(events, end) ==
    IF Len(events) >= DayCap THEN Min({Last(events).at, end}) ELSE end

LocalDay(start) ==
    LET end == Min({start + DayTicks, Now})
        events == EventsBetween(start - MaxDwell, end, DayCap)
    IN  [start |-> start, end |-> EndOfRead(events, end), events |-> events,
         today |-> start + DayTicks > Now, truncated |-> Len(events) >= DayCap]

BucketKey(e) == <<e.app, SafeCategory(e)>>

\* The named buckets, largest first, as pairs of a key and its time.
Buckets(day) ==
    LET ticks(i) == Length(MeasuredSpan(day.events, i, day.start, day.end))
        counted == {i \in DOMAIN day.events : ticks(i) > 0 /\ day.events[i].category # "SYSTEM"}
        keys == {BucketKey(day.events[i]) : i \in counted}
        time(k) == MapThenSumSet(ticks, {i \in counted : BucketKey(day.events[i]) = k})
    IN  SetToSortSeq({[key |-> k, ticks |-> time(k)] : k \in keys}, LAMBDA a, b : a.ticks > b.ticks)

\* Too small to name, or past the number of names: both go to Other.
Selected(buckets, active) ==
    LET Tiny(b) == b.ticks < TinyTicks \/ b.ticks * 100 < active * MinorPercent
        Sort(acc, b) == IF Tiny(b) \/ Len(acc.named) >= MaxBuckets
                        THEN [acc EXCEPT !.other = @ + b.ticks]
                        ELSE [acc EXCEPT !.named = Append(@, b)]
        sorted == FoldLeft(Sort, [named |-> <<>>, other |-> 0], buckets)
    IN  IF sorted.other = 0 THEN sorted.named
        ELSE Append(sorted.named, [key |-> "Other", ticks |-> sorted.other])

\* Mutant: each share is rounded down on its own.
RoundedDown(buckets, active) ==
    [i \in DOMAIN buckets |-> IF active = 0 THEN 0 ELSE (buckets[i].ticks * 100) \div active]

\* Largest remainder: what rounding down left over goes to the largest residuals.
BucketPercentages(buckets, active) ==
    LET floor(i) == (buckets[i].ticks * 100) \div active
        residual(i) == (buckets[i].ticks * 100) % active
        assigned == FoldLeft(LAMBDA n, i : n + floor(i), 0, [i \in DOMAIN buckets |-> i])
        Before(i, j) == residual(i) > residual(j) \/ (residual(i) = residual(j) /\ i < j)
        rank(i) == Cardinality({j \in DOMAIN buckets : Before(j, i)})
    IN  [i \in DOMAIN buckets |->
            IF active = 0 THEN 0 ELSE floor(i) + (IF rank(i) < 100 - assigned THEN 1 ELSE 0)]

AggregateDay(day) ==
    LET segments == BuildSegments(day.events, day.start, day.end)
        active == Total(Of(segments, LAMBDA c : c # "SYSTEM"))
        classified == Total(Of(segments, Meaningful))
        coverage == IF active = 0 THEN "NoData"
                    ELSE IF day.truncated \/ classified * 4 < active * 3 THEN "Partial" ELSE "Good"
        buckets == Selected(Buckets(day), active)
    IN  [active |-> active, coverage |-> coverage, segments |-> segments, buckets |-> buckets,
         percentages |-> BucketPercentages(buckets, active),
         state |-> IF active = 0 THEN "NoData"
                   ELSE IF day.today /\ active < ReadyTicks THEN "StillBuilding"
                   ELSE IF coverage # "Good" THEN "LowConfidence" ELSE "Ready"]

WorkLane(category) ==
    CASE category \in {"FOCUS_WORK", "TASK_MANAGEMENT"} -> "focus_work"
      [] category = "REFERENCE" -> "development_work"
      [] category \in {"PASSIVE_CONSUMPTION", "SOCIAL_FEED"} -> "consumption"
      [] OTHER -> category

\* The drift gate's bar, asked of a merged stretch.
SegmentIsConfident(s) == Meaningful(s.category) /\ s.confidence \in {"high", "medium"}

LongestConfidentRun(segments) ==
    LET Step(acc, i) ==
            LET s == segments[i]
                continues == /\ i > 1 /\ SegmentIsConfident(segments[i - 1])
                             /\ segments[i - 1].category = s.category
                             /\ s.from - segments[i - 1].to <= Seam
                run == (IF continues THEN acc.run ELSE 0) + Length(s)
            IN  IF ~SegmentIsConfident(s) THEN acc
                ELSE [run |-> run, longest |-> Max({acc.longest, run})]
    IN  FoldLeft(Step, [run |-> 0, longest |-> 0], [i \in DOMAIN segments |-> i]).longest

NoDataSummary == [ready |-> FALSE, events |-> 0, active |-> 0, focused |-> 0, switches |-> 0, longest |-> 0]

LocalDailySummary(day) ==
    LET segments == BuildSegments(day.events, day.start, day.end)
        active == Total(Of(segments, LAMBDA c : c # "SYSTEM"))
        confident == SelectSeq(segments, SegmentIsConfident)
        Switch(i) == /\ WorkLane(confident[i].category) # WorkLane(confident[i + 1].category)
                     /\ confident[i + 1].from - confident[i].to <= SessionGap
    IN  IF active < ReadyTicks THEN NoDataSummary
        ELSE [ready |-> TRUE, active |-> active,
              events |-> Cardinality({i \in DOMAIN day.events :
                             Length(MeasuredSpan(day.events, i, day.start, day.end)) > 0}),
              focused |-> Total(SelectSeq(confident, LAMBDA s :
                             WorkLane(s.category) \in {"focus_work", "development_work"})),
              switches |-> Cardinality({i \in 1..(Len(confident) - 1) : Switch(i)}),
              longest |-> LongestConfidentRun(segments)]

-----------------------------------------------------------------------------
(* The outbound validator (shaper.rs). *)

ValidDailyActivity(day) ==
    /\ Len(day.buckets) <= MaxBuckets + 1
    /\ \A i \in DOMAIN day.percentages : day.percentages[i] <= 100

Inside(x, from, to) == from <= x.from /\ x.to <= to

ValidFocus(focus) ==
    /\ focus.from <= focus.to /\ focus.to - focus.from <= WindowTicks
    /\ Len(focus.window.segments) <= WindowCap /\ Len(focus.window.transitions) < WindowCap
    /\ \A s \in Range(focus.window.segments) : Inside(s, focus.from, focus.to)
    /\ \A t \in Range(focus.window.transitions) : focus.from <= t.at /\ t.at <= focus.to
    /\ \A c \in Range(focus.window.clusters) :
           c.count >= 3 /\ c.from <= c.to /\ Inside(c, focus.from, focus.to)

ValidSignal(signal) ==
    /\ signal.through = Now
    /\ signal.observed <= WindowTicks
    /\ signal.focused <= signal.observed /\ signal.longest <= signal.observed
    /\ IF signal.ready
       THEN signal.observation /\ signal.suggestion /\ signal.required = 0
       ELSE ~signal.observation /\ ~signal.suggestion /\ ~signal.action

ValidDashboard(s) ==
    /\ Len(s.window.segments) <= WindowCap
    /\ \A x \in Range(s.window.segments) : x.from < x.to /\ Inside(x, Now - WindowTicks, Now)
    /\ \A i \in DOMAIN s.days : ValidDailyActivity(s.days[i])
    /\ s.focus # NoBlock => ValidFocus(s.focus)
    /\ ValidSignal(s.window.signal)

-----------------------------------------------------------------------------
\* For any retained events and any work block.
DashboardInit == snapshot = Unread

Snapshot ==
    [window  |-> ReadWindow(Now - WindowTicks, Now),
     focus   |-> IF block = NoBlock THEN NoBlock ELSE FocusFragmentation,
     days    |-> [i \in DOMAIN Days |-> AggregateDay(LocalDay(Days[i]))],
     history |-> [i \in DOMAIN Days |-> LocalDailySummary(LocalDay(Days[i]))]]

LocalDashboardResponse ==
    /\ snapshot = Unread
    /\ snapshot' = IF ValidDashboard(Snapshot) THEN Snapshot ELSE Unavailable
    /\ UNCHANGED <<buffer, block>>

-----------------------------------------------------------------------------
(* What a person sees adds up.  Every snapshot the dashboard builds is one   *)
(* the outbound validator lets through, or the whole dashboard would come    *)
(* back as an error; the named slices of a day and Other are together the    *)
(* day's active time, and their percentages are together one hundred; the    *)
(* summary built on this Mac says the same active time as the chart or no    *)
(* data, and claims no more focus and no longer run than that.               *)
Added(s) == FoldLeft(LAMBDA n, x : n + x, 0, s)

DayAddsUp ==
    snapshot # Unread =>
        /\ snapshot # Unavailable
        /\ \A d \in DOMAIN Days :
              LET day == snapshot.days[d]
                  summary == snapshot.history[d]
              IN  /\ Added([i \in DOMAIN day.buckets |-> day.buckets[i].ticks]) = day.active
                  /\ day.active > 0 => Added(day.percentages) = 100
                  /\ summary.active \in {0, day.active}
                  /\ summary.focused <= summary.active
                  /\ summary.longest <= summary.active

(* The chart claims no time that was not seen: at every tick a segment of    *)
(* a day covers, the event on screen, read from the whole of the retained    *)
(* events, is of the segment's category, although the read of a busy day     *)
(* stops at a cap and its last event then has no successor                   *)
(* (fold_local_days, measured_span).                                         *)
OnScreen(t) ==
    LET seen == {i \in DOMAIN buffer : buffer[i].at <= t}
        last == Max(seen)
    IN  IF seen = {} THEN "nothing"
        ELSE IF buffer[last].ticks > 0 /\ t >= buffer[last].at + buffer[last].ticks THEN "nothing"
        ELSE SafeCategory(buffer[last])

ChartClaimsWhatWasSeen ==
    snapshot \notin {Unread, Unavailable} =>
        \A d \in DOMAIN Days : \A s \in Range(snapshot.days[d].segments) :
            \A t \in s.from..(s.to - 1) : OnScreen(t) = s.category

(* A cluster is a stretch of quick switching and nothing else: a switch of   *)
(* the block is in a cluster exactly when some window of the rule's length   *)
(* that holds it holds enough switches, and it is in one cluster at most     *)
(* (group_switching_clusters).                                               *)
ClustersAreRight ==
    snapshot \notin {Unread, Unavailable} /\ block # NoBlock =>
        LET ts == snapshot.focus.window.transitions
            cs == snapshot.focus.window.clusters
            Quick(i) == \E j, k \in DOMAIN ts : /\ j <= i /\ i <= k
                                                /\ ts[k].at - ts[j].at <= ClusterTicks
                                                /\ k + 1 - j >= ClusterMin
            In(i, c) == cs[c].from <= ts[i].at /\ ts[i].at <= cs[c].to
        IN  \A i \in DOMAIN ts :
                Cardinality({c \in DOMAIN cs : In(i, c)}) = (IF Quick(i) THEN 1 ELSE 0)

(* What the dashboard shows of the buffer is true of the buffer.             *)
DashboardIsTrue == DayAddsUp /\ ChartClaimsWhatWasSeen /\ ClustersAreRight
=============================================================================
