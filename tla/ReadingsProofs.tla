--------------------------- MODULE ReadingsProofs ---------------------------
(* Proofs about what is read out of the activity: of Sketches, for any      *)
(* pages, keys and number of kept sketches and the one connection that the  *)
(* client holds at a time; of Drift, for any categories, plan, horizon,     *)
(* gates and backoff, and with any number of dwells and boundaries; of      *)
(* Classifier, for any windows and any scores of their sketches; of         *)
(* Antecedents, for any history, registry, p-values and shifts.             *)
EXTENDS Sketches, Drift, Classifier, Antecedents, FiniteSetTheorems, SequenceTheorems, WellFoundedInduction, TLAPS

----------------------------------------------------------------------------
(* Sketches.                                                                *)

\* A full map is cleared, and in any case the key has its new value.
LEMMA InsertFacts ==
  ASSUME NEW D, NEW V, NEW kept \in [D -> V], Nothing \in V, NEW key \in D, NEW value \in V
  PROVE  /\ Insert(kept, key, value) \in [D -> V]
         /\ Insert(kept, key, value)[key] = value
         /\ \A k \in D \ {key} : Insert(kept, key, value)[k] \in {kept[k], Nothing}
<1> DEFINE full == Cardinality({k \in DOMAIN kept : kept[k] # Nothing}) >= KeptSketches
           base == IF full THEN Forgotten(DOMAIN kept) ELSE kept
<1>1. base \in [D -> V] /\ \A k \in D : base[k] \in {kept[k], Nothing}
  <2>1. Forgotten(DOMAIN kept) \in [D -> V] /\ \A k \in D : Forgotten(DOMAIN kept)[k] = Nothing
    BY DEF Forgotten
  <2> HIDE DEF full
  <2> QED BY <2>1
<1>2. Insert(kept, key, value) = [base EXCEPT ![key] = value]
  BY DEF Insert
<1> QED BY <1>1, <1>2

LEMMA InsertOther ==
  ASSUME NEW D, NEW V, NEW kept \in [D -> V], Nothing \in V, NEW key \in D, NEW value \in V,
         NEW k \in D, k # key
  PROVE  Insert(kept, key, value)[k] = kept[k] \/ Insert(kept, key, value)[k] = Nothing
BY InsertFacts

LEMMA InsertOwn ==
  ASSUME NEW D, NEW V, NEW kept \in [D -> V], Nothing \in V, NEW key \in D, NEW value \in V
  PROVE  Insert(kept, key, value)[key] = value
BY InsertFacts

\* Every page has a key, and nothing else than a page is one.
LEMMA PageFacts == /\ \A p \in Pages : KeyOf[p] \in Keys
                   /\ Nothing \notin Pages /\ Nothing \notin Callers
                   /\ "Failed" \notin Pages /\ "TimedOut" \notin Pages
                   /\ Nothing # "Failed" /\ Nothing # "TimedOut"
BY SketchAssumption DEF Keys

Waiting(c) == at[c] \in {"wait", "waitAgain"}

\* The request of c is on its way: in the channel, or in the worker's hands.
Queued(c) == queue # <<>> /\ Head(queue).caller = c
InWorker(c) == worker # Nothing /\ ~overrun /\ worker.caller = c

\* What a handler holds is about the page it has in hand.
OwnAnswers(c) ==
    /\ used[c] \in {Nothing, page[c]}
    /\ at[c] \in {"keep", "record", "mark"} => sketch[c] = page[c]
    /\ reply[c] # Nothing => Waiting(c) /\ reply[c] \in {"Failed", "TimedOut", page[c]}
    /\ Queued(c) => /\ Waiting(c) /\ Head(queue).input = page[c]
                    /\ reply[c] = Nothing /\ ~InWorker(c)
    /\ InWorker(c) => Waiting(c) /\ worker.input = page[c] /\ reply[c] = Nothing

\* A row whose input is noted holds that input's embedding, but for the moment
\* between the write and the note; what is kept in memory is kept by input.
OwnRows ==
    /\ \A p \in Pages : observed[p] \in {Nothing, p}
    /\ \A c \in Callers : at[c] = "read" => recorded[KeyOf[page[c]]] = page[c]
    /\ \A k \in Keys : \/ recorded[k] = Nothing
                       \/ rows[k] \in {Nothing, recorded[k]}
                       \/ \E c \in Callers : at[c] = "mark" /\ k = KeyOf[page[c]]
    /\ \A c \in Callers : at[c] = "mark" => rows[KeyOf[page[c]]] \in {Nothing, page[c]}

OwnSketches == OwnRows /\ \A c \in Callers : OwnAnswers(c)

----------------------------------------------------------------------------
LEMMA InitSketchTypes == SketchInit => SketchTypeOK
<1> SUFFICES ASSUME SketchInit PROVE SketchTypeOK
  OBVIOUS
<1>1. \A D : Forgotten(D) \in [D -> MaybePage]
  BY DEF Forgotten, MaybePage
<1> QED BY <1>1 DEF SketchInit, SketchTypeOK, MaybePage, Forgotten

LEMMA AbandonedFacts ==
  ASSUME NEW r \in SketchRequests, NEW c
  PROVE  /\ Abandoned(r, c) \in SketchRequests
         /\ Abandoned(r, c).input = r.input
         /\ Abandoned(r, c).caller = IF r # Nothing /\ r.caller = c THEN Nothing ELSE r.caller
BY DEF Abandoned, SketchRequests

LEMMA NextSketchTypes == SketchTypeOK /\ [SketchStep]_sketchvars => SketchTypeOK'
<1> SUFFICES ASSUME SketchTypeOK, [SketchStep]_sketchvars PROVE SketchTypeOK'
  OBVIOUS
<1> USE DEF SketchTypeOK
<1>0. Nothing \in MaybePage /\ Pages \subseteq MaybePage
  BY DEF MaybePage
<1>1. CASE UNCHANGED sketchvars
  BY <1>1 DEF sketchvars
<1>2. ASSUME NEW c \in Callers, NEW p \in Pages, Arrive(c, p) PROVE SketchTypeOK'
  BY <1>0, <1>2 DEF Arrive, Go
<1>3. ASSUME NEW c \in Callers, CheckRow(c) PROVE SketchTypeOK'
  BY <1>3 DEF CheckRow, Go
<1>4. ASSUME NEW c \in Callers, ReadRow(c) PROVE SketchTypeOK'
  <2>1. page[c] \in Pages /\ KeyOf[page[c]] \in Keys
    BY <1>4, PageFacts DEF ReadRow, Go
  <2>2. rows[KeyOf[page[c]]] \in MaybePage
    BY <2>1
  <2> QED BY <1>4, <2>1, <2>2 DEF ReadRow, Go
<1>5. ASSUME NEW c \in Callers, Keep(c) PROVE SketchTypeOK'
  <2>1. page[c] \in Pages /\ sketch[c] \in MaybePage
    BY <1>5 DEF Keep, Go
  <2>2. observed' \in [Pages -> MaybePage]
    BY <1>0, <1>5, <2>1, InsertFacts DEF Keep
  <2> QED BY <1>5, <2>1, <2>2 DEF Keep, Go
<1>6. ASSUME NEW c \in Callers, Record(c) PROVE SketchTypeOK'
  BY <1>6 DEF Record, Go
<1>7. ASSUME NEW c \in Callers, Mark(c) PROVE SketchTypeOK'
  <2>1. page[c] \in Pages /\ KeyOf[page[c]] \in Keys
    BY <1>7, PageFacts DEF Mark, Go
  <2>2. recorded' \in [Keys -> MaybePage]
    BY <1>0, <1>7, <2>1, InsertFacts DEF Mark
  <2> QED BY <1>7, <2>1, <2>2 DEF Mark, Go
<1>8. ASSUME NEW c \in Callers, Answered(c) PROVE SketchTypeOK'
  BY <1>8 DEF Answered, Go
<1>9. ASSUME NEW c \in Callers, UseSketch(c) PROVE SketchTypeOK'
  <2>1. page[c] \in Pages /\ observed[page[c]] \in MaybePage
    BY <1>9 DEF UseSketch, Go
  <2> QED BY <1>0, <1>9, <2>1 DEF UseSketch, Go
<1>10. ASSUME NEW c \in Callers, Ask(c) PROVE SketchTypeOK'
  <2>1. page[c] \in Pages
    BY <1>10 DEF Ask, Go
  <2>2. queue' \in {<<>>} \cup {<<r>> : r \in SketchRequests}
    BY <1>10, <2>1 DEF Ask, SketchRequests
  <2> QED BY <1>10, <2>1, <2>2 DEF Ask, Go
<1>11. ASSUME NEW c \in Callers, Receive(c) PROVE SketchTypeOK'
  BY <1>0, <1>11 DEF Receive, Go
<1>12. ASSUME NEW c \in Callers, GiveUp(c) PROVE SketchTypeOK'
  <2>1. worker' \in SketchRequests \cup {Nothing}
    <3>1. CASE worker = Nothing
      BY <1>12, <3>1 DEF GiveUp, Abandoned
    <3>2. CASE worker \in SketchRequests
      BY <1>12, <3>2, AbandonedFacts DEF GiveUp
    <3> QED BY <3>1, <3>2
  <2>2. queue' \in {<<>>} \cup {<<r>> : r \in SketchRequests}
    <3>1. queue' = [i \in DOMAIN queue |-> Abandoned(queue[i], c)]
      BY <1>12 DEF GiveUp
    <3>2. CASE queue = <<>>
      BY <3>1, <3>2
    <3>3. CASE queue # <<>>
      <4>1. PICK r \in SketchRequests : queue = <<r>>
        BY <3>3
      <4>2. queue' = <<Abandoned(r, c)>>
        BY <3>1, <4>1
      <4> QED BY <4>1, <4>2, AbandonedFacts
    <3> QED BY <3>2, <3>3
  <2> QED BY <1>12, <2>1, <2>2 DEF GiveUp, Go
<1>13. CASE Take
  <2>1. PICK r \in SketchRequests : queue = <<r>>
    BY <1>13 DEF Take
  <2>2. worker' = r /\ queue' = <<>>
    BY <1>13, <2>1 DEF Take
  <2> QED BY <1>13, <2>2 DEF Take
<1>14. CASE Infer
  BY <1>0, <1>14 DEF Infer, Answer, SketchRequests
<1>15. CASE Overrun
  BY <1>15 DEF Overrun, Answer, SketchRequests
<1>16. CASE ModelReturns
  BY <1>16 DEF ModelReturns
<1>17. ASSUME NEW k \in Keys, Evict(k) PROVE SketchTypeOK'
  BY <1>0, <1>17 DEF Evict
<1>18. CASE Restart
  BY <1>0, <1>18 DEF Restart, Forgotten
<1> QED BY <1>1, <1>2, <1>3, <1>4, <1>5, <1>6, <1>7, <1>8, <1>9, <1>10, <1>11, <1>12, <1>13,
           <1>14, <1>15, <1>16, <1>17, <1>18 DEF SketchStep, CallerStep

(* Every reachable state has the types of its variables: the channel holds *)
(* one request at most, and what is kept is a page or nothing.             *)
THEOREM SketchTypes == SketchSpec => []SketchTypeOK
<1> QED BY InitSketchTypes, NextSketchTypes, PTL DEF SketchSpec

----------------------------------------------------------------------------
(* With one connection, a handler's steps keep every sketch with its page. *)

LEMMA CheckRowOwnSketches ==
  ASSUME SketchTypeOK, OwnSketches, NEW c \in Callers, CheckRow(c),
         \A d \in Callers : d = c
  PROVE  OwnSketches'
<1> USE DEF SketchTypeOK
<1>1. /\ page[c] \in MaybePage /\ (at[c] # "idle" => page[c] \in Pages)
      /\ \A q \in Pages : KeyOf[q] \in Keys
  BY PageFacts
<1>2. OwnAnswers(c) /\ OwnRows
  BY DEF OwnSketches
<1>3. OwnAnswers(c)'
  BY <1>1, <1>2, PageFacts DEF CheckRow, Go, OwnAnswers, OwnRows, Waiting, Queued, InWorker, MaybePage, RowHoldsThisInput
<1>4. OwnRows'
  BY <1>1, <1>2, PageFacts DEF CheckRow, Go, OwnRows, OwnAnswers, MaybePage, RowHoldsThisInput
<1> QED BY <1>3, <1>4 DEF OwnSketches

LEMMA ReadRowOwnSketches ==
  ASSUME SketchTypeOK, OwnSketches, NEW c \in Callers, ReadRow(c),
         \A d \in Callers : d = c
  PROVE  OwnSketches'
<1> USE DEF SketchTypeOK
<1>1. /\ page[c] \in MaybePage /\ (at[c] # "idle" => page[c] \in Pages)
      /\ \A q \in Pages : KeyOf[q] \in Keys
  BY PageFacts
<1>2. OwnAnswers(c) /\ OwnRows
  BY DEF OwnSketches
<1>3. OwnAnswers(c)'
  BY <1>1, <1>2, PageFacts DEF ReadRow, Go, OwnAnswers, OwnRows, Waiting, Queued, InWorker, MaybePage
<1>4. OwnRows'
  BY <1>1, <1>2, PageFacts DEF ReadRow, Go, OwnRows, OwnAnswers, MaybePage
<1> QED BY <1>3, <1>4 DEF OwnSketches

LEMMA KeepOwnSketches ==
  ASSUME SketchTypeOK, OwnSketches, NEW c \in Callers, Keep(c),
         \A d \in Callers : d = c
  PROVE  OwnSketches'
<1> USE DEF SketchTypeOK
<1>1. /\ page[c] \in MaybePage /\ (at[c] # "idle" => page[c] \in Pages)
      /\ \A q \in Pages : KeyOf[q] \in Keys
  BY PageFacts
<1>2. OwnAnswers(c) /\ OwnRows
  BY DEF OwnSketches
<1>3. OwnAnswers(c)'
  BY <1>1, <1>2, PageFacts, InsertFacts DEF Keep, Go, OwnAnswers, OwnRows, Waiting, Queued, InWorker, MaybePage
<1>4. OwnRows'
  <2>1. at[c] = "keep" /\ sketch[c] = page[c] /\ page[c] \in Pages
    BY <1>1, <1>2 DEF Keep, Go, OwnAnswers
  <2>2. /\ observed'[page[c]] = page[c]
        /\ \A q \in Pages \ {page[c]} : observed'[q] \in {observed[q], Nothing}
    <3>1. observed' = Insert(observed, page[c], page[c])
      BY <2>1 DEF Keep
    <3>2. observed \in [Pages -> MaybePage] /\ Nothing \in MaybePage /\ page[c] \in MaybePage
      BY DEF MaybePage
    <3> DEFINE x == page[c]
    <3> HIDE DEF x
    <3>3. /\ Insert(observed, x, x)[x] = x
          /\ \A q \in Pages \ {x} : Insert(observed, x, x)[q] \in {observed[q], Nothing}
      <4>1. x \in Pages /\ x \in MaybePage /\ observed \in [Pages -> MaybePage]
            /\ Nothing \in MaybePage
        BY <2>1, <3>2 DEF x
      <4>2. Insert(observed, x, x)[x] = x
        BY ONLY <4>1, InsertOwn
      <4>3. ASSUME NEW q \in Pages, q # x
            PROVE  Insert(observed, x, x)[q] = observed[q] \/ Insert(observed, x, x)[q] = Nothing
        BY ONLY <4>1, <4>3, InsertOther
      <4> QED BY ONLY <4>2, <4>3
    <3> QED BY <3>1, <3>3 DEF x
  <2>3. \A q \in Pages : observed'[q] \in {Nothing, q}
    BY <1>2, <2>2 DEF OwnRows
  <2>4. UNCHANGED <<page, recorded, rows>> /\ at' = [at EXCEPT ![c] = "record"]
    BY DEF Keep, Go
  <2> QED BY <1>2, <2>1, <2>3, <2>4 DEF OwnRows
<1> QED BY <1>3, <1>4 DEF OwnSketches

LEMMA RecordOwnSketches ==
  ASSUME SketchTypeOK, OwnSketches, NEW c \in Callers, Record(c),
         \A d \in Callers : d = c
  PROVE  OwnSketches'
<1> USE DEF SketchTypeOK
<1>1. /\ page[c] \in MaybePage /\ (at[c] # "idle" => page[c] \in Pages)
      /\ \A q \in Pages : KeyOf[q] \in Keys
  BY PageFacts
<1>2. OwnAnswers(c) /\ OwnRows
  BY DEF OwnSketches
<1>3. OwnAnswers(c)'
  BY <1>1, <1>2, PageFacts DEF Record, Go, OwnAnswers, OwnRows, Waiting, Queued, InWorker, MaybePage
<1>4. OwnRows'
  BY <1>1, <1>2, PageFacts DEF Record, Go, OwnRows, OwnAnswers, MaybePage
<1> QED BY <1>3, <1>4 DEF OwnSketches

LEMMA MarkOwnSketches ==
  ASSUME SketchTypeOK, OwnSketches, NEW c \in Callers, Mark(c),
         \A d \in Callers : d = c
  PROVE  OwnSketches'
<1> USE DEF SketchTypeOK
<1>1. /\ page[c] \in MaybePage /\ (at[c] # "idle" => page[c] \in Pages)
      /\ \A q \in Pages : KeyOf[q] \in Keys
  BY PageFacts
<1>2. OwnAnswers(c) /\ OwnRows
  BY DEF OwnSketches
<1>3. OwnAnswers(c)'
  BY <1>1, <1>2, PageFacts, InsertFacts DEF Mark, Go, OwnAnswers, OwnRows, Waiting, Queued, InWorker, MaybePage
<1>4. OwnRows'
  <2> DEFINE key == KeyOf[page[c]]
  <2>1. at[c] = "mark" /\ page[c] \in Pages /\ key \in Keys
    BY <1>1 DEF Mark, Go
  <2>2. /\ recorded'[key] = page[c]
        /\ \A k \in Keys \ {key} : recorded'[k] \in {recorded[k], Nothing}
    <3>1. recorded' = Insert(recorded, key, page[c])
      BY <2>1 DEF Mark
    <3>2. recorded \in [Keys -> MaybePage] /\ Nothing \in MaybePage /\ page[c] \in MaybePage
      BY DEF MaybePage
    <3> DEFINE x == page[c]
    <3> HIDE DEF key, x
    <3>3. /\ Insert(recorded, key, x)[key] = x
          /\ \A k \in Keys \ {key} : Insert(recorded, key, x)[k] \in {recorded[k], Nothing}
      <4>1. key \in Keys /\ x \in MaybePage /\ recorded \in [Keys -> MaybePage]
            /\ Nothing \in MaybePage
        BY <2>1, <3>2 DEF x
      <4>2. Insert(recorded, key, x)[key] = x
        BY ONLY <4>1, InsertOwn
      <4>3. ASSUME NEW k \in Keys, k # key
            PROVE  Insert(recorded, key, x)[k] = recorded[k]
                   \/ Insert(recorded, key, x)[k] = Nothing
        BY ONLY <4>1, <4>3, InsertOther
      <4> QED BY ONLY <4>2, <4>3
    <3> QED BY <3>1, <3>3 DEF x
  <2>3. UNCHANGED <<page, observed, rows>> /\ at' = [at EXCEPT ![c] = "classify"]
    BY DEF Mark, Go
  <2>4. rows[key] \in {Nothing, page[c]}
    BY <1>2, <2>1 DEF OwnRows
  <2>5. \A k \in Keys : recorded'[k] = Nothing \/ rows'[k] \in {Nothing, recorded'[k]}
    BY <1>2, <2>1, <2>2, <2>3, <2>4 DEF OwnRows
  <2> QED BY <1>2, <2>1, <2>3, <2>5 DEF OwnRows
<1> QED BY <1>3, <1>4 DEF OwnSketches

LEMMA AnsweredOwnSketches ==
  ASSUME SketchTypeOK, OwnSketches, NEW c \in Callers, Answered(c),
         \A d \in Callers : d = c
  PROVE  OwnSketches'
<1> USE DEF SketchTypeOK
<1>1. /\ page[c] \in MaybePage /\ (at[c] # "idle" => page[c] \in Pages)
      /\ \A q \in Pages : KeyOf[q] \in Keys
  BY PageFacts
<1>2. OwnAnswers(c) /\ OwnRows
  BY DEF OwnSketches
<1>3. OwnAnswers(c)'
  BY <1>1, <1>2, PageFacts DEF Answered, Go, OwnAnswers, OwnRows, Waiting, Queued, InWorker, MaybePage
<1>4. OwnRows'
  BY <1>1, <1>2, PageFacts DEF Answered, Go, OwnRows, OwnAnswers, MaybePage
<1> QED BY <1>3, <1>4 DEF OwnSketches

LEMMA UseSketchOwnSketches ==
  ASSUME SketchTypeOK, OwnSketches, NEW c \in Callers, UseSketch(c),
         \A d \in Callers : d = c
  PROVE  OwnSketches'
<1> USE DEF SketchTypeOK
<1>1. /\ page[c] \in MaybePage /\ (at[c] # "idle" => page[c] \in Pages)
      /\ \A q \in Pages : KeyOf[q] \in Keys
  BY PageFacts
<1>2. OwnAnswers(c) /\ OwnRows
  BY DEF OwnSketches
<1>3. OwnAnswers(c)'
  BY <1>1, <1>2, PageFacts DEF UseSketch, Go, OwnAnswers, OwnRows, Waiting, Queued, InWorker, MaybePage
<1>4. OwnRows'
  BY <1>1, <1>2, PageFacts DEF UseSketch, Go, OwnRows, OwnAnswers, MaybePage
<1> QED BY <1>3, <1>4 DEF OwnSketches

LEMMA AskOwnSketches ==
  ASSUME SketchTypeOK, OwnSketches, NEW c \in Callers, Ask(c),
         \A d \in Callers : d = c
  PROVE  OwnSketches'
<1> USE DEF SketchTypeOK
<1>1. /\ page[c] \in MaybePage /\ (at[c] # "idle" => page[c] \in Pages)
      /\ \A q \in Pages : KeyOf[q] \in Keys
  BY PageFacts
<1>2. OwnAnswers(c) /\ OwnRows
  BY DEF OwnSketches
<1>3. OwnAnswers(c)'
  BY <1>1, <1>2, PageFacts DEF Ask, Go, OwnAnswers, OwnRows, Waiting, Queued, InWorker, MaybePage
<1>4. OwnRows'
  BY <1>1, <1>2, PageFacts DEF Ask, Go, OwnRows, OwnAnswers, MaybePage
<1> QED BY <1>3, <1>4 DEF OwnSketches

LEMMA ReceiveOwnSketches ==
  ASSUME SketchTypeOK, OwnSketches, NEW c \in Callers, Receive(c),
         \A d \in Callers : d = c
  PROVE  OwnSketches'
<1> USE DEF SketchTypeOK
<1>1. /\ page[c] \in MaybePage /\ (at[c] # "idle" => page[c] \in Pages)
      /\ \A q \in Pages : KeyOf[q] \in Keys
  BY PageFacts
<1>2. OwnAnswers(c) /\ OwnRows
  BY DEF OwnSketches
<1>3. OwnAnswers(c)'
  BY <1>1, <1>2, PageFacts DEF Receive, Go, OwnAnswers, OwnRows, Waiting, Queued, InWorker, MaybePage
<1>4. OwnRows'
  BY <1>1, <1>2, PageFacts DEF Receive, Go, OwnRows, OwnAnswers, MaybePage
<1> QED BY <1>3, <1>4 DEF OwnSketches

LEMMA GiveUpOwnSketches ==
  ASSUME SketchTypeOK, OwnSketches, NEW c \in Callers, GiveUp(c),
         \A d \in Callers : d = c
  PROVE  OwnSketches'
<1> USE DEF SketchTypeOK
<1>1. /\ page[c] \in MaybePage /\ (at[c] # "idle" => page[c] \in Pages)
      /\ \A q \in Pages : KeyOf[q] \in Keys
  BY PageFacts
<1>2. OwnAnswers(c) /\ OwnRows
  BY DEF OwnSketches
<1>3. OwnAnswers(c)'
  <2>1. reply[c] = Nothing /\ reply' = reply /\ used' = used /\ page' = page
        /\ at'[c] \in {"classify", "idle"} /\ overrun' = overrun
    BY DEF GiveUp, Go
  <2>2. ~InWorker(c)'
    <3>1. worker' = Abandoned(worker, c)
      BY DEF GiveUp
    <3> QED BY <3>1, PageFacts DEF Abandoned, InWorker, SketchRequests
  <2>3. ~Queued(c)'
    <3>1. queue' = [i \in DOMAIN queue |-> Abandoned(queue[i], c)]
      BY DEF GiveUp
    <3>2. CASE queue = <<>>
      BY <3>1, <3>2 DEF Queued
    <3>3. CASE queue # <<>>
      <4>1. PICK r \in SketchRequests : queue = <<r>>
        BY <3>3
      <4>2. queue' = <<Abandoned(r, c)>>
        BY <3>1, <4>1
      <4>3. Abandoned(r, c).caller # c
        BY PageFacts, SketchAssumption DEF Abandoned, SketchRequests
      <4> QED BY <4>2, <4>3 DEF Queued
    <3> QED BY <3>2, <3>3
  <2> QED BY <1>2, <2>1, <2>2, <2>3 DEF OwnAnswers
<1>4. OwnRows'
  BY <1>1, <1>2, PageFacts, AbandonedFacts DEF GiveUp, Go, OwnRows, OwnAnswers, MaybePage, Abandoned
<1> QED BY <1>3, <1>4 DEF OwnSketches

LEMMA ArriveOwnSketches ==
  ASSUME SketchTypeOK, OwnSketches, NEW c \in Callers, NEW p \in Pages, Arrive(c, p),
         \A d \in Callers : d = c
  PROVE  OwnSketches'
<1> USE DEF SketchTypeOK
<1>1. /\ page[c] \in MaybePage /\ (at[c] # "idle" => page[c] \in Pages)
      /\ \A q \in Pages : KeyOf[q] \in Keys
  BY PageFacts
<1>2. OwnAnswers(c) /\ OwnRows
  BY DEF OwnSketches
<1>3. OwnAnswers(c)'
  BY <1>1, <1>2, PageFacts DEF Arrive, Go, OwnAnswers, OwnRows, Waiting, Queued, InWorker, MaybePage
<1>4. OwnRows'
  BY <1>1, <1>2, PageFacts DEF Arrive, Go, OwnRows, OwnAnswers, MaybePage
<1> QED BY <1>3, <1>4 DEF OwnSketches

LEMMA TakeOwnSketches ==
  ASSUME SketchTypeOK, OwnSketches, Take
  PROVE  OwnSketches'
<1> USE DEF SketchTypeOK
<1>1. PICK r \in SketchRequests : queue = <<r>>
  BY DEF Take
<1>2. /\ Head(queue) = r /\ worker' = r /\ queue' = <<>> /\ worker = Nothing
      /\ UNCHANGED <<at, page, sketch, reply, used, overrun, observed, recorded, rows>>
  BY <1>1 DEF Take
<1>3. ASSUME NEW c \in Callers PROVE OwnAnswers(c)'
  <2>1. OwnAnswers(c)
    BY DEF OwnSketches
  <2> QED BY <1>1, <1>2, <2>1 DEF OwnAnswers, Waiting, Queued, InWorker
<1>4. OwnRows'
  BY <1>2 DEF OwnSketches, OwnRows
<1> QED BY <1>3, <1>4 DEF OwnSketches

LEMMA InferOwnSketches ==
  ASSUME SketchTypeOK, OwnSketches, Infer
  PROVE  OwnSketches'
<1> USE DEF SketchTypeOK
<1>1. ASSUME NEW c \in Callers PROVE OwnAnswers(c)'
  <2>1. OwnAnswers(c)
    BY DEF OwnSketches
  <2> QED BY <2>1, PageFacts DEF Infer, OwnAnswers, Waiting, Queued, InWorker, Answer, SketchRequests
<1>2. OwnRows'
  BY DEF OwnSketches, OwnRows, Infer
<1> QED BY <1>1, <1>2 DEF OwnSketches

LEMMA OverrunOwnSketches ==
  ASSUME SketchTypeOK, OwnSketches, Overrun
  PROVE  OwnSketches'
<1> USE DEF SketchTypeOK
<1>1. ASSUME NEW c \in Callers PROVE OwnAnswers(c)'
  <2>1. OwnAnswers(c)
    BY DEF OwnSketches
  <2> QED BY <2>1, PageFacts DEF Overrun, OwnAnswers, Waiting, Queued, InWorker, Answer, SketchRequests
<1>2. OwnRows'
  BY DEF OwnSketches, OwnRows, Overrun
<1> QED BY <1>1, <1>2 DEF OwnSketches

LEMMA ModelReturnsOwnSketches ==
  ASSUME SketchTypeOK, OwnSketches, ModelReturns
  PROVE  OwnSketches'
<1> USE DEF SketchTypeOK
<1>1. ASSUME NEW c \in Callers PROVE OwnAnswers(c)'
  <2>1. OwnAnswers(c)
    BY DEF OwnSketches
  <2> QED BY <2>1, PageFacts DEF ModelReturns, OwnAnswers, Waiting, Queued, InWorker
<1>2. OwnRows'
  BY DEF OwnSketches, OwnRows, ModelReturns
<1> QED BY <1>1, <1>2 DEF OwnSketches

LEMMA EvictOwnSketches ==
  ASSUME SketchTypeOK, OwnSketches, NEW k \in Keys, Evict(k)
  PROVE  OwnSketches'
<1> USE DEF SketchTypeOK
<1>1. ASSUME NEW c \in Callers PROVE OwnAnswers(c)'
  <2>1. OwnAnswers(c)
    BY DEF OwnSketches
  <2> QED BY <2>1, PageFacts DEF Evict, OwnAnswers, Waiting, Queued, InWorker
<1>2. OwnRows'
  BY DEF OwnSketches, OwnRows, Evict
<1> QED BY <1>1, <1>2 DEF OwnSketches

LEMMA RestartOwnSketches ==
  ASSUME SketchTypeOK, OwnSketches, Restart
  PROVE  OwnSketches'
<1> USE DEF SketchTypeOK
<1>1. /\ \A c \in Callers : /\ at'[c] = "idle" /\ used'[c] = Nothing /\ reply'[c] = Nothing
      /\ queue' = <<>> /\ worker' = Nothing
      /\ \A p \in Pages : observed'[p] = Nothing
      /\ \A k \in Keys : recorded'[k] = Nothing
  BY DEF Restart, Forgotten
<1>2. \A c \in Callers : OwnAnswers(c)'
  BY <1>1 DEF OwnAnswers, Waiting, Queued, InWorker
<1>3. OwnRows'
  BY <1>1 DEF OwnRows
<1> QED BY <1>2, <1>3 DEF OwnSketches

LEMMA NextOwnSketches ==
  ASSUME \A c, d \in Callers : c = d
  PROVE  SketchTypeOK /\ OwnSketches /\ [SketchStep]_sketchvars => OwnSketches'
<1> SUFFICES ASSUME SketchTypeOK, OwnSketches, [SketchStep]_sketchvars PROVE OwnSketches'
  OBVIOUS
<1>1. CASE UNCHANGED sketchvars
  BY <1>1 DEF sketchvars, OwnSketches, OwnRows, OwnAnswers, Waiting, Queued, InWorker
<1>2. ASSUME NEW c \in Callers, CallerStep(c) PROVE OwnSketches'
  <2>1. \A d \in Callers : d = c
    OBVIOUS
  <2> QED BY <1>2, <2>1, CheckRowOwnSketches, ReadRowOwnSketches, KeepOwnSketches,
             RecordOwnSketches, MarkOwnSketches, AnsweredOwnSketches, UseSketchOwnSketches,
             AskOwnSketches, ReceiveOwnSketches, GiveUpOwnSketches DEF CallerStep
<1>3. ASSUME NEW c \in Callers, NEW p \in Pages, Arrive(c, p) PROVE OwnSketches'
  BY <1>3, ArriveOwnSketches
<1>4. ASSUME NEW k \in Keys, Evict(k) PROVE OwnSketches'
  BY <1>4, EvictOwnSketches
<1>5. CASE Take \/ Infer \/ Overrun \/ ModelReturns \/ Restart
  BY <1>5, TakeOwnSketches, InferOwnSketches, OverrunOwnSketches, ModelReturnsOwnSketches,
     RestartOwnSketches
<1> QED BY <1>1, <1>2, <1>3, <1>4, <1>5 DEF SketchStep

\* observe, classify_declared: with the one connection the client holds, the
\* embedding a window is classified with is that window's own, however the
\* inference, the rows that pages share, evictions and restarts interleave.
THEOREM SketchesAreOwn ==
  ASSUME \A c, d \in Callers : c = d
  PROVE  SketchSpec => []SketchIsOfThisPage
<1>1. SketchInit => OwnSketches
  <2> SUFFICES ASSUME SketchInit PROVE OwnSketches
    OBVIOUS
  <2>1. /\ \A c \in Callers : at[c] = "idle" /\ used[c] = Nothing /\ reply[c] = Nothing
        /\ queue = <<>> /\ worker = Nothing
        /\ \A p \in Pages : observed[p] = Nothing
        /\ \A k \in Keys : recorded[k] = Nothing
    BY DEF SketchInit, Forgotten
  <2>2. \A c \in Callers : OwnAnswers(c)
    BY <2>1 DEF OwnAnswers, Waiting, Queued, InWorker
  <2>3. OwnRows
    BY <2>1 DEF OwnRows
  <2> QED BY <2>2, <2>3 DEF OwnSketches
<1>2. SketchTypeOK /\ OwnSketches /\ [SketchStep]_sketchvars => OwnSketches'
  BY NextOwnSketches
<1>3. OwnSketches => SketchIsOfThisPage
  BY DEF OwnSketches, OwnAnswers, SketchIsOfThisPage
<1> QED BY <1>1, <1>2, <1>3, InitSketchTypes, NextSketchTypes, PTL DEF SketchSpec

----------------------------------------------------------------------------
(* Drift: least and greatest numbers.                                       *)

LEMMA LeastExists ==
    ASSUME NEW T, T \subseteq Nat, T # {}
    PROVE  \E m \in T : \A n \in T : m <= n
  <1>1. PICK m \in T : \A n \in T : ~ (<<n, m>> \in OpToRel(<, Nat))
    BY NatLessThanWellFounded, WFMin
  <1>2. ASSUME NEW a \in Nat, NEW b \in Nat, a < b PROVE <<a, b>> \in OpToRel(<, Nat)
    <2>1. <<a, b>> \in Nat \X Nat /\ <<a, b>>[1] = a /\ <<a, b>>[2] = b
      OBVIOUS
    <2> QED
      BY <1>2, <2>1 DEF OpToRel
  <1>3. ASSUME NEW n \in T PROVE m <= n
    <2>1. n \in Nat /\ m \in Nat
      OBVIOUS
    <2>2. ~(n < m)
      BY <1>1, <1>2, <2>1
    <2> QED
      BY <2>1, <2>2
  <1> QED
    BY <1>3

LEMMA GreatestExists ==
    ASSUME NEW S, NEW k \in Nat, S \subseteq 0..k, S # {}
    PROVE  \E m \in S : \A n \in S : n <= m
  <1> DEFINE T == {b \in Nat : \A n \in S : n <= b}
  <1>1. k \in T
    OBVIOUS
  <1>2. PICK b \in T : \A n \in T : b <= n
    BY <1>1, LeastExists
  <1>3. b \in S
    <2>1. CASE b = 0
      <3>1. \A n \in S : n = 0
        BY <1>2, <2>1
      <3> QED
        BY <2>1, <3>1
    <2>2. ASSUME b # 0, b \notin S PROVE FALSE
      <3>1. b - 1 \in T
        BY <2>2
      <3> QED
        BY <1>2, <2>2, <3>1
    <2> QED
      BY <2>1, <2>2
  <1> QED
    BY <1>2, <1>3

LEMMA MaxFacts ==
  ASSUME NEW S, NEW k \in Nat, S \subseteq 0 .. k, S # {}
  PROVE  Max(S) \in S /\ \A n \in S : n <= Max(S)
<1>1. \E m \in S : \A n \in S : m >= n
  BY GreatestExists
<1> QED BY <1>1 DEF Max

Phases == {"Idle", "Active", "Paused", "Completed", "Expired", "Abandoned"}
Observation == [cat : Evidence, at : Nat, end : Nat \cup {Absent}]
Dwell == [cat : Evidence, at : Nat, end : Nat]

LEMMA ClockFacts ==
  ASSUME NEW a \in Nat, NEW b \in Nat
  PROVE  /\ Later(a, b) \in Nat /\ Later(a, b) >= a /\ Later(a, b) >= b
         /\ Earlier(a, b) \in Nat /\ Earlier(a, b) <= a /\ Earlier(a, b) <= b
         /\ Minus(a, b) \in Nat
BY DEF Later, Earlier, Minus

LEMMA LaterOfThese == ASSUME NEW a \in Nat, NEW b \in Nat, b <= a PROVE Later(a, b) = a
BY DEF Later

LEMMA CloseAtFacts ==
  ASSUME NEW entries \in Seq(Observation), NEW now \in Nat
  PROVE  /\ CloseAt(entries, now) \in Seq(Observation)
         /\ Len(CloseAt(entries, now)) = Len(entries)
         /\ \A i \in 1..Len(entries) :
               /\ CloseAt(entries, now)[i].cat = entries[i].cat
               /\ CloseAt(entries, now)[i].at = entries[i].at
               /\ ~IsOpen(CloseAt(entries, now)[i])
               /\ ~IsOpen(entries[i]) => CloseAt(entries, now)[i] = entries[i]
               /\ IsOpen(entries[i]) => CloseAt(entries, now)[i].end = Later(entries[i].at, now)
<1> DEFINE R == CloseAt(entries, now)
           new(i) == IF IsOpen(entries[i]) THEN [entries[i] EXCEPT !.end = Later(entries[i].at, now)]
                     ELSE entries[i]
<1>1. R = [i \in 1..Len(entries) |-> new(i)]
  BY DEF CloseAt
<1>2. ASSUME NEW i \in 1..Len(entries)
      PROVE  /\ new(i) \in Observation /\ new(i).cat = entries[i].cat /\ new(i).at = entries[i].at
             /\ ~IsOpen(new(i)) /\ (~IsOpen(entries[i]) => new(i) = entries[i])
             /\ (IsOpen(entries[i]) => new(i).end = Later(entries[i].at, now))
  <2>1. entries[i] \in Observation
    OBVIOUS
  <2>2. Later(entries[i].at, now) \in Nat
    BY <2>1, ClockFacts DEF Observation
  <2> QED BY <2>1, <2>2, DriftAssumption DEF Observation, IsOpen
<1>3. Len(entries) \in Nat
  OBVIOUS
<1> HIDE DEF new
<1>4. R \in Seq(Observation) /\ Len(R) = Len(entries) /\ \A i \in 1..Len(entries) : R[i] = new(i)
  BY <1>1, <1>2, <1>3
<1> QED BY <1>2, <1>4

\* An open row is closed where one of the dwells of its category ended, and at
\* the boundary at the latest; or where it began.
LEMMA ReportedEndFacts ==
  ASSUME NEW open \in Observation, NEW reported \in SUBSET Dwell, NEW boundary \in Nat
  PROVE  LET end == reported_end(open, reported, boundary) IN
         /\ end \in Nat /\ end >= open.at
         /\ \/ end = open.at
            \/ \E d \in reported : d.cat = open.cat /\ end = Earlier(d.end, boundary)
<1> DEFINE ends == {open.at} \cup {Earlier(d.end, boundary) : d \in {e \in reported : e.cat = open.cat}}
<1>1. open.at \in Nat /\ \A d \in reported : d.end \in Nat
  BY DEF Observation, Dwell
<1>2. ASSUME NEW d \in reported PROVE Earlier(d.end, boundary) \in 0..(open.at + boundary)
  <2>1. Earlier(d.end, boundary) \in Nat /\ Earlier(d.end, boundary) <= boundary
    BY <1>1, ClockFacts
  <2> QED BY <1>1, <2>1
<1>3. ends \subseteq 0..(open.at + boundary) /\ open.at \in ends
  BY <1>1, <1>2
<1>5. reported_end(open, reported, boundary) = Max(ends)
  BY DEF reported_end
<1>8. \A n \in ends : n = open.at \/ \E d \in reported : d.cat = open.cat /\ n = Earlier(d.end, boundary)
  OBVIOUS
<1> HIDE DEF ends
<1>4. Max(ends) \in ends /\ \A n \in ends : n <= Max(ends)
  <2>1. open.at + boundary \in Nat
    BY <1>1
  <2> QED BY <1>3, <2>1, MaxFacts
<1>6. Max(ends) \in Nat /\ open.at <= Max(ends)
  <2>1. \A n \in 0..(open.at + boundary) : n \in Nat
    BY <1>1
  <2>2. Max(ends) \in 0..(open.at + boundary)
    BY <1>3, <1>4
  <2>3. open.at <= Max(ends)
    BY <1>3, <1>4
  <2> QED BY <2>1, <2>2, <2>3
<1>7. Max(ends) = open.at \/ \E d \in reported : d.cat = open.cat /\ Max(ends) = Earlier(d.end, boundary)
  BY <1>4, <1>8
<1> QED BY <1>1, <1>5, <1>6, <1>7

\* Only the last row of the ledger is open.
OneOpen(entries) == \A i \in 1..Len(entries) : IsOpen(entries[i]) => i = Len(entries)

\* What a boundary leaves: every row closed, an open one where a dwell of its
\* category was reported to end.
LEMMA BoundaryFacts ==
  ASSUME NEW entries \in Seq(Observation), raw \subseteq Dwell, NEW boundary \in Nat, OneOpen(entries)
  PROVE  LET after == close_open_observation_at_reported_end(entries, boundary) IN
         /\ after \in Seq(Observation) /\ Len(after) = Len(entries)
         /\ \A i \in 1..Len(entries) :
               /\ after[i].cat = entries[i].cat /\ after[i].at = entries[i].at /\ ~IsOpen(after[i])
               /\ ~IsOpen(entries[i]) => after[i] = entries[i]
               /\ IsOpen(entries[i]) =>
                     \/ after[i].end = entries[i].at
                     \/ \E d \in raw : /\ d.cat = entries[i].cat
                                       /\ after[i].end = Earlier(d.end, boundary)
<1>1. CASE entries = <<>> \/ ~IsOpen(Last(entries))
  <2>1. close_open_observation_at_reported_end(entries, boundary) = entries
    BY <1>1 DEF close_open_observation_at_reported_end
  <2>2. \A i \in 1..Len(entries) : ~IsOpen(entries[i])
    BY <1>1 DEF OneOpen, Last
  <2> QED BY <2>1, <2>2
<1>2. CASE ~(entries = <<>> \/ ~IsOpen(Last(entries)))
  <2> DEFINE open == Last(entries)
             reported == reported_dwells(open.at, boundary)
             end == reported_end(open, reported, boundary)
  <2>1. close_open_observation_at_reported_end(entries, boundary) = CloseAt(entries, end)
    BY <1>2 DEF close_open_observation_at_reported_end
  <2>2. open \in Observation /\ open = entries[Len(entries)] /\ Len(entries) \in 1..Len(entries)
    <3>1. Len(entries) \in 1..Len(entries)
      BY <1>2
    <3> QED BY <3>1 DEF Last
  <2>3. reported \subseteq raw /\ reported \in SUBSET Dwell
    BY DEF reported_dwells
  <2> HIDE DEF open, reported
  <2>4. /\ end \in Nat /\ end >= open.at
        /\ \/ end = open.at
           \/ \E d \in raw : d.cat = open.cat /\ end = Earlier(d.end, boundary)
    BY <2>2, <2>3, ReportedEndFacts
  <2> HIDE DEF end
  <2>5. Later(open.at, end) = end
    BY <2>2, <2>4 DEF Later, Observation
  <2>6. ASSUME NEW i \in 1..Len(entries), IsOpen(entries[i])
        PROVE  CloseAt(entries, end)[i].end = end /\ entries[i] = open
    BY <2>2, <2>4, <2>5, <2>6, CloseAtFacts DEF OneOpen
  <2> DEFINE after == CloseAt(entries, end)
  <2>7. /\ after \in Seq(Observation) /\ Len(after) = Len(entries)
        /\ \A i \in 1..Len(entries) :
              /\ after[i].cat = entries[i].cat /\ after[i].at = entries[i].at /\ ~IsOpen(after[i])
              /\ ~IsOpen(entries[i]) => after[i] = entries[i]
    BY <2>4, CloseAtFacts
  <2>8. ASSUME NEW i \in 1..Len(entries), IsOpen(entries[i])
        PROVE  \/ after[i].end = entries[i].at
               \/ \E d \in raw : d.cat = entries[i].cat /\ after[i].end = Earlier(d.end, boundary)
    BY <2>4, <2>6, <2>8
  <2> HIDE DEF after
  <2>9. close_open_observation_at_reported_end(entries, boundary) = after
    BY <2>1 DEF after
  <2> QED BY <2>7, <2>8, <2>9
<1> QED BY <1>1, <1>2

----------------------------------------------------------------------------
(* Types.                                                                   *)

Block == [id : Nat, phase : Phases, started : Nat, paused : Nat, total : Nat, updated : Nat]

DriftTyped ==
    /\ time \in Nat
    /\ user \in [n : Nat, cat : Evidence, at : Nat, is : {"in", "stored", "left"}]
    /\ past \in Seq(Evidence) /\ Len(past) = time
    /\ ran \subseteq 0..(time - 1)
    /\ blk \in Block
    /\ ledger \in Seq(Observation) /\ OneOpen(ledger)
    /\ raw \subseteq Dwell

LEMMA DeadlineFacts ==
  ASSUME NEW b \in Block
  PROVE  Deadline(b) \in Nat /\ Deadline(b) = b.started + b.total + PlannedTicks
BY DriftAssumption DEF Block, Deadline

\* A block is over when its deadline is no later than the time and its own clock.
LEMMA OverFacts ==
  ASSUME NEW b \in Block, NEW now \in Nat, b.phase = "Active"
  PROVE  IsOver(b, now) <=> Deadline(b) <= Later(now, b.updated)
<1>1. Later(now, b.updated) \in Nat /\ b.started \in Nat /\ b.total \in Nat
  BY ClockFacts DEF Block
<1>2. PlannedTicks \in Nat /\ PlannedTicks > 0
  BY DriftAssumption
<1>3. ElapsedAt(b, now) = Minus(Minus(Later(now, b.updated), b.started), b.total)
  BY DEF ElapsedAt
<1>4. Minus(Minus(Later(now, b.updated), b.started), b.total) >= PlannedTicks
        <=> b.started + b.total + PlannedTicks <= Later(now, b.updated)
  BY <1>1, <1>2 DEF Minus
<1> QED BY <1>3, <1>4, DeadlineFacts DEF IsOver

LEMMA FinishTyped ==
  ASSUME DriftTyped, NEW phase \in Phases, NEW ended \in Nat, Finish(phase, ended)
  PROVE  blk' \in Block /\ ledger' \in Seq(Observation) /\ OneOpen(ledger')
<1>1. blk' \in Block
  BY DEF DriftTyped, Block, Finish
<1>2. ledger' = close_open_observation_at_reported_end(ledger, ended)
  BY DEF Finish
<1> QED BY <1>1, <1>2, BoundaryFacts DEF DriftTyped, OneOpen

LEMMA ObservesTyped ==
  ASSUME DriftTyped, NEW cat \in Evidence, NEW occurred \in Nat,
         Observes(cat, occurred, ObservedAt(occurred))
  PROVE  blk' \in Block /\ ledger' \in Seq(Observation) /\ OneOpen(ledger')
<1> DEFINE now == ObservedAt(occurred)
           closed == CloseAt(ledger, now)
           row == [cat |-> cat, at |-> now, end |-> Absent]
<1>1. now \in Nat
  BY DeadlineFacts, ClockFacts DEF ObservedAt, DriftTyped, Block
<1>2. ledger' = Append(closed, row) /\ blk' = [blk EXCEPT !.updated = Later(blk.updated, now)]
  BY DEF Observes, append_observation
<1> HIDE DEF now
<1>3. blk' \in Block
  BY <1>1, <1>2, ClockFacts DEF DriftTyped, Block
<1>4. row \in Observation
  BY <1>1 DEF Observation
<1>5. /\ closed \in Seq(Observation) /\ Len(closed) = Len(ledger)
      /\ \A i \in 1..Len(ledger) : ~IsOpen(closed[i])
  BY <1>1, CloseAtFacts DEF DriftTyped
<1> HIDE DEF closed, row
<1>6. ledger' \in Seq(Observation)
  BY <1>2, <1>4, <1>5
<1>7. OneOpen(ledger')
  BY <1>2, <1>5 DEF OneOpen
<1> QED BY <1>3, <1>6, <1>7

LEMMA ObserveTyped ==
  ASSUME DriftTyped, NEW cat \in Evidence, NEW occurred \in Nat, Observe(cat, occurred)
  PROVE  blk' \in Block /\ ledger' \in Seq(Observation) /\ OneOpen(ledger')
<1>1. CASE UNCHANGED <<blk, ledger>>
  BY <1>1 DEF DriftTyped
<1>2. CASE Finish("Completed", Deadline(blk))
  BY <1>2, FinishTyped, DeadlineFacts DEF DriftTyped, Phases
<1>3. CASE Observes(cat, occurred, ObservedAt(occurred))
  BY <1>3, ObservesTyped
<1> QED BY <1>1, <1>2, <1>3 DEF Observe

LEMMA BegunBlock ==
  ASSUME StartBlock
  PROVE  blk' = [id |-> blk.id + 1, phase |-> "Active", started |-> time, paused |-> 0,
                 total |-> 0, updated |-> time]
BY DEF StartBlock, Idle

LEMMA ResumedFacts ==
  ASSUME DriftTyped, ResumeBlock
  PROVE  /\ blk' \in Block /\ blk'.id = blk.id /\ blk'.phase = "Active"
         /\ blk'.started = blk.started /\ blk'.updated = Later(time, blk.updated)
         /\ blk'.total = blk.total + Minus(Later(time, blk.updated), blk.paused)
<1> DEFINE now == Later(time, blk.updated)
           total == blk.total + Minus(now, blk.paused)
<1>1. blk' = [blk EXCEPT !.phase = "Active", !.paused = 0, !.updated = now, !.total = total]
  BY DEF ResumeBlock, DriftTyped, Block
<1>2. now \in Nat /\ total \in Nat
  <2>1. blk.total \in Nat /\ blk.paused \in Nat /\ now \in Nat
    BY ClockFacts DEF DriftTyped, Block
  <2> HIDE DEF now
  <2>2. Minus(now, blk.paused) \in Nat
    BY <2>1, ClockFacts
  <2> QED BY <2>1, <2>2
<1> HIDE DEF total, now
<1>3. /\ blk' \in Block /\ blk'.id = blk.id /\ blk'.phase = "Active"
      /\ blk'.started = blk.started /\ blk'.updated = now /\ blk'.total = total
  BY <1>1, <1>2 DEF DriftTyped, Block, Phases
<1> QED BY <1>3 DEF now, total

LEMMA InitDriftTypes == DriftInit => DriftTyped
BY DEF DriftInit, DriftTyped, Idle, Block, Phases, OneOpen, Evidence

LEMMA NextDriftTypes == DriftTyped /\ [DriftNext]_driftVars => DriftTyped'
<1> SUFFICES ASSUME DriftTyped, [DriftNext]_driftVars PROVE DriftTyped'
  OBVIOUS
<1> USE DEF DriftTyped
<1> DEFINE Kept == UNCHANGED <<time, user, past, ran, raw>>
           Block2 == blk' \in Block /\ ledger' \in Seq(Observation) /\ OneOpen(ledger')
<1>1. CASE UNCHANGED driftVars
  BY <1>1 DEF driftVars
<1>2. ASSUME Kept, Block2 PROVE DriftTyped'
  BY <1>2
<1>3. CASE StartBlock
  <2>1. ran' = {} /\ ledger' = <<>> /\ UNCHANGED <<time, user, past, raw>>
    BY <1>3 DEF StartBlock
  <2>2. blk' = [id |-> blk.id + 1, phase |-> "Active", started |-> time, paused |-> 0,
                total |-> 0, updated |-> time]
    BY <1>3, BegunBlock
  <2>3. blk' \in Block
    BY <2>2 DEF Block, Phases
  <2> QED BY <2>1, <2>3 DEF OneOpen
<1>4. CASE PauseBlock
  <2> DEFINE now == Earlier(Later(time, blk.updated), Deadline(blk))
  <2>1. now \in Nat /\ Deadline(blk) \in Nat
    BY DeadlineFacts, ClockFacts DEF Block
  <2>2. CASE Finish("Completed", Deadline(blk))
    BY <1>2, <1>4, <2>1, <2>2, FinishTyped DEF PauseBlock, Phases
  <2>3. CASE ~IsOver(blk, time)
    <3>1. /\ ledger' = close_open_observation_at_reported_end(ledger, now)
          /\ blk' = [blk EXCEPT !.phase = "Paused", !.paused = now, !.updated = now] /\ Kept
      BY <1>4, <2>3 DEF PauseBlock
    <3> HIDE DEF now
    <3>2. blk' \in Block
      BY <2>1, <3>1 DEF Block, Phases
    <3>3. ledger' \in Seq(Observation) /\ OneOpen(ledger')
      BY <2>1, <3>1, BoundaryFacts DEF OneOpen
    <3> QED BY <1>2, <3>1, <3>2, <3>3
  <2> QED BY <1>4, <2>2, <2>3 DEF PauseBlock
<1>5. CASE ResumeBlock
  <2>1. blk' \in Block
    BY <1>5, ResumedFacts
  <2> QED BY <1>2, <1>5, <2>1 DEF ResumeBlock
<1>6. CASE EndBlock
  <2>1. Later(time, blk.updated) \in Nat /\ Deadline(blk) \in Nat /\ blk.paused \in Nat
    BY ClockFacts, DeadlineFacts DEF Block
  <2>2. PICK phase \in Phases, ended \in Nat : Finish(phase, ended)
    BY <1>6, <2>1 DEF EndBlock, Phases
  <2> QED BY <1>2, <1>6, <2>2, FinishTyped DEF EndBlock
<1>7. CASE RestartService
  <2>1. CASE Finish("Expired", Deadline(blk))
    <3>1. Deadline(blk) \in Nat
      BY DeadlineFacts
    <3> QED BY <1>2, <1>7, <2>1, <3>1, FinishTyped DEF RestartService, Phases
  <2>2. CASE ~IsOver(blk, time)
    <3>1. /\ ledger' = close_open_observation_at_reported_end(ledger, time)
          /\ blk' = [blk EXCEPT !.updated = time] /\ Kept
      BY <1>7, <2>2 DEF RestartService
    <3>2. blk' \in Block
      BY <3>1 DEF Block
    <3>3. ledger' \in Seq(Observation) /\ OneOpen(ledger')
      BY <3>1, BoundaryFacts DEF OneOpen
    <3> QED BY <1>2, <3>1, <3>2, <3>3
  <2> QED BY <1>7, <2>1, <2>2 DEF RestartService
<1>8. ASSUME NEW answer \in Replies, ReportInterventionOutcome(answer) PROVE DriftTyped'
  BY <1>2, <1>8 DEF ReportInterventionOutcome
<1>9. CASE CardSeen \/ ResetDemotion \/ ResolveOutcomes
  BY <1>2, <1>9 DEF CardSeen, ResetDemotion, ResolveOutcomes
<1>10. CASE StoreDwell
  <2>1. [cat |-> user.cat, at |-> user.at, end |-> time] \in Dwell
    BY DEF Dwell
  <2> QED BY <1>10, <2>1 DEF StoreDwell
<1>11. CASE LeaveDwell
  <2>1. Block2
    BY <1>11, ObserveTyped DEF LeaveDwell
  <2> QED BY <1>11, <2>1 DEF LeaveDwell
<1>12. ASSUME NEW cat \in Evidence, BeginDwell(cat) PROVE DriftTyped'
  <2>1. Block2
    BY <1>12, ObserveTyped DEF BeginDwell
  <2> QED BY <1>12, <2>1 DEF BeginDwell
<1>13. CASE PassTime
  <2>1. ran' \subseteq 0..(time' - 1)
    BY <1>13 DEF PassTime
  <2>2. past' \in Seq(Evidence) /\ Len(past') = time'
    BY <1>13 DEF PassTime
  <2> QED BY <1>13, <2>1, <2>2 DEF PassTime
<1> QED BY <1>1, <1>3, <1>4, <1>5, <1>6, <1>7, <1>8, <1>9, <1>10, <1>11, <1>12, <1>13 DEF DriftNext

----------------------------------------------------------------------------
(* The clocks of a block.                                                   *)

Live == blk.phase \in {"Active", "Paused"}

BlockClock ==
    /\ user.at <= time
    /\ Live => blk.updated <= time /\ blk.started + blk.total <= blk.updated
    /\ blk.phase = "Active" => blk.updated <= Deadline(blk)
    /\ blk.phase = "Paused" => /\ blk.started + blk.total <= blk.paused
                               /\ blk.paused <= blk.updated /\ blk.paused <= Deadline(blk)

\* The moments a block that is ended at the time now may be given as its end.
Ends(phase, ended) ==
    /\ phase \in Phases \ {"Idle", "Active", "Paused"} /\ ended \in Nat /\ Live /\ ended <= time
    /\ \/ blk.phase = "Active" /\ ended = Deadline(blk)
       \/ blk.phase = "Active" /\ ended = time /\ time < Deadline(blk)
       \/ blk.phase = "Paused" /\ ended = blk.paused

\* A block that still runs is within its plan; one that is over has passed it.
LEMMA OnTime ==
  ASSUME DriftTyped, BlockClock, blk.phase = "Active"
  PROVE  /\ Later(time, blk.updated) = time
         /\ IsOver(blk, time) <=> Deadline(blk) <= time
         /\ ~IsOver(blk, time) => Earlier(Later(time, blk.updated), Deadline(blk)) = time
<1>1. blk \in Block /\ time \in Nat /\ blk.updated \in Nat /\ blk.updated <= time
      /\ Deadline(blk) \in Nat
  BY DeadlineFacts DEF DriftTyped, Block, BlockClock, Live
<1>2. Later(time, blk.updated) = time
  BY <1>1 DEF Later
<1>3. IsOver(blk, time) <=> Deadline(blk) <= time
  BY <1>1, <1>2, OverFacts
<1> QED BY <1>1, <1>2, <1>3 DEF Earlier

LEMMA EndBlockEnds ==
  ASSUME DriftTyped, BlockClock, EndBlock
  PROVE  \E phase, ended : Ends(phase, ended) /\ Finish(phase, ended)
<1>1. Deadline(blk) \in Nat /\ blk.paused \in Nat /\ blk.updated \in Nat /\ time \in Nat
  BY DeadlineFacts DEF DriftTyped, Block
<1>2. CASE IsOver(blk, time)
  <2>1. blk.phase = "Active" /\ Deadline(blk) <= time
    BY <1>2, OnTime DEF IsOver
  <2>2. Ends("Completed", Deadline(blk))
    BY <1>1, <2>1 DEF Ends, Live, Phases
  <2>3. Finish("Completed", Deadline(blk))
    BY <1>2 DEF EndBlock
  <2> QED BY <2>2, <2>3
<1>3. CASE ~IsOver(blk, time) /\ blk.phase = "Paused"
  <2>1. Ends("Abandoned", blk.paused)
    BY <1>1, <1>3 DEF Ends, Live, Phases, BlockClock
  <2>2. Finish("Abandoned", blk.paused)
    BY <1>3 DEF EndBlock
  <2> QED BY <2>1, <2>2
<1>4. CASE ~IsOver(blk, time) /\ blk.phase = "Active"
  <2>1. Later(time, blk.updated) = time /\ time < Deadline(blk)
    BY <1>1, <1>4, OnTime
  <2>2. Ends("Abandoned", time)
    BY <1>1, <1>4, <2>1 DEF Ends, Live, Phases
  <2>3. Finish("Abandoned", time)
    BY <1>4, <2>1 DEF EndBlock
  <2> QED BY <2>2, <2>3
<1> QED BY <1>2, <1>3, <1>4 DEF EndBlock

\* An active block that is over by some moment that has come is over now.
LEMMA OverEnds ==
  ASSUME DriftTyped, BlockClock, NEW now \in Nat, now <= time, IsOver(blk, now),
         NEW phase \in {"Completed", "Expired"}
  PROVE  Ends(phase, Deadline(blk))
<1>1. blk \in Block /\ time \in Nat /\ blk.updated \in Nat /\ Deadline(blk) \in Nat
  BY DeadlineFacts DEF DriftTyped, Block
<1>2. blk.phase = "Active" /\ blk.updated <= time
  BY DEF IsOver, BlockClock, Live
<1>3. Deadline(blk) <= Later(now, blk.updated)
  BY <1>1, <1>2, OverFacts
<1>4. Later(now, blk.updated) <= time /\ Later(now, blk.updated) \in Nat
  BY <1>1, <1>2 DEF Later
<1>5. Deadline(blk) <= time
  BY <1>1, <1>3, <1>4
<1> QED BY <1>1, <1>2, <1>5 DEF Ends, Live, Phases

LEMMA FinishedBlock ==
  ASSUME DriftTyped, NEW phase, NEW ended, Ends(phase, ended), Finish(phase, ended)
  PROVE  /\ blk'.phase = phase /\ ~Live' /\ blk'.id = blk.id
         /\ ledger' = close_open_observation_at_reported_end(ledger, ended)
<1>1. blk' = [blk EXCEPT !.phase = phase, !.updated = ended]
  BY DEF Finish
<1>2. blk'.phase = phase /\ blk'.id = blk.id
  BY <1>1 DEF DriftTyped, Block
<1> QED BY <1>2 DEF Ends, Live, Finish

\* What a report that is recorded leaves: the time of its row is the block's.
LEMMA ObservesFacts ==
  ASSUME DriftTyped, BlockClock, NEW cat, NEW occurred \in Nat, occurred <= time,
         blk.phase = "Active", ~IsOver(blk, occurred), Observes(cat, occurred, ObservedAt(occurred))
  PROVE  LET now == Later(occurred, blk.updated) IN
         /\ ObservedAt(occurred) = now /\ now \in Nat /\ now <= time /\ now < Deadline(blk)
         /\ now >= blk.updated /\ now >= occurred
         /\ blk' = [blk EXCEPT !.updated = now]
         /\ ledger' = Append(CloseAt(ledger, now), [cat |-> cat, at |-> now, end |-> Absent])
<1> DEFINE now == Later(occurred, blk.updated)
<1>1. blk \in Block /\ time \in Nat /\ blk.updated \in Nat /\ Deadline(blk) \in Nat
      /\ blk.updated <= time
  BY DeadlineFacts DEF DriftTyped, Block, BlockClock, Live
<1>2. now \in Nat /\ now >= blk.updated /\ now >= occurred /\ now <= time
  BY <1>1 DEF Later
<1>3. now < Deadline(blk)
  BY <1>1, <1>2, OverFacts
<1>4. ObservedAt(occurred) = now
  BY <1>1, <1>2, <1>3 DEF ObservedAt, Earlier
<1>5. blk' = [blk EXCEPT !.updated = Later(blk.updated, now)]
      /\ ledger' = Append(CloseAt(ledger, now), [cat |-> cat, at |-> now, end |-> Absent])
  BY <1>4 DEF Observes, append_observation
<1> HIDE DEF now
<1>6. Later(blk.updated, now) = now
  BY <1>1, <1>2 DEF Later
<1> QED BY <1>2, <1>3, <1>4, <1>5, <1>6 DEF now

\* What Observe does to the block and to the ledger.
ObserveKinds(cat, occurred) ==
    \/ UNCHANGED <<blk, ledger>> /\ (blk.phase = "Active" => SameRowOpen(cat))
    \/ \E phase, ended : Ends(phase, ended) /\ Finish(phase, ended)
    \/ /\ blk.phase = "Active" /\ ~IsOver(blk, occurred)
       /\ Observes(cat, occurred, ObservedAt(occurred))

LEMMA ObserveIsOne ==
  ASSUME DriftTyped, BlockClock, NEW cat, NEW occurred \in Nat, occurred <= time,
         Observe(cat, occurred)
  PROVE  ObserveKinds(cat, occurred)
<1>1. ASSUME IsOver(blk, occurred), Finish("Completed", Deadline(blk))
      PROVE  \E phase, ended : Ends(phase, ended) /\ Finish(phase, ended)
  BY <1>1, OverEnds
<1> QED BY <1>1 DEF Observe, ObserveKinds

LEMMA NextBlockClock == DriftTyped /\ BlockClock /\ [DriftNext]_driftVars => BlockClock'
<1> SUFFICES ASSUME DriftTyped, BlockClock, [DriftNext]_driftVars PROVE BlockClock'
  OBVIOUS
<1> DEFINE Clocks(b) ==
        /\ b.phase \in {"Active", "Paused"} => b.updated <= time /\ b.started + b.total <= b.updated
        /\ b.phase = "Active" => b.updated <= Deadline(b)
        /\ b.phase = "Paused" => /\ b.started + b.total <= b.paused
                                 /\ b.paused <= b.updated /\ b.paused <= Deadline(b)
<1>0. /\ blk \in Block /\ time \in Nat /\ user.at \in Nat /\ user.at <= time
      /\ blk.updated \in Nat /\ blk.started \in Nat /\ blk.total \in Nat /\ blk.paused \in Nat
      /\ PlannedTicks \in Nat /\ Deadline(blk) = blk.started + blk.total + PlannedTicks
  BY DriftAssumption, DeadlineFacts DEF DriftTyped, Block, BlockClock
<1>t. DriftTyped'
  BY NextDriftTypes
<1>d. Deadline(blk)' = Deadline(blk') /\ blk' \in Block
      /\ Deadline(blk') = blk'.started + blk'.total + PlannedTicks
  BY <1>t, DeadlineFacts DEF Deadline, DriftTyped
<1>1. ASSUME Clocks(blk'), time' = time, user.at' \in {user.at, time} PROVE BlockClock'
  BY <1>0, <1>1, <1>d DEF BlockClock, Live
<1>2. Clocks(blk)
  BY DEF BlockClock, Live
<1> HIDE DEF Clocks
<1>3. ASSUME blk' = blk PROVE Clocks(blk')
  BY <1>2, <1>3
<1>4. ASSUME NEW phase, NEW ended, Ends(phase, ended), Finish(phase, ended) PROVE Clocks(blk')
  BY <1>4, FinishedBlock DEF Clocks, Live
<1>5. ASSUME NEW cat, NEW occurred \in Nat, occurred <= time, Observe(cat, occurred)
      PROVE  Clocks(blk')
  <2>1. CASE blk.phase = "Active" /\ ~IsOver(blk, occurred)
                /\ Observes(cat, occurred, ObservedAt(occurred))
    <3> DEFINE now == Later(occurred, blk.updated)
    <3>1. now \in Nat /\ now <= time /\ now < Deadline(blk) /\ now >= blk.updated
          /\ blk' = [blk EXCEPT !.updated = now]
      BY <1>5, <2>1, ObservesFacts
    <3> HIDE DEF now
    <3>2. blk'.updated = now /\ blk'.phase = "Active" /\ blk'.started = blk.started
          /\ blk'.total = blk.total
      BY <1>0, <2>1, <3>1 DEF Block
    <3>3. blk.started + blk.total <= blk.updated
      BY <1>2, <2>1 DEF Clocks
    <3> QED BY <1>0, <1>d, <2>1, <3>1, <3>2, <3>3 DEF Clocks
  <2> QED BY <1>3, <1>4, <1>5, <2>1, ObserveIsOne DEF ObserveKinds
<1>6. CASE UNCHANGED driftVars
  BY <1>1, <1>3, <1>6 DEF driftVars
<1>7. CASE StartBlock
  <2>1. Clocks(blk')
    BY <1>0, <1>7, <1>d, BegunBlock DEF Clocks
  <2> QED BY <1>1, <1>7, <2>1 DEF StartBlock
<1>8. CASE PauseBlock
  <2>0. blk.phase = "Active" /\ time' = time /\ user' = user
    BY <1>8 DEF PauseBlock
  <2>1. CASE IsOver(blk, time)
    <3>1. Finish("Completed", Deadline(blk))
      BY <1>8, <2>1 DEF PauseBlock
    <3> QED BY <1>0, <1>1, <1>4, <2>0, <2>1, <3>1, OverEnds
  <2>2. CASE ~IsOver(blk, time)
    <3>1. blk' = [blk EXCEPT !.phase = "Paused", !.paused = time, !.updated = time]
      BY <1>8, <2>0, <2>2, OnTime DEF PauseBlock
    <3>2. blk'.phase = "Paused" /\ blk'.updated = time /\ blk'.paused = time
          /\ blk'.started = blk.started /\ blk'.total = blk.total
      BY <1>0, <3>1 DEF Block
    <3>3. blk.started + blk.total <= blk.updated /\ blk.updated <= time
      BY <1>2, <2>0 DEF Clocks
    <3>4. time < Deadline(blk)
      BY <1>0, <2>0, <2>2, OnTime
    <3>5. Clocks(blk')
      BY <1>0, <1>d, <3>2, <3>3, <3>4 DEF Clocks
    <3> QED BY <1>1, <2>0, <3>5
  <2> QED BY <2>1, <2>2
<1>9. CASE ResumeBlock
  <2>1. blk.phase = "Paused" /\ time' = time /\ user' = user
    BY <1>9 DEF ResumeBlock
  <2>2. blk.updated <= time /\ blk.started + blk.total <= blk.paused /\ blk.paused <= blk.updated
        /\ blk.paused <= Deadline(blk)
    BY <1>2, <2>1 DEF Clocks
  <2>3. Later(time, blk.updated) = time /\ Minus(time, blk.paused) = time - blk.paused
    <3>1. blk.paused <= time
      BY <1>0, <2>2
    <3>2. Later(time, blk.updated) = time
      BY <1>0, <2>2, LaterOfThese
    <3>3. Minus(time, blk.paused) = time - blk.paused
      BY <1>0, <3>1 DEF Minus
    <3> QED BY <3>2, <3>3
  <2>4. /\ blk'.phase = "Active" /\ blk'.started = blk.started /\ blk'.updated = time
        /\ blk'.total = blk.total + (time - blk.paused)
    BY <1>9, <2>3, ResumedFacts
  <2>5. Clocks(blk')
    BY <1>0, <1>d, <2>2, <2>4 DEF Clocks
  <2> QED BY <1>1, <2>1, <2>5
<1>10. CASE EndBlock
  BY <1>1, <1>4, <1>10, EndBlockEnds DEF EndBlock
<1>11. CASE RestartService
  <2>0. blk.phase = "Active" /\ time' = time /\ user' = user
    BY <1>11 DEF RestartService
  <2>1. CASE IsOver(blk, time)
    <3>1. Finish("Expired", Deadline(blk))
      BY <1>11, <2>1 DEF RestartService
    <3> QED BY <1>0, <1>1, <1>4, <2>0, <2>1, <3>1, OverEnds
  <2>2. CASE ~IsOver(blk, time)
    <3>1. blk' = [blk EXCEPT !.updated = time]
      BY <1>11, <2>0, <2>2 DEF RestartService
    <3>2. blk'.phase = "Active" /\ blk'.updated = time
          /\ blk'.started = blk.started /\ blk'.total = blk.total
      BY <1>0, <2>0, <3>1 DEF Block
    <3>3. blk.started + blk.total <= blk.updated /\ blk.updated <= time
      BY <1>2, <2>0 DEF Clocks
    <3>4. time < Deadline(blk)
      BY <1>0, <2>0, <2>2, OnTime
    <3>5. Clocks(blk')
      BY <1>0, <1>d, <3>2, <3>3, <3>4 DEF Clocks
    <3> QED BY <1>1, <2>0, <3>5
  <2> QED BY <2>1, <2>2
<1>12. ASSUME NEW answer \in Replies, ReportInterventionOutcome(answer) PROVE BlockClock'
  BY <1>1, <1>3, <1>12 DEF ReportInterventionOutcome
<1>13. CASE CardSeen \/ ResetDemotion \/ ResolveOutcomes
  BY <1>1, <1>3, <1>13 DEF CardSeen, ResetDemotion, ResolveOutcomes
<1>14. CASE StoreDwell
  <2>1. user'.at = user.at
    BY <1>14 DEF StoreDwell, DriftTyped
  <2> QED BY <1>1, <1>3, <1>14, <2>1 DEF StoreDwell
<1>15. CASE LeaveDwell
  <2>1. user'.at = user.at
    BY <1>15 DEF LeaveDwell, DriftTyped
  <2> QED BY <1>0, <1>1, <1>5, <1>15, <2>1 DEF LeaveDwell
<1>16. ASSUME NEW cat \in Evidence, BeginDwell(cat) PROVE BlockClock'
  <2>1. user'.at = time
    BY <1>16 DEF BeginDwell
  <2>2. Clocks(blk')
    BY <1>0, <1>3, <1>5, <1>16 DEF BeginDwell
  <2> QED BY <1>1, <1>16, <2>1, <2>2 DEF BeginDwell
<1>17. CASE PassTime
  <2>1. time' = time + 1 /\ user' = user /\ blk' = blk
    BY <1>17 DEF PassTime
  <2> QED BY <1>0, <1>2, <1>d, <2>1 DEF BlockClock, Live, Clocks
<1> QED BY <1>6, <1>7, <1>8, <1>9, <1>10, <1>11, <1>12, <1>13, <1>14, <1>15, <1>16, <1>17 DEF DriftNext

----------------------------------------------------------------------------
(* The ledger.                                                              *)

DwellIsTrue(d) ==
    /\ d.end <= time
    /\ d.end <= user.at \/ (d.cat = user.cat /\ user.is # "in")
    /\ \A t \in 0..(time - 1) : d.at <= t /\ t < d.end => past[t + 1] = d.cat

\* History holds what the user is doing and what is stored of what they did,
\* and every tick since the block's last change at which it was running.
HistoryIsTrue ==
    /\ \A t \in 0..(time - 1) : user.at <= t => past[t + 1] = user.cat
    /\ \A d \in raw : DwellIsTrue(d)
    /\ blk.phase = "Active" =>
          \A t \in 0..(time - 1) : blk.updated <= t /\ t < Deadline(blk) => t \in ran

\* An open row is of the dwell in hand, or of the one before while this one is
\* not reported; it began with the last change of the block.
OpenIsTrue(row) ==
    /\ blk.phase = "Active" /\ row.at = blk.updated
    /\ user.is = "left" => row.cat = user.cat
    /\ \A t \in 0..(time - 1) : row.at <= t /\ t < user.at => past[t + 1] = row.cat

ClosedIsTrue(row) ==
    \A t \in Nat : row.at <= t /\ t < row.end => t \in ran /\ past[t + 1] = row.cat

RowsAreTrue ==
    \A i \in 1..Len(ledger) : IF IsOpen(ledger[i]) THEN OpenIsTrue(ledger[i])
                              ELSE ClosedIsTrue(ledger[i])

LedgerInvariant == HistoryIsTrue /\ RowsAreTrue

\* A boundary closes the ledger with rows that are true.
LEMMA BoundaryIsTrue ==
  ASSUME DriftTyped, BlockClock, LedgerInvariant, NEW boundary \in Nat, boundary <= time,
         blk.phase = "Active" => boundary <= Deadline(blk)
  PROVE  LET after == close_open_observation_at_reported_end(ledger, boundary) IN
         /\ Len(after) = Len(ledger)
         /\ \A i \in 1..Len(ledger) : ~IsOpen(after[i]) /\ ClosedIsTrue(after[i])
<1> DEFINE after == close_open_observation_at_reported_end(ledger, boundary)
<1>0. /\ blk \in Block /\ time \in Nat /\ user.at \in Nat /\ user.at <= time
      /\ blk.updated \in Nat /\ Deadline(blk) \in Nat /\ raw \subseteq Dwell
      /\ ledger \in Seq(Observation) /\ OneOpen(ledger)
  BY DeadlineFacts DEF DriftTyped, Block, BlockClock
<1>1. /\ Len(after) = Len(ledger)
      /\ \A i \in 1..Len(ledger) :
            /\ after[i].cat = ledger[i].cat /\ after[i].at = ledger[i].at /\ ~IsOpen(after[i])
            /\ ~IsOpen(ledger[i]) => after[i] = ledger[i]
            /\ IsOpen(ledger[i]) =>
                     \/ after[i].end = ledger[i].at
                     \/ \E d \in raw : /\ d.cat = ledger[i].cat
                                       /\ after[i].end = Earlier(d.end, boundary)
  BY <1>0, BoundaryFacts
<1> HIDE DEF after
<1>2. ASSUME NEW i \in 1..Len(ledger), ~IsOpen(ledger[i]) PROVE ClosedIsTrue(after[i])
  BY <1>1, <1>2 DEF LedgerInvariant, RowsAreTrue
<1>3. ASSUME NEW i \in 1..Len(ledger), IsOpen(ledger[i]) PROVE ClosedIsTrue(after[i])
  <2>0. OpenIsTrue(ledger[i]) /\ ledger[i].at = blk.updated
    BY <1>3 DEF LedgerInvariant, RowsAreTrue, OpenIsTrue
  <2>1. CASE after[i].end = ledger[i].at
    BY <1>0, <1>1, <2>0, <2>1 DEF ClosedIsTrue
  <2>2. ASSUME NEW d \in raw, d.cat = ledger[i].cat, after[i].end = Earlier(d.end, boundary)
        PROVE  ClosedIsTrue(after[i])
    <3> SUFFICES ASSUME NEW t \in Nat, ledger[i].at <= t, t < after[i].end
                 PROVE  t \in ran /\ past[t + 1] = ledger[i].cat
      BY <1>1 DEF ClosedIsTrue
    <3>1. d.end \in Nat /\ DwellIsTrue(d)
      BY <1>0 DEF Dwell, LedgerInvariant, HistoryIsTrue
    <3>2. t < d.end /\ t < boundary
      <4>1. Earlier(d.end, boundary) <= d.end /\ Earlier(d.end, boundary) <= boundary
            /\ Earlier(d.end, boundary) \in Nat
        BY <3>1, ClockFacts
      <4> QED BY <2>2, <3>1, <4>1
    <3>3. t \in 0..(time - 1)
      BY <1>0, <3>2
    <3>4. t \in ran
      BY <1>0, <2>0, <3>2, <3>3 DEF OpenIsTrue, LedgerInvariant, HistoryIsTrue
    <3>5. CASE t < user.at
      BY <2>0, <3>3, <3>4, <3>5 DEF OpenIsTrue
    <3>6. CASE user.at <= t
      <4>1. d.cat = user.cat
        BY <1>0, <3>1, <3>2, <3>6 DEF DwellIsTrue
      <4>2. past[t + 1] = user.cat
        BY <3>3, <3>6 DEF LedgerInvariant, HistoryIsTrue
      <4> QED BY <2>2, <3>4, <4>1, <4>2
    <3> QED BY <1>0, <3>5, <3>6
  <2> QED BY <1>1, <1>3, <2>1, <2>2
<1> QED BY <1>1, <1>2, <1>3 DEF after

LEMMA EndsIsTrue ==
  ASSUME DriftTyped, BlockClock, LedgerInvariant, NEW phase, NEW ended,
         Ends(phase, ended), Finish(phase, ended)
  PROVE  /\ Len(ledger') = Len(ledger)
         /\ \A i \in 1..Len(ledger) : ~IsOpen(ledger'[i]) /\ ClosedIsTrue(ledger'[i])
<1>1. ended \in Nat /\ ended <= time /\ (blk.phase = "Active" => ended <= Deadline(blk))
  <2>1. Deadline(blk) \in Nat /\ time \in Nat
    BY DeadlineFacts DEF DriftTyped
  <2> QED BY <2>1 DEF Ends
<1>2. ledger' = close_open_observation_at_reported_end(ledger, ended)
  BY FinishedBlock
<1> QED BY <1>1, <1>2, BoundaryIsTrue

\* A report closes the row before where its own dwell began.
LEMMA ObservesIsTrue ==
  ASSUME DriftTyped, BlockClock, LedgerInvariant, NEW cat, NEW occurred,
         blk.phase = "Active", ~IsOver(blk, occurred), Observes(cat, occurred, ObservedAt(occurred)),
         \/ occurred = user.at
         \/ occurred = time /\ user.is = "left"
  PROVE  LET now == Later(occurred, blk.updated) IN
         /\ Len(ledger') = Len(ledger) + 1
         /\ ledger'[Len(ledger) + 1] = [cat |-> cat, at |-> now, end |-> Absent]
         /\ \A i \in 1..Len(ledger) : ~IsOpen(ledger'[i]) /\ ClosedIsTrue(ledger'[i])
<1> DEFINE now == Later(occurred, blk.updated)
           closed == CloseAt(ledger, now)
           row == [cat |-> cat, at |-> now, end |-> Absent]
<1>0. /\ blk \in Block /\ time \in Nat /\ user.at \in Nat /\ user.at <= time
      /\ blk.updated \in Nat /\ Deadline(blk) \in Nat /\ ledger \in Seq(Observation)
      /\ occurred \in Nat /\ occurred <= time /\ Len(ledger) \in Nat
  BY DeadlineFacts DEF DriftTyped, Block, BlockClock
<1>1. now \in Nat /\ now <= time /\ now < Deadline(blk) /\ ledger' = Append(closed, row)
  BY <1>0, ObservesFacts
<1>2. /\ closed \in Seq(Observation) /\ Len(closed) = Len(ledger)
      /\ \A i \in 1..Len(ledger) :
               /\ closed[i].cat = ledger[i].cat /\ closed[i].at = ledger[i].at
               /\ ~IsOpen(closed[i]) /\ (~IsOpen(ledger[i]) => closed[i] = ledger[i])
               /\ IsOpen(ledger[i]) => closed[i].end = Later(ledger[i].at, now)
  BY <1>0, <1>1, CloseAtFacts
<1> HIDE DEF closed
<1>3. ASSUME NEW i \in 1..Len(ledger), IsOpen(ledger[i]) PROVE ClosedIsTrue(closed[i])
  <2>0. OpenIsTrue(ledger[i]) /\ ledger[i].at = blk.updated
    BY <1>3 DEF LedgerInvariant, RowsAreTrue, OpenIsTrue
  <2>1. closed[i].end = now
    <3>1. now >= blk.updated
      BY <1>0, ClockFacts
    <3> HIDE DEF now
    <3>2. Later(blk.updated, now) = now
      BY <1>0, <1>1, <3>1 DEF Later
    <3> QED BY <1>2, <1>3, <2>0, <3>2
  <2> SUFFICES ASSUME NEW t \in Nat, blk.updated <= t, t < now
               PROVE  t \in ran /\ past[t + 1] = ledger[i].cat
    BY <1>2, <2>0, <2>1 DEF ClosedIsTrue
  <2>2. t \in 0..(time - 1) /\ t < Deadline(blk)
    BY <1>0, <1>1
  <2>3. t \in ran
    BY <2>2 DEF LedgerInvariant, HistoryIsTrue
  <2>4. t < occurred
    BY <1>0 DEF Later
  <2>5. CASE t < user.at
    BY <2>0, <2>2, <2>3, <2>5 DEF OpenIsTrue
  <2>6. CASE user.at <= t
    <3>1. user.is = "left" /\ ledger[i].cat = user.cat
      BY <1>0, <2>0, <2>4, <2>6 DEF OpenIsTrue
    <3>2. past[t + 1] = user.cat
      BY <2>2, <2>6 DEF LedgerInvariant, HistoryIsTrue
    <3> QED BY <2>3, <3>1, <3>2
  <2> QED BY <1>0, <2>5, <2>6
<1>4. ASSUME NEW i \in 1..Len(ledger), ~IsOpen(ledger[i]) PROVE ClosedIsTrue(closed[i])
  BY <1>2, <1>4 DEF LedgerInvariant, RowsAreTrue
<1> HIDE DEF now, row
<1>5. /\ Len(ledger') = Len(ledger) + 1 /\ ledger'[Len(ledger) + 1] = row
      /\ \A i \in 1..Len(ledger) : ledger'[i] = closed[i]
  BY <1>0, <1>1, <1>2
<1>6. /\ Len(ledger') = Len(ledger) + 1 /\ ledger'[Len(ledger) + 1] = row
      /\ \A i \in 1..Len(ledger) : ~IsOpen(ledger'[i]) /\ ClosedIsTrue(ledger'[i])
  BY <1>2, <1>3, <1>4, <1>5
<1> QED BY <1>6 DEF now, row

\* Rows that are closed and true stay so while the history is kept.
LEMMA ClosedRowsStay ==
  ASSUME UNCHANGED <<past, ran>>,
         \A i \in 1..Len(ledger') : ~IsOpen(ledger'[i]) /\ ClosedIsTrue(ledger'[i])
  PROVE  RowsAreTrue'
BY DEF RowsAreTrue, ClosedIsTrue, IsOpen

\* The user goes on to another dwell, and the block and its ledger stay.
LEMMA HistoryFollowsUser ==
  ASSUME DriftTyped, BlockClock, HistoryIsTrue, UNCHANGED <<time, past, ran, raw>>,
         \/ user' = user
         \/ user.is # "in" /\ user' = [user EXCEPT !.is = "left"]
         \/ user'.at = time
  PROVE  /\ \A t \in 0..(time' - 1) : user'.at <= t => past'[t + 1] = user'.cat
         /\ \A d \in raw' : DwellIsTrue(d)'
<1>0. time \in Nat /\ raw \subseteq Dwell
  BY DEF DriftTyped
<1>1. CASE user' = user
  BY <1>1 DEF HistoryIsTrue, DwellIsTrue
<1>2. CASE user.is # "in" /\ user' = [user EXCEPT !.is = "left"]
  <2>1. user'.at = user.at /\ user'.cat = user.cat /\ user'.is = "left"
    BY <1>2 DEF DriftTyped
  <2> QED BY <1>2, <2>1 DEF HistoryIsTrue, DwellIsTrue
<1>3. CASE user'.at = time
  <2>1. \A t \in 0..(time' - 1) : ~(user'.at <= t)
    BY <1>0, <1>3
  <2>2. ASSUME NEW d \in raw PROVE DwellIsTrue(d)'
    BY <1>3 DEF HistoryIsTrue, DwellIsTrue
  <2> QED BY <2>1, <2>2
<1> QED BY <1>1, <1>2, <1>3

LEMMA RowsFollowUser ==
  ASSUME DriftTyped, BlockClock, LedgerInvariant, UNCHANGED <<time, past, ran, blk, ledger>>,
         \/ user'.at = user.at /\ (user'.is # "left" \/ user' = user)
         \/ user'.at = user.at /\ (blk.phase = "Active" => SameRowOpen(user'.cat))
         \/ user.is = "left" /\ user'.at = time /\ user'.is = "in"
  PROVE  RowsAreTrue'
<1>0. time \in Nat /\ user.at \in Nat /\ ledger \in Seq(Observation) /\ OneOpen(ledger)
  BY DEF DriftTyped
<1>1. ASSUME NEW i \in 1..Len(ledger), IsOpen(ledger[i]) PROVE OpenIsTrue(ledger[i])'
  <2>1. OpenIsTrue(ledger[i])
    BY <1>1 DEF LedgerInvariant, RowsAreTrue
  <2>2. SameRowOpen(user'.cat) => ledger[i].cat = user'.cat
    BY <1>0, <1>1 DEF SameRowOpen, OneOpen, Last
  <2>3. CASE user'.at = user.at
    BY <1>0, <2>1, <2>2, <2>3 DEF OpenIsTrue
  <2>4. CASE user.is = "left" /\ user'.at = time /\ user'.is = "in"
    <3>1. \A t \in 0..(time - 1) : ledger[i].at <= t => past[t + 1] = ledger[i].cat
      <4> SUFFICES ASSUME NEW t \in 0..(time - 1), ledger[i].at <= t
                   PROVE  past[t + 1] = ledger[i].cat
        OBVIOUS
      <4>1. t < user.at \/ user.at <= t
        BY <1>0
      <4> QED BY <2>1, <2>4, <4>1 DEF OpenIsTrue, LedgerInvariant, HistoryIsTrue
    <3> QED BY <1>0, <2>1, <2>4, <3>1 DEF OpenIsTrue
  <2> QED BY <2>3, <2>4
<1>2. ASSUME NEW i \in 1..Len(ledger), ~IsOpen(ledger[i]) PROVE ClosedIsTrue(ledger[i])'
  BY <1>2 DEF LedgerInvariant, RowsAreTrue, ClosedIsTrue
<1>3. ledger' = ledger /\ \A i \in 1..Len(ledger) : IsOpen(ledger[i])' <=> IsOpen(ledger[i])
  BY DEF IsOpen
<1> QED BY <1>1, <1>2, <1>3 DEF RowsAreTrue

\* The block, as seen by what it knows of the ticks that passed.
TicksAreKnown ==
    blk.phase = "Active" =>
        \A t \in 0..(time - 1) : blk.updated <= t /\ t < Deadline(blk) => t \in ran

LEMMA PassTimeLedger ==
  ASSUME DriftTyped, BlockClock, LedgerInvariant, PassTime PROVE LedgerInvariant'
<1>0. /\ time \in Nat /\ user.at \in Nat /\ user.at <= time /\ raw \subseteq Dwell
      /\ past \in Seq(Evidence) /\ Len(past) = time /\ ran \subseteq 0..(time - 1)
      /\ ledger \in Seq(Observation)
  BY DEF DriftTyped, BlockClock
<1>1. /\ time' = time + 1 /\ past' = Append(past, user.cat) /\ ran \subseteq ran'
      /\ blk.phase = "Active" /\ time < Deadline(blk) => time \in ran'
      /\ user' = user /\ blk' = blk /\ ledger' = ledger /\ raw' = raw
  BY DEF PassTime
<1>2. \A t \in 0..(time - 1) : past'[t + 1] = past[t + 1]
  BY <1>0, <1>1
<1>3. past'[time + 1] = user.cat
  BY <1>0, <1>1
<1>4. \A t \in 0..(time' - 1) : t \in 0..(time - 1) \/ t = time
  BY <1>0, <1>1
<1>5. \A t \in 0..(time' - 1) : user'.at <= t => past'[t + 1] = user'.cat
  BY <1>1, <1>2, <1>3, <1>4 DEF LedgerInvariant, HistoryIsTrue
<1>6. ASSUME NEW d \in raw' PROVE DwellIsTrue(d)'
  <2>1. DwellIsTrue(d) /\ d.end \in Nat
    BY <1>0, <1>1 DEF LedgerInvariant, HistoryIsTrue, Dwell
  <2>2. ~(time < d.end)
    BY <1>0, <2>1 DEF DwellIsTrue
  <2>3. d.end <= time'
    BY <1>0, <1>1, <2>1 DEF DwellIsTrue
  <2> QED BY <1>1, <1>2, <1>4, <2>1, <2>2, <2>3 DEF DwellIsTrue
<1>7. TicksAreKnown'
  <2>1. Deadline(blk)' = Deadline(blk)
    BY <1>1 DEF Deadline
  <2> QED BY <1>1, <1>4, <2>1 DEF TicksAreKnown, LedgerInvariant, HistoryIsTrue
<1>8. ASSUME NEW i \in 1..Len(ledger), IsOpen(ledger[i]) PROVE OpenIsTrue(ledger[i])'
  <2>1. OpenIsTrue(ledger[i])
    BY <1>8 DEF LedgerInvariant, RowsAreTrue
  <2>2. ~(time < user.at)
    BY <1>0
  <2> QED BY <1>1, <1>2, <1>4, <2>1, <2>2 DEF OpenIsTrue
<1>9. ASSUME NEW i \in 1..Len(ledger), ~IsOpen(ledger[i]) PROVE ClosedIsTrue(ledger[i])'
  <2>1. ClosedIsTrue(ledger[i])
    BY <1>9 DEF LedgerInvariant, RowsAreTrue
  <2> SUFFICES ASSUME NEW t \in Nat, ledger[i].at <= t, t < ledger[i].end
               PROVE  t \in ran' /\ past'[t + 1] = ledger[i].cat
    BY <1>1 DEF ClosedIsTrue
  <2>2. t \in ran /\ past[t + 1] = ledger[i].cat
    BY <2>1 DEF ClosedIsTrue
  <2>3. t \in 0..(time - 1)
    BY <1>0, <2>2
  <2> QED BY <1>1, <1>2, <2>2, <2>3
<1>10. ledger' = ledger /\ \A i \in 1..Len(ledger) : IsOpen(ledger[i])' <=> IsOpen(ledger[i])
  BY <1>1 DEF IsOpen
<1> QED BY <1>5, <1>6, <1>7, <1>8, <1>9, <1>10
      DEF LedgerInvariant, HistoryIsTrue, TicksAreKnown, RowsAreTrue

\* A report of the dwell that the user leaves or begins.
LEMMA ObserveLedger ==
  ASSUME DriftTyped, BlockClock, LedgerInvariant, UNCHANGED <<time, past, ran, raw>>,
         NEW cat, NEW occurred, Observe(cat, occurred), user'.cat = cat,
         \/ occurred = user.at /\ user'.at = user.at
         \/ occurred = time /\ user.is = "left" /\ user'.at = time /\ user'.is = "in"
  PROVE  RowsAreTrue' /\ TicksAreKnown'
<1>0. /\ blk \in Block /\ time \in Nat /\ user.at \in Nat /\ user.at <= time
      /\ blk.updated \in Nat /\ Deadline(blk) \in Nat /\ ledger \in Seq(Observation)
      /\ occurred \in Nat /\ occurred <= time /\ Len(ledger) \in Nat
  BY DeadlineFacts DEF DriftTyped, Block, BlockClock
<1>1. CASE UNCHANGED <<blk, ledger>> /\ (blk.phase = "Active" => SameRowOpen(cat))
  <2>1. RowsAreTrue'
    BY <1>1, RowsFollowUser
  <2>2. TicksAreKnown'
    BY <1>1 DEF TicksAreKnown, LedgerInvariant, HistoryIsTrue, Deadline
  <2> QED BY <2>1, <2>2
<1>2. ASSUME NEW phase, NEW ended, Ends(phase, ended), Finish(phase, ended)
      PROVE  RowsAreTrue' /\ TicksAreKnown'
  BY <1>2, EndsIsTrue, ClosedRowsStay, FinishedBlock DEF TicksAreKnown, Live
<1>3. CASE blk.phase = "Active" /\ ~IsOver(blk, occurred)
              /\ Observes(cat, occurred, ObservedAt(occurred))
  <2> DEFINE now == Later(occurred, blk.updated)
             row == [cat |-> cat, at |-> now, end |-> Absent]
  <2>1. /\ now \in Nat /\ now <= time /\ now >= blk.updated /\ now >= occurred
        /\ blk' = [blk EXCEPT !.updated = now]
    BY <1>0, <1>3, ObservesFacts
  <2>2. /\ Len(ledger') = Len(ledger) + 1 /\ ledger'[Len(ledger) + 1] = row
        /\ \A i \in 1..Len(ledger) : ~IsOpen(ledger'[i]) /\ ClosedIsTrue(ledger'[i])
    BY <1>3, ObservesIsTrue
  <2> HIDE DEF now
  <2>3. /\ blk'.updated = now /\ blk'.phase = "Active" /\ Deadline(blk)' = Deadline(blk)
    BY <1>0, <1>3, <2>1 DEF Block, Deadline
  <2>4. TicksAreKnown'
    BY <1>0, <1>3, <2>1, <2>3 DEF TicksAreKnown, LedgerInvariant, HistoryIsTrue
  <2>5. row.cat = cat /\ row.at = now /\ IsOpen(row) /\ now >= user'.at
    BY <1>0, <2>1 DEF IsOpen
  <2> HIDE DEF row
  <2>6. ASSUME NEW i \in 1..Len(ledger') PROVE (IF IsOpen(ledger[i]) THEN OpenIsTrue(ledger[i])
                                              ELSE ClosedIsTrue(ledger[i]))'
    <3>1. CASE i = Len(ledger) + 1
      <4>1. ledger'[i] = row /\ IsOpen(row)
        BY <2>2, <2>5, <3>1
      <4>2. user'.at \in Nat
        BY <1>0
      <4>3. OpenIsTrue(ledger[i])'
        BY <1>0, <2>1, <2>3, <2>5, <4>1, <4>2 DEF OpenIsTrue
      <4> QED BY <4>1, <4>3 DEF IsOpen
    <3>2. CASE i \in 1..Len(ledger)
      BY <2>2, <3>2 DEF ClosedIsTrue, IsOpen
    <3> QED BY <1>0, <2>2, <3>1, <3>2
  <2> QED BY <2>4, <2>6 DEF RowsAreTrue
<1> QED BY <1>0, <1>1, <1>2, <1>3, ObserveIsOne DEF ObserveKinds

LEMMA InitLedger == DriftInit => BlockClock /\ LedgerInvariant
<1> SUFFICES ASSUME DriftInit PROVE BlockClock /\ LedgerInvariant
  OBVIOUS
<1>1. /\ time = 0 /\ user.at = 0 /\ raw = {} /\ ledger = <<>> /\ blk.phase = "Idle"
  BY DEF DriftInit, Idle
<1>2. \A t \in 0..(time - 1) : FALSE
  BY <1>1
<1>3. 1..Len(ledger) = {}
  BY <1>1
<1> QED BY <1>1, <1>2, <1>3 DEF BlockClock, Live, LedgerInvariant, HistoryIsTrue, RowsAreTrue

LEMMA NextLedger ==
  DriftTyped /\ BlockClock /\ LedgerInvariant /\ [DriftNext]_driftVars => LedgerInvariant'
<1> SUFFICES ASSUME DriftTyped, BlockClock, LedgerInvariant, [DriftNext]_driftVars
             PROVE  LedgerInvariant'
  OBVIOUS
<1>0. /\ blk \in Block /\ time \in Nat /\ user.at \in Nat /\ user.at <= time
      /\ blk.updated \in Nat /\ Deadline(blk) \in Nat /\ ledger \in Seq(Observation)
  BY DeadlineFacts DEF DriftTyped, Block, BlockClock
<1> DEFINE Still == UNCHANGED <<time, user, past, ran, raw>>
<1>1. ASSUME Still, RowsAreTrue', TicksAreKnown' PROVE LedgerInvariant'
  BY <1>1, HistoryFollowsUser DEF LedgerInvariant, HistoryIsTrue, TicksAreKnown
<1>2. ASSUME Still, UNCHANGED <<blk, ledger>> PROVE LedgerInvariant'
  <2>1. RowsAreTrue'
    BY <1>2, RowsFollowUser
  <2>2. TicksAreKnown'
    BY <1>2 DEF TicksAreKnown, LedgerInvariant, HistoryIsTrue, Deadline
  <2> QED BY <1>1, <1>2, <2>1, <2>2
<1>3. ASSUME Still, NEW phase, NEW ended, Ends(phase, ended), Finish(phase, ended)
      PROVE  LedgerInvariant'
  <2>1. RowsAreTrue' /\ TicksAreKnown'
    BY <1>3, EndsIsTrue, ClosedRowsStay, FinishedBlock DEF TicksAreKnown, Live
  <2> QED BY <1>1, <1>3, <2>1
<1>4. ASSUME Still, NEW boundary \in Nat, boundary <= time,
             blk.phase = "Active" => boundary <= Deadline(blk),
             ledger' = close_open_observation_at_reported_end(ledger, boundary), TicksAreKnown'
      PROVE  LedgerInvariant'
  <2>1. RowsAreTrue'
    BY <1>4, BoundaryIsTrue, ClosedRowsStay
  <2> QED BY <1>1, <1>4, <2>1
<1>5. ASSUME blk'.phase = "Active" => blk'.updated = time, time' = time PROVE TicksAreKnown'
  BY <1>0, <1>5 DEF TicksAreKnown
<1>6. CASE UNCHANGED driftVars
  BY <1>2, <1>6 DEF driftVars
<1>7. CASE StartBlock
  <2>1. ledger' = <<>> /\ UNCHANGED <<time, user, past, raw>> /\ blk'.updated = time
    BY <1>7, BegunBlock DEF StartBlock
  <2>2. RowsAreTrue'
    <3>1. 1..Len(ledger') = {}
      BY <2>1
    <3> QED BY <3>1 DEF RowsAreTrue
  <2>3. TicksAreKnown'
    BY <1>5, <2>1
  <2>4. /\ \A t \in 0..(time' - 1) : user'.at <= t => past'[t + 1] = user'.cat
        /\ \A d \in raw' : DwellIsTrue(d)'
    BY <2>1 DEF LedgerInvariant, HistoryIsTrue, DwellIsTrue
  <2> QED BY <2>2, <2>3, <2>4 DEF LedgerInvariant, HistoryIsTrue, TicksAreKnown
<1>8. CASE PauseBlock
  <2>0. blk.phase = "Active" /\ Still
    BY <1>8 DEF PauseBlock
  <2>1. CASE IsOver(blk, time)
    <3>1. Finish("Completed", Deadline(blk))
      BY <1>8, <2>1 DEF PauseBlock
    <3> QED BY <1>0, <1>3, <2>0, <2>1, <3>1, OverEnds
  <2>2. CASE ~IsOver(blk, time)
    <3>1. /\ blk' = [blk EXCEPT !.phase = "Paused", !.paused = time, !.updated = time]
          /\ ledger' = close_open_observation_at_reported_end(ledger, time)
      BY <1>8, <2>0, <2>2, OnTime DEF PauseBlock
    <3>2. TicksAreKnown' /\ time <= Deadline(blk)
      BY <1>0, <2>0, <2>2, <3>1, OnTime DEF TicksAreKnown, Block
    <3> QED BY <1>0, <1>4, <2>0, <3>1, <3>2
  <2> QED BY <2>1, <2>2
<1>9. CASE ResumeBlock
  <2>1. blk.phase = "Paused" /\ Still /\ ledger' = ledger
    BY <1>9 DEF ResumeBlock
  <2>2. blk'.updated = time
    BY <1>0, <1>9, <2>1, ResumedFacts, LaterOfThese DEF BlockClock, Live
  <2>3. \A i \in 1..Len(ledger) : ~IsOpen(ledger[i]) /\ ClosedIsTrue(ledger[i])
    BY <2>1 DEF LedgerInvariant, RowsAreTrue, OpenIsTrue
  <2>4. RowsAreTrue'
    BY <2>1, <2>3, ClosedRowsStay
  <2>5. TicksAreKnown'
    BY <1>5, <2>1, <2>2
  <2> QED BY <1>1, <2>1, <2>4, <2>5
<1>10. CASE EndBlock
  BY <1>3, <1>10, EndBlockEnds DEF EndBlock
<1>11. CASE RestartService
  <2>0. blk.phase = "Active" /\ Still
    BY <1>11 DEF RestartService
  <2>1. CASE IsOver(blk, time)
    <3>1. Finish("Expired", Deadline(blk))
      BY <1>11, <2>1 DEF RestartService
    <3> QED BY <1>0, <1>3, <2>0, <2>1, <3>1, OverEnds
  <2>2. CASE ~IsOver(blk, time)
    <3>1. /\ blk' = [blk EXCEPT !.updated = time]
          /\ ledger' = close_open_observation_at_reported_end(ledger, time)
      BY <1>11, <2>0, <2>2 DEF RestartService
    <3>2. blk'.updated = time /\ time <= Deadline(blk)
      BY <1>0, <2>0, <2>2, <3>1, OnTime DEF Block
    <3> QED BY <1>0, <1>4, <1>5, <2>0, <3>1, <3>2
  <2> QED BY <2>1, <2>2
<1>12. ASSUME NEW answer \in Replies, ReportInterventionOutcome(answer) PROVE LedgerInvariant'
  BY <1>2, <1>12 DEF ReportInterventionOutcome
<1>13. CASE CardSeen \/ ResetDemotion \/ ResolveOutcomes
  BY <1>2, <1>13 DEF CardSeen, ResetDemotion, ResolveOutcomes
<1>14. CASE StoreDwell
  <2> DEFINE new == [cat |-> user.cat, at |-> user.at, end |-> time]
  <2>1. /\ raw' = raw \cup {new} /\ UNCHANGED <<time, past, ran, blk, ledger>> /\ user.is = "in"
        /\ user' = [user EXCEPT !.is = "stored"]
    BY <1>14 DEF StoreDwell
  <2>2. user'.at = user.at /\ user'.cat = user.cat /\ user'.is = "stored"
    BY <2>1 DEF DriftTyped
  <2>3. RowsAreTrue'
    BY <2>1, <2>2, RowsFollowUser
  <2>4. TicksAreKnown'
    BY <2>1 DEF TicksAreKnown, LedgerInvariant, HistoryIsTrue, Deadline
  <2>5. \A t \in 0..(time' - 1) : user'.at <= t => past'[t + 1] = user'.cat
    BY <2>1, <2>2 DEF LedgerInvariant, HistoryIsTrue
  <2>6. DwellIsTrue(new)'
    BY <1>0, <2>1, <2>2, <2>5 DEF DwellIsTrue
  <2>7. ASSUME NEW d \in raw PROVE DwellIsTrue(d)'
    BY <2>1, <2>2 DEF LedgerInvariant, HistoryIsTrue, DwellIsTrue
  <2>8. \A d \in raw' : DwellIsTrue(d)'
    <3> SUFFICES ASSUME NEW d \in raw' PROVE DwellIsTrue(d)'
      OBVIOUS
    <3> HIDE DEF new
    <3>1. d \in raw \/ d = new
      BY <2>1
    <3>2. CASE d = new
      BY <2>1, <2>2, <2>6, <3>2 DEF DwellIsTrue, new
    <3> QED BY <2>7, <3>1, <3>2
  <2> QED BY <2>3, <2>4, <2>5, <2>8 DEF LedgerInvariant, HistoryIsTrue, TicksAreKnown
<1>15. CASE LeaveDwell
  <2>1. /\ user.is = "stored" /\ user' = [user EXCEPT !.is = "left"] /\ Observe(user.cat, user.at)
        /\ UNCHANGED <<time, past, ran, raw>>
    BY <1>15 DEF LeaveDwell
  <2>2. user'.at = user.at /\ user'.cat = user.cat
    BY <2>1 DEF DriftTyped
  <2>3. RowsAreTrue' /\ TicksAreKnown'
    BY <2>1, <2>2, ObserveLedger
  <2> QED BY <2>1, <2>3, HistoryFollowsUser DEF LedgerInvariant, HistoryIsTrue, TicksAreKnown
<1>16. ASSUME NEW cat \in Evidence, BeginDwell(cat) PROVE LedgerInvariant'
  <2>1. /\ user.is = "left" /\ user' = [n |-> user.n + 1, cat |-> cat, at |-> time, is |-> "in"]
        /\ UNCHANGED <<time, past, ran, raw>>
        /\ Observe(cat, time) \/ UNCHANGED <<blk, ledger>>
    BY <1>16 DEF BeginDwell
  <2>2. user'.at = time /\ user'.cat = cat /\ user'.is = "in"
    BY <2>1
  <2>3. ASSUME Observe(cat, time) PROVE RowsAreTrue' /\ TicksAreKnown'
    BY <2>1, <2>2, <2>3, ObserveLedger
  <2>4. ASSUME UNCHANGED <<blk, ledger>> PROVE RowsAreTrue' /\ TicksAreKnown'
    <3>1. RowsAreTrue'
      BY <2>1, <2>2, <2>4, RowsFollowUser
    <3>2. TicksAreKnown'
      BY <2>1, <2>4 DEF TicksAreKnown, LedgerInvariant, HistoryIsTrue, Deadline
    <3> QED BY <3>1, <3>2
  <2>5. RowsAreTrue' /\ TicksAreKnown'
    BY <2>1, <2>3, <2>4
  <2> QED BY <2>1, <2>2, <2>5, HistoryFollowsUser DEF LedgerInvariant, HistoryIsTrue, TicksAreKnown
<1>17. CASE PassTime
  BY <1>17, PassTimeLedger
<1> QED BY <1>6, <1>7, <1>8, <1>9, <1>10, <1>11, <1>12, <1>13, <1>14, <1>15, <1>16, <1>17 DEF DriftNext

\* close_open_observation_at_reported_end, observe_safe_category: no second is
\* filed under a category that the user was not in or when the block stood still.
THEOREM LedgerStaysTrue == DriftSpec => []LedgerIsTrue
<1>1. LedgerInvariant /\ DriftTyped => LedgerIsTrue
  <2> SUFFICES ASSUME LedgerInvariant, DriftTyped, NEW i \in DOMAIN ledger, ~IsOpen(ledger[i]),
                      NEW t \in Span(ledger[i].at, ledger[i].end)
               PROVE  t \in ran /\ past[t + 1] = ledger[i].cat
    BY DEF LedgerIsTrue
  <2>1. i \in 1..Len(ledger)
    BY DEF DriftTyped
  <2>2. ClosedIsTrue(ledger[i])
    BY <2>1 DEF LedgerInvariant, RowsAreTrue
  <2> QED BY <2>2 DEF ClosedIsTrue, Span
<1> QED BY <1>1, InitDriftTypes, NextDriftTypes, InitLedger, NextBlockClock, NextLedger, PTL
        DEF DriftSpec

----------------------------------------------------------------------------
(* The decisions.                                                           *)

\* A sequence of anything: the rows of the log and of the offers carry values
\* that no property is about.
IsSeq(s) == s \in Seq({s[i] : i \in 1..Len(s)}) /\ Len(s) \in Nat

LEMMA AppendFacts ==
  ASSUME NEW s, IsSeq(s), NEW e
  PROVE  /\ IsSeq(Append(s, e)) /\ Len(Append(s, e)) = Len(s) + 1
         /\ Append(s, e)[Len(s) + 1] = e
         /\ \A i \in 1..Len(s) : Append(s, e)[i] = s[i]
         /\ DOMAIN s = 1..Len(s) /\ DOMAIN Append(s, e) = 1..(Len(s) + 1)
<1> DEFINE S == {s[i] : i \in 1..Len(s)} \cup {e}
           T == Append(s, e)
<1>1. s \in Seq(S) /\ e \in S /\ Len(s) \in Nat
  BY DEF IsSeq
<1> HIDE DEF S
<1>2. /\ T \in Seq(S) /\ Len(T) = Len(s) + 1 /\ T[Len(s) + 1] = e
      /\ \A i \in 1..Len(s) : T[i] = s[i]
      /\ DOMAIN s = 1..Len(s) /\ DOMAIN T = 1..(Len(s) + 1)
  BY <1>1
<1> HIDE DEF T
<1>3. T \in Seq({T[i] : i \in 1..Len(T)}) /\ Len(T) \in Nat
  <2>1. Len(T) \in Nat /\ DOMAIN T = 1..Len(T)
    BY <1>1, <1>2
  <2>2. T = [i \in 1..Len(T) |-> T[i]]
    BY <1>2, <2>1
  <2> QED BY <2>1, <2>2
<1> QED BY <1>2, <1>3 DEF IsSeq, T

LEMMA FunctionIsSeq ==
  ASSUME NEW n \in Nat, NEW f, DOMAIN f = 1..n, f = [i \in 1..n |-> f[i]]
  PROVE  IsSeq(f) /\ Len(f) = n
<1>1. f \in Seq({f[i] : i \in 1..n}) /\ Len(f) = n
  OBVIOUS
<1> QED BY <1>1 DEF IsSeq

DecisionFields == {"block", "dwell", "verdict", "at", "anchor", "outcome", "rows"}

\* The dwell in hand, if this block has decided on it, is that of the last row.
LastRowIsOfDwell ==
    /\ Len(ledger) > 0 /\ ledger[Len(ledger)].cat = user.cat
    /\ ledger[Len(ledger)].at >= user.at

DecisionFits(d) ==
    /\ DOMAIN d = DecisionFields
    /\ d.block \in Nat /\ d.dwell \in Nat /\ d.at \in Nat /\ d.rows \in Nat
    /\ d.block <= blk.id /\ d.dwell <= user.n
    /\ d.block = blk.id =>
          /\ d.rows <= Len(ledger)
          /\ \A j \in 1..d.rows : ledger[j].at <= d.at
          /\ d.dwell = user.n /\ user.is # "left" => LastRowIsOfDwell
          /\ d.outcome = "seen" =>
                \E j \in (d.rows + 1)..Len(ledger) :
                    ledger[j].cat = d.anchor /\ ledger[j].at <= d.at + OutcomeHorizon

\* The rows of a block that goes on began before its last change.
RowsInTime == Live => \A j \in 1..Len(ledger) : ledger[j].at <= blk.updated

DecisionsInvariant ==
    /\ IsSeq(decisions) /\ RowsInTime
    /\ \A i \in 1..Len(decisions) : DecisionFits(decisions[i])
    /\ DecidedOnce

\* The ledger of a block is only added to, and its rows keep their beginning.
LedgerGrows ==
    /\ Len(ledger') >= Len(ledger)
    /\ \A j \in 1..Len(ledger) : ledger'[j].cat = ledger[j].cat /\ ledger'[j].at = ledger[j].at

SameDwell == user'.n = user.n /\ user'.cat = user.cat /\ user'.at = user.at

LEMMA DecisionStillFits ==
  ASSUME DriftTyped, DriftTyped', NEW d, DecisionFits(d), blk'.id = blk.id, LedgerGrows,
         \/ SameDwell /\ (user'.is = "left" \/ (user.is # "left" /\ Len(ledger') = Len(ledger)))
         \/ SameDwell /\ user'.is = user.is /\ Len(ledger') = Len(ledger)
         \/ user'.n = user.n + 1
  PROVE  DecisionFits(d)'
<1>0. /\ Len(ledger) \in Nat /\ Len(ledger') \in Nat /\ user.n \in Nat /\ blk.id \in Nat
      /\ d.block \in Nat /\ d.dwell \in Nat /\ d.at \in Nat /\ d.rows \in Nat
      /\ DOMAIN d = DecisionFields /\ d.block <= blk.id /\ d.dwell <= user.n
  BY DEF DriftTyped, Block, DecisionFits
<1>1. d.block <= blk'.id /\ d.dwell <= user'.n
  BY <1>0 DEF SameDwell
<1>2. ASSUME d.block = blk.id
      PROVE  /\ d.rows <= Len(ledger')
             /\ \A j \in 1..d.rows : ledger'[j].at <= d.at
             /\ d.dwell = user'.n /\ user'.is # "left" => LastRowIsOfDwell'
             /\ d.outcome = "seen" =>
                   \E j \in (d.rows + 1)..Len(ledger') :
                       ledger'[j].cat = d.anchor /\ ledger'[j].at <= d.at + OutcomeHorizon
  <2>1. /\ d.rows <= Len(ledger)
        /\ \A j \in 1..d.rows : ledger[j].at <= d.at
        /\ d.dwell = user.n /\ user.is # "left" => LastRowIsOfDwell
        /\ d.outcome = "seen" =>
              \E j \in (d.rows + 1)..Len(ledger) :
                  ledger[j].cat = d.anchor /\ ledger[j].at <= d.at + OutcomeHorizon
    BY <1>2 DEF DecisionFits
  <2>2. d.rows <= Len(ledger') /\ \A j \in 1..d.rows : j \in 1..Len(ledger)
    BY <1>0, <2>1 DEF LedgerGrows
  <2>3. \A j \in 1..d.rows : ledger'[j].at <= d.at
    BY <2>1, <2>2 DEF LedgerGrows
  <2>4. ASSUME d.dwell = user'.n, user'.is # "left" PROVE LastRowIsOfDwell'
    <3>1. SameDwell /\ user.is # "left" /\ Len(ledger') = Len(ledger)
      BY <1>0, <2>4
    <3>2. LastRowIsOfDwell
      BY <2>1, <2>4, <3>1 DEF SameDwell
    <3>3. Len(ledger) \in 1..Len(ledger)
      BY <1>0, <3>2 DEF LastRowIsOfDwell
    <3> QED BY <3>1, <3>2, <3>3 DEF LastRowIsOfDwell, SameDwell, LedgerGrows
  <2>5. ASSUME d.outcome = "seen"
        PROVE  \E j \in (d.rows + 1)..Len(ledger') :
                   ledger'[j].cat = d.anchor /\ ledger'[j].at <= d.at + OutcomeHorizon
    <3>1. PICK j \in (d.rows + 1)..Len(ledger) :
                   ledger[j].cat = d.anchor /\ ledger[j].at <= d.at + OutcomeHorizon
      BY <2>1, <2>5
    <3>2. j \in 1..Len(ledger) /\ j \in (d.rows + 1)..Len(ledger')
      BY <1>0, <3>1 DEF LedgerGrows
    <3> QED BY <3>1, <3>2 DEF LedgerGrows
  <2> QED BY <2>2, <2>3, <2>4, <2>5
<1> QED BY <1>0, <1>1, <1>2 DEF DecisionFits

\* A new block starts with an empty ledger, and no decision is about it.
LEMMA NewBlockFits ==
  ASSUME DriftTyped, NEW d, DecisionFits(d), blk'.id = blk.id + 1, user' = user
  PROVE  DecisionFits(d)'
<1>1. /\ DOMAIN d = DecisionFields /\ d.block \in Nat /\ blk.id \in Nat /\ d.block <= blk.id
      /\ d.dwell \in Nat /\ d.at \in Nat /\ d.rows \in Nat /\ d.dwell <= user.n
  BY DEF DecisionFits, DriftTyped, Block
<1>2. d.block <= blk'.id /\ d.block # blk'.id
  BY <1>1
<1> QED BY <1>1, <1>2 DEF DecisionFits

LEMMA DecisionsKept ==
  ASSUME DecisionsInvariant, decisions' = decisions, RowsInTime',
         \A d : DecisionFits(d) => DecisionFits(d)'
  PROVE  DecisionsInvariant'
BY DEF DecisionsInvariant, DecidedOnce, IsSeq

\* The decision of a report is its own: this block has none on the dwell yet.
LEMMA DecisionAdded ==
  ASSUME DriftTyped, DriftTyped', DecisionsInvariant, RowsInTime', NEW row,
         decisions' = record_decision(decisions, row),
         DecisionFits(row)', \A d : DecisionFits(d) => DecisionFits(d)',
         \A i \in 1..Len(decisions) : decisions[i].block = row.block => decisions[i].dwell # row.dwell
  PROVE  DecisionsInvariant'
<1>1. /\ IsSeq(decisions') /\ Len(decisions') = Len(decisions) + 1
      /\ decisions'[Len(decisions) + 1] = row /\ Len(decisions) \in Nat
      /\ \A i \in 1..Len(decisions) : decisions'[i] = decisions[i]
      /\ DOMAIN decisions = 1..Len(decisions) /\ DOMAIN decisions' = 1..(Len(decisions) + 1)
  BY AppendFacts DEF record_decision, DecisionsInvariant, IsSeq
<1>2. ASSUME NEW i \in 1..Len(decisions') PROVE DecisionFits(decisions[i])'
  <2>1. CASE i \in 1..Len(decisions)
    <3>1. DecisionFits(decisions[i])
      BY <2>1 DEF DecisionsInvariant
    <3> QED BY <1>1, <2>1, <3>1 DEF DecisionFits
  <2>2. CASE i = Len(decisions) + 1
    BY <1>1, <2>2 DEF DecisionFits
  <2> QED BY <1>1, <2>1, <2>2
<1>3. DecidedOnce'
  <2> SUFFICES ASSUME NEW i \in 1..(Len(decisions) + 1), NEW j \in 1..(Len(decisions) + 1),
                      decisions'[i].block = decisions'[j].block,
                      decisions'[i].dwell = decisions'[j].dwell
               PROVE  i = j
    BY <1>1 DEF DecidedOnce
  <2>1. CASE i \in 1..Len(decisions) /\ j \in 1..Len(decisions)
    BY <1>1, <2>1 DEF DecisionsInvariant, DecidedOnce
  <2>2. CASE i = Len(decisions) + 1 /\ j \in 1..Len(decisions)
    BY <1>1, <2>2
  <2>3. CASE j = Len(decisions) + 1 /\ i \in 1..Len(decisions)
    BY <1>1, <2>3
  <2>4. CASE i = Len(decisions) + 1 /\ j = Len(decisions) + 1
    BY <2>4
  <2> QED BY <1>1, <2>1, <2>2, <2>3, <2>4
<1>4. IsSeq(decisions)'
  BY <1>1 DEF IsSeq
<1> QED BY <1>2, <1>3, <1>4 DEF DecisionsInvariant

\* A boundary and a report keep the beginnings of the rows that are there.
LEMMA BoundaryRows ==
  ASSUME DriftTyped, NEW boundary \in Nat,
         ledger' = close_open_observation_at_reported_end(ledger, boundary)
  PROVE  LedgerGrows /\ Len(ledger') = Len(ledger)
<1>1. ledger \in Seq(Observation) /\ raw \subseteq Dwell /\ OneOpen(ledger) /\ Len(ledger) \in Nat
  BY DEF DriftTyped
<1> QED BY <1>1, BoundaryFacts DEF LedgerGrows

LEMMA ReportRows ==
  ASSUME DriftTyped, NEW cat, NEW now \in Nat,
         ledger' = Append(CloseAt(ledger, now), [cat |-> cat, at |-> now, end |-> Absent])
  PROVE  /\ LedgerGrows /\ Len(ledger') = Len(ledger) + 1
         /\ ledger'[Len(ledger')].cat = cat /\ ledger'[Len(ledger')].at = now
<1> DEFINE closed == CloseAt(ledger, now)
           row == [cat |-> cat, at |-> now, end |-> Absent]
<1>1. ledger \in Seq(Observation) /\ Len(ledger) \in Nat
  BY DEF DriftTyped
<1>2. /\ closed \in Seq(Observation) /\ Len(closed) = Len(ledger)
      /\ \A i \in 1..Len(ledger) : closed[i].cat = ledger[i].cat /\ closed[i].at = ledger[i].at
  BY <1>1, CloseAtFacts
<1>3. row.cat = cat /\ row.at = now /\ ledger' = Append(closed, row)
  OBVIOUS
<1> HIDE DEF closed, row
<1>4. /\ Len(ledger') = Len(ledger) + 1 /\ ledger'[Len(ledger) + 1] = row
      /\ \A i \in 1..Len(ledger) : ledger'[i] = closed[i]
  BY <1>1, <1>2, <1>3
<1> QED BY <1>1, <1>2, <1>3, <1>4 DEF LedgerGrows

LEMMA RowsStayInTime ==
  ASSUME DriftTyped, DriftTyped', LedgerGrows, Len(ledger') = Len(ledger), RowsInTime,
         Live' => Live /\ blk.updated <= blk'.updated
  PROVE  RowsInTime'
<1> SUFFICES ASSUME Live', NEW j \in 1..Len(ledger') PROVE ledger'[j].at <= blk'.updated
  BY DEF RowsInTime
<1>1. /\ j \in 1..Len(ledger) /\ ledger[j] \in Observation /\ blk.updated \in Nat
      /\ blk'.updated \in Nat
  BY DEF DriftTyped, Block
<1>2. ledger[j].at <= blk.updated /\ ledger'[j].at = ledger[j].at /\ ledger[j].at \in Nat
  BY <1>1 DEF RowsInTime, LedgerGrows, Observation
<1> QED BY <1>1, <1>2

\* What a report decides.
ReportOfDwell(cat, occurred) ==
    /\ user'.cat = cat /\ user'.at = occurred
    /\ \/ SameDwell /\ user.is # "left" /\ user'.is = "left"
       \/ user'.n = user.n + 1

\* A block that has decided on the dwell in hand, and whose row is not open,
\* knows the next report of it for one of the same dwell.
LEMMA DwellIsKnown ==
  ASSUME DriftTyped, NEW d, DecisionFits(d), d.block = blk.id, d.dwell = user.n,
         user.is # "left", ~SameRowOpen(user.cat)
  PROVE  continues_decided_dwell(ledger, user.cat, user.at)
<1>1. LastRowIsOfDwell
  BY DEF DecisionFits
<1>2. ledger \in Seq(Observation) /\ Len(ledger) \in Nat
  BY DEF DriftTyped
<1>3. ledger # <<>> /\ Last(ledger) = ledger[Len(ledger)]
  BY <1>1, <1>2 DEF LastRowIsOfDwell, Last
<1> QED BY <1>1, <1>3 DEF LastRowIsOfDwell, continues_decided_dwell, SameRowOpen

LEMMA ReportDecides ==
  ASSUME DriftTyped, DriftTyped', BlockClock, DecisionsInvariant, NEW cat, NEW occurred \in Nat,
         occurred <= time, ReportOfDwell(cat, occurred), blk.phase = "Active",
         ~IsOver(blk, occurred), ~SameRowOpen(cat), Observes(cat, occurred, ObservedAt(occurred))
  PROVE  DecisionsInvariant'
<1> DEFINE now == Later(occurred, blk.updated)
<1>0. /\ blk \in Block /\ blk.id \in Nat /\ user'.n \in Nat /\ user.n \in Nat
      /\ blk.updated \in Nat /\ Len(ledger) \in Nat /\ Len(ledger') \in Nat
      /\ ledger \in Seq(Observation)
  <2>1. blk \in Block /\ ledger \in Seq(Observation) /\ ledger' \in Seq(Observation)
    BY DEF DriftTyped
  <2>2. user'.n \in Nat /\ user.n \in Nat
    BY DEF DriftTyped
  <2>3. blk.id \in Nat /\ blk.updated \in Nat
    BY <2>1 DEF Block
  <2>4. Len(ledger) \in Nat /\ Len(ledger') \in Nat
    BY <2>1
  <2> QED BY <2>1, <2>2, <2>3, <2>4
<1>1. /\ ObservedAt(occurred) = now /\ now \in Nat /\ now >= blk.updated /\ now >= occurred
      /\ blk' = [blk EXCEPT !.updated = now]
      /\ ledger' = Append(CloseAt(ledger, now), [cat |-> cat, at |-> now, end |-> Absent])
  BY ObservesFacts
<1> HIDE DEF now
<1>2. blk'.id = blk.id /\ blk'.phase = "Active" /\ blk'.updated = now
  BY <1>0, <1>1 DEF Block
<1>3. /\ LedgerGrows /\ Len(ledger') = Len(ledger) + 1
      /\ ledger'[Len(ledger')].cat = cat /\ ledger'[Len(ledger')].at = now
  BY <1>1, ReportRows
<1>4. \A j \in 1..Len(ledger') : ledger'[j].at <= now
  <2> SUFFICES ASSUME NEW j \in 1..Len(ledger') PROVE ledger'[j].at <= now
    OBVIOUS
  <2>1. CASE j = Len(ledger')
    BY <1>1, <1>3, <2>1
  <2>2. CASE j \in 1..Len(ledger)
    <3>0. ledger[j] \in Observation
      BY <1>0, <2>2
    <3>1. ledger[j].at \in Nat
      BY <3>0 DEF Observation
    <3>2. ledger[j].at <= blk.updated /\ ledger'[j].at = ledger[j].at
      BY <1>3, <2>2 DEF DecisionsInvariant, RowsInTime, Live, LedgerGrows
    <3> QED BY <1>0, <1>1, <3>1, <3>2
  <2> QED BY <1>0, <1>3, <2>1, <2>2
<1>5. RowsInTime'
  BY <1>2, <1>4 DEF RowsInTime
<1>6. \A d : DecisionFits(d) => DecisionFits(d)'
  BY <1>2, <1>3, DecisionStillFits DEF ReportOfDwell
<1>7. CASE continues_decided_dwell(ledger, cat, occurred)
  <2>1. decisions' = decisions
    BY <1>1, <1>7 DEF Observes
  <2> QED BY <1>5, <1>6, <2>1, DecisionsKept
<1>8. CASE ~continues_decided_dwell(ledger, cat, occurred)
  <2>1. \E v : log_decision(user'.n, v, ledger', now)
    BY <1>1, <1>8 DEF Observes
  <2>2. PICK row : /\ decisions' = record_decision(decisions, row)
                   /\ DOMAIN row = DecisionFields
                   /\ row.block = blk.id /\ row.dwell = user'.n /\ row.at = now
                   /\ row.outcome = "unknown" /\ row.rows = Len(ledger')
    BY <2>1 DEF log_decision, DecisionFields
  <2>3. LastRowIsOfDwell'
    BY <1>0, <1>1, <1>3 DEF LastRowIsOfDwell, ReportOfDwell
  <2>4. DecisionFits(row)'
    BY <1>0, <1>1, <1>2, <1>4, <2>2, <2>3 DEF DecisionFits
  <2>5. ASSUME NEW i \in 1..Len(decisions), decisions[i].block = row.block PROVE decisions[i].dwell # row.dwell
    <3>1. DecisionFits(decisions[i])
      BY DEF DecisionsInvariant
    <3>2. decisions[i].dwell \in Nat /\ decisions[i].dwell <= user.n
      BY <3>1 DEF DecisionFits
    <3>3. CASE user'.n = user.n + 1
      BY <1>0, <2>2, <3>2, <3>3
    <3>4. CASE SameDwell /\ user.is # "left"
      <4>1. cat = user.cat /\ occurred = user.at /\ user'.n = user.n
        BY <3>4 DEF SameDwell, ReportOfDwell
      <4> QED BY <1>8, <2>2, <2>5, <3>1, <3>4, <4>1, DwellIsKnown
    <3> QED BY <3>3, <3>4 DEF ReportOfDwell
  <2> QED BY <1>5, <1>6, <2>2, <2>4, <2>5, DecisionAdded
<1> QED BY <1>7, <1>8

LEMMA ReportKeepsDecisions ==
  ASSUME DriftTyped, DriftTyped', BlockClock, DecisionsInvariant, NEW cat, NEW occurred \in Nat,
         occurred <= time, ReportOfDwell(cat, occurred), Observe(cat, occurred)
  PROVE  DecisionsInvariant'
<1>1. ASSUME blk'.id = blk.id, LedgerGrows, Len(ledger') = Len(ledger), decisions' = decisions,
             Live' => Live /\ blk.updated <= blk'.updated
      PROVE  DecisionsInvariant'
  <2>1. RowsInTime'
    BY <1>1, RowsStayInTime DEF DecisionsInvariant
  <2>2. \A d : DecisionFits(d) => DecisionFits(d)'
    BY <1>1, DecisionStillFits DEF ReportOfDwell
  <2> QED BY <1>1, <2>1, <2>2, DecisionsKept
<1>2. CASE UNCHANGED <<blk, ledger, decisions>>
  <2>1. LedgerGrows /\ blk.updated \in Nat
    BY <1>2 DEF LedgerGrows, DriftTyped, Block
  <2>2. Live' => Live /\ blk.updated <= blk'.updated
    BY <1>2, <2>1 DEF Live
  <2> QED BY <1>1, <1>2, <2>1, <2>2
<1>3. CASE IsOver(blk, occurred) /\ Finish("Completed", Deadline(blk)) /\ decisions' = decisions
  <2>1. Ends("Completed", Deadline(blk))
    BY <1>3, OverEnds
  <2>2. ~Live' /\ blk'.id = blk.id
        /\ ledger' = close_open_observation_at_reported_end(ledger, Deadline(blk))
    BY <1>3, <2>1, FinishedBlock
  <2>3. Deadline(blk) \in Nat
    BY <2>1 DEF Ends
  <2> QED BY <1>1, <1>3, <2>2, <2>3, BoundaryRows
<1>4. CASE blk.phase = "Active" /\ ~IsOver(blk, occurred) /\ ~SameRowOpen(cat)
              /\ Observes(cat, occurred, ObservedAt(occurred))
  BY <1>4, ReportDecides
<1> QED BY <1>2, <1>3, <1>4 DEF Observe

\* resolve_decision: the row it finds was appended after the decision was made.
LEMMA OutcomesFit ==
  ASSUME DriftTyped, DecisionsInvariant, ResolveOutcomes
  PROVE  DecisionsInvariant'
<1> DEFINE n == Len(decisions)
           due == {i \in unresolved_decisions(time) : decisions[i].block = blk.id}
<1>0. /\ IsSeq(decisions) /\ n \in Nat /\ DOMAIN decisions = 1..n
      /\ \A i \in 1..n : DecisionFits(decisions[i])
      /\ Len(ledger) \in Nat /\ ledger \in Seq(Observation) /\ OutcomeHorizon \in Nat
  BY DriftAssumption DEF DecisionsInvariant, IsSeq, DriftTyped
<1>1. /\ decisions' = [i \in 1..n |-> IF i \in due THEN resolve_decision(decisions[i])
                                      ELSE decisions[i]]
      /\ UNCHANGED <<user, blk, ledger>>
  BY <1>0 DEF ResolveOutcomes
<1> HIDE DEF due
<1>2. IsSeq(decisions') /\ Len(decisions') = n /\ DOMAIN decisions' = 1..n
  BY <1>0, <1>1, FunctionIsSeq
<1>3. ASSUME NEW i \in 1..n
      PROVE  /\ decisions'[i].block = decisions[i].block /\ decisions'[i].dwell = decisions[i].dwell
             /\ DecisionFits(decisions[i])'
  <2>0. DecisionFits(decisions[i])
    BY <1>0
  <2>1. CASE i \notin due
    <3>1. decisions'[i] = decisions[i]
      BY <1>1, <2>1
    <3> QED BY <1>1, <2>0, <3>1 DEF DecisionFits, LastRowIsOfDwell
  <2>2. CASE i \in due
    <3> DEFINE d == decisions[i]
               seen == observed_category_between(d.anchor, d.at, d.at + OutcomeHorizon)
    <3>1. decisions'[i] = [d EXCEPT !.outcome = IF seen THEN "seen" ELSE "unseen"]
      BY <1>1, <2>2 DEF resolve_decision
    <3>2. d.block = blk.id /\ d.at \in Nat /\ d.rows \in Nat /\ DOMAIN d = DecisionFields
      BY <2>0, <2>2 DEF DecisionFits, due
    <3>3. ASSUME seen
          PROVE  \E j \in (d.rows + 1)..Len(ledger) :
                    ledger[j].cat = d.anchor /\ ledger[j].at <= d.at + OutcomeHorizon
      <4>1. PICK j \in 1..Len(ledger) : /\ ledger[j].cat = d.anchor /\ d.at < ledger[j].at
                                        /\ ledger[j].at <= d.at + OutcomeHorizon
        BY <1>0, <3>3 DEF observed_category_between
      <4>2. ledger[j] \in Observation
        BY <1>0
      <4>3. ledger[j].at \in Nat
        BY <4>2 DEF Observation
      <4>4. ~(j \in 1..d.rows)
        BY <2>0, <3>2, <4>1, <4>3 DEF DecisionFits
      <4> QED BY <1>0, <3>2, <4>1, <4>4
    <3> HIDE DEF seen
    <3>4. /\ DOMAIN decisions'[i] = DecisionFields
          /\ decisions'[i].block = d.block /\ decisions'[i].dwell = d.dwell
          /\ decisions'[i].at = d.at /\ decisions'[i].rows = d.rows
          /\ decisions'[i].anchor = d.anchor
          /\ decisions'[i].outcome = "seen" => seen
      BY <3>1, <3>2 DEF DecisionFields
    <3> QED BY <1>1, <2>0, <3>3, <3>4 DEF DecisionFits, LastRowIsOfDwell
  <2> QED BY <2>1, <2>2
<1>4. DecidedOnce'
  BY <1>0, <1>2, <1>3 DEF DecisionsInvariant, DecidedOnce
<1>5. RowsInTime'
  BY <1>1 DEF DecisionsInvariant, RowsInTime, Live
<1> QED BY <1>2, <1>3, <1>4, <1>5 DEF DecisionsInvariant, IsSeq

LEMMA InitDecisions == DriftInit => DecisionsInvariant
<1> SUFFICES ASSUME DriftInit PROVE DecisionsInvariant
  OBVIOUS
<1>1. decisions = <<>> /\ ledger = <<>>
  BY DEF DriftInit
<1>2. 1..Len(decisions) = {} /\ DOMAIN decisions = {} /\ 1..Len(ledger) = {}
  BY <1>1
<1>3. IsSeq(decisions)
  BY <1>1 DEF IsSeq
<1> QED BY <1>2, <1>3 DEF DecisionsInvariant, RowsInTime, DecidedOnce

LEMMA NextDecisions ==
  DriftTyped /\ DriftTyped' /\ BlockClock /\ DecisionsInvariant /\ [DriftNext]_driftVars
      => DecisionsInvariant'
<1> SUFFICES ASSUME DriftTyped, DriftTyped', BlockClock, DecisionsInvariant, [DriftNext]_driftVars
             PROVE  DecisionsInvariant'
  OBVIOUS
<1>0. /\ blk \in Block /\ time \in Nat /\ user.at \in Nat /\ user.at <= time /\ user.n \in Nat
      /\ blk.updated \in Nat /\ Deadline(blk) \in Nat /\ Len(ledger) \in Nat
  BY DeadlineFacts DEF DriftTyped, Block, BlockClock
<1>1. ASSUME SameDwell, user'.is = user.is \/ user.is # "left",
             blk'.id = blk.id, LedgerGrows, Len(ledger') = Len(ledger), decisions' = decisions,
             Live' => Live /\ blk.updated <= blk'.updated
      PROVE  DecisionsInvariant'
  <2>1. RowsInTime'
    BY <1>1, RowsStayInTime DEF DecisionsInvariant
  <2>2. \A d : DecisionFits(d) => DecisionFits(d)'
    BY <1>1, DecisionStillFits
  <2> QED BY <1>1, <2>1, <2>2, DecisionsKept
<1>2. ASSUME UNCHANGED <<blk, ledger, decisions>>, SameDwell, user'.is = user.is \/ user.is # "left"
      PROVE  DecisionsInvariant'
  <2>1. LedgerGrows /\ (Live' => Live /\ blk.updated <= blk'.updated)
    BY <1>0, <1>2 DEF LedgerGrows, Live
  <2> QED BY <1>1, <1>2, <2>1
<1>3. ASSUME UNCHANGED <<user, decisions>>, NEW phase, NEW ended, Ends(phase, ended),
             Finish(phase, ended)
      PROVE  DecisionsInvariant'
  <2>1. ended \in Nat
    BY <1>3 DEF Ends
  <2>2. /\ ~Live' /\ blk'.id = blk.id
        /\ ledger' = close_open_observation_at_reported_end(ledger, ended)
    BY <1>3, FinishedBlock
  <2> QED BY <1>1, <1>3, <2>1, <2>2, BoundaryRows DEF SameDwell
<1>4. ASSUME UNCHANGED <<user, decisions>>, NEW boundary \in Nat,
             ledger' = close_open_observation_at_reported_end(ledger, boundary), Live,
             blk'.id = blk.id, blk.updated <= blk'.updated
      PROVE  DecisionsInvariant'
  BY <1>1, <1>4, BoundaryRows DEF SameDwell
<1>6. CASE UNCHANGED driftVars
  BY <1>2, <1>6 DEF driftVars, SameDwell
<1>7. CASE StartBlock
  <2>1. ledger' = <<>> /\ blk'.id = blk.id + 1 /\ user' = user /\ decisions' = decisions
    BY <1>7, BegunBlock DEF StartBlock
  <2>2. RowsInTime'
    <3>1. 1..Len(ledger') = {}
      BY <2>1
    <3> QED BY <3>1 DEF RowsInTime
  <2> QED BY <2>1, <2>2, DecisionsKept, NewBlockFits
<1>8. CASE PauseBlock
  <2>0. blk.phase = "Active" /\ UNCHANGED <<user, decisions>>
    BY <1>8 DEF PauseBlock
  <2>1. CASE IsOver(blk, time)
    <3>1. Finish("Completed", Deadline(blk))
      BY <1>8, <2>1 DEF PauseBlock
    <3> QED BY <1>0, <1>3, <2>0, <2>1, <3>1, OverEnds
  <2>2. CASE ~IsOver(blk, time)
    <3>1. /\ blk' = [blk EXCEPT !.phase = "Paused", !.paused = time, !.updated = time]
          /\ ledger' = close_open_observation_at_reported_end(ledger, time)
      BY <1>8, <2>0, <2>2, OnTime DEF PauseBlock
    <3>2. blk'.id = blk.id /\ blk'.updated = time /\ Live /\ blk.updated <= time
      BY <1>0, <2>0, <3>1 DEF Block, Live, BlockClock
    <3> QED BY <1>0, <1>4, <2>0, <3>1, <3>2
  <2> QED BY <2>1, <2>2
<1>9. CASE ResumeBlock
  <2>1. blk.phase = "Paused" /\ UNCHANGED <<user, decisions, ledger>>
    BY <1>9 DEF ResumeBlock
  <2>2. blk'.id = blk.id /\ blk.updated <= blk'.updated
    <3>1. blk'.id = blk.id /\ blk'.updated = Later(time, blk.updated)
      BY <1>9, ResumedFacts
    <3>2. blk.updated <= Later(time, blk.updated)
      BY <1>0, ClockFacts
    <3> QED BY <3>1, <3>2
  <2>3. LedgerGrows
    BY <1>0, <2>1 DEF LedgerGrows
  <2> QED BY <1>1, <2>1, <2>2, <2>3 DEF Live, SameDwell
<1>10. CASE EndBlock
  <2>1. UNCHANGED <<user, decisions>>
    BY <1>10 DEF EndBlock
  <2> QED BY <1>3, <1>10, <2>1, EndBlockEnds
<1>11. CASE RestartService
  <2>0. blk.phase = "Active" /\ UNCHANGED <<user, decisions>>
    BY <1>11 DEF RestartService
  <2>1. CASE IsOver(blk, time)
    <3>1. Finish("Expired", Deadline(blk))
      BY <1>11, <2>1 DEF RestartService
    <3> QED BY <1>0, <1>3, <2>0, <2>1, <3>1, OverEnds
  <2>2. CASE ~IsOver(blk, time)
    <3>1. /\ blk' = [blk EXCEPT !.updated = time]
          /\ ledger' = close_open_observation_at_reported_end(ledger, time)
      BY <1>11, <2>0, <2>2 DEF RestartService
    <3>2. blk'.id = blk.id /\ blk'.updated = time /\ Live /\ blk.updated <= time
      BY <1>0, <2>0, <3>1 DEF Block, Live, BlockClock
    <3> QED BY <1>0, <1>4, <2>0, <3>1, <3>2
  <2> QED BY <2>1, <2>2
<1>12. ASSUME NEW answer \in Replies, ReportInterventionOutcome(answer) PROVE DecisionsInvariant'
  BY <1>2, <1>12 DEF ReportInterventionOutcome, SameDwell
<1>13. CASE CardSeen \/ ResetDemotion
  BY <1>2, <1>13 DEF CardSeen, ResetDemotion, SameDwell
<1>14. CASE ResolveOutcomes
  BY <1>14, OutcomesFit
<1>15. CASE StoreDwell
  <2>1. UNCHANGED <<blk, ledger, decisions>> /\ user.is = "in" /\ user' = [user EXCEPT !.is = "stored"]
    BY <1>15 DEF StoreDwell
  <2>2. SameDwell
    BY <2>1 DEF DriftTyped, SameDwell
  <2> QED BY <1>2, <2>1, <2>2
<1>16. CASE LeaveDwell
  <2>1. user.is = "stored" /\ user' = [user EXCEPT !.is = "left"] /\ Observe(user.cat, user.at)
    BY <1>16 DEF LeaveDwell
  <2>2. ReportOfDwell(user.cat, user.at)
    BY <2>1 DEF DriftTyped, SameDwell, ReportOfDwell
  <2> QED BY <1>0, <2>1, <2>2, ReportKeepsDecisions
<1>17. ASSUME NEW cat \in Evidence, BeginDwell(cat) PROVE DecisionsInvariant'
  <2>1. user' = [n |-> user.n + 1, cat |-> cat, at |-> time, is |-> "in"]
        /\ (Observe(cat, time) \/ UNCHANGED <<blk, ledger, decisions>>)
    BY <1>17 DEF BeginDwell
  <2>2. ReportOfDwell(cat, time) /\ user'.n = user.n + 1
    BY <2>1 DEF ReportOfDwell
  <2>3. ASSUME Observe(cat, time) PROVE DecisionsInvariant'
    BY <1>0, <2>2, <2>3, ReportKeepsDecisions
  <2>4. ASSUME UNCHANGED <<blk, ledger, decisions>> PROVE DecisionsInvariant'
    <3>1. LedgerGrows
      BY <1>0, <2>4 DEF LedgerGrows
    <3>2. \A d : DecisionFits(d) => DecisionFits(d)'
      BY <2>2, <2>4, <3>1, DecisionStillFits
    <3>3. RowsInTime'
      BY <2>4 DEF DecisionsInvariant, RowsInTime, Live
    <3> QED BY <2>4, <3>2, <3>3, DecisionsKept
  <2> QED BY <2>1, <2>3, <2>4
<1>18. CASE PassTime
  BY <1>2, <1>18 DEF PassTime, SameDwell
<1> QED BY <1>6, <1>7, <1>8, <1>9, <1>10, <1>11, <1>12, <1>13, <1>14, <1>15, <1>16, <1>17, <1>18
        DEF DriftNext

\* resolve_due_decision_outcomes: an outcome "seen" is of a row that the user's
\* coming back added after the decision, and within the horizon.
THEOREM ReturnsStayLater == DriftSpec => []ReturnsAreLater
<1>1. DriftTyped /\ DecisionsInvariant => ReturnsAreLater
  <2> SUFFICES ASSUME DriftTyped, DecisionsInvariant, NEW i \in DOMAIN decisions,
                      decisions[i].outcome = "seen", decisions[i].block = blk.id
               PROVE  \E j \in (decisions[i].rows + 1)..Len(ledger) :
                          /\ ledger[j].cat = decisions[i].anchor
                          /\ ledger[j].at <= decisions[i].at + OutcomeHorizon
    BY DEF ReturnsAreLater
  <2>1. i \in 1..Len(decisions)
    BY DEF DecisionsInvariant, IsSeq
  <2>2. DecisionFits(decisions[i])
    BY <2>1 DEF DecisionsInvariant
  <2> QED BY <2>2 DEF DecisionFits
<1> QED BY <1>1, InitDriftTypes, NextDriftTypes, InitLedger, NextBlockClock, InitDecisions,
           NextDecisions, PTL DEF DriftSpec

----------------------------------------------------------------------------
(* The offers.                                                              *)

OfferFields == {"block", "at", "anchor", "outcome", "outcomeAt", "salience", "seen"}

OfferIsWhole(o) ==
    /\ DOMAIN o = OfferFields /\ o.at \in Nat
    /\ o.outcome # "offered" => o.outcomeAt \in Nat

\* Only the last offer can wait for its answer, and the block it is of goes on.
OnePending ==
    \A i \in 1..Len(offered) :
        offered[i].outcome = "offered" => i = Len(offered) /\ offered[i].block = blk.id /\ Live

OffersInvariant ==
    /\ IsSeq(offered) /\ OnePending /\ CooldownIsServed
    /\ \A i \in 1..Len(offered) : OfferIsWhole(offered[i])

\* The offer j, seen from where the run of refusals before it begins.
Served(os, j, i) ==
    (/\ \A k \in i..(j - 1) : os[k].outcome \in Negative
     /\ i = 1 \/ os[i - 1].outcome \notin Negative)
    => os[j].at >= os[j - 1].outcomeAt + Earlier(BackoffBase * 2 ^ (j - i - 1), BackoffMax)

LEMMA ServedIsAll ==
  CooldownIsServed <=> \A j \in DOMAIN offered : \A i \in 1..(j - 1) : Served(offered, j, i)
BY DEF CooldownIsServed, Served

\* With no offer waiting, the refusals that the gate counts are the run that
\* ends with the last offer.
LEMMA RefusalsFacts ==
  ASSUME NEW os, IsSeq(os), \A k \in 1..Len(os) : os[k].outcome # "offered",
         NEW i \in 1..Len(os), \A k \in i..Len(os) : os[k].outcome \in Negative,
         i = 1 \/ os[i - 1].outcome \notin Negative
  PROVE  Streak(os) = Len(os) - i + 1 /\ LastRefused(os) = os[Len(os)].outcomeAt
<1>0. Len(os) \in Nat /\ DOMAIN os = 1..Len(os) /\ i \in 1..Len(os)
  BY DEF IsSeq
<1>1. Refusals(os) = i..Len(os)
  <2>1. ASSUME NEW j \in i..Len(os) PROVE j \in Refusals(os)
    BY <1>0 DEF Refusals
  <2>2. ASSUME NEW j \in Refusals(os) PROVE j \in i..Len(os)
    <3>1. j \in 1..Len(os) /\ \A k \in j..Len(os) : os[k].outcome \in Negative \cup {"offered"}
      BY <1>0 DEF Refusals
    <3>2. ASSUME j < i PROVE FALSE
      <4>1. i - 1 \in j..Len(os) /\ i - 1 \in 1..Len(os)
        BY <1>0, <3>1, <3>2
      <4>2. os[i - 1].outcome \in Negative \cup {"offered"} /\ os[i - 1].outcome # "offered"
        BY <3>1, <4>1
      <4> QED BY <1>0, <3>1, <3>2, <4>2
    <3> QED BY <1>0, <3>1, <3>2
  <2> QED BY <2>1, <2>2
<1>2. Cardinality(i..Len(os)) = Len(os) - i + 1
  BY <1>0, FS_Interval
<1>3. Max(i..Len(os)) = Len(os)
  <2> DEFINE S == i..Len(os)
  <2>1. S \subseteq 0..Len(os) /\ S # {} /\ Len(os) \in S /\ \A n \in S : n \in Nat /\ n <= Len(os)
    BY <1>0
  <2> HIDE DEF S
  <2>2. Max(S) \in S /\ \A n \in S : n <= Max(S)
    BY <1>0, <2>1, MaxFacts
  <2>3. Max(S) \in Nat /\ Max(S) <= Len(os) /\ Len(os) <= Max(S)
    BY <2>1, <2>2
  <2>4. Max(S) = Len(os)
    BY <1>0, <2>3
  <2> QED BY <2>4 DEF S
<1> QED BY <1>1, <1>2, <1>3 DEF Streak, LastRefused

\* The gates that come before a row is written.
LEMMA VerdictFacts ==
  ASSUME NEW b, NEW entries, NEW os, NEW dem, NEW now, NEW dnd,
         Verdict(b, entries, os, dem, now, dnd) \in Withheld \cup {"offered"}
  PROVE  ~HasOffer(os) /\ ~Suppressed(os, now)
<1>1. CASE HasOffer(os)
  BY <1>1 DEF Verdict, Withheld
<1>2. CASE ~HasOffer(os) /\ Suppressed(os, now)
  BY <1>2 DEF Verdict, Withheld
<1> QED BY <1>1, <1>2

LEMMA CooldownOver ==
  ASSUME NEW now \in Nat, NEW a \in Nat, NEW n \in Nat, n > 0, ~(now < a + Cooldown(n))
  PROVE  now >= a + Earlier(BackoffBase * 2 ^ (n - 1), BackoffMax)
BY DriftAssumption DEF Cooldown, Earlier

\* backoff_state: a row that clears the gate comes after the cooldown.
LEMMA GateServes ==
  ASSUME NEW os, IsSeq(os), \A k \in 1..Len(os) : os[k].outcome # "offered",
         \A k \in 1..Len(os) : os[k].outcomeAt \in Nat,
         NEW o, NEW now \in Nat, o.at = now, ~Suppressed(os, now), NEW i \in 1..Len(os)
  PROVE  Served(Append(os, o), Len(os) + 1, i)
<1> DEFINE T == Append(os, o)
<1>0. Len(os) \in Nat /\ i \in Nat /\ i >= 1 /\ i <= Len(os)
  BY DEF IsSeq
<1>1. T[Len(os) + 1] = o /\ \A k \in 1..Len(os) : T[k] = os[k]
  BY AppendFacts
<1> HIDE DEF T
<1> SUFFICES ASSUME \A k \in i..Len(os) : T[k].outcome \in Negative,
                    i = 1 \/ T[i - 1].outcome \notin Negative
             PROVE  now >= os[Len(os)].outcomeAt
                             + Earlier(BackoffBase * 2 ^ (Len(os) + 1 - i - 1), BackoffMax)
  <2>1. (Len(os) + 1) - 1 = Len(os) /\ Len(os) \in 1..Len(os)
    BY <1>0
  <2> QED BY <1>1, <2>1 DEF Served, T
<1>2. /\ \A k \in i..Len(os) : os[k].outcome \in Negative
      /\ i = 1 \/ os[i - 1].outcome \notin Negative
  <2>1. \A k \in i..Len(os) : k \in 1..Len(os)
    BY <1>0
  <2>2. i # 1 => i - 1 \in 1..Len(os)
    BY <1>0
  <2> QED BY <1>1, <2>1, <2>2
<1>3. Streak(os) = Len(os) - i + 1 /\ LastRefused(os) = os[Len(os)].outcomeAt
  BY <1>2, RefusalsFacts
<1>4. ~(now < os[Len(os)].outcomeAt + Cooldown(Len(os) - i + 1))
  BY <1>0, <1>3 DEF Suppressed
<1>5. (Len(os) - i + 1) - 1 = Len(os) + 1 - i - 1
  BY <1>0
<1>6. os[Len(os)].outcomeAt \in Nat /\ Len(os) - i + 1 \in Nat /\ Len(os) - i + 1 > 0
  BY <1>0
<1>7. now >= os[Len(os)].outcomeAt + Earlier(BackoffBase * 2 ^ ((Len(os) - i + 1) - 1), BackoffMax)
  BY <1>4, <1>6, CooldownOver
<1> QED BY <1>5, <1>7

\* An offer that is answered, or marked as seen, keeps its place and its time.
LEMMA OffersServed ==
  ASSUME OffersInvariant, Len(offered') = Len(offered), IsSeq(offered'),
         \A k \in 1..Len(offered) : offered'[k].at = offered[k].at,
         \A k \in 1..(Len(offered) - 1) : offered'[k] = offered[k]
  PROVE  CooldownIsServed'
<1>0. Len(offered) \in Nat /\ DOMAIN offered = 1..Len(offered) /\ DOMAIN offered' = 1..Len(offered)
  BY DEF OffersInvariant, IsSeq
<1>1. ASSUME NEW j \in 1..Len(offered), NEW i \in 1..(j - 1) PROVE Served(offered', j, i)
  <2>1. Served(offered, j, i)
    BY <1>0, ServedIsAll DEF OffersInvariant
  <2>2. /\ \A k \in i..(j - 1) : k \in 1..(Len(offered) - 1)
        /\ i # 1 => i - 1 \in 1..(Len(offered) - 1)
        /\ j - 1 \in 1..(Len(offered) - 1)
    BY <1>0
  <2>3. /\ \A k \in i..(j - 1) : offered'[k] = offered[k]
        /\ i # 1 => offered'[i - 1] = offered[i - 1]
        /\ offered'[j - 1] = offered[j - 1] /\ offered'[j].at = offered[j].at
    BY <2>2
  <2> QED BY <2>1, <2>3 DEF Served
<1> QED BY <1>0, <1>1 DEF CooldownIsServed, Served

LEMMA OffersStay ==
  ASSUME OffersInvariant, offered' = offered, blk'.id = blk.id, Live => Live'
  PROVE  OffersInvariant'
BY DEF OffersInvariant, OnePending, CooldownIsServed, IsSeq

\* Resolve: what it answers waited for its answer, and nothing waits afterwards.
LEMMA ResolveFacts ==
  ASSUME OffersInvariant, NEW outcome, NEW now \in Nat, outcome # "offered",
         offered' = Resolve(offered, outcome, now)
  PROVE  /\ IsSeq(offered') /\ CooldownIsServed' /\ Len(offered') = Len(offered)
         /\ \A i \in 1..Len(offered) : OfferIsWhole(offered'[i]) /\ offered'[i].outcome # "offered"
         /\ Pending(offered) \/ offered' = offered
<1> DEFINE n == Len(offered)
<1>0. /\ IsSeq(offered) /\ n \in Nat /\ DOMAIN offered = 1..n
      /\ \A i \in 1..n : OfferIsWhole(offered[i])
  BY DEF OffersInvariant, IsSeq
<1>1. CASE Pending(offered)
  <2>1. offered' = [offered EXCEPT ![n].outcome = outcome, ![n].outcomeAt = now]
    BY <1>1 DEF Resolve
  <2>2. n \in 1..n
    BY <1>0, <1>1 DEF Pending, HasOffer, OffersInvariant, IsSeq
  <2>3. offered' = [i \in 1..n |-> IF i = n
                       THEN [offered[n] EXCEPT !.outcome = outcome, !.outcomeAt = now]
                       ELSE offered[i]]
    BY <1>0, <2>1, <2>2
  <2>4. IsSeq(offered') /\ Len(offered') = n
    BY <1>0, <2>3, FunctionIsSeq
  <2>5. OfferIsWhole(offered[n]) /\ offered'[n] = [offered[n] EXCEPT !.outcome = outcome, !.outcomeAt = now]
    BY <1>0, <2>2, <2>3
  <2>6. /\ DOMAIN offered'[n] = OfferFields /\ offered'[n].at = offered[n].at
        /\ offered'[n].outcome = outcome /\ offered'[n].outcomeAt = now
    BY <2>5 DEF OfferIsWhole, OfferFields
  <2>7. OfferIsWhole(offered'[n]) /\ offered'[n].outcome # "offered"
    BY <2>5, <2>6 DEF OfferIsWhole
  <2>8. \A i \in 1..(n - 1) : i \in 1..n /\ i # n /\ offered'[i] = offered[i]
    BY <1>0, <2>3
  <2>9. ASSUME NEW i \in 1..n PROVE OfferIsWhole(offered'[i]) /\ offered'[i].outcome # "offered"
                                    /\ offered'[i].at = offered[i].at
    <3>1. CASE i = n
      BY <2>6, <2>7, <3>1
    <3>2. CASE i # n
      <4>1. offered'[i] = offered[i] /\ OfferIsWhole(offered[i]) /\ offered[i].outcome # "offered"
        BY <1>0, <2>3, <3>2 DEF OffersInvariant, OnePending
      <4> QED BY <4>1
    <3> QED BY <3>1, <3>2
  <2> QED BY <1>1, <2>4, <2>8, <2>9, OffersServed
<1>2. CASE ~Pending(offered)
  <2>1. offered' = offered
    BY <1>2 DEF Resolve
  <2>2. ASSUME NEW i \in 1..n, offered[i].outcome = "offered" PROVE FALSE
    <3>1. i = n /\ offered[n].block = blk.id
      BY <2>2 DEF OffersInvariant, OnePending
    <3>2. offered # <<>> /\ Last(offered) = offered[n]
      BY <1>0, <3>1 DEF Last
    <3> QED BY <1>2, <2>2, <3>1, <3>2 DEF Pending, HasOffer
  <2> QED BY <1>0, <2>1, <2>2 DEF OffersInvariant, CooldownIsServed, IsSeq
<1> QED BY <1>1, <1>2

LEMMA ResolvedOffers ==
  ASSUME OffersInvariant, NEW outcome, NEW now \in Nat, outcome # "offered",
         offered' = Resolve(offered, outcome, now)
  PROVE  OffersInvariant'
<1>1. /\ IsSeq(offered') /\ CooldownIsServed' /\ Len(offered') = Len(offered)
      /\ \A i \in 1..Len(offered) : OfferIsWhole(offered'[i]) /\ offered'[i].outcome # "offered"
  BY ResolveFacts
<1> QED BY <1>1 DEF OffersInvariant, OnePending, OfferIsWhole, IsSeq

\* No offer waits for its answer when the block has none.
LEMMA NoneWaits ==
  ASSUME OffersInvariant, ~HasOffer(offered)
  PROVE  \A i \in 1..Len(offered) : offered[i].outcome # "offered"
<1> SUFFICES ASSUME NEW i \in 1..Len(offered), offered[i].outcome = "offered" PROVE FALSE
  OBVIOUS
<1>1. i = Len(offered) /\ offered[Len(offered)].block = blk.id
  BY DEF OffersInvariant, OnePending
<1>2. offered # <<>> /\ Last(offered) = offered[Len(offered)]
  BY <1>1 DEF Last, OffersInvariant, IsSeq
<1> QED BY <1>1, <1>2 DEF HasOffer

LEMMA RecordedOffer ==
  ASSUME OffersInvariant, ~HasOffer(offered), NEW now \in Nat, ~Suppressed(offered, now),
         NEW o, DOMAIN o = OfferFields, o.at = now, o.block = blk.id,
         o.outcome # "offered" => o.outcomeAt \in Nat,
         offered' = Append(offered, o), blk'.id = blk.id, Live'
  PROVE  OffersInvariant'
<1> DEFINE n == Len(offered)
<1>0. /\ IsSeq(offered) /\ n \in Nat /\ DOMAIN offered = 1..n
      /\ \A i \in 1..n : OfferIsWhole(offered[i]) /\ offered[i].outcome # "offered"
      /\ \A i \in 1..n : offered[i].outcomeAt \in Nat
  BY NoneWaits DEF OffersInvariant, IsSeq, OfferIsWhole
<1>1. /\ IsSeq(offered') /\ Len(offered') = n + 1 /\ offered'[n + 1] = o
      /\ \A i \in 1..n : offered'[i] = offered[i]
      /\ DOMAIN offered' = 1..(n + 1)
  BY <1>0, AppendFacts
<1>2. OfferIsWhole(o)
  BY DEF OfferIsWhole
<1>3. \A i \in 1..(n + 1) : OfferIsWhole(offered'[i])
  BY <1>0, <1>1, <1>2
<1>4. OnePending'
  BY <1>0, <1>1 DEF OnePending
<1>5. ASSUME NEW j \in 1..(n + 1), NEW i \in 1..(j - 1) PROVE Served(offered', j, i)
  <2>1. CASE j = n + 1
    <3>1. i \in 1..n
      BY <1>0, <2>1
    <3>2. Served(Append(offered, o), n + 1, i)
      BY <1>0, <3>1, GateServes
    <3> QED BY <2>1, <3>2
  <2>2. CASE j \in 1..n
    <3>1. Served(offered, j, i)
      BY <1>0, <2>2, ServedIsAll DEF OffersInvariant
    <3>2. /\ \A k \in i..(j - 1) : k \in 1..n
          /\ i # 1 => i - 1 \in 1..n
          /\ j - 1 \in 1..n
      BY <1>0, <2>2
    <3>3. /\ \A k \in i..(j - 1) : offered'[k] = offered[k]
          /\ i # 1 => offered'[i - 1] = offered[i - 1]
          /\ offered'[j - 1] = offered[j - 1] /\ offered'[j] = offered[j]
      BY <1>1, <2>2, <3>2
    <3> QED BY <3>1, <3>3 DEF Served
  <2> QED BY <1>0, <2>1, <2>2
<1>6. CooldownIsServed'
  BY <1>1, <1>5 DEF CooldownIsServed, Served
<1> QED BY <1>1, <1>3, <1>4, <1>6 DEF OffersInvariant, IsSeq, OfferIsWhole

\* record_return_if_pending leaves the block its offer.
LEMMA ReturnedHasOffer ==
  ASSUME OffersInvariant, HasOffer(offered), NEW cat, NEW now
  PROVE  HasOffer(Returned(offered, cat, now))
<1> DEFINE n == Len(offered)
           back == Resolve(offered, "returned", now)
<1>0. IsSeq(offered) /\ n \in 1..n /\ DOMAIN offered = 1..n /\ OfferIsWhole(offered[n])
  BY DEF OffersInvariant, IsSeq, HasOffer
<1>1. CASE Pending(offered)
  <2>1. back = [i \in 1..n |-> IF i = n
                  THEN [offered[n] EXCEPT !.outcome = "returned", !.outcomeAt = now]
                  ELSE offered[i]]
    BY <1>0, <1>1 DEF Resolve
  <2> HIDE DEF back
  <2>2. IsSeq(back) /\ Len(back) = n /\ back[n].block = offered[n].block
    <3>1. n \in Nat /\ DOMAIN back = 1..n /\ back = [i \in 1..n |-> back[i]]
      BY <1>0, <2>1
    <3>2. back[n] = [offered[n] EXCEPT !.outcome = "returned", !.outcomeAt = now]
      BY <1>0, <2>1
    <3>3. back[n].block = offered[n].block
      BY <1>0, <3>2 DEF OfferIsWhole, OfferFields
    <3>4. IsSeq(back) /\ Len(back) = n
      BY <3>1, FunctionIsSeq
    <3> QED BY <3>3, <3>4
  <2>3. back # <<>> /\ Last(back) = back[n] /\ Last(offered) = offered[n]
    BY <1>0, <2>2 DEF Last
  <2>4. HasOffer(back)
    BY <2>2, <2>3 DEF HasOffer
  <2> QED BY <2>4 DEF Returned, back
<1>2. CASE ~Pending(offered)
  BY <1>2 DEF Returned
<1> QED BY <1>1, <1>2

LEMMA ReportOffers ==
  ASSUME DriftTyped, BlockClock, OffersInvariant, NEW cat, NEW occurred \in Nat,
         occurred <= time, blk.phase = "Active", ~IsOver(blk, occurred),
         Observes(cat, occurred, ObservedAt(occurred))
  PROVE  OffersInvariant'
<1> DEFINE now == Later(occurred, blk.updated)
           back == Returned(offered, cat, now)
<1>1. ObservedAt(occurred) = now /\ now \in Nat /\ blk' = [blk EXCEPT !.updated = now]
  BY ObservesFacts
<1> HIDE DEF now
<1>2. blk'.id = blk.id /\ blk'.phase = "Active" /\ Live /\ Live'
  BY <1>1 DEF DriftTyped, Block, Live
<1>3. CASE offered' = offered
  BY <1>2, <1>3, OffersStay
<1>4. CASE offered' = Resolve(offered, "returned", now)
  BY <1>1, <1>4, ResolvedOffers
<1>5. ASSUME NEW entries, NEW dem, NEW dnd, NEW v,
             v = Verdict(blk, entries, back, dem, now, dnd), offered' = Records(back, v, entries, now)
      PROVE  OffersInvariant'
  <2>1. CASE v \notin Withheld \cup {"offered"}
    <3>1. offered' = back
      BY <1>5, <2>1 DEF Records
    <3> QED BY <1>3, <1>4, <3>1 DEF Returned
  <2>2. CASE v \in Withheld \cup {"offered"}
    <3>1. ~HasOffer(back) /\ ~Suppressed(back, now)
      BY <1>5, <2>2, VerdictFacts
    <3>2. ~HasOffer(offered)
      BY <3>1, ReturnedHasOffer
    <3>3. back = offered
      BY <3>2 DEF Returned, Pending
    <3>4. offered' = record_intervention(offered, v, dominant_category(entries), now)
      BY <1>5, <2>2, <3>3 DEF Records
    <3>5. PICK o : /\ offered' = Append(offered, o) /\ DOMAIN o = OfferFields
                   /\ o.at = now /\ o.block = blk.id /\ o.outcome = v
                   /\ o.outcomeAt = IF v = "offered" THEN Absent ELSE now
      BY <3>4 DEF record_intervention, OfferFields
    <3> QED BY <1>1, <1>2, <3>1, <3>2, <3>3, <3>5, RecordedOffer
  <2> QED BY <2>1, <2>2
<1>6. \/ offered' = offered
      \/ \E entries, dem, dnd, v :
            v = Verdict(blk, entries, back, dem, now, dnd) /\ offered' = Records(back, v, entries, now)
  BY <1>1 DEF Observes
<1> QED BY <1>3, <1>5, <1>6

LEMMA ReportKeepsOffers ==
  ASSUME DriftTyped, BlockClock, OffersInvariant, NEW cat, NEW occurred \in Nat,
         occurred <= time, Observe(cat, occurred)
  PROVE  OffersInvariant'
<1>1. CASE UNCHANGED <<blk, offered>>
  BY <1>1, OffersStay DEF Live
<1>2. CASE IsOver(blk, occurred) /\ Finish("Completed", Deadline(blk))
  BY <1>2, DeadlineFacts, ResolvedOffers DEF Finish, DriftTyped
<1>3. CASE blk.phase = "Active" /\ ~IsOver(blk, occurred)
              /\ Observes(cat, occurred, ObservedAt(occurred))
  BY <1>3, ReportOffers
<1> QED BY <1>1, <1>2, <1>3 DEF Observe

LEMMA SeenOffer ==
  ASSUME OffersInvariant, HasOffer(offered), offered' = mark_intervention_card_seen(offered),
         blk' = blk
  PROVE  OffersInvariant'
<1> DEFINE n == Len(offered)
<1>0. /\ IsSeq(offered) /\ n \in 1..n /\ n \in Nat /\ DOMAIN offered = 1..n
      /\ \A i \in 1..n : OfferIsWhole(offered[i])
  BY DEF OffersInvariant, IsSeq, HasOffer
<1>1. offered' = [i \in 1..n |-> IF i = n THEN [offered[n] EXCEPT !.seen = TRUE] ELSE offered[i]]
  BY <1>0 DEF mark_intervention_card_seen
<1>2. IsSeq(offered') /\ Len(offered') = n
  BY <1>0, <1>1, FunctionIsSeq
<1>3. offered'[n] = [offered[n] EXCEPT !.seen = TRUE] /\ OfferIsWhole(offered[n])
  BY <1>0, <1>1
<1>4. /\ DOMAIN offered'[n] = OfferFields /\ offered'[n].at = offered[n].at
      /\ offered'[n].outcome = offered[n].outcome /\ offered'[n].outcomeAt = offered[n].outcomeAt
      /\ offered'[n].block = offered[n].block
  BY <1>3 DEF OfferIsWhole, OfferFields
<1>5. \A i \in 1..(n - 1) : i \in 1..n /\ i # n /\ offered'[i] = offered[i]
  BY <1>0, <1>1
<1>6. ASSUME NEW i \in 1..n
      PROVE  /\ OfferIsWhole(offered'[i]) /\ offered'[i].at = offered[i].at
             /\ offered'[i].outcome = offered[i].outcome /\ offered'[i].block = offered[i].block
  <2>1. CASE i = n
    BY <1>3, <1>4, <2>1 DEF OfferIsWhole
  <2>2. CASE i # n
    BY <1>0, <1>1, <2>2
  <2> QED BY <2>1, <2>2
<1>7. CooldownIsServed'
  BY <1>2, <1>5, <1>6, OffersServed
<1>8. OnePending'
  BY <1>2, <1>6 DEF OffersInvariant, OnePending, Live
<1> QED BY <1>2, <1>6, <1>7, <1>8 DEF OffersInvariant, IsSeq, OfferIsWhole

LEMMA InitOffers == DriftInit => OffersInvariant
<1> SUFFICES ASSUME DriftInit PROVE OffersInvariant
  OBVIOUS
<1>1. offered = <<>>
  BY DEF DriftInit
<1>2. 1..Len(offered) = {} /\ DOMAIN offered = {} /\ IsSeq(offered)
  BY <1>1 DEF IsSeq
<1> QED BY <1>2 DEF OffersInvariant, OnePending, CooldownIsServed

LEMMA NextOffers ==
  DriftTyped /\ DriftTyped' /\ BlockClock /\ OffersInvariant /\ [DriftNext]_driftVars
      => OffersInvariant'
<1> SUFFICES ASSUME DriftTyped, DriftTyped', BlockClock, OffersInvariant, [DriftNext]_driftVars
             PROVE  OffersInvariant'
  OBVIOUS
<1>0. blk \in Block /\ time \in Nat /\ user.at \in Nat /\ user.at <= time /\ Deadline(blk) \in Nat
  BY DeadlineFacts DEF DriftTyped, BlockClock
<1>1. ASSUME UNCHANGED <<blk, offered>> PROVE OffersInvariant'
  BY <1>1, OffersStay DEF Live
<1>2. ASSUME NEW phase, NEW ended \in Nat, Finish(phase, ended) PROVE OffersInvariant'
  BY <1>2, ResolvedOffers DEF Finish
<1>6. CASE UNCHANGED driftVars
  BY <1>1, <1>6 DEF driftVars
<1>7. CASE StartBlock
  <2>1. ~Live /\ offered' = offered
    BY <1>7 DEF StartBlock, Live
  <2>2. \A i \in 1..Len(offered) : offered[i].outcome # "offered"
    BY <2>1 DEF OffersInvariant, OnePending
  <2> QED BY <2>1, <2>2 DEF OffersInvariant, OnePending, CooldownIsServed, IsSeq
<1>8. CASE PauseBlock
  <2>1. CASE IsOver(blk, time)
    BY <1>0, <1>2, <1>8, <2>1 DEF PauseBlock
  <2>2. CASE ~IsOver(blk, time)
    <3>1. offered' = offered /\ blk'.id = blk.id /\ blk'.phase = "Paused"
      BY <1>0, <1>8, <2>2 DEF PauseBlock, Block
    <3> QED BY <3>1, OffersStay DEF Live
  <2> QED BY <2>1, <2>2
<1>9. CASE ResumeBlock
  <2>1. offered' = offered /\ blk'.id = blk.id /\ blk'.phase = "Active"
    BY <1>9, ResumedFacts DEF ResumeBlock
  <2> QED BY <2>1, OffersStay DEF Live
<1>10. CASE EndBlock
  <2>1. PICK phase, ended : Ends(phase, ended) /\ Finish(phase, ended)
    BY <1>10, EndBlockEnds
  <2> QED BY <1>2, <2>1 DEF Ends
<1>11. CASE RestartService
  <2>1. CASE IsOver(blk, time)
    BY <1>0, <1>2, <1>11, <2>1 DEF RestartService
  <2>2. CASE ~IsOver(blk, time)
    <3>1. offered' = offered /\ blk'.id = blk.id /\ blk'.phase = blk.phase
      BY <1>0, <1>11, <2>2 DEF RestartService, Block
    <3> QED BY <3>1, OffersStay DEF Live
  <2> QED BY <2>1, <2>2
<1>12. ASSUME NEW answer \in Replies, ReportInterventionOutcome(answer) PROVE OffersInvariant'
  <2>1. answer # "offered" /\ offered' = Resolve(offered, answer, time)
    BY <1>12, DriftAssumption DEF ReportInterventionOutcome
  <2> QED BY <1>0, <2>1, ResolvedOffers
<1>13. CASE CardSeen
  BY <1>13, SeenOffer DEF CardSeen
<1>14. CASE ResetDemotion \/ ResolveOutcomes \/ StoreDwell \/ PassTime
  BY <1>1, <1>14 DEF ResetDemotion, ResolveOutcomes, StoreDwell, PassTime
<1>15. CASE LeaveDwell
  BY <1>0, <1>15, ReportKeepsOffers DEF LeaveDwell
<1>16. ASSUME NEW cat \in Evidence, BeginDwell(cat) PROVE OffersInvariant'
  <2>1. Observe(cat, time) \/ UNCHANGED <<blk, offered>>
    BY <1>16 DEF BeginDwell
  <2>2. time <= time
    BY <1>0
  <2> QED BY <1>0, <1>1, <2>1, <2>2, ReportKeepsOffers
<1> QED BY <1>6, <1>7, <1>8, <1>9, <1>10, <1>11, <1>12, <1>13, <1>14, <1>15, <1>16 DEF DriftNext

\* evaluate_drift, backoff_state and continues_decided_dwell: one decision for
\* one dwell of a block, and none that is shown before the refusals are served.
THEOREM OffersStaySpaced == DriftSpec => []OffersAreSpaced
<1>1. DecisionsInvariant /\ OffersInvariant => OffersAreSpaced
  BY DEF DecisionsInvariant, OffersInvariant, OffersAreSpaced
<1> QED BY <1>1, InitDriftTypes, NextDriftTypes, InitLedger, NextBlockClock, InitDecisions,
           NextDecisions, InitOffers, NextOffers, PTL DEF DriftSpec

----------------------------------------------------------------------------
(* The coverage of a result.                                                *)

\* A block has run for no longer than its clock says, and for its plan at most.
RanInTime ==
    /\ blk.phase = "Active" =>
          Cardinality(ran) + blk.started + blk.total <= Earlier(time, Deadline(blk))
    /\ blk.phase = "Paused" => Cardinality(ran) + blk.started + blk.total <= blk.paused

CoverageInvariant == RanInTime /\ (result # Absent => ~Live /\ CoverageIsReal)

LEMMA RanFacts ==
  ASSUME DriftTyped
  PROVE  IsFiniteSet(ran) /\ Cardinality(ran) \in Nat
<1>1. time \in Nat /\ ran \subseteq 0..(time - 1)
  BY DEF DriftTyped
<1>2. IsFiniteSet(0..(time - 1))
  BY <1>1, FS_Interval
<1> QED BY <1>1, <1>2, FS_Subset, FS_CardinalityType

\* The ticks a result counts are those of confident dwells that the ledger holds.
LEMMA CoveredTicks ==
  ASSUME DriftTyped, BlockClock, LedgerInvariant, NEW phase, NEW ended,
         Ends(phase, ended), Finish(phase, ended)
  PROVE  LET entries == close_open_observation_at_reported_end(ledger, ended)
             reported == reported_dwells(blk.started, ended)
             ticks == merged_spans({d \in reported : is_confident(d.cat)}, blk.started, ended)
                \cap  merged_spans({r \in ToSet(entries) : ~IsOpen(r)}, blk.started, ended)
         IN  ticks \subseteq {t \in ran : is_confident(past[t + 1])}
<1> DEFINE entries == close_open_observation_at_reported_end(ledger, ended)
           reported == reported_dwells(blk.started, ended)
<1>0. /\ time \in Nat /\ raw \subseteq Dwell /\ ended \in Nat /\ blk.started \in Nat
      /\ \A d \in raw : DwellIsTrue(d)
  BY DEF DriftTyped, Block, Ends, LedgerInvariant, HistoryIsTrue
<1>1. ledger' = entries
  BY FinishedBlock
<1>2. /\ entries \in Seq(Observation) /\ Len(entries) = Len(ledger)
      /\ \A i \in 1..Len(entries) : ~IsOpen(entries[i]) /\ ClosedIsTrue(entries[i])
  <2>1. ledger \in Seq(Observation) /\ OneOpen(ledger)
    BY DEF DriftTyped
  <2>2. entries \in Seq(Observation) /\ Len(entries) = Len(ledger)
    BY <1>0, <2>1, BoundaryFacts
  <2>3. \A i \in 1..Len(ledger) : ~IsOpen(ledger'[i]) /\ ClosedIsTrue(ledger'[i])
    BY EndsIsTrue
  <2> QED BY <1>1, <2>2, <2>3
<1> HIDE DEF entries
<1> SUFFICES ASSUME NEW t \in merged_spans({d \in reported : is_confident(d.cat)}, blk.started, ended),
                    t \in merged_spans({r \in ToSet(entries) : ~IsOpen(r)}, blk.started, ended)
             PROVE  t \in ran /\ is_confident(past[t + 1])
  BY DEF entries
<1>3. PICK d \in raw : /\ is_confident(d.cat)
                       /\ t \in Span(Later(d.at, blk.started), Earlier(d.end, ended))
  BY DEF merged_spans, reported_dwells
<1>4. PICK r \in ToSet(entries) : t \in Span(Later(r.at, blk.started), Earlier(r.end, ended)) /\ ~IsOpen(r)
  BY DEF merged_spans
<1>5. PICK i \in 1..Len(entries) : r = entries[i]
  BY <1>2 DEF ToSet
<1>6. r.at \in Nat /\ r.end \in Nat /\ ClosedIsTrue(r)
  <2>1. r \in Observation
    BY <1>2, <1>5
  <2>2. r.at \in Nat /\ r.end \in Nat
    BY <1>4, <2>1 DEF Observation, IsOpen
  <2> QED BY <1>2, <1>5, <2>2
<1>7. d.at \in Nat /\ d.end \in Nat /\ DwellIsTrue(d)
  BY <1>0 DEF Dwell
<1>8. t \in Nat
  BY <1>3 DEF Span
<1>9. t \in ran
  <2>1. r.at <= Later(r.at, blk.started) /\ Earlier(r.end, ended) <= r.end
        /\ Later(r.at, blk.started) \in Nat /\ Earlier(r.end, ended) \in Nat
    BY <1>0, <1>6, ClockFacts
  <2>2. r.at <= t /\ t < r.end
    BY <1>4, <1>6, <1>8, <2>1 DEF Span
  <2> QED BY <1>6, <1>8, <2>2 DEF ClosedIsTrue
<1>10. past[t + 1] = d.cat
  <2>1. d.at <= Later(d.at, blk.started) /\ Earlier(d.end, ended) <= d.end
        /\ Later(d.at, blk.started) \in Nat /\ Earlier(d.end, ended) \in Nat
    BY <1>0, <1>7, ClockFacts
  <2>2. d.at <= t /\ t < d.end
    BY <1>3, <1>7, <1>8, <2>1 DEF Span
  <2>3. t \in 0..(time - 1)
    BY <1>9 DEF DriftTyped
  <2> QED BY <1>7, <2>2, <2>3 DEF DwellIsTrue
<1> QED BY <1>3, <1>9, <1>10

\* The time a result gives the block is the time it was running, at the least.
LEMMA ElapsedAtEnd ==
  ASSUME DriftTyped, BlockClock, RanInTime, NEW phase, NEW ended, Ends(phase, ended)
  PROVE  Cardinality(ran)
            <= ElapsedAt([blk EXCEPT !.phase = IF @ = "Paused" THEN @ ELSE "Active"], ended)
<1> DEFINE n == Cardinality(ran)
           b == [blk EXCEPT !.phase = IF @ = "Paused" THEN @ ELSE "Active"]
<1>0. /\ n \in Nat /\ time \in Nat /\ ended \in Nat /\ Deadline(blk) \in Nat
      /\ blk.started \in Nat /\ blk.total \in Nat /\ blk.updated \in Nat /\ blk.paused \in Nat
  BY RanFacts, DeadlineFacts DEF DriftTyped, Block, Ends
<1>1. b = blk
  <2>1. blk.phase \in {"Active", "Paused"}
    BY DEF Ends, Live
  <2> QED BY <2>1 DEF DriftTyped, Block
<1> DEFINE end == IF blk.phase = "Paused" THEN blk.paused ELSE Later(ended, blk.updated)
<1>2. ElapsedAt(b, ended) = Minus(Minus(end, blk.started), blk.total)
  BY <1>1 DEF ElapsedAt
<1> HIDE DEF n
<1>3. end \in Nat /\ n + blk.started + blk.total <= end
  <2>1. CASE blk.phase = "Paused"
    BY <1>0, <2>1 DEF RanInTime, n
  <2>2. CASE blk.phase = "Active"
    <3>1. n + blk.started + blk.total <= Earlier(time, Deadline(blk))
      BY <2>2 DEF RanInTime, n
    <3>2. Earlier(time, Deadline(blk)) \in Nat /\ Earlier(time, Deadline(blk)) <= time
          /\ Earlier(time, Deadline(blk)) <= Deadline(blk)
      BY <1>0, ClockFacts
    <3>3. Later(ended, blk.updated) \in Nat /\ ended <= Later(ended, blk.updated)
      BY <1>0, ClockFacts
    <3>4. ended = Deadline(blk) \/ ended = time
      BY <2>2 DEF Ends
    <3>5. n + blk.started + blk.total \in Nat
      BY <1>0
    <3>6. n + blk.started + blk.total <= ended
      BY <1>0, <3>1, <3>2, <3>4, <3>5
    <3>7. n + blk.started + blk.total <= Later(ended, blk.updated)
      BY <1>0, <3>3, <3>5, <3>6
    <3> QED BY <2>2, <3>3, <3>7
  <2> QED BY <2>1, <2>2 DEF Ends, Live
<1> HIDE DEF end
<1>4. n <= Minus(Minus(end, blk.started), blk.total)
  BY <1>0, <1>3 DEF Minus
<1> QED BY <1>2, <1>4 DEF n

LEMMA EndsCovered ==
  ASSUME DriftTyped, BlockClock, LedgerInvariant, CoverageInvariant, NEW phase, NEW ended,
         Ends(phase, ended), Finish(phase, ended), UNCHANGED <<past, ran>>
  PROVE  CoverageInvariant'
<1> DEFINE entries == close_open_observation_at_reported_end(ledger, ended)
           reported == reported_dwells(blk.started, ended)
           ticks == merged_spans({d \in reported : is_confident(d.cat)}, blk.started, ended)
              \cap  merged_spans({r \in ToSet(entries) : ~IsOpen(r)}, blk.started, ended)
           elapsed == ElapsedAt([blk EXCEPT !.phase = IF @ = "Paused" THEN @ ELSE "Active"], ended)
           confident == {t \in ran : is_confident(past[t + 1])}
<1>1. ticks \subseteq confident
  BY CoveredTicks
<1>2. Cardinality(ran) <= elapsed
  BY ElapsedAtEnd DEF CoverageInvariant
<1>3. result' = aggregate_result(entries, elapsed, Cardinality(ticks))
  BY DEF Finish, reported_coverage_seconds
<1> HIDE DEF ticks, entries, elapsed
<1>4. result'.covered = Cardinality(ticks) /\ result'.elapsed = elapsed
  BY <1>3 DEF aggregate_result
<1>5. /\ Cardinality(ticks) <= Cardinality(confident) /\ Cardinality(confident) <= Cardinality(ran)
      /\ Cardinality(ticks) \in Nat /\ Cardinality(confident) \in Nat /\ Cardinality(ran) \in Nat
  <2>1. confident \subseteq ran /\ IsFiniteSet(ran)
    BY RanFacts
  <2> HIDE DEF confident
  <2>2. IsFiniteSet(confident) /\ Cardinality(confident) <= Cardinality(ran)
    BY <2>1, FS_Subset
  <2>3. IsFiniteSet(ticks) /\ Cardinality(ticks) <= Cardinality(confident)
    BY <1>1, <2>2, FS_Subset
  <2> QED BY <2>1, <2>2, <2>3, FS_CardinalityType
<1>6. elapsed \in Nat
  <2>1. \A a, b \in Nat : Minus(a, b) \in Nat
    BY ClockFacts
  <2> QED BY ClockFacts DEF elapsed, ElapsedAt, DriftTyped, Block, Ends
<1>7. CoverageIsReal'
  BY <1>2, <1>4, <1>5, <1>6 DEF CoverageIsReal
<1>8. ~Live'
  BY FinishedBlock
<1> QED BY <1>7, <1>8 DEF CoverageInvariant, RanInTime, Live

LEMMA InitCoverage == DriftInit => CoverageInvariant
BY DEF DriftInit, Idle, CoverageInvariant, RanInTime, Live

\* The clock ticks: a block that is within its plan has run for one tick more.
LEMMA PassTimeCoverage ==
  ASSUME DriftTyped, BlockClock, CoverageInvariant, PassTime
  PROVE  CoverageInvariant'
<1>0. /\ time \in Nat /\ blk \in Block /\ Deadline(blk) \in Nat /\ ran \subseteq 0..(time - 1)
      /\ blk.started \in Nat /\ blk.total \in Nat /\ blk.paused \in Nat
      /\ IsFiniteSet(ran) /\ Cardinality(ran) \in Nat /\ past \in Seq(Evidence) /\ Len(past) = time
      /\ user.cat \in Evidence
  BY RanFacts, DeadlineFacts DEF DriftTyped, Block
<1>1. /\ time' = time + 1 /\ past' = Append(past, user.cat) /\ blk' = blk /\ result' = result
      /\ ran' = IF blk.phase = "Active" /\ time < Deadline(blk) THEN ran \cup {time} ELSE ran
  BY DEF PassTime
<1>2. Deadline(blk)' = Deadline(blk)
  BY <1>1 DEF Deadline
<1>3. RanInTime'
  <2>1. ASSUME blk.phase = "Paused"
        PROVE  Cardinality(ran') + blk.started + blk.total <= blk.paused
    BY <1>1, <2>1 DEF CoverageInvariant, RanInTime
  <2>2. ASSUME blk.phase = "Active"
        PROVE  Cardinality(ran') + blk.started + blk.total <= Earlier(time + 1, Deadline(blk))
    <3>1. Cardinality(ran) + blk.started + blk.total <= Earlier(time, Deadline(blk))
      BY <2>2 DEF CoverageInvariant, RanInTime
    <3>2. CASE time < Deadline(blk)
      <4>1. ran' = ran \cup {time} /\ time \notin ran
        BY <1>0, <1>1, <2>2, <3>2
      <4>2. Cardinality(ran') = Cardinality(ran) + 1
        BY <1>0, <4>1, FS_AddElement
      <4>3. Earlier(time, Deadline(blk)) = time /\ Earlier(time + 1, Deadline(blk)) = time + 1
        BY <1>0, <3>2 DEF Earlier
      <4> QED BY <1>0, <3>1, <4>2, <4>3
    <3>3. CASE ~(time < Deadline(blk))
      <4>1. ran' = ran
        BY <1>1, <3>3
      <4>2. Earlier(time, Deadline(blk)) = Earlier(time + 1, Deadline(blk))
        BY <1>0, <3>3 DEF Earlier
      <4> QED BY <3>1, <4>1, <4>2
    <3> QED BY <3>2, <3>3
  <2> QED BY <1>1, <1>2, <2>1, <2>2 DEF RanInTime
<1>4. ASSUME result # Absent PROVE ~Live' /\ CoverageIsReal'
  <2>1. ~Live /\ CoverageIsReal
    BY <1>4 DEF CoverageInvariant
  <2>2. ran' = ran
    BY <1>1, <2>1 DEF Live
  <2>3. \A t \in ran : past'[t + 1] = past[t + 1]
    <3> SUFFICES ASSUME NEW t \in ran PROVE past'[t + 1] = past[t + 1]
      OBVIOUS
    <3>1. t + 1 \in 1..Len(past)
      BY <1>0
    <3> QED BY <1>0, <1>1, <3>1
  <2>4. {t \in ran' : is_confident(past'[t + 1])} = {t \in ran : is_confident(past[t + 1])}
    BY <2>2, <2>3
  <2> QED BY <1>1, <2>1, <2>4 DEF CoverageIsReal, Live
<1> QED BY <1>1, <1>3, <1>4 DEF CoverageInvariant

LEMMA NextCoverage ==
  DriftTyped /\ DriftTyped' /\ BlockClock /\ LedgerInvariant /\ CoverageInvariant
    /\ [DriftNext]_driftVars => CoverageInvariant'
<1> SUFFICES ASSUME DriftTyped, DriftTyped', BlockClock, LedgerInvariant, CoverageInvariant,
                    [DriftNext]_driftVars
             PROVE  CoverageInvariant'
  OBVIOUS
<1>0. /\ blk \in Block /\ time \in Nat /\ user.at \in Nat /\ user.at <= time /\ Deadline(blk) \in Nat
      /\ blk.started \in Nat /\ blk.total \in Nat /\ blk.paused \in Nat /\ blk.updated \in Nat
      /\ Cardinality(ran) \in Nat /\ PlannedTicks \in Nat
      /\ Deadline(blk) = blk.started + blk.total + PlannedTicks
  BY RanFacts, DeadlineFacts, DriftAssumption DEF DriftTyped, Block, BlockClock
<1> DEFINE Ticks == Cardinality(ran) + blk.started + blk.total
\* A change of the block that leaves it going on, or as it was.
<1>1. ASSUME UNCHANGED <<time, past, ran, result>>, blk'.phase = blk.phase,
             blk'.started = blk.started, blk'.total = blk.total, blk'.paused = blk.paused
      PROVE  CoverageInvariant'
  BY <1>1 DEF CoverageInvariant, RanInTime, CoverageIsReal, Live, Deadline
<1>2. ASSUME UNCHANGED <<past, ran>>, NEW phase, NEW ended, Ends(phase, ended), Finish(phase, ended)
      PROVE  CoverageInvariant'
  BY <1>2, EndsCovered
<1>3. ASSUME NEW cat, NEW occurred \in Nat, occurred <= time, Observe(cat, occurred),
             UNCHANGED <<time, past, ran>>
      PROVE  CoverageInvariant'
  <2>1. CASE UNCHANGED <<blk, result>>
    BY <1>1, <1>3, <2>1
  <2>2. CASE IsOver(blk, occurred) /\ Finish("Completed", Deadline(blk))
    BY <1>2, <1>3, <2>2, OverEnds
  <2>3. CASE blk.phase = "Active" /\ ~IsOver(blk, occurred) /\ result' = result
                /\ Observes(cat, occurred, ObservedAt(occurred))
    <3>1. PICK now \in Nat : blk' = [blk EXCEPT !.updated = now]
      BY <1>3, <2>3, ObservesFacts
    <3> QED BY <1>0, <1>1, <1>3, <2>3, <3>1 DEF Block
  <2> QED BY <1>3, <2>1, <2>2, <2>3 DEF Observe
<1>6. CASE UNCHANGED driftVars
  BY <1>1, <1>6 DEF driftVars
<1>7. CASE StartBlock
  <2>1. /\ blk'.phase = "Active" /\ blk'.started = time /\ blk'.total = 0
        /\ result' = Absent /\ ran' = {} /\ time' = time
    BY <1>7, BegunBlock DEF StartBlock
  <2>2. Cardinality(ran') = 0
    BY <2>1, FS_EmptySet
  <2>3. Deadline(blk)' = time + PlannedTicks
    BY <1>0, <2>1 DEF Deadline
  <2>4. time <= Earlier(time', Deadline(blk)')
    BY <1>0, <2>1, <2>3 DEF Earlier
  <2>5. Cardinality(ran') + blk'.started + blk'.total = time
    BY <1>0, <2>1, <2>2
  <2> QED BY <2>1, <2>4, <2>5 DEF CoverageInvariant, RanInTime
<1>8. CASE PauseBlock
  <2>0. blk.phase = "Active" /\ UNCHANGED <<time, past, ran>>
    BY <1>8 DEF PauseBlock
  <2>1. CASE IsOver(blk, time)
    <3>1. Finish("Completed", Deadline(blk)) /\ time <= time
      BY <1>0, <1>8, <2>1 DEF PauseBlock
    <3> QED BY <1>0, <1>2, <2>0, <2>1, <3>1, OverEnds
  <2>2. CASE ~IsOver(blk, time)
    <3>1. /\ blk' = [blk EXCEPT !.phase = "Paused", !.paused = time, !.updated = time]
          /\ result' = result
      BY <1>8, <2>0, <2>2, OnTime DEF PauseBlock
    <3>2. /\ blk'.phase = "Paused" /\ blk'.paused = time
          /\ blk'.started = blk.started /\ blk'.total = blk.total
      BY <1>0, <3>1 DEF Block
    <3>3. Ticks <= Earlier(time, Deadline(blk)) /\ Earlier(time, Deadline(blk)) <= time
          /\ Earlier(time, Deadline(blk)) \in Nat
      BY <1>0, <2>0, ClockFacts DEF CoverageInvariant, RanInTime
    <3>4. Ticks <= time
      BY <1>0, <3>3
    <3>5. result = Absent
      BY <2>0 DEF CoverageInvariant, Live
    <3> QED BY <2>0, <3>1, <3>2, <3>4, <3>5 DEF CoverageInvariant, RanInTime
  <2> QED BY <2>1, <2>2
<1>9. CASE ResumeBlock
  <2>1. blk.phase = "Paused" /\ UNCHANGED <<time, past, ran, result>>
    BY <1>9 DEF ResumeBlock
  <2>2. blk.updated <= time /\ blk.paused <= blk.updated /\ blk.paused <= Deadline(blk)
    BY <2>1 DEF BlockClock, Live
  <2>3. Later(time, blk.updated) = time /\ Minus(time, blk.paused) = time - blk.paused
    <3>1. blk.paused <= time
      BY <1>0, <2>2
    <3> QED BY <1>0, <2>2, <3>1, LaterOfThese DEF Minus
  <2>4. /\ blk'.phase = "Active" /\ blk'.started = blk.started
        /\ blk'.total = blk.total + (time - blk.paused)
    BY <1>9, <2>3, ResumedFacts
  <2>5. Ticks <= blk.paused
    BY <2>1 DEF CoverageInvariant, RanInTime
  <2>6. Deadline(blk)' = blk.started + (blk.total + (time - blk.paused)) + PlannedTicks
    BY <1>0, <2>2, <2>4 DEF Deadline
  <2>7. Cardinality(ran) + blk.started + (blk.total + (time - blk.paused)) <= Earlier(time, Deadline(blk)')
    BY <1>0, <2>2, <2>5, <2>6 DEF Earlier
  <2>8. result = Absent
    BY <2>1 DEF CoverageInvariant, Live
  <2> QED BY <2>1, <2>4, <2>7, <2>8 DEF CoverageInvariant, RanInTime
<1>10. CASE EndBlock
  <2>1. UNCHANGED <<past, ran>>
    BY <1>10 DEF EndBlock
  <2> QED BY <1>2, <1>10, <2>1, EndBlockEnds
<1>11. CASE RestartService
  <2>0. blk.phase = "Active" /\ UNCHANGED <<time, past, ran>>
    BY <1>11 DEF RestartService
  <2>1. CASE IsOver(blk, time)
    <3>1. Finish("Expired", Deadline(blk)) /\ time <= time
      BY <1>0, <1>11, <2>1 DEF RestartService
    <3> QED BY <1>0, <1>2, <2>0, <2>1, <3>1, OverEnds
  <2>2. CASE ~IsOver(blk, time)
    <3>1. blk' = [blk EXCEPT !.updated = time] /\ result' = result
      BY <1>11, <2>2 DEF RestartService
    <3> QED BY <1>0, <1>1, <2>0, <3>1 DEF Block
  <2> QED BY <2>1, <2>2
<1>12. ASSUME NEW answer \in Replies, ReportInterventionOutcome(answer) PROVE CoverageInvariant'
  BY <1>1, <1>12 DEF ReportInterventionOutcome
<1>13. CASE CardSeen \/ ResetDemotion \/ ResolveOutcomes \/ StoreDwell
  BY <1>1, <1>13 DEF CardSeen, ResetDemotion, ResolveOutcomes, StoreDwell
<1>14. CASE LeaveDwell
  BY <1>0, <1>3, <1>14 DEF LeaveDwell
<1>15. ASSUME NEW cat \in Evidence, BeginDwell(cat) PROVE CoverageInvariant'
  <2>1. /\ UNCHANGED <<time, past, ran>> /\ time <= time
        /\ Observe(cat, time) \/ UNCHANGED <<blk, result>>
    BY <1>0, <1>15 DEF BeginDwell
  <2> QED BY <1>0, <1>1, <1>3, <2>1
<1>16. CASE PassTime
  BY <1>16, PassTimeCoverage
<1> QED BY <1>6, <1>7, <1>8, <1>9, <1>10, <1>11, <1>12, <1>13, <1>14, <1>15, <1>16 DEF DriftNext

\* reported_coverage_seconds, finish: a result covers no more than the time that
\* the user spent in confident categories while the block ran, nor its elapsed time.
THEOREM CoverageStaysReal == DriftSpec => []CoverageIsReal
<1>1. CoverageInvariant => CoverageIsReal
  BY DEF CoverageInvariant, CoverageIsReal
<1> QED BY <1>1, InitDriftTypes, NextDriftTypes, InitLedger, NextBlockClock, NextLedger,
           InitCoverage, NextCoverage, PTL DEF DriftSpec

\* What a block keeps as evidence, reports as covered and notes as a return was
\* measured while it ran, whatever reports are missing and wherever it is paused,
\* restarted or ended.
THEOREM ResultsStayMeasured == DriftSpec => []ResultsAreMeasured
<1>1. LedgerIsTrue /\ CoverageIsReal /\ ReturnsAreLater => ResultsAreMeasured
  BY DEF ResultsAreMeasured
<1> QED BY <1>1, LedgerStaysTrue, CoverageStaysReal, ReturnsStayLater, PTL

----------------------------------------------------------------------------
(* The shape of a result.                                                   *)

\* aggregate_result: in whatever order the categories follow one another, the
\* anchor is left as often as it is come back to, or once more.  By the length
\* of the sequence: the shortest one that breaks it would have a shorter one.
THEOREM DeparturesAreReturned ==
  ASSUME NEW cats, Len(cats) \in Nat, NEW anchor
  PROVE  /\ Returns(cats, anchor) <= Departures(cats, anchor)
         /\ Departures(cats, anchor) <= Returns(cats, anchor) + 1
<1> DEFINE left(i) == cats[i] # anchor /\ cats[i - 1] = anchor
           back(i) == /\ cats[i] = anchor /\ cats[i - 1] # anchor
                      /\ \E j \in 1..(i - 1) : cats[j] = anchor
           L(n) == {i \in 2..n : left(i)}
           B(n) == {i \in 2..n : back(i)}
           met(n) == \E j \in 1..n : cats[j] = anchor
           even(n) == IF met(n) /\ cats[n] # anchor
                      THEN Cardinality(L(n)) = Cardinality(B(n)) + 1
                      ELSE Cardinality(L(n)) = Cardinality(B(n))
           broken == {n \in Nat \ {0} : ~even(n)}
<1>1. ASSUME NEW n \in Nat
      PROVE  /\ IsFiniteSet(L(n)) /\ IsFiniteSet(B(n))
             /\ Cardinality(L(n)) \in Nat /\ Cardinality(B(n)) \in Nat
  <2>1. IsFiniteSet(2..n) /\ L(n) \subseteq 2..n /\ B(n) \subseteq 2..n
    BY FS_Interval
  <2> HIDE DEF L, B
  <2> QED BY <2>1, FS_Subset, FS_CardinalityType
<1>2. even(1)
  <2>1. L(1) = {} /\ B(1) = {}
    OBVIOUS
  <2>2. Cardinality(L(1)) = Cardinality(B(1))
    BY <2>1
  <2>3. met(1) <=> cats[1] = anchor
    OBVIOUS
  <2> HIDE DEF L, B, met
  <2> QED BY <2>2, <2>3
<1>3. ASSUME NEW n \in Nat \ {0}, even(n) PROVE even(n + 1)
  <2>1. L(n + 1) = IF left(n + 1) THEN L(n) \cup {n + 1} ELSE L(n)
    <3>1. 2..(n + 1) = (2..n) \cup {n + 1}
      OBVIOUS
    <3> HIDE DEF left
    <3> QED BY <3>1
  <2>2. B(n + 1) = IF back(n + 1) THEN B(n) \cup {n + 1} ELSE B(n)
    <3>1. 2..(n + 1) = (2..n) \cup {n + 1}
      OBVIOUS
    <3> HIDE DEF back
    <3> QED BY <3>1
  <2>3. n + 1 \notin L(n) /\ n + 1 \notin B(n)
    OBVIOUS
  <2>4. /\ left(n + 1) <=> cats[n + 1] # anchor /\ cats[n] = anchor
        /\ back(n + 1) <=> cats[n + 1] = anchor /\ cats[n] # anchor /\ met(n)
    <3>1. (n + 1) - 1 = n
      OBVIOUS
    <3> QED BY <3>1
  <2>5. /\ met(n + 1) <=> met(n) \/ cats[n + 1] = anchor
        /\ cats[n] = anchor => met(n)
    <3>1. 1..(n + 1) = (1..n) \cup {n + 1} /\ n \in 1..n
      OBVIOUS
    <3> QED BY <3>1
  <2> HIDE DEF L, B, met, left, back
  <2>6. Cardinality(L(n + 1)) = IF left(n + 1) THEN Cardinality(L(n)) + 1 ELSE Cardinality(L(n))
    BY <1>1, <2>1, <2>3, FS_AddElement
  <2>7. Cardinality(B(n + 1)) = IF back(n + 1) THEN Cardinality(B(n)) + 1 ELSE Cardinality(B(n))
    BY <1>1, <2>2, <2>3, FS_AddElement
  <2>8. Cardinality(L(n)) \in Nat /\ Cardinality(B(n)) \in Nat
    BY <1>1
  <2> QED BY <1>3, <2>4, <2>5, <2>6, <2>7, <2>8
<1> HIDE DEF even
<1>4. broken = {}
  <2> SUFFICES ASSUME broken # {} PROVE FALSE
    OBVIOUS
  <2>1. PICK m \in broken : \A n \in broken : m <= n
    BY LeastExists
  <2>2. m # 1
    BY <1>2, <2>1
  <2>3. m - 1 \in Nat \ {0} /\ m - 1 \notin broken /\ (m - 1) + 1 = m
    BY <2>1, <2>2
  <2>4. even(m - 1)
    BY <2>3
  <2>5. even((m - 1) + 1)
    BY <1>3, <2>3, <2>4
  <2> QED BY <2>1, <2>3, <2>5
<1>5. Departures(cats, anchor) = Cardinality(L(Len(cats)))
      /\ Returns(cats, anchor) = Cardinality(B(Len(cats)))
  BY DEF Departures, Returns
<1>6. CASE Len(cats) = 0
  <2>1. L(0) = {} /\ B(0) = {}
    OBVIOUS
  <2>2. Cardinality(L(0)) = 0 /\ Cardinality(B(0)) = 0
    BY <2>1, FS_EmptySet
  <2> QED BY <1>5, <1>6, <2>2
<1>7. CASE Len(cats) # 0
  <2>1. even(Len(cats))
    BY <1>4, <1>7
  <2>2. Cardinality(L(Len(cats))) \in Nat /\ Cardinality(B(Len(cats))) \in Nat
    BY <1>1
  <2> HIDE DEF L, B
  <2> QED BY <1>5, <2>1, <2>2 DEF even
<1> QED BY <1>6, <1>7

----------------------------------------------------------------------------
(* Rankings.  In a finite set with a strict order, what stands before an    *)
(* element is its place: every place is somebody's, and nobody shares one.  *)

StrictOrder(S, R) ==
    /\ \A a \in S : <<a, a>> \notin R
    /\ \A a, b \in S : a = b \/ <<a, b>> \in R \/ <<b, a>> \in R
    /\ \A a, b, c \in S : <<a, b>> \in R /\ <<b, c>> \in R => <<a, c>> \in R

Before(S, R, s) == {r \in S : <<r, s>> \in R}
Rank(S, R, s) == Cardinality(Before(S, R, s))

LEMMA RankGrows ==
  ASSUME NEW S, IsFiniteSet(S), NEW R, StrictOrder(S, R), NEW a \in S, NEW b \in S
  PROVE  /\ Rank(S, R, a) \in Nat /\ Rank(S, R, a) < Cardinality(S)
         /\ <<a, b>> \in R => Rank(S, R, a) < Rank(S, R, b)
<1>1. \A s \in S : IsFiniteSet(Before(S, R, s)) /\ Rank(S, R, s) \in Nat
  BY FS_Subset, FS_CardinalityType DEF Before, Rank
<1>2. Cardinality(S) \in Nat
  BY FS_CardinalityType
<1>3. Rank(S, R, a) < Cardinality(S)
  <2>1. Before(S, R, a) \subseteq S /\ a \notin Before(S, R, a)
    BY DEF StrictOrder, Before
  <2>2. Rank(S, R, a) <= Cardinality(S) /\ Rank(S, R, a) # Cardinality(S)
    BY <2>1, FS_Subset DEF Rank
  <2> QED BY <1>1, <1>2, <2>2
<1>4. ASSUME <<a, b>> \in R PROVE Rank(S, R, a) < Rank(S, R, b)
  <2>1. Before(S, R, a) \subseteq Before(S, R, b)
    BY <1>4 DEF StrictOrder, Before
  <2>2. a \in Before(S, R, b) /\ a \notin Before(S, R, a)
    BY <1>4 DEF StrictOrder, Before
  <2>3. Rank(S, R, a) <= Rank(S, R, b) /\ Rank(S, R, a) # Rank(S, R, b)
    BY <1>1, <2>1, <2>2, FS_Subset DEF Rank
  <2> QED BY <1>1, <2>3
<1> QED BY <1>1, <1>3, <1>4

LEMMA RankIsPlace ==
  ASSUME NEW S, IsFiniteSet(S), NEW R, StrictOrder(S, R)
  PROVE  /\ Cardinality(S) \in Nat
         /\ \A a, b \in S : Rank(S, R, a) = Rank(S, R, b) => a = b
         /\ \A i \in 1..Cardinality(S) : \E s \in S : Rank(S, R, s) = i - 1
<1> DEFINE n == Cardinality(S)
           f == [s \in S |-> Rank(S, R, s)]
<1>1. n \in Nat
  BY FS_CardinalityType
<1>2. \A a, b \in S : Rank(S, R, a) = Rank(S, R, b) => a = b
  <2> SUFFICES ASSUME NEW a \in S, NEW b \in S, Rank(S, R, a) = Rank(S, R, b), a # b PROVE FALSE
    OBVIOUS
  <2>1. <<a, b>> \in R \/ <<b, a>> \in R
    BY DEF StrictOrder
  <2>2. Rank(S, R, a) \in Nat
    BY RankGrows
  <2>3. CASE <<a, b>> \in R
    BY <2>2, <2>3, RankGrows
  <2>4. CASE <<b, a>> \in R
    BY <2>2, <2>4, RankGrows
  <2> QED BY <2>1, <2>3, <2>4
<1>3. \A s \in S : Rank(S, R, s) \in 0..(n - 1)
  <2> SUFFICES ASSUME NEW s \in S PROVE Rank(S, R, s) \in 0..(n - 1)
    OBVIOUS
  <2>1. Rank(S, R, s) \in Nat /\ Rank(S, R, s) < n
    BY RankGrows
  <2> QED BY <1>1, <2>1
<1>4. IsFiniteSet(0..(n - 1)) /\ Cardinality(0..(n - 1)) = n
  BY <1>1, FS_Interval
<1>5. f \in Injection(S, 0..(n - 1))
  BY <1>2, <1>3 DEF Injection, IsInjective
<1>6. f \in Surjection(S, 0..(n - 1))
  BY <1>4, <1>5, FS_Injection
<1>7. ASSUME NEW i \in 1..n PROVE \E s \in S : Rank(S, R, s) = i - 1
  <2>1. i - 1 \in 0..(n - 1)
    BY <1>1
  <2>2. PICK s \in S : f[s] = i - 1
    BY <1>6, <2>1 DEF Surjection
  <2> QED BY <2>2
<1> QED BY <1>1, <1>2, <1>7

\* A ranking has every element once, and each after all that stand before it.
LEMMA RankingFacts ==
  ASSUME NEW S, IsFiniteSet(S), NEW R, StrictOrder(S, R), NEW ranked,
         \A i \in 1..Cardinality(S) : ranked[i] \in S /\ Rank(S, R, ranked[i]) = i - 1
  PROVE  /\ \A s \in S : \E i \in 1..Cardinality(S) : ranked[i] = s
         /\ \A i, j \in 1..Cardinality(S) : i < j => <<ranked[i], ranked[j]>> \in R
<1> DEFINE n == Cardinality(S)
<1>1. n \in Nat
  BY FS_CardinalityType
<1>2. ASSUME NEW s \in S PROVE \E i \in 1..n : ranked[i] = s
  <2>1. Rank(S, R, s) \in Nat /\ Rank(S, R, s) < n
    BY RankGrows
  <2> DEFINE i == Rank(S, R, s) + 1
  <2>2. i \in 1..n /\ i - 1 = Rank(S, R, s)
    BY <1>1, <2>1
  <2>3. ranked[i] \in S /\ Rank(S, R, ranked[i]) = Rank(S, R, s)
    BY <2>2
  <2> QED BY <2>2, <2>3, RankIsPlace
<1>3. ASSUME NEW i \in 1..n, NEW j \in 1..n, i < j PROVE <<ranked[i], ranked[j]>> \in R
  <2>1. ranked[i] \in S /\ ranked[j] \in S /\ Rank(S, R, ranked[i]) < Rank(S, R, ranked[j])
    BY <1>1, <1>3
  <2>2. ranked[i] # ranked[j]
    BY <2>1, RankGrows
  <2>3. <<ranked[j], ranked[i]>> \notin R
    BY <2>1, RankGrows
  <2> QED BY <2>1, <2>2, <2>3 DEF StrictOrder
<1> QED BY <1>2, <1>3

----------------------------------------------------------------------------
(* Verdicts: who answers first.                                            *)

LEMMA MinFacts ==
  ASSUME NEW T, T \subseteq Nat, T # {}
  PROVE  Min(T) \in T /\ \A n \in T : Min(T) <= n
<1>1. \E m \in T : \A n \in T : m <= n
  BY LeastExists
<1> QED BY <1>1 DEF Min

\* The first tier that has an answer gives it; the last one always has one.
Answers(e, k) ==
    /\ k \in 1..11 /\ Tiers(e)[k] # None /\ Classify(e) = Tiers(e)[k]
    /\ \A j \in 1..11 : j < k => Tiers(e)[j] = None

LEMMA LastTier ==
  ASSUME NEW e, UnloggedFallbackTier(e) # None
  PROVE  Tiers(e)[11] # None /\ Len(Tiers(e)) = 11 /\ DOMAIN Tiers(e) = 1..11
BY DEF Tiers

LEMMA SomeTierAnswers ==
  ASSUME NEW e, UnloggedFallbackTier(e) # None
  PROVE  \E k : Answers(e, k)
<1> DEFINE tiers == Tiers(e)
           T == {i \in 1..Len(tiers) : tiers[i] # None}
<1>1. Len(tiers) = 11 /\ tiers[11] # None
  BY LastTier
<1>2. Classify(e) = tiers[IF T # {} THEN Min(T) ELSE 0]
  BY DEF Classify, SelectInSeq
<1>3. T \subseteq Nat /\ T # {} /\ \A i : i \in T <=> i \in 1..11 /\ tiers[i] # None
  BY <1>1
<1> HIDE DEF tiers, T
<1>4. Min(T) \in T /\ \A n \in T : Min(T) <= n
  BY <1>3, MinFacts
<1>5. \A j \in 1..11 : j < Min(T) => tiers[j] = None
  <2> SUFFICES ASSUME NEW j \in 1..11, j < Min(T), tiers[j] # None PROVE FALSE
    OBVIOUS
  <2>1. j \in T /\ Min(T) \in Nat
    BY <1>3, <1>4
  <2> QED BY <1>4, <2>1
<1> QED BY <1>2, <1>3, <1>4, <1>5 DEF Answers, tiers

----------------------------------------------------------------------------
(* What each tier can answer.                                              *)

BrowserPage(e) == IsBrowserApp(e.name) /\ ~HasReadableSite(e)

LEMMA Matching ==
  ASSUME NEW h, NEW rules
  PROVE  ClassifyMatchingRules(h, rules) = None \/ ClassifyMatchingRules(h, rules).source = "Heuristic"
<1> DEFINE matches == SelectSeq(rules, LAMBDA rule : \E k \in rule.keywords : ContainsTokenPhrase(h, k))
<1>1. ClassifyMatchingRules(h, rules) =
        IF matches = <<>> THEN None
        ELSE IF \E i \in DOMAIN matches : matches[i].category # Head(matches).category
             THEN Ambiguous("Heuristic")
             ELSE WithQuality(Head(matches).label, Head(matches).category,
                              "Heuristic", "Classified", "Medium")
  BY DEF ClassifyMatchingRules
<1> HIDE DEF matches
<1>2. Ambiguous("Heuristic").source = "Heuristic"
  BY DEF Ambiguous, WithQuality
<1>3. \A label, category : WithQuality(label, category, "Heuristic", "Classified", "Medium").source = "Heuristic"
  BY DEF WithQuality
<1> QED BY <1>1, <1>2, <1>3

LEMMA SiteIsBrowsers == ASSUME NEW e PROVE BrowserSite(e) # None => IsBrowserApp(e.name)
BY DEF BrowserSite

LEMMA TierFacts ==
  ASSUME NEW e \in Events
  PROVE  /\ SiteSeedTier(e) # None => SiteSeedTier(e).source = "Seed"
         /\ BrowserContextTier(e) # None =>
               BrowserContextTier(e).source = "Heuristic" /\ IsBrowserApp(e.name) /\ ~HasReadableSite(e)
         /\ BundleSeedTier(e) # None => BundleSeedTier(e).source = "Seed" /\ ~IsBrowserApp(e.name)
         /\ SeedDictionaryTier(e) # None => SeedDictionaryTier(e).source = "Seed" /\ ~IsBrowserApp(e.name)
         /\ LocalPurposeHeuristicTier(e) # None =>
               LocalPurposeHeuristicTier(e).source = "Heuristic" /\ ~HasReadableSite(e)
         /\ DocumentTypeTier(e) # None =>
               DocumentTypeTier(e).source = "DeclaredDocumentTypes" /\ ~IsBrowserApp(e.name)
         /\ DeclaredCategoryTier(e) # None =>
               DeclaredCategoryTier(e).source = "DeclaredAppCategory" /\ ~IsBrowserApp(e.name)
         /\ SiteInferenceTier(e) # None =>
               SiteInferenceTier(e).source = "Heuristic" /\ HasReadableSite(e)
         /\ GenericBrowserPriorTier(e) # None =>
               GenericBrowserPriorTier(e).source = "Fallback" /\ GenericBrowserPriorTier(e).status = "Ambiguous"
         /\ UnloggedFallbackTier(e).source = "Fallback" /\ UnloggedFallbackTier(e).status = "Unclassified"
<1>0. /\ \A l, c, s, t, q : WithQuality(l, c, s, t, q).source = s /\ WithQuality(l, c, s, t, q).status = t
      /\ \A l, c : ExactMatch(l, c).source = "Seed"
      /\ \A c, s, q : Inferred(c, s, q).source = s /\ Inferred(c, s, q).category = c
  BY DEF WithQuality, ExactMatch, Inferred
<1>1. SiteSeedTier(e) # None => SiteSeedTier(e).source = "Seed"
  BY <1>0 DEF SiteSeedTier
<1>2. BrowserContextTier(e) # None =>
               BrowserContextTier(e).source = "Heuristic" /\ IsBrowserApp(e.name) /\ ~HasReadableSite(e)
  BY Matching DEF BrowserContextTier, BrowserContextVerdict
<1>3. BundleSeedTier(e) # None => BundleSeedTier(e).source = "Seed" /\ ~IsBrowserApp(e.name)
  BY <1>0 DEF BundleSeedTier
<1>4. SeedDictionaryTier(e) # None => SeedDictionaryTier(e).source = "Seed" /\ ~IsBrowserApp(e.name)
  <2>1. PICK found : found = SelectInSeq(SeedApplications, LAMBDA entry :
                     ~IsBrowserApp(entry.pattern) /\ PatternMatches(entry, e.name))
    OBVIOUS
  <2>2. SeedDictionaryTier(e) = IF found = 0 THEN None
        ELSE ExactMatch(SeedApplications[found].label, SeedApplications[found].category)
    BY <2>1 DEF SeedDictionaryTier
  <2> QED BY <1>0, <2>2, BrowsersAreNoSeeds
<1>5. LocalPurposeHeuristicTier(e) # None =>
               LocalPurposeHeuristicTier(e).source = "Heuristic" /\ ~HasReadableSite(e)
  BY Matching DEF LocalPurposeHeuristicTier
<1>6. DocumentTypeTier(e) # None =>
               DocumentTypeTier(e).source = "DeclaredDocumentTypes" /\ ~IsBrowserApp(e.name)
  BY <1>0 DEF DocumentTypeTier
<1>7. DeclaredCategoryTier(e) # None =>
               DeclaredCategoryTier(e).source = "DeclaredAppCategory" /\ ~IsBrowserApp(e.name)
  BY <1>0 DEF DeclaredCategoryTier
<1>8. SiteInferenceTier(e) # None =>
               SiteInferenceTier(e).source = "Heuristic" /\ HasReadableSite(e)
  BY <1>0 DEF SiteInferenceTier, HasReadableSite
<1>9. GenericBrowserPriorTier(e) # None =>
               GenericBrowserPriorTier(e).source = "Fallback" /\ GenericBrowserPriorTier(e).status = "Ambiguous"
  BY <1>0 DEF GenericBrowserPriorTier
<1>10. UnloggedFallbackTier(e).source = "Fallback" /\ UnloggedFallbackTier(e).status = "Unclassified"
  BY <1>0 DEF UnloggedFallbackTier
<1> QED BY <1>1, <1>2, <1>3, <1>4, <1>5, <1>6, <1>7, <1>8, <1>9, <1>10

LEMMA Scored ==
  ASSUME NEW scores
  PROVE  /\ ClassifyPersonal(scores) # None => ClassifyPersonal(scores).source = "UserRule"
         /\ ClassifyBuiltin(scores) # None => ClassifyBuiltin(scores).source = "Embedding"
<1>0. /\ \A c, s, q : Inferred(c, s, q).source = s
      /\ \A s : Ambiguous(s).source = s
  BY DEF WithQuality, Ambiguous, Inferred
<1>1. ClassifyPersonal(scores) # None => ClassifyPersonal(scores).source = "UserRule"
  BY <1>0 DEF ClassifyPersonal
<1>2. ClassifyBuiltin(scores) # None => ClassifyBuiltin(scores).source = "Embedding"
  BY <1>0 DEF ClassifyBuiltin
<1> QED BY <1>1, <1>2

LEMMA EmbeddingFacts ==
  ASSUME NEW e
  PROVE  EmbeddingTier(e) # None => EmbeddingTier(e).source \in {"UserRule", "Embedding"}
BY Scored DEF EmbeddingTier

LEMMA Ranks ==
  ASSUME NEW r
  PROVE  /\ r.source = "UserRule" => Precedence(r) = 8
         /\ r.source = "Seed" => Precedence(r) = 7
         /\ r.source = "Heuristic" => Precedence(r) = 6
         /\ r.source = "DeclaredDocumentTypes" => Precedence(r) = 5
         /\ r.source = "DeclaredAppCategory" => Precedence(r) = 4
         /\ r.source = "Embedding" => Precedence(r) = 3
         /\ r.source = "Fallback" /\ r.status = "Ambiguous" => Precedence(r) = 2
         /\ r.source = "Fallback" /\ r.status = "Unclassified" => Precedence(r) = 1
BY DEF Precedence

\* No tier behind the one that answers would have ranked above it.
LEMMA FirstRanksHighest ==
  ASSUME NEW e \in Events, NEW k, Answers(e, k), NEW i \in 1..11
  PROVE  \/ Tiers(e)[i] = None \/ Tiers(e)[i].source = "UserRule"
         \/ Precedence(Tiers(e)[i]) <= Precedence(Tiers(e)[k])
<1> SUFFICES ASSUME Tiers(e)[i] # None, Tiers(e)[i].source # "UserRule"
             PROVE  Precedence(Tiers(e)[i]) <= Precedence(Tiers(e)[k])
  OBVIOUS
<1>1. k \in 1..11 /\ i >= k /\ Tiers(e)[k] # None
  BY DEF Answers
<1>2. HasReadableSite(e) => IsBrowserApp(e.name)
  BY SiteIsBrowsers DEF HasReadableSite
<1>3. /\ Tiers(e)[1] = SiteSeedTier(e) /\ Tiers(e)[2] = BrowserContextTier(e)
      /\ Tiers(e)[3] = BundleSeedTier(e) /\ Tiers(e)[4] = SeedDictionaryTier(e)
      /\ Tiers(e)[5] = LocalPurposeHeuristicTier(e) /\ Tiers(e)[6] = DocumentTypeTier(e)
      /\ Tiers(e)[7] = DeclaredCategoryTier(e) /\ Tiers(e)[8] = SiteInferenceTier(e)
      /\ Tiers(e)[9] = EmbeddingTier(e) /\ Tiers(e)[10] = GenericBrowserPriorTier(e)
      /\ Tiers(e)[11] = UnloggedFallbackTier(e)
  BY DEF Tiers
<1> DEFINE P(j) == Precedence(Tiers(e)[j])
<1>4. /\ Tiers(e)[1] # None => P(1) = 7
      /\ Tiers(e)[2] # None => P(2) = 6 /\ IsBrowserApp(e.name) /\ ~HasReadableSite(e)
      /\ Tiers(e)[3] # None => P(3) = 7 /\ ~IsBrowserApp(e.name)
      /\ Tiers(e)[4] # None => P(4) = 7 /\ ~IsBrowserApp(e.name)
      /\ Tiers(e)[5] # None => P(5) = 6
      /\ Tiers(e)[6] # None => P(6) = 5 /\ ~IsBrowserApp(e.name)
      /\ Tiers(e)[7] # None => P(7) = 4 /\ ~IsBrowserApp(e.name)
      /\ Tiers(e)[8] # None => P(8) = 6 /\ HasReadableSite(e)
  BY <1>3, TierFacts, Ranks
<1>5. /\ Tiers(e)[9] # None => P(9) \in {3, 8} /\ (Tiers(e)[9].source # "UserRule" => P(9) = 3)
      /\ Tiers(e)[10] # None => P(10) = 2
      /\ P(11) = 1
  BY <1>3, TierFacts, EmbeddingFacts, Ranks
<1> HIDE DEF P
<1>6. P(i) <= P(k)
  <2>1. k = 1 \/ k = 2 \/ k = 3 \/ k = 4 \/ k = 5 \/ k = 6 \/ k = 7 \/ k = 8 \/ k = 9 \/ k = 10 \/ k = 11
    BY <1>1
  <2>2. i = 1 \/ i = 2 \/ i = 3 \/ i = 4 \/ i = 5 \/ i = 6 \/ i = 7 \/ i = 8 \/ i = 9 \/ i = 10 \/ i = 11
    OBVIOUS
  <2> QED BY <1>1, <1>2, <1>4, <1>5, <2>1, <2>2
<1> QED BY <1>6 DEF P

----------------------------------------------------------------------------
(* The ranking of the prototypes.                                          *)

Place(c) == CHOOSE i \in DOMAIN CategoryOrder : CategoryOrder[i] = c

LEMMA Places ==
  /\ \A c \in Categories : Place(c) \in 1..8 /\ CategoryOrder[Place(c)] = c
  /\ \A c, d \in Categories : Place(c) = Place(d) => c = d
<1>1. DOMAIN CategoryOrder = 1..8
  BY DEF CategoryOrder
<1>2. \A c \in Categories : \E i \in DOMAIN CategoryOrder : CategoryOrder[i] = c
  BY DEF Categories, Range
<1>3. \A c \in Categories : Place(c) \in DOMAIN CategoryOrder /\ CategoryOrder[Place(c)] = c
  BY <1>2 DEF Place
<1> QED BY <1>1, <1>3

LEMMA BetterDef ==
  ASSUME NEW a \in PrototypeScore, NEW b \in PrototypeScore
  PROVE  /\ Better(a, b) <=> \/ a.score > b.score
                             \/ a.score = b.score /\ Place(a.category) < Place(b.category)
         /\ a.score \in Nat /\ Place(a.category) \in 1..8
BY Places DEF Better, Place, PrototypeScore

LEMMA BetterOrders ==
  ASSUME NEW a \in PrototypeScore, NEW b \in PrototypeScore
  PROVE  /\ ~Better(a, a)
         /\ a # b => Better(a, b) \/ Better(b, a)
         /\ Better(a, b) => a.score >= b.score
         /\ \A c \in PrototypeScore : Better(c, a) /\ Better(a, b) => Better(c, b)
<1>1. /\ a.score \in Nat /\ b.score \in Nat /\ Place(a.category) \in 1..8 /\ Place(b.category) \in 1..8
      /\ Better(a, b) <=> a.score > b.score \/ (a.score = b.score /\ Place(a.category) < Place(b.category))
      /\ Better(b, a) <=> b.score > a.score \/ (b.score = a.score /\ Place(b.category) < Place(a.category))
      /\ Better(a, a) <=> a.score > a.score \/ (a.score = a.score /\ Place(a.category) < Place(a.category))
  BY BetterDef
<1>2. a # b => a.score # b.score \/ Place(a.category) # Place(b.category)
  BY Places DEF PrototypeScore
<1>3. ASSUME NEW c \in PrototypeScore, Better(c, a), Better(a, b) PROVE Better(c, b)
  <2>1. /\ c.score \in Nat /\ Place(c.category) \in 1..8
        /\ c.score > a.score \/ (c.score = a.score /\ Place(c.category) < Place(a.category))
        /\ Better(c, b) <=> c.score > b.score \/ (c.score = b.score /\ Place(c.category) < Place(b.category))
    BY <1>3, BetterDef
  <2> QED BY <1>1, <1>3, <2>1
<1> QED BY <1>1, <1>2, <1>3

\* Every prototype is in the ranking, and a better one before it.
LEMMA RankedFacts ==
  ASSUME NEW scores \in SUBSET PrototypeScore, IsFiniteSet(scores)
  PROVE  LET ranked == Ranked(scores)
         IN  /\ Len(ranked) = Cardinality(scores) /\ Len(ranked) \in Nat /\ ranked \in Seq(scores)
             /\ \A s \in scores : \E i \in 1..Len(ranked) : ranked[i] = s
             /\ \A i, j \in 1..Len(ranked) : i <= j => ranked[i].score >= ranked[j].score
<1> DEFINE n == Cardinality(scores)
           ranked == Ranked(scores)
           R == {x \in scores \X scores : Better(x[1], x[2])}
<1>1. \A a, b \in scores : <<a, b>> \in R <=> Better(a, b)
  OBVIOUS
<1>2. StrictOrder(scores, R)
  <2> HIDE DEF R
  <2>1. \A a \in scores : a \in PrototypeScore
    OBVIOUS
  <2>2. \A a, b \in scores : ~Better(a, a) /\ (a # b => Better(a, b) \/ Better(b, a))
    BY <2>1, BetterOrders
  <2>3. \A a, b, c \in scores : Better(a, b) /\ Better(b, c) => Better(a, c)
    BY <2>1, BetterOrders
  <2> QED BY <1>1, <2>2, <2>3 DEF StrictOrder
<1>3. \A s \in scores : Cardinality({r \in scores : Better(r, s)}) = Rank(scores, R, s)
  <2> SUFFICES ASSUME NEW s \in scores PROVE Cardinality({r \in scores : Better(r, s)}) = Rank(scores, R, s)
    OBVIOUS
  <2>1. {r \in scores : Better(r, s)} = Before(scores, R, s)
    BY <1>1 DEF Before
  <2> QED BY <2>1 DEF Rank
<1> HIDE DEF R
<1>4. n \in Nat /\ \A i \in 1..n : \E s \in scores : Rank(scores, R, s) = i - 1
  BY <1>2, RankIsPlace
<1>5. ranked = [i \in 1..n |-> CHOOSE s \in scores : Cardinality({r \in scores : Better(r, s)}) = i - 1]
  BY DEF Ranked
<1>6. \A i \in 1..n : ranked[i] \in scores /\ Rank(scores, R, ranked[i]) = i - 1
  BY <1>3, <1>4, <1>5
<1>7. Len(ranked) = n /\ ranked \in Seq(scores)
  <2>1. ranked \in [1..n -> scores]
    BY <1>5, <1>6
  <2> HIDE DEF ranked, n
  <2> QED BY <1>4, <2>1
<1> HIDE DEF ranked
<1>8. /\ \A s \in scores : \E i \in 1..n : ranked[i] = s
      /\ \A i, j \in 1..n : i < j => <<ranked[i], ranked[j]>> \in R
  BY <1>2, <1>6, RankingFacts
<1> HIDE DEF n
<1>9. ASSUME NEW i \in 1..n, NEW j \in 1..n, i <= j PROVE ranked[i].score >= ranked[j].score
  <2>1. ranked[i] \in scores /\ ranked[j] \in scores
    BY <1>6
  <2>2. ranked[i].score \in Nat /\ ranked[j].score \in Nat
    BY <2>1 DEF PrototypeScore
  <2>3. CASE i = j
    BY <2>2, <2>3
  <2>4. CASE i < j
    <3>1. Better(ranked[i], ranked[j])
      BY <1>1, <1>8, <2>1, <2>4
    <3> QED BY <2>1, <3>1, BetterOrders
  <2> QED BY <1>4, <1>9, <2>3, <2>4
<1> QED BY <1>4, <1>7, <1>8, <1>9 DEF n, ranked

\* A confident answer from the user's prototypes leads every other category by the margin.
LEMMA PersonalLeads ==
  ASSUME NEW scores \in SUBSET PrototypeScore, IsFiniteSet(scores),
         ClassifyPersonal(scores) # None, ClassifyPersonal(scores).status = "Classified"
  PROVE  \E best \in scores :
            /\ best.category = ClassifyPersonal(scores).category
            /\ \A other \in scores : other.category # best.category => best.score >= other.score + 8
<1> DEFINE ranked == Ranked(scores)
           n == Len(ranked)
           T == {i \in 1..n : ranked[i].category # Head(ranked).category}
           contender == IF T # {} THEN Min(T) ELSE 0
<1>1. /\ n \in Nat /\ ranked \in Seq(scores)
      /\ \A s \in scores : \E i \in 1..n : ranked[i] = s
      /\ \A i, j \in 1..n : i <= j => ranked[i].score >= ranked[j].score
  BY RankedFacts
<1>2. ClassifyPersonal(scores) =
        IF ranked = <<>> \/ Head(ranked).score < 90 THEN None
        ELSE IF contender # 0 /\ Head(ranked).score - ranked[contender].score < 8
             THEN Ambiguous("UserRule")
             ELSE Inferred(Head(ranked).category, "UserRule", "High")
  BY DEF ClassifyPersonal, Contender, SelectInSeq
<1> HIDE DEF ranked, contender
<1>3. Ambiguous("UserRule").status = "Ambiguous" /\ \A c : Inferred(c, "UserRule", "High").category = c
  BY DEF Ambiguous, Inferred, WithQuality
<1>4. /\ ranked # <<>> /\ ClassifyPersonal(scores).category = Head(ranked).category
      /\ ~(contender # 0 /\ Head(ranked).score - ranked[contender].score < 8)
  BY <1>2, <1>3
<1>5. Head(ranked) = ranked[1] /\ ranked[1] \in scores /\ n >= 1
  BY <1>1, <1>4
<1>6. ASSUME NEW other \in scores, other.category # ranked[1].category
      PROVE  ranked[1].score >= other.score + 8
  <2>1. PICK m \in 1..n : ranked[m] = other
    BY <1>1
  <2>2. m \in T /\ T \subseteq Nat
    <3>1. T \subseteq 1..n
      OBVIOUS
    <3>2. 1..n \subseteq Nat
      OBVIOUS
    <3>3. ranked[m].category # Head(ranked).category
      BY <1>5, <1>6, <2>1
    <3> HIDE DEF n
    <3> QED BY <3>1, <3>2, <3>3
  <2>3. Min(T) \in T /\ Min(T) <= m
    BY <2>2, MinFacts
  <2>4. contender = Min(T) /\ contender \in 1..n /\ contender <= m
    BY <1>1, <2>2, <2>3 DEF contender
  <2>5. \A p \in scores : p.score \in Nat
    BY DEF PrototypeScore
  <2>6. ranked[contender] \in scores
    BY <1>1, <2>4
  <2>7. ranked[1].score \in Nat /\ ranked[contender].score \in Nat /\ other.score \in Nat
    BY <1>5, <2>5, <2>6
  <2>8. ranked[contender].score >= ranked[m].score
    BY <1>1, <2>4
  <2>9. ~(ranked[1].score - ranked[contender].score < 8)
    <3>1. contender # 0
      BY <2>4
    <3> QED BY <1>4, <1>5, <3>1
  <2> QED BY <2>1, <2>7, <2>8, <2>9
<1> QED BY <1>4, <1>5, <1>6

----------------------------------------------------------------------------
(* The curated sites.                                                      *)

HostLabels == {"docs", "google", "com", "mail", "github", "youtube"}

LEMMA SeedFacts ==
  /\ \A seed \in SiteSeeds :
        seed.host \in Seq(HostLabels) /\ Len(seed.host) \in Nat /\ Len(seed.host) >= 1
        /\ seed.scope \in {"HostOnly", "WithSubdomains"}
  /\ \A a, b \in SiteSeeds : a.host = b.host => a = b
<1>1. ASSUME NEW seed \in SiteSeeds
      PROVE  /\ seed.host \in Seq(HostLabels) /\ Len(seed.host) \in Nat /\ Len(seed.host) >= 1
             /\ seed.scope \in {"HostOnly", "WithSubdomains"}
  <2>1. /\ \A a, b, c \in HostLabels : <<a, b, c>> \in Seq(HostLabels) /\ Len(<<a, b, c>>) = 3
        /\ \A a, b \in HostLabels : <<a, b>> \in Seq(HostLabels) /\ Len(<<a, b>>) = 2
    OBVIOUS
  <2>2. /\ seed.scope \in {"HostOnly", "WithSubdomains"}
        /\ \/ \E a, b, c \in HostLabels : seed.host = <<a, b, c>>
           \/ \E a, b \in HostLabels : seed.host = <<a, b>>
    BY DEF SiteSeeds, Seed, HostLabels
  <2>3. CASE \E a, b, c \in HostLabels : seed.host = <<a, b, c>>
    <3>1. PICK a, b, c \in HostLabels : seed.host = <<a, b, c>>
      BY <2>3
    <3>2. <<a, b, c>> \in Seq(HostLabels) /\ Len(<<a, b, c>>) = 3
      BY <2>1
    <3> QED BY <2>2, <3>1, <3>2
  <2>4. CASE \E a, b \in HostLabels : seed.host = <<a, b>>
    <3>1. PICK a, b \in HostLabels : seed.host = <<a, b>>
      BY <2>4
    <3>2. <<a, b>> \in Seq(HostLabels) /\ Len(<<a, b>>) = 2
      BY <2>1
    <3> QED BY <2>2, <3>1, <3>2
  <2> QED BY <2>2, <2>3, <2>4
<1>2. ASSUME NEW a \in SiteSeeds, NEW b \in SiteSeeds, a.host = b.host
      PROVE  a = b
  BY <1>2 DEF SiteSeeds, Seed
<1> QED BY <1>1, <1>2

LEMMA SeedAtFacts ==
  ASSUME NEW seed \in SiteSeeds
  PROVE  SeedAt(seed.host) = seed
<1>1. SeedAt(seed.host) \in SiteSeeds /\ SeedAt(seed.host).host = seed.host
  BY DEF SeedAt
<1> QED BY <1>1, SeedFacts

\* A suffix of a host is what is left of it from some label on.
LEMMA SuffixFacts ==
  ASSUME NEW U, NEW s \in Seq(U), NEW t \in Seq(U), IsSuffix(s, t)
  PROVE  Len(s) <= Len(t) /\ s = SubSeq(t, Len(t) - Len(s) + 1, Len(t))
<1>1. /\ Len(s) \in Nat /\ Len(t) \in Nat
      /\ Reverse(s) = [i \in 1..Len(s) |-> s[(Len(s) - i) + 1]]
      /\ Reverse(t) = [i \in 1..Len(t) |-> t[(Len(t) - i) + 1]]
  BY DEF Reverse
<1>2. /\ Reverse(s) \in Seq(U) /\ Len(Reverse(s)) = Len(s)
      /\ Reverse(t) \in Seq(U) /\ Len(Reverse(t)) = Len(t)
  <2>1. /\ \A i \in 1..Len(s) : s[(Len(s) - i) + 1] \in U
        /\ \A i \in 1..Len(t) : t[(Len(t) - i) + 1] \in U
    BY <1>1
  <2> QED BY <1>1, <2>1
<1>3. Len(s) <= Len(t) /\ SubSeq(Reverse(s), 1, Len(s)) = SubSeq(Reverse(t), 1, Len(s))
  BY <1>2 DEF IsSuffix, IsPrefix
<1>4. ASSUME NEW i \in 1..Len(s) PROVE s[i] = t[Len(t) - Len(s) + i]
  <2> DEFINE j == (Len(s) - i) + 1
  <2>1. j \in 1..Len(s) /\ j \in 1..Len(t) /\ (Len(s) - j) + 1 = i /\ (Len(t) - j) + 1 = Len(t) - Len(s) + i
    BY <1>1, <1>3
  <2> HIDE DEF j
  <2>2. SubSeq(Reverse(s), 1, Len(s))[j] = Reverse(s)[j] /\ SubSeq(Reverse(t), 1, Len(s))[j] = Reverse(t)[j]
    <3>1. /\ SubSeq(Reverse(s), 1, Len(s)) = [n \in 1..Len(s) |-> Reverse(s)[n]]
          /\ SubSeq(Reverse(t), 1, Len(s)) = [n \in 1..Len(s) |-> Reverse(t)[n]]
      BY <1>1, <1>2, <1>3
    <3> QED BY <2>1, <3>1
  <2>3. Reverse(s)[j] = s[i] /\ Reverse(t)[j] = t[Len(t) - Len(s) + i]
    BY <1>1, <2>1
  <2> QED BY <1>3, <2>2, <2>3
<1>5. s = SubSeq(t, Len(t) - Len(s) + 1, Len(t))
  <2> DEFINE u == SubSeq(t, Len(t) - Len(s) + 1, Len(t))
  <2>1. u \in Seq(U) /\ Len(u) = Len(s) /\ \A i \in 1..Len(s) : u[i] = t[Len(t) - Len(s) + i]
    BY <1>1, <1>3
  <2> HIDE DEF u
  <2>2. \A i \in 1..Len(s) : s[i] = u[i]
    BY <1>4, <2>1
  <2>3. u = s
    BY <2>1, <2>2, SeqEqual
  <2> QED BY <2>3 DEF u
<1> QED BY <1>3, <1>5

\* What is left of a host from some label on is a suffix of it.
LEMMA SuffixIs ==
  ASSUME NEW U, NEW t \in Seq(U), NEW k \in 1..Len(t)
  PROVE  IsSuffix(SubSeq(t, k, Len(t)), t)
<1> DEFINE s == SubSeq(t, k, Len(t))
<1>1. s \in Seq(U) /\ Len(t) \in Nat /\ Len(s) = Len(t) - k + 1 /\ \A i \in 1..Len(s) : s[i] = t[k + i - 1]
  OBVIOUS
<1> HIDE DEF s
<1>2. Len(s) \in Nat /\ Len(s) <= Len(t)
  BY <1>1
<1>3. /\ Reverse(s) = [i \in 1..Len(s) |-> s[(Len(s) - i) + 1]]
      /\ Reverse(t) = [i \in 1..Len(t) |-> t[(Len(t) - i) + 1]]
  BY DEF Reverse
<1>4. /\ Reverse(s) \in Seq(U) /\ Len(Reverse(s)) = Len(s)
      /\ Reverse(t) \in Seq(U) /\ Len(Reverse(t)) = Len(t)
  <2>1. /\ \A i \in 1..Len(s) : s[(Len(s) - i) + 1] \in U
        /\ \A i \in 1..Len(t) : t[(Len(t) - i) + 1] \in U
    BY <1>1, <1>2
  <2> QED BY <1>1, <1>2, <1>3, <2>1
<1>5. ASSUME NEW i \in 1..Len(s) PROVE Reverse(s)[i] = Reverse(t)[i]
  <2>1. /\ i \in 1..Len(t) /\ (Len(s) - i) + 1 \in 1..Len(s)
        /\ k + ((Len(s) - i) + 1) - 1 = (Len(t) - i) + 1
    BY <1>1, <1>2
  <2> QED BY <1>1, <1>3, <2>1
<1>6. SubSeq(Reverse(s), 1, Len(s)) = SubSeq(Reverse(t), 1, Len(s))
  <2>1. /\ SubSeq(Reverse(s), 1, Len(s)) = [i \in 1..Len(s) |-> Reverse(s)[i]]
        /\ SubSeq(Reverse(t), 1, Len(s)) = [i \in 1..Len(s) |-> Reverse(t)[i]]
    BY <1>2, <1>4
  <2> QED BY <1>5, <2>1
<1> QED BY <1>2, <1>4, <1>6 DEF IsSuffix, IsPrefix, s

SuffixAt(site, k) == SubSeq(site, k, Len(site))
Reached(site) ==
    {k \in DOMAIN site : /\ \E seed \in SiteSeeds : seed.host = SuffixAt(site, k)
                         /\ k = 1 \/ SeedAt(SuffixAt(site, k)).scope = "WithSubdomains"}
Reaches(seed, site) == \/ seed.host = site
                       \/ seed.scope = "WithSubdomains" /\ IsSuffix(seed.host, site)

\* A seed that reaches a site is at some suffix of it, and the other way round.
LEMMA ReachedFacts ==
  ASSUME NEW U, HostLabels \subseteq U, NEW site \in Seq(U)
  PROVE  /\ \A seed \in SiteSeeds : Reaches(seed, site) =>
               \E k \in Reached(site) : SeedAt(SuffixAt(site, k)) = seed /\ Len(seed.host) = Len(site) - k + 1
         /\ \A k \in Reached(site) :
               LET seed == SeedAt(SuffixAt(site, k))
               IN  seed \in SiteSeeds /\ Reaches(seed, site) /\ Len(seed.host) = Len(site) - k + 1
<1>0. Len(site) \in Nat /\ DOMAIN site = 1..Len(site) /\ SubSeq(site, 1, Len(site)) = site
  OBVIOUS
<1>1. ASSUME NEW seed \in SiteSeeds, Reaches(seed, site)
      PROVE  \E k \in Reached(site) : SeedAt(SuffixAt(site, k)) = seed /\ Len(seed.host) = Len(site) - k + 1
  <2>1. seed.host \in Seq(U) /\ Len(seed.host) \in Nat /\ Len(seed.host) >= 1
    BY SeedFacts
  <2>2. Len(seed.host) <= Len(site) /\ seed.host = SuffixAt(site, Len(site) - Len(seed.host) + 1)
    <3>1. CASE seed.host = site
      BY <1>0, <3>1 DEF SuffixAt
    <3>2. CASE IsSuffix(seed.host, site)
      BY <2>1, <3>2, SuffixFacts DEF SuffixAt
    <3> QED BY <1>1, <3>1, <3>2 DEF Reaches
  <2> DEFINE k == Len(site) - Len(seed.host) + 1
  <2>3. k \in DOMAIN site /\ Len(seed.host) = Len(site) - k + 1 /\ (seed.host = site => k = 1)
    <3>1. Len(seed.host) \in Nat /\ Len(seed.host) >= 1 /\ Len(seed.host) <= Len(site)
      BY <2>1, <2>2
    <3> QED BY <1>0, <3>1
  <2>4. SeedAt(SuffixAt(site, k)) = seed
    BY <2>2, SeedAtFacts
  <2>5. k \in Reached(site)
    BY <1>1, <2>2, <2>3, <2>4 DEF Reached, Reaches
  <2> HIDE DEF k
  <2> QED BY <2>3, <2>4, <2>5
<1>2. ASSUME NEW k \in Reached(site)
      PROVE  LET seed == SeedAt(SuffixAt(site, k))
             IN  seed \in SiteSeeds /\ Reaches(seed, site) /\ Len(seed.host) = Len(site) - k + 1
  <2>1. k \in 1..Len(site) /\ (k = 1 \/ SeedAt(SuffixAt(site, k)).scope = "WithSubdomains")
    BY <1>0 DEF Reached
  <2>2. PICK seed \in SiteSeeds : seed.host = SuffixAt(site, k)
    BY DEF Reached
  <2>3. SeedAt(SuffixAt(site, k)) = seed
    BY <2>2, SeedAtFacts
  <2>4. Len(seed.host) = Len(site) - k + 1
    BY <1>0, <2>1, <2>2 DEF SuffixAt
  <2>5. CASE k = 1
    BY <1>0, <2>2, <2>3, <2>4, <2>5 DEF Reaches, SuffixAt
  <2>6. CASE seed.scope = "WithSubdomains"
    <3>1. IsSuffix(seed.host, site)
      BY <2>1, <2>2, SuffixIs DEF SuffixAt
    <3> QED BY <2>3, <2>4, <2>6, <3>1 DEF Reaches
  <2> QED BY <2>1, <2>3, <2>5, <2>6
<1> QED BY <1>1, <1>2

\* The walk finds the most specific of the seeds that reach the site.
LEMMA LookupFacts ==
  ASSUME NEW U, HostLabels \subseteq U, NEW site \in Seq(U)
  PROVE  /\ SiteLookup(site) # None => SiteLookup(site) \in SiteSeeds
         /\ \A seed \in SiteSeeds :
               /\ Reaches(seed, site)
               /\ \A other \in SiteSeeds : Reaches(other, site) => Len(other.host) <= Len(seed.host)
               => SiteLookup(site) = seed
<1> DEFINE first == CHOOSE k \in Reached(site) : \A j \in Reached(site) : k <= j
<1>0. Len(site) \in Nat /\ DOMAIN site = 1..Len(site) /\ Reached(site) \subseteq 1..Len(site)
  BY DEF Reached
<1>1. SiteLookup(site) = IF Reached(site) = {} THEN None ELSE SeedAt(SuffixAt(site, first))
  BY DEF SiteLookup, Reached, SuffixAt
<1>2. Reached(site) # {} => first \in Reached(site) /\ \A j \in Reached(site) : first <= j
  <2> SUFFICES ASSUME Reached(site) # {}
               PROVE  \E k \in Reached(site) : \A j \in Reached(site) : k <= j
    OBVIOUS
  <2>1. Reached(site) \subseteq Nat
    BY <1>0
  <2> QED BY <2>1, LeastExists
<1> HIDE DEF first
<1>3. SiteLookup(site) # None => SiteLookup(site) \in SiteSeeds
  BY <1>1, <1>2, ReachedFacts
<1>4. ASSUME NEW seed \in SiteSeeds, Reaches(seed, site),
             \A other \in SiteSeeds : Reaches(other, site) => Len(other.host) <= Len(seed.host)
      PROVE  SiteLookup(site) = seed
  <2>1. PICK k \in Reached(site) : SeedAt(SuffixAt(site, k)) = seed /\ Len(seed.host) = Len(site) - k + 1
    BY <1>4, ReachedFacts
  <2>2. first \in Reached(site) /\ first <= k /\ first \in Nat /\ k \in Nat
    BY <1>0, <1>2
  <2> DEFINE found == SeedAt(SuffixAt(site, first))
  <2>3. found \in SiteSeeds /\ Reaches(found, site) /\ Len(found.host) = Len(site) - first + 1
    BY <2>2, ReachedFacts
  <2>4. Len(found.host) <= Len(seed.host)
    BY <1>4, <2>3
  <2> HIDE DEF found
  <2>5. first = k
    BY <1>0, <2>1, <2>2, <2>3, <2>4
  <2> QED BY <1>1, <2>1, <2>5
<1> QED BY <1>3, <1>4

----------------------------------------------------------------------------
(* Tabs.                                                                   *)

\* A readable site is a sequence of labels.
LEMMA SiteIsHost ==
  ASSUME NEW e \in RawEvent, BrowserSite(e) # None
  PROVE  BrowserSite(e) \in Seq(STRING)
<1> DEFINE host == FocusedSiteContext(e.url)
           labels == e.url.labels
           full == {i \in DOMAIN labels : labels[i] # ""}
           last == IF full = {} THEN 0 ELSE CHOOSE i \in full : \A j \in full : j <= i
<1>1. host # None /\ BrowserSite(e) = SiteIdentity(host)
  BY DEF BrowserSite
<1>2. e.url # None /\ e.url \in {None} \cup [hierarchical : BOOLEAN, labels : Seq(STRING)]
  BY <1>1 DEF FocusedSiteContext, RawEvent
<1>3. labels \in Seq(STRING)
  BY <1>2
<1>4. last # 0 /\ host = SubSeq(labels, 1, last)
  BY <1>1 DEF FocusedSiteContext
<1>5. full \subseteq 1..Len(labels) /\ Len(labels) \in Nat
  <2> HIDE DEF labels
  <2>1. DOMAIN labels = 1..Len(labels) /\ Len(labels) \in Nat
    BY <1>3
  <2> QED BY <2>1
<1>6. last \in 1..Len(labels)
  <2>1. full # {}
    BY <1>4
  <2> HIDE DEF full
  <2>2. \E i \in full : \A j \in full : j <= i
    <3>1. full \subseteq 0..Len(labels)
      BY <1>5
    <3> QED BY <1>5, <2>1, <3>1, GreatestExists
  <2>3. last \in full
    BY <2>1, <2>2
  <2> QED BY <1>5, <2>3
<1> HIDE DEF last, labels
<1>7. host \in Seq(STRING)
  BY <1>3, <1>4, <1>6
<1> HIDE DEF host
<1>8. WithoutWww(host) \in Seq(STRING)
  <2>1. CASE Len(host) > 1 /\ Head(host) = "www"
    <3>1. host # <<>>
      BY <1>7, <2>1
    <3>2. Tail(host) \in Seq(STRING)
      BY <1>7, <3>1
    <3> QED BY <2>1, <3>2 DEF WithoutWww
  <2>2. CASE ~(Len(host) > 1 /\ Head(host) = "www")
    BY <1>7, <2>2 DEF WithoutWww
  <2> QED BY <2>1, <2>2
<1>9. SiteIdentity(host) = WithoutWww(host)
  BY <1>1 DEF SiteIdentity
<1> QED BY <1>1, <1>8, <1>9

\* A seed that reaches the site of a tab says what the tab is, refined or not.
LEMMA SeedTierFacts ==
  ASSUME NEW e, BrowserSite(e) # None, BrowserSite(e) \in Seq(STRING)
  PROVE  LET seed == SiteLookup(BrowserSite(e))
         IN  /\ seed = None => SiteSeedTier(e) = None
             /\ seed # None => /\ seed \in SiteSeeds /\ SiteSeedTier(e) # None
                               /\ SiteSeedTier(e).category = seed.category
                               /\ SiteSeedTier(e).source = "Seed"
<1> DEFINE seed == SiteLookup(BrowserSite(e))
           U == STRING \cup HostLabels
           refined == BrowserContextVerdict(e)
           label == IF /\ refined # None
                       /\ refined.status = "Classified"
                       /\ refined.category = seed.category
                       /\ <<seed.label, refined.label>> \in SeedLabelRefinements
                    THEN refined.label ELSE seed.label
<1>1. BrowserSite(e) \in Seq(U) /\ HostLabels \subseteq U
  OBVIOUS
<1>2. seed # None => seed \in SiteSeeds
  BY <1>1, LookupFacts
<1>3. SiteSeedTier(e) = IF seed = None THEN None ELSE ExactMatch(label, seed.category)
  BY DEF SiteSeedTier
<1>4. seed \in SiteSeeds => label \in {s.label : s \in SiteSeeds} \cup {r[2] : r \in SeedLabelRefinements}
  <2>1. <<seed.label, refined.label>>[2] = refined.label
    OBVIOUS
  <2> HIDE DEF refined, seed
  <2> QED BY <2>1
<1> HIDE DEF label, seed
<1>5. seed \in SiteSeeds => ExactMatch(label, seed.category) # None
  BY <1>4, ClassifierAssumption
<1>6. \A l, c : ExactMatch(l, c).category = c /\ ExactMatch(l, c).source = "Seed"
  BY DEF ExactMatch, WithQuality
<1>7. /\ seed = None => SiteSeedTier(e) = None
      /\ seed # None => /\ seed \in SiteSeeds /\ SiteSeedTier(e) # None
                        /\ SiteSeedTier(e).category = seed.category
                        /\ SiteSeedTier(e).source = "Seed"
  BY <1>2, <1>3, <1>5, <1>6
<1> QED BY <1>7 DEF seed

\* What the page says of itself and what the browser declares do not move it.
LEMMA OnlyTheSiteCounts ==
  ASSUME NEW e \in Events, NEW f, f.name = e.name, f.url = e.url, f.sketch = e.sketch,
         e.sketch = None, BrowserSite(e) # None
  PROVE  Classify(f).category = Classify(e).category
<1>1. e \in RawEvent /\ UnloggedFallbackTier(e) # None /\ UnloggedFallbackTier(f) = UnloggedFallbackTier(e)
  BY ClassifierAssumption DEF UnloggedFallbackTier
<1>2. BrowserSite(f) = BrowserSite(e) /\ BrowserSite(e) \in Seq(STRING)
  BY <1>1, SiteIsHost DEF BrowserSite
<1>3. /\ IsBrowserApp(e.name) /\ IsBrowserApp(f.name)
      /\ HasReadableSite(e) /\ HasReadableSite(f)
  BY <1>2, SiteIsBrowsers DEF HasReadableSite
<1>4. \/ SiteSeedTier(e) = None /\ SiteSeedTier(f) = None
      \/ SiteSeedTier(e) # None /\ SiteSeedTier(f) # None /\ SiteSeedTier(f).category = SiteSeedTier(e).category
  BY <1>2, SeedTierFacts
<1>5. BrowserContextTier(e) = None /\ BrowserContextTier(f) = None
  BY <1>3 DEF BrowserContextTier
<1>6. BundleSeedTier(e) = None /\ BundleSeedTier(f) = None
  BY <1>3 DEF BundleSeedTier
<1>7. SeedDictionaryTier(e) = SeedDictionaryTier(f)
  BY DEF SeedDictionaryTier, SelectInSeq
<1>8. LocalPurposeHeuristicTier(e) = None /\ LocalPurposeHeuristicTier(f) = None
  BY <1>3 DEF LocalPurposeHeuristicTier
<1>9. DocumentTypeTier(e) = None /\ DocumentTypeTier(f) = None
  BY <1>3 DEF DocumentTypeTier
<1>10. DeclaredCategoryTier(e) = None /\ DeclaredCategoryTier(f) = None
  BY <1>3 DEF DeclaredCategoryTier
<1>11. SiteInferenceTier(e) = SiteInferenceTier(f)
  BY <1>2 DEF SiteInferenceTier
<1>12. EmbeddingTier(e) = None /\ EmbeddingTier(f) = None
  BY DEF EmbeddingTier
<1>13. GenericBrowserPriorTier(e) = GenericBrowserPriorTier(f)
  BY DEF GenericBrowserPriorTier
<1>14. \A i \in 1..11 :
          \/ Tiers(f)[i] = Tiers(e)[i]
          \/ Tiers(e)[i] # None /\ Tiers(f)[i] # None /\ Tiers(f)[i].category = Tiers(e)[i].category
  BY <1>1, <1>4, <1>5, <1>6, <1>7, <1>8, <1>9, <1>10, <1>11, <1>12, <1>13 DEF Tiers
<1>15. PICK k : Answers(e, k)
  BY <1>1, SomeTierAnswers
<1>16. PICK m : Answers(f, m)
  BY <1>1, SomeTierAnswers
<1>17. k = m
  BY <1>14, <1>15, <1>16 DEF Answers
<1> QED BY <1>14, <1>15, <1>16, <1>17 DEF Answers

----------------------------------------------------------------------------
(* Verdicts.                                                               *)

VerdictInvariant ==
    /\ event \in Events
    /\ verdict \in {None, InvalidPluginResult, Classify(event)}

LEMMA NextVerdict == VerdictInvariant /\ [Process]_classifiervars => VerdictInvariant'
<1> SUFFICES ASSUME VerdictInvariant, [Process]_classifiervars PROVE VerdictInvariant'
  OBVIOUS
<1>1. CASE Process
  BY <1>1 DEF Process, VerdictInvariant
<1>2. CASE UNCHANGED classifiervars
  BY <1>2 DEF classifiervars, VerdictInvariant
<1> QED BY <1>1, <1>2

LEMMA AnsweredTab == VerdictInvariant => TabIsItsSite
<1> SUFFICES ASSUME VerdictInvariant, Classified, BrowserSite(event) # None PROVE TabIsItsSite
  BY DEF TabIsItsSite
<1> DEFINE site == BrowserSite(event)
           reaching == {seed \in SiteSeeds : Reaches(seed, site)}
           bare == [event EXCEPT !.bundle = None, !.appCategory = None, !.documentTypes = <<>>]
<1>1. event \in Events /\ event \in RawEvent /\ verdict = Classify(event)
  BY ClassifierAssumption DEF VerdictInvariant, Classified
<1>2. site \in Seq(STRING) /\ UnloggedFallbackTier(event) # None
  BY <1>1, SiteIsHost, ClassifierAssumption
<1>3. PICK k : Answers(event, k)
  BY <1>2, SomeTierAnswers
<1>4. ASSUME NEW seed \in reaching, \A other \in reaching : Len(other.host) <= Len(seed.host)
      PROVE  verdict.category = seed.category /\ verdict.source = "Seed"
  <2> DEFINE U == STRING \cup HostLabels
  <2>1. site \in Seq(U) /\ HostLabels \subseteq U
    BY <1>2
  <2> HIDE DEF U
  <2>2. SiteLookup(site) = seed
    BY <1>4, <2>1, LookupFacts
  <2>3. seed # None
    BY ClassifierAssumption
  <2>4. /\ SiteSeedTier(event) # None /\ SiteSeedTier(event).category = seed.category
        /\ SiteSeedTier(event).source = "Seed"
    BY <1>2, <2>2, <2>3, SeedTierFacts
  <2>5. Tiers(event)[1] = SiteSeedTier(event)
    BY DEF Tiers
  <2>6. k = 1
    BY <1>3, <2>4, <2>5 DEF Answers
  <2> QED BY <1>1, <1>3, <2>4, <2>5, <2>6 DEF Answers
<1>5. ASSUME event.sketch = None, NEW t \in Titles
      PROVE  Classify([bare EXCEPT !.title = t]).category = verdict.category
  <2> DEFINE f == [bare EXCEPT !.title = t]
  <2>1. f.name = event.name /\ f.url = event.url /\ f.sketch = event.sketch
    BY <1>1 DEF RawEvent
  <2> HIDE DEF f
  <2>2. Classify(f).category = Classify(event).category
    BY <1>1, <1>5, <2>1, OnlyTheSiteCounts
  <2> QED BY <1>1, <2>2 DEF f
<1> QED BY <1>4, <1>5 DEF TabIsItsSite, Reaches

LEMMA AnsweredRank == VerdictInvariant => WinnerRanksHighest
<1> SUFFICES ASSUME VerdictInvariant, Classified, NEW i \in DOMAIN Tiers(event)
             PROVE  LET other == Tiers(event)[i]
                    IN  other = None \/ other.source = "UserRule" \/ Precedence(other) <= Precedence(verdict)
  BY DEF WinnerRanksHighest
<1>1. event \in Events /\ verdict = Classify(event) /\ UnloggedFallbackTier(event) # None
  BY ClassifierAssumption DEF VerdictInvariant, Classified
<1>2. PICK k : Answers(event, k)
  BY <1>1, SomeTierAnswers
<1>3. i \in 1..11 /\ verdict = Tiers(event)[k]
  BY <1>1, <1>2, LastTier DEF Answers
<1> QED BY <1>1, <1>2, <1>3, FirstRanksHighest

LEMMA AnsweredTie == VerdictInvariant => NearTieIsAmbiguous
<1> SUFFICES ASSUME VerdictInvariant, Classified, verdict.source = "UserRule", verdict.status = "Classified"
             PROVE  NearTieIsAmbiguous
  BY DEF NearTieIsAmbiguous
<1>1. event \in Events /\ event \in RawEvent /\ verdict = Classify(event) /\ UnloggedFallbackTier(event) # None
  BY ClassifierAssumption DEF VerdictInvariant, Classified
<1>2. PICK k : Answers(event, k)
  BY <1>1, SomeTierAnswers
<1>3. k = 9 /\ verdict = EmbeddingTier(event) /\ EmbeddingTier(event) # None
  <2>1. k \in 1..11 /\ Tiers(event)[k] # None /\ Tiers(event)[k].source = "UserRule" /\ verdict = Tiers(event)[k]
    BY <1>1, <1>2 DEF Answers
  <2>2. /\ Tiers(event)[1] = SiteSeedTier(event) /\ Tiers(event)[2] = BrowserContextTier(event)
        /\ Tiers(event)[3] = BundleSeedTier(event) /\ Tiers(event)[4] = SeedDictionaryTier(event)
        /\ Tiers(event)[5] = LocalPurposeHeuristicTier(event) /\ Tiers(event)[6] = DocumentTypeTier(event)
        /\ Tiers(event)[7] = DeclaredCategoryTier(event) /\ Tiers(event)[8] = SiteInferenceTier(event)
        /\ Tiers(event)[9] = EmbeddingTier(event) /\ Tiers(event)[10] = GenericBrowserPriorTier(event)
        /\ Tiers(event)[11] = UnloggedFallbackTier(event)
    BY DEF Tiers
  <2> QED BY <1>1, <2>1, <2>2, TierFacts
<1>4. event.sketch # None /\ verdict = ClassifyPersonal(event.sketch.personal)
      /\ ClassifyPersonal(event.sketch.personal) # None
  BY <1>3, Scored DEF EmbeddingTier
<1>5. event.sketch.personal \in SUBSET PrototypeScore /\ IsFiniteSet(event.sketch.personal)
  BY <1>1, <1>4, ClassifierAssumption DEF RawEvent
<1>6. \E best \in event.sketch.personal :
          /\ best.category = verdict.category
          /\ \A other \in event.sketch.personal : other.category # best.category => best.score >= other.score + 8
  BY <1>4, <1>5, PersonalLeads
<1> QED BY <1>6 DEF NearTieIsAmbiguous

(* A verdict can be defended, whatever the window brings and whatever sketch *)
(* it has: the tab's site decides, the winner ranks highest, and no near tie *)
(* of the user's own prototypes is decided (AbstractionEngine::process).     *)
THEOREM VerdictStaysSound == ClassifierSpec => []VerdictIsSound
<1>1. ClassifierInit => VerdictInvariant
  BY DEF ClassifierInit, VerdictInvariant
<1>2. VerdictInvariant => VerdictIsSound
  BY AnsweredTab, AnsweredRank, AnsweredTie DEF VerdictIsSound
<1> QED BY <1>1, <1>2, NextVerdict, PTL DEF ClassifierSpec

----------------------------------------------------------------------------
(* Findings: the correction over the whole family.                         *)

LEMMA LevelFacts == FdrQ \in 0..999 /\ \A t \in PLevels : t \in Nat /\ t <= 1000
BY AntecedentAssumption

\* Every candidate has one place in the order of registration.
LEMMA FamilyFacts ==
  /\ FamilySize \in Nat /\ DOMAIN FamilyOrder = 1..FamilySize
  /\ \A c \in Registry : \E i \in 1..FamilySize : FamilyOrder[i] = c
<1>1. FamilySize \in Nat /\ ExistsBijection(1..FamilySize, Registry)
  BY RegistryAssumption, FS_CardinalityType DEF FamilySize
<1>2. PICK f : f \in Bijection(1..FamilySize, Registry)
  BY <1>1 DEF ExistsBijection
<1>3. f \in [1..FamilySize -> Registry] /\ IsInjective(f)
  BY <1>2 DEF Bijection, Injection
<1>4. FamilyOrder \in [1..FamilySize -> Registry] /\ IsInjective(FamilyOrder)
  BY <1>3 DEF FamilyOrder, SetToSeq, FamilySize
<1>5. IsFiniteSet(1..FamilySize) /\ Cardinality(1..FamilySize) = Cardinality(Registry)
  BY <1>1, FS_Interval DEF FamilySize
<1>6. FamilyOrder \in Injection(1..FamilySize, Registry)
  BY <1>4 DEF Injection
<1>7. FamilyOrder \in Surjection(1..FamilySize, Registry)
  BY <1>5, <1>6, RegistryAssumption, FS_Injection
<1> QED BY <1>1, <1>4, <1>7 DEF Surjection

Registered(c) == CHOOSE i \in DOMAIN FamilyOrder : FamilyOrder[i] = c

LEMMA RegisteredFacts ==
  /\ \A c \in Registry : Registered(c) \in Nat
  /\ \A c, d \in Registry : Registered(c) = Registered(d) => c = d
<1>1. \A c \in Registry : Registered(c) \in 1..FamilySize /\ FamilyOrder[Registered(c)] = c
  BY FamilyFacts DEF Registered
<1> QED BY <1>1, FamilyFacts

\* The candidates that were tested, ranked by p-value.
LEMMA RankedByPFacts ==
  ASSUME NEW p, DOMAIN p \in SUBSET Registry, \A c \in DOMAIN p : p[c] \in PLevels
  PROVE  LET T == DOMAIN p
             n == Cardinality(T)
             ranked == RankedByP(p)
         IN  /\ n \in Nat /\ IsFiniteSet(T) /\ n <= FamilySize /\ DOMAIN ranked = 1..n
             /\ \A i \in 1..n : ranked[i] \in T
             /\ \A c \in T : \E i \in 1..n : ranked[i] = c
             /\ \A i, j \in 1..n : i < j => ranked[i] # ranked[j] /\ p[ranked[i]] <= p[ranked[j]]
<1> DEFINE T == DOMAIN p
           n == Cardinality(T)
           ranked == RankedByP(p)
           R == {x \in T \X T : Precedes(p, x[1], x[2])}
<1>1. IsFiniteSet(T) /\ n \in Nat /\ n <= FamilySize
  BY RegistryAssumption, FS_Subset, FS_CardinalityType DEF FamilySize
<1>2. \A c, d \in T : <<c, d>> \in R <=> Precedes(p, c, d)
  OBVIOUS
<1>3. \A c, d \in T : Precedes(p, c, d) <=> p[c] < p[d] \/ (p[c] = p[d] /\ Registered(c) < Registered(d))
  BY DEF Precedes, Registered
<1>4. \A c \in T : p[c] \in Nat /\ Registered(c) \in Nat
  <2>1. \A c \in T : p[c] \in PLevels /\ c \in Registry
    OBVIOUS
  <2> QED BY <2>1, RegisteredFacts, LevelFacts
<1>5. StrictOrder(T, R)
  <2> HIDE DEF R
  <2>1. \A c \in T : <<c, c>> \notin R
    BY <1>2, <1>3, <1>4
  <2>2. \A c, d \in T : c = d \/ <<c, d>> \in R \/ <<d, c>> \in R
    <3> SUFFICES ASSUME NEW c \in T, NEW d \in T, c # d PROVE <<c, d>> \in R \/ <<d, c>> \in R
      OBVIOUS
    <3>1. Registered(c) # Registered(d)
      BY RegisteredFacts
    <3> QED BY <1>2, <1>3, <1>4, <3>1
  <2>3. \A c, d, e \in T : <<c, d>> \in R /\ <<d, e>> \in R => <<c, e>> \in R
    BY <1>2, <1>3, <1>4
  <2> QED BY <2>1, <2>2, <2>3 DEF StrictOrder
<1>6. \A c \in T : Cardinality({d \in T : Precedes(p, d, c)}) = Rank(T, R, c)
  <2> SUFFICES ASSUME NEW c \in T PROVE Cardinality({d \in T : Precedes(p, d, c)}) = Rank(T, R, c)
    OBVIOUS
  <2>1. {d \in T : Precedes(p, d, c)} = Before(T, R, c)
    BY <1>2 DEF Before
  <2> QED BY <2>1 DEF Rank
<1> HIDE DEF R
<1>7. \A i \in 1..n : \E c \in T : Rank(T, R, c) = i - 1
  BY <1>1, <1>5, RankIsPlace
<1>8. ranked = [i \in 1..n |-> CHOOSE c \in T : Cardinality({d \in T : Precedes(p, d, c)}) = i - 1]
  BY DEF RankedByP
<1>9. \A i \in 1..n : ranked[i] \in T /\ Rank(T, R, ranked[i]) = i - 1
  BY <1>6, <1>7, <1>8
<1> HIDE DEF ranked
<1>10. /\ \A c \in T : \E i \in 1..n : ranked[i] = c
       /\ \A i, j \in 1..n : i < j => <<ranked[i], ranked[j]>> \in R
  BY <1>1, <1>5, <1>9, RankingFacts
<1>11. ASSUME NEW i \in 1..n, NEW j \in 1..n, i < j
       PROVE  ranked[i] # ranked[j] /\ p[ranked[i]] <= p[ranked[j]]
  <2>1. ranked[i] \in T /\ ranked[j] \in T
    BY <1>9
  <2>2. <<ranked[i], ranked[j]>> \in R
    BY <1>10, <1>11
  <2>3. Precedes(p, ranked[i], ranked[j])
    BY <1>2, <2>1, <2>2
  <2>4. ranked[i] # ranked[j]
    BY <1>5, <2>1, <2>2 DEF StrictOrder
  <2> QED BY <1>3, <1>4, <2>1, <2>3, <2>4
<1>12. DOMAIN ranked = 1..n
  BY <1>8
<1> QED BY <1>1, <1>9, <1>10, <1>11, <1>12 DEF n, ranked

FirstOf(ranked, k) == {ranked[i] : i \in 1..k}

\* The first k of a ranking without repetition are k elements.
LEMMA FirstOfRanking ==
  ASSUME NEW n \in Nat, NEW ranked, DOMAIN ranked = 1..n,
         \A i, j \in 1..n : i < j => ranked[i] # ranked[j], NEW k \in 0..n
  PROVE  IsFiniteSet(FirstOf(ranked, k)) /\ Cardinality(FirstOf(ranked, k)) = k
<1> DEFINE image == {ranked[i] : i \in 1..k}
           f == [i \in 1..k |-> ranked[i]]
<1>1. f \in Surjection(1..k, image)
  BY DEF Surjection
<1>2. \A i, j \in 1..k : f[i] = f[j] => i = j
  <2> SUFFICES ASSUME NEW i \in 1..k, NEW j \in 1..k, ranked[i] = ranked[j] PROVE i = j
    OBVIOUS
  <2>1. i \in 1..n /\ j \in 1..n
    OBVIOUS
  <2>2. ~(i < j) /\ ~(j < i)
    BY <2>1
  <2> QED BY <2>1, <2>2
<1>3. f \in Injection(1..k, image)
  BY <1>1, <1>2 DEF Injection, IsInjective, Surjection
<1>4. IsFiniteSet(1..k) /\ Cardinality(1..k) = k
  BY FS_Interval
<1> HIDE DEF f
<1> QED BY <1>1, <1>3, <1>4, FS_Surjection DEF FirstOf

LEMMA ProductGrows ==
  ASSUME NEW a \in Nat, NEW b \in Nat, NEW c \in Nat, a <= b
  PROVE  a * c \in Nat /\ b * c \in Nat /\ a * c <= b * c /\ c * a <= c * b
<1>1. b - a \in Nat /\ (b - a) * c \in Nat
  OBVIOUS
<1>2. b * c = a * c + (b - a) * c
  OBVIOUS
<1>3. a * c = c * a /\ b * c = c * b /\ a * c \in Nat /\ b * c \in Nat
  OBVIOUS
<1> QED BY <1>1, <1>2, <1>3

\* What passes is what Benjamini-Hochberg rejects over the whole family.
LEMMA PassedIsCorrected ==
  ASSUME NEW p, DOMAIN p \in SUBSET Registry, \A c \in DOMAIN p : p[c] \in PLevels
  PROVE  PassedFdr(p) = RejectedOfFamily(p)
<1> DEFINE T == DOMAIN p
           n == Cardinality(T)
           K == FamilySize
           ranked == RankedByP(p)
           P(c) == IF c \in T THEN p[c] ELSE 1000
           Under(t) == {c \in Registry : P(c) <= t}
           Below(t) == Cardinality(Under(t))
           steps == {t \in PLevels : K * t <= Below(t) * FdrQ}
           under == {i \in DOMAIN ranked : Denominator(p) * p[ranked[i]] <= i * FdrQ}
<1>1. /\ n \in Nat /\ IsFiniteSet(T) /\ n <= K /\ DOMAIN ranked = 1..n /\ T \subseteq Registry
      /\ \A i \in 1..n : ranked[i] \in T
      /\ \A c \in T : \E i \in 1..n : ranked[i] = c
      /\ \A i, j \in 1..n : i < j => ranked[i] # ranked[j] /\ p[ranked[i]] <= p[ranked[j]]
  BY RankedByPFacts
<1>2. K \in Nat /\ FdrQ \in 0..999 /\ \A c \in T : p[c] \in PLevels /\ p[c] \in Nat /\ p[c] <= 1000
  <2>1. \A c \in T : p[c] \in PLevels
    OBVIOUS
  <2> QED BY <2>1, FamilyFacts, LevelFacts DEF K
<1>3. Denominator(p) = K
  <2>1. \A m \in {K, n} : K >= m
    BY <1>1, <1>2
  <2>2. \A x \in {K, n} : (\A m \in {K, n} : x >= m) => x = K
    BY <1>1, <1>2
  <2>3. Max({K, n}) = K
    BY <2>1, <2>2 DEF Max
  <2> QED BY <2>3 DEF Denominator
<1>4. PassedFdr(p) = IF under = {} THEN {} ELSE FirstOf(ranked, Max(under))
  BY DEF PassedFdr, FirstOf
<1>5. under \subseteq 1..n /\ \A i \in 1..n : i \in under <=> K * p[ranked[i]] <= i * FdrQ
  BY <1>1, <1>3
<1> HIDE DEF under, ranked, n, K, T
<1>6. n \in Nat /\ \A j, k \in Nat : j \in 1..k /\ k <= n => j \in 1..n
  BY <1>1
<1>7. \A j \in 1..n : ranked[j] \in T /\ p[ranked[j]] \in PLevels /\ p[ranked[j]] \in Nat
  <2> SUFFICES ASSUME NEW j \in 1..n
               PROVE  ranked[j] \in T /\ p[ranked[j]] \in PLevels /\ p[ranked[j]] \in Nat
    OBVIOUS
  <2>1. ranked[j] \in T
    BY <1>1
  <2> QED BY <1>2, <2>1
<1>8. \A j, k \in 1..n : j <= k => p[ranked[j]] <= p[ranked[k]]
  <2> SUFFICES ASSUME NEW j \in 1..n, NEW k \in 1..n, j <= k PROVE p[ranked[j]] <= p[ranked[k]]
    OBVIOUS
  <2>1. CASE j = k
    <3>1. p[ranked[k]] \in Nat
      BY <1>7
    <3> QED BY <2>1, <3>1
  <2>2. CASE j < k
    BY <1>1, <2>2
  <2> QED BY <2>1, <2>2
<1>9. under # {} => Max(under) \in under /\ \A i \in under : i <= Max(under)
  <2>1. under \subseteq 0..n
    BY <1>1, <1>5
  <2> QED BY <1>1, <2>1, MaxFacts
<1>10. \A k \in 0..n : IsFiniteSet(FirstOf(ranked, k)) /\ Cardinality(FirstOf(ranked, k)) = k
  BY <1>1, FirstOfRanking
<1>11. ASSUME NEW t \in Nat
      PROVE  /\ IsFiniteSet(Under(t)) /\ Below(t) \in Nat /\ Below(t) <= K
             /\ t < 1000 => Under(t) = {c \in T : p[c] <= t}
  <2>1. IsFiniteSet(Under(t)) /\ Below(t) \in Nat /\ Below(t) <= K
    <3>1. Under(t) \subseteq Registry
      OBVIOUS
    <3> HIDE DEF Under
    <3> QED BY <3>1, RegistryAssumption, FS_Subset, FS_CardinalityType DEF K, FamilySize
  <2>2. t < 1000 => Under(t) = {c \in T : p[c] <= t}
    BY <1>1
  <2> QED BY <2>1, <2>2
<1>12. ASSUME NEW c \in PassedFdr(p)
      PROVE  c \in Registry /\ \E t \in steps : P(c) <= t
  <2> DEFINE m == Max(under)
             t == p[ranked[m]]
  <2>1. under # {} /\ m \in under /\ m \in 1..n
    BY <1>4, <1>5, <1>9
  <2>2. PICK i \in 1..m : c = ranked[i]
    BY <1>4, <2>1 DEF FirstOf
  <2>3. ranked[m] \in T /\ t \in PLevels /\ t \in Nat /\ K * t <= m * FdrQ
    <3> HIDE DEF m
    <3>1. K * p[ranked[m]] <= m * FdrQ
      BY <1>5, <2>1
    <3> QED BY <1>7, <2>1, <3>1
  <2>4. \A j \in 1..m : ranked[j] \in T /\ p[ranked[j]] <= t
    <3> SUFFICES ASSUME NEW j \in 1..m PROVE ranked[j] \in T /\ p[ranked[j]] <= t
      OBVIOUS
    <3>1. j \in 1..n /\ j <= m
      BY <1>6, <2>1
    <3> HIDE DEF m
    <3> QED BY <1>7, <1>8, <2>1, <3>1
  <2> DEFINE first == FirstOf(ranked, m)
  <2>5. first \subseteq Under(t)
    <3> HIDE DEF m, t
    <3> SUFFICES ASSUME NEW j \in 1..m PROVE ranked[j] \in Under(t)
      BY DEF FirstOf
    <3>1. ranked[j] \in T /\ p[ranked[j]] <= t
      BY <2>4
    <3> QED BY <1>1, <3>1
  <2>6. m <= Below(t)
    <3>1. Cardinality(first) = m
      BY <1>1, <1>10, <2>1
    <3> HIDE DEF first, Under, t, m
    <3> QED BY <1>11, <2>3, <2>5, <3>1, FS_Subset
  <2> HIDE DEF m, t, Under, first
  <2>7. t \in steps
    <3>1. m \in Nat /\ Below(t) \in Nat
      <4>1. m \in Nat
        BY <1>6, <2>1
      <4>2. t \in Nat
        BY <2>3
      <4> QED BY <1>11, <4>1, <4>2
    <3>2. m * FdrQ <= Below(t) * FdrQ /\ m * FdrQ \in Nat /\ Below(t) * FdrQ \in Nat
      BY <1>2, <2>6, <3>1, ProductGrows
    <3>3. K * t \in Nat
      BY <1>2, <2>3
    <3> QED BY <2>3, <3>2, <3>3
  <2>8. c \in T /\ p[c] <= t
    BY <2>2, <2>4
  <2> HIDE DEF steps
  <2> QED BY <1>1, <2>7, <2>8
<1>13. ASSUME NEW c \in Registry, NEW t \in steps, P(c) <= t
       PROVE  c \in PassedFdr(p)
  <2> DEFINE b == Below(t)
  <2>0. K * t <= b * FdrQ
    OBVIOUS
  <2>1. t \in PLevels /\ t \in Nat /\ t <= 1000
    BY LevelFacts
  <2>2. IsFiniteSet(Under(t)) /\ b \in Nat /\ b <= K /\ c \in Under(t)
    BY <1>11, <1>13, <2>1
  <2>3. b >= 1
    <3>1. Under(t) # {}
      BY <2>2
    <3> HIDE DEF Under
    <3> QED BY <2>2, <3>1, FS_EmptySet
  <2> HIDE DEF b, Under, steps
  <2>4. t < 1000
    <3> SUFFICES ASSUME t = 1000 PROVE FALSE
      BY <2>1
    <3>1. b * FdrQ <= K * FdrQ /\ K * FdrQ <= K * 999 /\ b * FdrQ \in Nat /\ K * FdrQ \in Nat
      BY <1>2, <2>2, ProductGrows
    <3>2. K * 1000 <= K * 999
      BY <1>2, <2>0, <3>1
    <3> QED BY <1>2, <2>2, <2>3, <3>2
  <2>5. Under(t) = {d \in T : p[d] <= t}
    BY <1>11, <2>1, <2>4
  <2>6. b <= n
    BY <1>1, <2>5, FS_Subset DEF b, n
  <2>7. p[ranked[b]] <= t
    <3> SUFFICES ASSUME ~(p[ranked[b]] <= t) PROVE FALSE
      OBVIOUS
    <3>1. b \in 1..n /\ b - 1 \in 0..n
      BY <1>1, <2>2, <2>3, <2>6
    <3> DEFINE first == FirstOf(ranked, b - 1)
    <3>2. Under(t) \subseteq first
      <4> SUFFICES ASSUME NEW d \in T, p[d] <= t PROVE d \in first
        BY <2>5
      <4>1. PICK j \in 1..n : ranked[j] = d
        BY <1>1
      <4>2. ~(b < j) /\ j # b
        <5>1. p[ranked[b]] \in Nat /\ p[d] \in Nat
          <6>1. p[ranked[b]] \in Nat
            BY <1>7, <3>1
          <6>2. p[d] \in Nat
            BY <1>2
          <6> QED BY <6>1, <6>2
        <5>2. b <= j => p[ranked[b]] <= p[d]
          BY <1>8, <3>1, <4>1
        <5>3. ~(b <= j)
          <6>1. p[ranked[b]] \in Int /\ p[d] \in Int /\ t \in Int
            BY <2>1, <5>1
          <6>2. SUFFICES ASSUME p[ranked[b]] <= p[d] PROVE FALSE
            BY <5>2
          <6> HIDE DEF T
          <6> QED BY <6>1, <6>2
        <5> QED BY <3>1, <5>3
      <4>3. j \in 1..(b - 1)
        BY <3>1, <4>2
      <4> QED BY <4>1, <4>3 DEF FirstOf
    <3>3. IsFiniteSet(first) /\ Cardinality(first) = b - 1
      BY <1>10, <3>1
    <3> HIDE DEF first
    <3>4. b <= b - 1
      BY <3>2, <3>3, FS_Subset DEF b
    <3> QED BY <2>2, <3>4
  <2>8. b \in under
    <3>1. b \in 1..n
      BY <1>1, <2>2, <2>3, <2>6
    <3>2. p[ranked[b]] \in Nat /\ t \in Nat
      <4>1. p[ranked[b]] \in Nat
        BY <1>7, <3>1
      <4> QED BY <2>1, <4>1
    <3>3. K * p[ranked[b]] <= K * t /\ K * p[ranked[b]] \in Nat /\ K * t \in Nat
      BY <1>2, <2>7, <3>2, ProductGrows
    <3>4. b * FdrQ \in Nat
      BY <1>2, <2>2
    <3> QED BY <1>5, <2>0, <3>1, <3>3, <3>4
  <2>9. c \in T /\ p[c] <= t
    BY <2>2, <2>5
  <2>10. PICK i \in 1..n : ranked[i] = c
    BY <1>1, <2>9
  <2>11. i <= b
    <3> SUFFICES ASSUME b < i PROVE FALSE
      BY <2>2
    <3> DEFINE first == FirstOf(ranked, i)
    <3>1. first \subseteq Under(t)
      <4> SUFFICES ASSUME NEW j \in 1..i PROVE ranked[j] \in T /\ p[ranked[j]] <= t
        BY <2>5 DEF FirstOf
      <4>1. j \in 1..n /\ j <= i
        BY <1>6
      <4>2. ranked[j] \in T /\ p[ranked[j]] \in Nat /\ p[ranked[j]] <= p[c]
        BY <1>7, <1>8, <2>10, <4>1
      <4>3. p[c] \in Int /\ t \in Int /\ p[ranked[j]] \in Int /\ p[c] <= t /\ p[ranked[j]] <= p[c]
        BY <1>2, <2>1, <2>9, <4>2
      <4>4. p[ranked[j]] <= t
        BY <4>3
      <4> QED BY <4>2, <4>4
    <3>2. i \in 0..n /\ Cardinality(first) = i
      BY <1>1, <1>10
    <3> HIDE DEF first
    <3>3. i <= b
      BY <2>2, <3>1, <3>2, FS_Subset DEF b
    <3> QED BY <2>2, <3>3
  <2>12. i \in 1..Max(under)
    <3>1. b <= Max(under) /\ Max(under) \in 1..n
      BY <1>5, <1>9, <2>8
    <3> QED BY <2>2, <2>11, <3>1
  <2> QED BY <1>4, <2>8, <2>10, <2>12 DEF FirstOf
<1>14. PassedFdr(p) = {c \in Registry : \E t \in steps : P(c) <= t}
  <2> HIDE DEF steps, P
  <2> QED BY <1>12, <1>13
<1> QED BY <1>14 DEF K, T, RejectedOfFamily
----------------------------------------------------------------------------
(* Findings: whole days.                                                   *)

\* A history in the order of its days is a sequence, and so is its beginning.
LEMMA HistoryFacts ==
  ASSUME NEW es, InOrderOfDays(es)
  PROVE  /\ Len(es) \in Nat /\ DOMAIN es = 1..Len(es)
         /\ \A i \in 1..Len(es) : es[i].day \in Int
         /\ \A i, j \in 1..Len(es) : i <= j => es[i].day <= es[j].day
         /\ IsFiniteSet(DistinctDays(es)) /\ Cardinality(DistinctDays(es)) \in Nat
         /\ DistinctDays(es) \subseteq Int
<1> DEFINE X == {es[i] : i \in DOMAIN es}
           days == DistinctDays(es)
<1>1. es \in Seq(X)
  BY DEF InOrderOfDays
<1> HIDE DEF X
<1>2. Len(es) \in Nat /\ DOMAIN es = 1..Len(es)
  BY <1>1
<1>3. /\ \A i \in 1..Len(es) : es[i].day \in Int
      /\ \A i, j \in 1..Len(es) : i <= j => es[i].day <= es[j].day
  BY <1>2 DEF InOrderOfDays
<1>4. days = {es[i].day : i \in 1..Len(es)}
  BY <1>2 DEF DistinctDays
<1> DEFINE f == [i \in 1..Len(es) |-> es[i].day]
<1>5. f \in Surjection(1..Len(es), days)
  BY <1>4 DEF Surjection
<1>6. IsFiniteSet(1..Len(es))
  BY <1>2, FS_Interval
<1>7. IsFiniteSet(days)
  BY <1>5, <1>6, FS_Surjection
<1>8. Cardinality(days) \in Nat
  BY <1>7, FS_CardinalityType
<1>9. days \subseteq Int
  BY <1>3, <1>4
<1> QED BY <1>2, <1>3, <1>7, <1>8, <1>9

LEMMA BeginningFacts ==
  ASSUME NEW es, InOrderOfDays(es), NEW n \in 0..Len(es)
  PROVE  LET first == SubSeq(es, 1, n)
             rest == SubSeq(es, n + 1, Len(es))
         IN  /\ InOrderOfDays(first) /\ Len(first) = n /\ Len(rest) = Len(es) - n
             /\ DOMAIN first = 1..n /\ DOMAIN rest = 1..(Len(es) - n)
             /\ \A i \in 1..n : first[i] = es[i]
             /\ \A i \in 1..(Len(es) - n) : rest[i] = es[n + i]
             /\ first \o rest = es
<1> DEFINE X == {es[i] : i \in DOMAIN es}
           first == SubSeq(es, 1, n)
           rest == SubSeq(es, n + 1, Len(es))
<1>1. es \in Seq(X)
  BY DEF InOrderOfDays
<1>2. /\ Len(es) \in Nat /\ DOMAIN es = 1..Len(es)
      /\ \A i \in 1..Len(es) : es[i].day \in Int
      /\ \A i, j \in 1..Len(es) : i <= j => es[i].day <= es[j].day
  BY HistoryFacts
<1> HIDE DEF X
<1>3. /\ Len(first) = n /\ Len(rest) = Len(es) - n
      /\ DOMAIN first = 1..n /\ DOMAIN rest = 1..(Len(es) - n)
      /\ \A i \in 1..n : first[i] = es[i]
      /\ \A i \in 1..(Len(es) - n) : rest[i] = es[n + i]
      /\ first \in Seq(X) /\ rest \in Seq(X)
  <2>1. \A i \in 1..Len(es) : es[i] \in X
    BY <1>1, <1>2
  <2>2. \A i \in 1..n : es[i] \in X /\ 1 + i - 1 = i
    BY <1>2, <2>1
  <2>3. first \in Seq(X) /\ Len(first) = n /\ \A i \in 1..n : first[i] = es[i]
    BY <1>2, <2>2, SubSeqProperties
  <2>4. \A i \in (n + 1)..Len(es) : es[i] \in X
    BY <1>2, <2>1
  <2>5. rest \in Seq(X) /\ Len(rest) = Len(es) - n /\ \A i \in 1..(Len(es) - n) : rest[i] = es[n + i]
    <3>1. /\ rest \in Seq(X) /\ Len(rest) = (IF n + 1 <= Len(es) THEN Len(es) - (n + 1) + 1 ELSE 0)
          /\ \A i \in 1..(Len(es) - (n + 1) + 1) : rest[i] = es[n + 1 + i - 1]
      BY <1>2, <2>4, SubSeqProperties
    <3> HIDE DEF rest
    <3>2. Len(rest) = Len(es) - n
      <4>1. n <= Len(es) /\ n \in Nat /\ Len(es) \in Nat
        BY <1>2
      <4>2. CASE n + 1 <= Len(es)
        BY <3>1, <4>1, <4>2
      <4>3. CASE ~(n + 1 <= Len(es))
        BY <3>1, <4>1, <4>3
      <4> QED BY <4>2, <4>3
    <3>3. \A i \in 1..(Len(es) - n) : rest[i] = es[n + i]
      <4> SUFFICES ASSUME NEW i \in 1..(Len(es) - n) PROVE rest[i] = es[n + i]
        OBVIOUS
      <4>1. i \in 1..(Len(es) - (n + 1) + 1) /\ n + 1 + i - 1 = n + i
        BY <1>2
      <4> QED BY <3>1, <4>1
    <3> QED BY <3>1, <3>2, <3>3
  <2> HIDE DEF first, rest
  <2> QED BY <2>3, <2>5, LenProperties
<1>4. first \o rest = es
  <2> HIDE DEF first, rest
  <2>1. first \o rest \in Seq(X) /\ Len(first \o rest) = Len(es)
    <3>1. first \o rest \in Seq(X) /\ Len(first \o rest) = Len(first) + Len(rest)
      BY <1>3, ConcatProperties
    <3>2. Len(first) + Len(rest) = Len(es)
      BY <1>2, <1>3
    <3> QED BY <3>1, <3>2
  <2>2. \A i \in 1..Len(es) : (first \o rest)[i] = es[i]
    <3> SUFFICES ASSUME NEW i \in 1..Len(es) PROVE (first \o rest)[i] = es[i]
      OBVIOUS
    <3>1. (first \o rest)[i] = IF i <= n THEN first[i] ELSE rest[i - n]
      <4>1. i \in 1..(Len(first) + Len(rest)) /\ Len(first) = n /\ first \in Seq(X) /\ rest \in Seq(X)
        BY <1>2, <1>3
      <4> QED BY <4>1, ConcatProperties
    <3>2. i <= n => i \in 1..n
      BY <1>2
    <3>3. ~(i <= n) => i - n \in 1..(Len(es) - n) /\ n + (i - n) = i
      BY <1>2
    <3> QED BY <1>3, <3>1, <3>2, <3>3
  <2> QED BY <1>1, <2>1, <2>2, SeqEqual
<1>5. InOrderOfDays(first)
  <2> DEFINE Y == {first[i] : i \in DOMAIN first}
  <2>1. first \in Seq(Y)
    <3>1. first \in [1..n -> Y] /\ n \in Nat
      <4>1. DOMAIN first = 1..n /\ n \in Nat /\ first = [i \in DOMAIN first |-> first[i]]
        BY <1>2, <1>3
      <4> HIDE DEF first
      <4> QED BY <4>1
    <3> HIDE DEF Y, first
    <3> QED BY <3>1
  <2>2. \A i \in 1..n : i \in 1..Len(es)
    BY <1>2
  <2> HIDE DEF first
  <2> QED BY <1>2, <1>3, <2>1, <2>2 DEF InOrderOfDays
<1> QED BY <1>3, <1>4, <1>5

LEMMA SomebodysPlace ==
  ASSUME NEW S, IsFiniteSet(S), NEW R, StrictOrder(S, R), NEW k \in Nat, k < Cardinality(S)
  PROVE  \E s \in S : Rank(S, R, s) = k
<1>1. Cardinality(S) \in Nat
  BY FS_CardinalityType
<1>2. k + 1 \in 1..Cardinality(S) /\ (k + 1) - 1 = k
  BY <1>1
<1>3. \A i \in 1..Cardinality(S) : \E s \in S : Rank(S, R, s) = i - 1
  BY RankIsPlace
<1> QED BY <1>2, <1>3

\* The boundary of the windows is a day, and all of it is in the later one.
LEMMA SplitFacts ==
  ASSUME NEW es, InOrderOfDays(es), NEW cut \in Nat, cut < Cardinality(DistinctDays(es))
  PROVE  \E n \in 0..Len(es) :
            /\ SplitOnDays(es, cut) = <<SubSeq(es, 1, n), SubSeq(es, n + 1, Len(es))>>
            /\ \A i \in 1..n, j \in (n + 1)..Len(es) : es[i].day < es[j].day
<1> DEFINE days == DistinctDays(es)
           R == {x \in days \X days : x[1] < x[2]}
           boundary == CHOOSE d \in days : Cardinality({e \in days : e < d}) = cut
           before == {0} \cup {i \in DOMAIN es : es[i].day < boundary}
           n == Max(before)
<1>1. /\ Len(es) \in Nat /\ DOMAIN es = 1..Len(es)
      /\ \A i \in 1..Len(es) : es[i].day \in Int
      /\ \A i, j \in 1..Len(es) : i <= j => es[i].day <= es[j].day
      /\ IsFiniteSet(days) /\ Cardinality(days) \in Nat /\ days \subseteq Int
  BY HistoryFacts
<1>2. \A d, e \in days : <<d, e>> \in R <=> d < e
  OBVIOUS
<1>3. \A d \in days : {e \in days : e < d} = Before(days, R, d)
  BY <1>2 DEF Before
<1> HIDE DEF R, days
<1>5. StrictOrder(days, R)
  BY <1>1, <1>2 DEF StrictOrder
<1>6. PICK d \in days : Rank(days, R, d) = cut
  <2>1. IsFiniteSet(days) /\ cut < Cardinality(days)
    BY <1>1 DEF days
  <2> QED BY <1>5, <2>1, SomebodysPlace
<1>7. Cardinality({e \in days : e < d}) = cut
  BY <1>3, <1>6 DEF Rank
<1>8. boundary \in days
  BY <1>6, <1>7
<1>9. boundary \in Int
  BY <1>1, <1>8
<1>10. SplitOnDays(es, cut) = <<SubSeq(es, 1, n), SubSeq(es, n + 1, Len(es))>>
  BY DEF SplitOnDays, days
<1> HIDE DEF boundary
<1>11. before \subseteq 0..Len(es) /\ before # {}
  BY <1>1
<1>12. n \in before /\ \A i \in before : i <= n
  <2> HIDE DEF before
  <2> QED BY <1>1, <1>11, MaxFacts
<1>13. ASSUME NEW i \in 1..n, NEW j \in (n + 1)..Len(es)
       PROVE  es[i].day < es[j].day
  <2>1. n \in DOMAIN es /\ es[n].day < boundary /\ i \in 1..Len(es) /\ j \in 1..Len(es) /\ i <= n
    BY <1>1, <1>11, <1>12
  <2>2. j \notin before
    BY <1>1, <1>11, <1>12, <2>1
  <2>3. ~(es[j].day < boundary)
    BY <1>1, <2>1, <2>2
  <2>4. es[i].day <= es[n].day /\ es[i].day \in Int /\ es[n].day \in Int /\ es[j].day \in Int
    BY <1>1, <2>1
  <2> QED BY <1>9, <2>1, <2>3, <2>4
<1>14. n \in 0..Len(es)
  BY <1>11, <1>12
<1> HIDE DEF n
<1> QED BY <1>10, <1>13, <1>14

\* The remainder of a position that is moved by less than the whole.
LEMMA Wrapped ==
  ASSUME NEW n \in Nat \ {0}, NEW i \in 1..n, NEW s \in 1..(n - 1)
  PROVE  ((i - 1 + s) % n) + 1 = IF i + s <= n THEN i + s ELSE i + s - n
<1> DEFINE x == i - 1 + s
           q == x \div n
           m == x % n
<1>1. q \in Int /\ m \in 0..(n - 1) /\ x = n * q + m /\ x \in 0..(2 * n - 2)
  OBVIOUS
<1> HIDE DEF q, m
<1>2. q = 0 \/ q = 1
  <2>1. ~(q <= -1)
    <3> SUFFICES ASSUME q <= -1 PROVE FALSE
      OBVIOUS
    <3>1. n * q <= n * (-1)
      BY <1>1
    <3> QED BY <1>1, <3>1
  <2>2. ~(q >= 2)
    <3> SUFFICES ASSUME q >= 2 PROVE FALSE
      OBVIOUS
    <3>1. n * q >= n * 2
      BY <1>1
    <3> QED BY <1>1, <3>1
  <2> QED BY <1>1, <2>1, <2>2
<1>3. m = x \/ m = x - n
  BY <1>1, <1>2
<1>4. m + 1 = IF i + s <= n THEN i + s ELSE i + s - n
  BY <1>1, <1>3
<1> QED BY <1>4 DEF m

\* A shift begins a day, and turns the days before it behind the others.
LEMMA ShiftFacts ==
  ASSUME NEW es, InOrderOfDays(es), NEW s \in DayStartIndices(es) \ {0}
  PROVE  /\ s \in 1..(Len(es) - 1)
         /\ \A i, j \in DOMAIN es : i <= s /\ s < j => es[i].day < es[j].day
         /\ [i \in DOMAIN es |-> Shifted(es, i, s).outcome]
               = Outcomes(SubSeq(es, s + 1, Len(es)) \o SubSeq(es, 1, s))
<1> DEFINE n == Len(es)
           X == {es[i] : i \in DOMAIN es}
           later == SubSeq(es, s + 1, n)
           earlier == SubSeq(es, 1, s)
<1>1. /\ n \in Nat /\ DOMAIN es = 1..n
      /\ \A i \in 1..n : es[i].day \in Int
      /\ \A i, j \in 1..n : i <= j => es[i].day <= es[j].day
  BY HistoryFacts
<1>2. PICK k \in DOMAIN es : s = k - 1 /\ (k = 1 \/ es[k].day # es[k - 1].day)
  BY DEF DayStartIndices
<1>3. k \in 1..n /\ k # 1 /\ k = s + 1 /\ s \in 1..(n - 1) /\ s \in 1..n /\ s + 1 \in 1..n
  BY <1>1, <1>2
<1>4. es[s].day < es[s + 1].day
  <2>1. es[s].day <= es[s + 1].day /\ es[s].day \in Int /\ es[s + 1].day \in Int
    BY <1>1, <1>3
  <2> QED BY <1>2, <1>3, <2>1
<1>5. ASSUME NEW i \in DOMAIN es, NEW j \in DOMAIN es, i <= s, s < j
      PROVE  es[i].day < es[j].day
  <2>1. es[i].day <= es[s].day /\ es[s + 1].day <= es[j].day
    BY <1>1, <1>3, <1>5
  <2>2. es[i].day \in Int /\ es[j].day \in Int /\ es[s].day \in Int /\ es[s + 1].day \in Int
    BY <1>1, <1>3
  <2> QED BY <1>4, <2>1, <2>2
<1>6. es \in Seq(X)
  BY DEF InOrderOfDays
<1> HIDE DEF X
<1>7. /\ later \in Seq(X) /\ Len(later) = n - s /\ \A i \in 1..(n - s) : later[i] = es[s + i]
      /\ earlier \in Seq(X) /\ Len(earlier) = s /\ \A i \in 1..s : earlier[i] = es[i]
  BY <1>1, <1>3, <1>6
<1> HIDE DEF later, earlier
<1>8. DOMAIN (later \o earlier) = 1..n
  <2>1. later \o earlier \in Seq(X) /\ Len(later \o earlier) = Len(later) + Len(earlier)
    BY <1>7, ConcatProperties
  <2>2. Len(later \o earlier) = n
    BY <1>1, <1>3, <1>7, <2>1
  <2> QED BY <2>1, <2>2, LenProperties
<1>9. ASSUME NEW i \in 1..n
      PROVE  Shifted(es, i, s) = (later \o earlier)[i]
  <2>1. n \in Nat \ {0}
    BY <1>1, <1>3
  <2>2. ((i - 1 + s) % n) + 1 = IF i + s <= n THEN i + s ELSE i + s - n
    BY <1>3, <2>1, Wrapped
  <2>3. Shifted(es, i, s) = es[IF i + s <= n THEN i + s ELSE i + s - n]
    BY <2>2, Zenon DEF Shifted, n
  <2>4. (later \o earlier)[i] = IF i <= n - s THEN later[i] ELSE earlier[i - (n - s)]
    <3>1. i \in 1..(Len(later) + Len(earlier))
      BY <1>1, <1>3, <1>7
    <3> QED BY <1>7, <3>1, ConcatProperties
  <2>5. CASE i + s <= n
    <3>1. i \in 1..(n - s) /\ later[i] = es[s + i] /\ s + i = i + s
      BY <1>1, <1>3, <1>7, <2>5
    <3> QED BY <1>1, <1>3, <2>3, <2>4, <2>5, <3>1
  <2>6. CASE ~(i + s <= n)
    <3>1. i - (n - s) \in 1..s /\ earlier[i - (n - s)] = es[i - (n - s)] /\ i - (n - s) = i + s - n
      BY <1>1, <1>3, <1>7, <2>6
    <3>2. ~(i <= n - s)
      BY <1>1, <1>3, <2>6
    <3> QED BY <2>3, <2>4, <2>6, <3>1, <3>2
  <2> QED BY <2>5, <2>6
<1>10. [i \in DOMAIN es |-> Shifted(es, i, s).outcome] = Outcomes(later \o earlier)
  <2> DEFINE turned == later \o earlier
  <2> HIDE DEF turned
  <2>1. \A i \in 1..n : Shifted(es, i, s).outcome = turned[i].outcome
    BY <1>9 DEF turned
  <2>2. DOMAIN turned = DOMAIN es
    BY <1>1, <1>8 DEF turned
  <2>3. [i \in DOMAIN es |-> Shifted(es, i, s).outcome] = Outcomes(turned)
    BY <1>1, <2>1, <2>2 DEF Outcomes
  <2> QED BY <2>3 DEF turned
<1> QED BY <1>3, <1>5, <1>10 DEF later, earlier, n

\* What every finding rests on: the split it was made under, shifts of whole
\* days, and a correction of the p-values of the candidates with support.
FindingsInvariant ==
    /\ InOrderOfDays(episodes)
    /\ Mined =>
          /\ Cut < Cardinality(DistinctDays(episodes))
          /\ analysis.held = SplitOnDays(episodes, Cut)[2]
          /\ analysis.shifts \subseteq DayStartIndices(SplitOnDays(episodes, Cut)[1]) \ {0}
          /\ DOMAIN analysis.p \in SUBSET Registry
          /\ \A c \in DOMAIN analysis.p : analysis.p[c] \in PLevels
          /\ analysis.passed = PassedFdr(analysis.p)

LEMMA NextFindings == FindingsInvariant /\ [Analyse]_antecedentvars => FindingsInvariant'
<1> SUFFICES ASSUME FindingsInvariant, [Analyse]_antecedentvars PROVE FindingsInvariant'
  OBVIOUS
<1> DEFINE windows == SplitOnDays(episodes, Cut)
<1>1. CASE UNCHANGED antecedentvars
  BY <1>1 DEF FindingsInvariant, antecedentvars, Mined, Cut
<1>2. CASE Analyse
  <2>1. episodes' = episodes /\ Cut' = Cut
    BY <1>2 DEF Analyse, Cut
  <2>2. ASSUME NEW reason \in {"AwaitingPreDeclaredN", "NoHeldOutWindow",
                               "InsufficientEpisodes", "InsufficientDays"},
               analysis' = Abstains(reason)
        PROVE  FindingsInvariant'
    <3>1. ~Mined'
      BY <2>2, AntecedentAssumption DEF Mined, Abstains
    <3> QED BY <2>1, <3>1 DEF FindingsInvariant
  <2>3. CASE AwaitingPreDeclaredN
    BY <2>2, <2>3 DEF AwaitingPreDeclaredN
  <2>4. CASE NoHeldOutWindow
    BY <2>2, <2>4 DEF NoHeldOutWindow
  <2>5. CASE Mine
    <3> DEFINE found == windows[1]
               tested == {c \in Registry : Supported(c, found)}
    <3>1. Cut < Cardinality(DistinctDays(episodes))
      BY <2>5 DEF Mine
    <3>2. CASE analysis' = Abstains("InsufficientEpisodes") \/ analysis' = Abstains("InsufficientDays")
      BY <2>2, <3>2
    <3>3. CASE \E shifts \in ChooseShifts(found), p \in [tested -> PLevels] :
                  /\ analysis'.held = windows[2] /\ analysis'.shifts = shifts
                  /\ analysis'.p = p /\ analysis'.passed = PassedFdr(p)
      <4>1. PICK shifts \in ChooseShifts(found), p \in [tested -> PLevels] :
                  /\ analysis'.held = windows[2] /\ analysis'.shifts = shifts
                  /\ analysis'.p = p /\ analysis'.passed = PassedFdr(p)
        BY <3>3
      <4>2. shifts \subseteq DayStartIndices(found) \ {0}
        BY DEF ChooseShifts, kSubset
      <4>3. tested \in SUBSET Registry
        OBVIOUS
      <4>4. DOMAIN p \in SUBSET Registry /\ \A c \in DOMAIN p : p[c] \in PLevels
        BY <4>3
      <4> HIDE DEF tested, windows
      <4>5. /\ InOrderOfDays(episodes')
            /\ Cut' < Cardinality(DistinctDays(episodes'))
            /\ SplitOnDays(episodes', Cut') = windows
        BY <2>1, <3>1 DEF FindingsInvariant, windows
      <4>6. /\ analysis'.held = windows[2]
            /\ analysis'.shifts \subseteq DayStartIndices(found) \ {0}
            /\ DOMAIN analysis'.p \in SUBSET Registry
            /\ \A c \in DOMAIN analysis'.p : analysis'.p[c] \in PLevels
            /\ analysis'.passed = PassedFdr(analysis'.p)
        <5> HIDE DEF found
        <5> QED BY <4>1, <4>2, <4>4
      <4>7. SplitOnDays(episodes', Cut')[1] = found /\ SplitOnDays(episodes', Cut')[2] = windows[2]
        BY <4>5
      <4> HIDE DEF found
      <4> HIDE DEF windows
      <4>8. /\ analysis'.held = SplitOnDays(episodes', Cut')[2]
            /\ analysis'.shifts \subseteq DayStartIndices(SplitOnDays(episodes', Cut')[1]) \ {0}
        BY <4>6, <4>7, Zenon
      <4> QED BY <4>5, <4>6, <4>8, Zenon DEF FindingsInvariant
    <3>4. \/ analysis' = Abstains("InsufficientEpisodes")
          \/ analysis' = Abstains("InsufficientDays")
          \/ \E shifts \in ChooseShifts(found), p \in [tested -> PLevels] : \E discoveries, confirmed :
                analysis' = [abstention |-> NotYet, held |-> windows[2], shifts |-> shifts, p |-> p,
                             passed |-> PassedFdr(p), discoveries |-> discoveries, confirmed |-> confirmed]
      BY <2>5, Zenon DEF Mine
    <3> HIDE DEF found, tested, windows
    <3>5. CASE \E shifts \in ChooseShifts(found), p \in [tested -> PLevels] : \E discoveries, confirmed :
                analysis' = [abstention |-> NotYet, held |-> windows[2], shifts |-> shifts, p |-> p,
                             passed |-> PassedFdr(p), discoveries |-> discoveries, confirmed |-> confirmed]
      <4>0. PICK shifts \in ChooseShifts(found), p \in [tested -> PLevels] : \E discoveries, confirmed :
                analysis' = [abstention |-> NotYet, held |-> windows[2], shifts |-> shifts, p |-> p,
                             passed |-> PassedFdr(p), discoveries |-> discoveries, confirmed |-> confirmed]
        BY <3>5, Zenon
      <4>1. PICK discoveries, confirmed :
                analysis' = [abstention |-> NotYet, held |-> windows[2], shifts |-> shifts, p |-> p,
                             passed |-> PassedFdr(p), discoveries |-> discoveries, confirmed |-> confirmed]
        BY <4>0, Zenon
      <4>2. /\ analysis'.held = windows[2] /\ analysis'.shifts = shifts
            /\ analysis'.p = p /\ analysis'.passed = PassedFdr(p)
        BY <4>1
      <4> QED BY <3>3, <4>2, Zenon DEF found, tested, windows
    <3> QED BY <3>2, <3>4, <3>5, Zenon
  <2> QED BY <1>2, <2>3, <2>4, <2>5 DEF Analyse
<1> QED BY <1>1, <1>2

LEMMA FindingsCorrected == FindingsInvariant => FamilyIsCorrected
<1> SUFFICES ASSUME FindingsInvariant, Mined
             PROVE  analysis.passed = RejectedOfFamily(analysis.p)
  BY DEF FamilyIsCorrected
<1>1. /\ DOMAIN analysis.p \in SUBSET Registry /\ \A c \in DOMAIN analysis.p : analysis.p[c] \in PLevels
      /\ analysis.passed = PassedFdr(analysis.p)
  BY DEF FindingsInvariant
<1> QED BY <1>1, PassedIsCorrected

LEMMA FindingsOfWholeDays == FindingsInvariant => DaysStayWhole
<1> SUFFICES ASSUME FindingsInvariant, Mined PROVE DaysStayWhole
  BY DEF DaysStayWhole
<1>1. /\ InOrderOfDays(episodes) /\ Cut < Cardinality(DistinctDays(episodes))
      /\ analysis.held = SplitOnDays(episodes, Cut)[2]
      /\ analysis.shifts \subseteq DayStartIndices(SplitOnDays(episodes, Cut)[1]) \ {0}
  BY DEF FindingsInvariant
<1>2. Cut \in Nat
  <2>1. Cardinality(DistinctDays(episodes)) \in Nat
    BY <1>1, HistoryFacts
  <2> QED BY <2>1 DEF Cut
<1>3. PICK n \in 0..Len(episodes) :
         /\ SplitOnDays(episodes, Cut) = <<SubSeq(episodes, 1, n), SubSeq(episodes, n + 1, Len(episodes))>>
         /\ \A i \in 1..n, j \in (n + 1)..Len(episodes) : episodes[i].day < episodes[j].day
  BY <1>1, <1>2, SplitFacts
<1> DEFINE first == SubSeq(episodes, 1, n)
           rest == SubSeq(episodes, n + 1, Len(episodes))
<1>4. analysis.held = rest /\ analysis.shifts \subseteq DayStartIndices(first) \ {0}
  BY <1>1, <1>3
<1>5. /\ Len(episodes) \in Nat /\ \A i \in 1..Len(episodes) : episodes[i].day \in Int
  BY <1>1, HistoryFacts
<1>6. /\ InOrderOfDays(first) /\ Len(first) = n /\ Len(rest) = Len(episodes) - n
      /\ DOMAIN first = 1..n /\ DOMAIN rest = 1..(Len(episodes) - n)
      /\ \A i \in 1..n : first[i] = episodes[i]
      /\ \A i \in 1..(Len(episodes) - n) : rest[i] = episodes[n + i]
      /\ first \o rest = episodes
  BY <1>1, BeginningFacts
<1>7. Discovery = first
  <2>1. Len(episodes) - Len(analysis.held) = n
    <3> HIDE DEF first, rest
    <3> QED BY <1>4, <1>5, <1>6
  <2> QED BY <2>1 DEF Discovery
<1> HIDE DEF first, rest
<1>8. DistinctDays(first) \cap DistinctDays(rest) = {}
  <2> SUFFICES ASSUME NEW i \in 1..n, NEW j \in 1..(Len(episodes) - n), first[i].day = rest[j].day
               PROVE  FALSE
    BY <1>6 DEF DistinctDays
  <2>1. n + j \in (n + 1)..Len(episodes) /\ i \in 1..Len(episodes) /\ n + j \in 1..Len(episodes)
    BY <1>5
  <2>2. first[i].day < rest[j].day /\ first[i].day \in Int
    BY <1>3, <1>5, <1>6, <2>1
  <2> QED BY <2>2
<1>9. ASSUME NEW s \in analysis.shifts
      PROVE  /\ s \in 1..(Len(first) - 1)
             /\ \A i, j \in DOMAIN first : i <= s /\ s < j => first[i].day < first[j].day
             /\ [i \in DOMAIN first |-> Shifted(first, i, s).outcome]
                   = Outcomes(SubSeq(first, s + 1, Len(first)) \o SubSeq(first, 1, s))
  BY <1>4, <1>6, ShiftFacts
<1> QED BY <1>4, <1>6, <1>7, <1>8, <1>9 DEF DaysStayWhole

(* Whatever history is mined, whichever p-values its candidates get and      *)
(* whichever shifts are drawn, a finding was corrected for the whole         *)
(* registered family and rests on whole days (apply_fdr, analyse,            *)
(* choose_shifts): the rank of a candidate is its place, so that the largest *)
(* place under the line is the largest level under it.                       *)
THEOREM FindingsStayControlled == AntecedentSpec => []FindingsAreControlled
<1>1. AntecedentInit => FindingsInvariant
  BY AntecedentAssumption DEF AntecedentInit, FindingsInvariant, Mined
<1>2. FindingsInvariant => FindingsAreControlled
  BY FindingsCorrected, FindingsOfWholeDays DEF FindingsAreControlled
<1> QED BY <1>1, <1>2, NextFindings, PTL DEF AntecedentSpec
=============================================================================
