------------------------------ MODULE Sketches ------------------------------
(***************************************************************************)
(* The sketches of Tier 2 (EmbeddingSimilarityPlugin in                    *)
(* abstraction/plugin.rs): one inference worker behind a channel of one,   *)
(* the sketches kept in memory by input, the sketches kept in the database *)
(* by stable key, and the note of which input each database row was        *)
(* written from.  A browser's stable key is (browser, site), so the pages  *)
(* of one site share a row while each page has an embedding of its own.    *)
(*                                                                         *)
(* An embedding is the page it embeds: the model is deterministic.  A      *)
(* caller is a connection's handler inside AbstractionEngine::process,     *)
(* which observes the window and then asks the tiers about it.             *)
(***************************************************************************)
EXTENDS Naturals, Sequences, FiniteSets

CONSTANTS
    Nothing,
    Callers,      \* the connections whose handlers run side by side
    Pages,        \* the inputs that get embedded
    KeyOf,        \* the stable key of a page
    KeptSketches  \* how many sketches are kept in memory before they are cleared

SketchRequests == [caller : Callers \cup {Nothing}, input : Pages]

ASSUME SketchAssumption ==
    /\ KeyOf = [p \in Pages |-> KeyOf[p]]
    /\ {Nothing, "Failed", "TimedOut"} \cap (Pages \cup Callers) = {}
    /\ Nothing \notin {"Failed", "TimedOut"}
    /\ Nothing \notin SketchRequests

Keys == {KeyOf[p] : p \in Pages}

VARIABLES
    at,        \* where each caller is
    page,      \* the page it is about
    sketch,    \* the embedding in its hands
    reply,     \* what its inference answered: Nothing, "Failed", "TimedOut" or a page
    used,      \* the embedding it classified its page with
    queue,     \* the request channel: the caller and the page of each request
    worker,    \* the request being inferred, or Nothing
    overrun,   \* the worker has given its request up and waits for the model
    observed,  \* the sketches in memory, by input
    recorded,  \* which input each row was written from, by key
    rows       \* semantic_embedding_cache

sketchvars == <<at, page, sketch, reply, used, queue, worker, overrun, observed, recorded, rows>>

MaybePage == Pages \cup {Nothing}

SketchTypeOK ==
    /\ at \in [Callers -> {"idle", "check", "read", "ask", "wait", "keep", "record", "mark",
                           "classify", "askAgain", "waitAgain"}]
    /\ page \in [Callers -> MaybePage]
    /\ sketch \in [Callers -> MaybePage]
    /\ reply \in [Callers -> MaybePage \cup {"Failed", "TimedOut"}]
    /\ used \in [Callers -> MaybePage]
    /\ queue \in {<<>>} \cup {<<r>> : r \in SketchRequests}
    /\ worker \in SketchRequests \cup {Nothing}
    /\ overrun \in BOOLEAN
    /\ observed \in [Pages -> MaybePage]
    /\ recorded \in [Keys -> MaybePage]
    /\ rows \in [Keys -> MaybePage]
    /\ \A c \in Callers : at[c] # "idle" => page[c] \in Pages

Forgotten(D) == [d \in D |-> Nothing]

SketchInit ==
    /\ at = [c \in Callers |-> "idle"]
    /\ page = Forgotten(Callers) /\ sketch = Forgotten(Callers)
    /\ reply = Forgotten(Callers) /\ used = Forgotten(Callers)
    /\ queue = <<>> /\ worker = Nothing /\ overrun = FALSE
    /\ observed = Forgotten(Pages) /\ recorded = Forgotten(Keys) /\ rows = Forgotten(Keys)

Go(c, from, to) == at[c] = from /\ at' = [at EXCEPT ![c] = to]

\* A map of at most KeptSketches entries: full, it is cleared before an insert.
Insert(kept, key, value) ==
    LET full == Cardinality({k \in DOMAIN kept : kept[k] # Nothing}) >= KeptSketches
    IN  [IF full THEN Forgotten(DOMAIN kept) ELSE kept EXCEPT ![key] = value]

-----------------------------------------------------------------------------
(* observe *)

Arrive(c, p) ==
    /\ Go(c, "idle", "check")
    /\ page' = [page EXCEPT ![c] = p]
    /\ sketch' = [sketch EXCEPT ![c] = Nothing] /\ used' = [used EXCEPT ![c] = Nothing]
    /\ UNCHANGED <<reply, queue, worker, overrun, observed, recorded, rows>>

\* Mutant: a row is taken for the key's page, whatever it was written from.
RowOfThisKey(c) == rows[KeyOf[page[c]]] # Nothing

RowHoldsThisInput(c) == recorded[KeyOf[page[c]]] = page[c]

CheckRow(c) ==
    /\ Go(c, "check", IF RowHoldsThisInput(c) THEN "read" ELSE "ask")
    /\ UNCHANGED <<page, sketch, reply, used, queue, worker, overrun, observed, recorded, rows>>

ReadRow(c) ==
    LET row == rows[KeyOf[page[c]]]
    IN  /\ Go(c, "read", IF row = Nothing THEN "ask" ELSE "keep")
        /\ sketch' = [sketch EXCEPT ![c] = row]
        /\ UNCHANGED <<page, reply, used, queue, worker, overrun, observed, recorded, rows>>

Keep(c) ==
    /\ Go(c, "keep", "record")
    /\ observed' = Insert(observed, page[c], sketch[c])
    /\ UNCHANGED <<page, sketch, reply, used, queue, worker, overrun, recorded, rows>>

\* The row is written, or the store refuses and nothing is noted of it.
Record(c) ==
    /\ \/ Go(c, "record", "mark") /\ rows' = [rows EXCEPT ![KeyOf[page[c]]] = sketch[c]]
       \/ Go(c, "record", "classify") /\ UNCHANGED rows
    /\ UNCHANGED <<page, sketch, reply, used, queue, worker, overrun, observed, recorded>>

Mark(c) ==
    /\ Go(c, "mark", "classify")
    /\ recorded' = Insert(recorded, KeyOf[page[c]], page[c])
    /\ UNCHANGED <<page, sketch, reply, used, queue, worker, overrun, observed, rows>>

-----------------------------------------------------------------------------
(* classify_declared, when no tier above answered *)

Answered(c) ==
    /\ Go(c, "classify", "idle")
    /\ UNCHANGED <<page, sketch, reply, used, queue, worker, overrun, observed, recorded, rows>>

UseSketch(c) ==
    LET kept == observed[page[c]]
    IN  /\ Go(c, "classify", IF kept = Nothing THEN "askAgain" ELSE "idle")
        /\ used' = [used EXCEPT ![c] = kept]
        /\ observed' = [observed EXCEPT ![page[c]] = Nothing]
        /\ UNCHANGED <<page, sketch, reply, queue, worker, overrun, recorded, rows>>

-----------------------------------------------------------------------------
(* infer, from either place: a full channel is no answer at once. *)

Ask(c) ==
    /\ \/ Go(c, "ask", IF queue = <<>> THEN "wait" ELSE "classify")
       \/ Go(c, "askAgain", IF queue = <<>> THEN "waitAgain" ELSE "idle")
    /\ queue' = IF queue = <<>> THEN <<[caller |-> c, input |-> page[c]]>> ELSE queue
    /\ UNCHANGED <<page, sketch, reply, used, worker, overrun, observed, recorded, rows>>

Receive(c) ==
    /\ reply[c] # Nothing
    /\ \/ /\ Go(c, "wait", IF reply[c] \in Pages THEN "keep" ELSE "classify")
          /\ sketch' = [sketch EXCEPT ![c] = IF reply[c] \in Pages THEN reply[c] ELSE Nothing]
          /\ UNCHANGED used
       \/ /\ Go(c, "waitAgain", "idle")
          /\ used' = [used EXCEPT ![c] = IF reply[c] \in Pages THEN reply[c] ELSE Nothing]
          /\ UNCHANGED sketch
    /\ reply' = [reply EXCEPT ![c] = Nothing]
    /\ UNCHANGED <<page, queue, worker, overrun, observed, recorded, rows>>

Abandoned(request, c) == IF request # Nothing /\ request.caller = c
                         THEN [request EXCEPT !.caller = Nothing] ELSE request

\* Mutant: the caller waits for the worker however long it takes.
WaitForWorker(c) == FALSE /\ UNCHANGED sketchvars

\* recv_timeout: the reply channel is dropped and the request with it.
GiveUp(c) ==
    /\ reply[c] = Nothing
    /\ Go(c, "wait", "classify") \/ Go(c, "waitAgain", "idle")
    /\ queue' = [i \in DOMAIN queue |-> Abandoned(queue[i], c)]
    /\ worker' = Abandoned(worker, c)
    /\ UNCHANGED <<page, sketch, reply, used, overrun, observed, recorded, rows>>

-----------------------------------------------------------------------------
(* The inference worker. *)

Answer(outcome) ==
    reply' = IF worker.caller = Nothing THEN reply ELSE [reply EXCEPT ![worker.caller] = outcome]

Take ==
    /\ worker = Nothing /\ queue # <<>>
    /\ worker' = Head(queue) /\ queue' = Tail(queue)
    /\ UNCHANGED <<at, page, sketch, reply, used, overrun, observed, recorded, rows>>

Infer ==
    /\ worker # Nothing /\ ~overrun
    /\ Answer(worker.input) \/ Answer("Failed")
    /\ worker' = Nothing
    /\ UNCHANGED <<at, page, sketch, used, queue, overrun, observed, recorded, rows>>

\* The model cannot be cancelled: the worker tells the caller and stays with it.
Overrun ==
    /\ worker # Nothing /\ ~overrun
    /\ Answer("TimedOut") /\ overrun' = TRUE
    /\ UNCHANGED <<at, page, sketch, used, queue, worker, observed, recorded, rows>>

ModelReturns ==
    /\ overrun /\ overrun' = FALSE /\ worker' = Nothing
    /\ UNCHANGED <<at, page, sketch, reply, used, queue, observed, recorded, rows>>

-----------------------------------------------------------------------------
(* The table keeps its newest rows only, and retention expires the rest. *)
Evict(k) ==
    /\ rows[k] # Nothing /\ rows' = [rows EXCEPT ![k] = Nothing]
    /\ UNCHANGED <<at, page, sketch, reply, used, queue, worker, overrun, observed, recorded>>

Restart ==
    /\ rows # Forgotten(Keys)
    /\ at' = [c \in Callers |-> "idle"]
    /\ page' = Forgotten(Callers) /\ sketch' = Forgotten(Callers)
    /\ reply' = Forgotten(Callers) /\ used' = Forgotten(Callers)
    /\ queue' = <<>> /\ worker' = Nothing /\ overrun' = FALSE
    /\ observed' = Forgotten(Pages) /\ recorded' = Forgotten(Keys)
    /\ UNCHANGED rows

CallerStep(c) ==
    CheckRow(c) \/ ReadRow(c) \/ Keep(c) \/ Record(c) \/ Mark(c) \/ Answered(c) \/ UseSketch(c)
        \/ Ask(c) \/ Receive(c) \/ GiveUp(c)

SketchStep ==
    \/ \E c \in Callers : CallerStep(c) \/ \E p \in Pages : Arrive(c, p)
    \/ Take \/ Infer \/ Overrun \/ ModelReturns
    \/ \E k \in Keys : Evict(k)
    \/ Restart

SketchSpec == SketchInit /\ [][SketchStep]_sketchvars

-----------------------------------------------------------------------------
(* A window is classified with its own sketch: the embedding a caller        *)
(* classifies its page with is the embedding of that page, though the pages  *)
(* of one site share a database row and the row outlives the process (the    *)
(* recorded_inputs check of observe).                                        *)
SketchIsOfThisPage == \A c \in Callers : used[c] \in {Nothing, page[c]}

(* Tier 2 never holds an event up: a handler that entered it leaves it, even *)
(* when the model never returns and the worker stays with it for good (the   *)
(* full channel, the recv_timeout).                                          *)
HandlerReturns == \A c \in Callers : at[c] # "idle" ~> at[c] = "idle"

=============================================================================
