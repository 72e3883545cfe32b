---------------------------- MODULE EgressLedger ----------------------------
(***************************************************************************)
(* The egress ledger: a hash-chained table to which the one HTTP client    *)
(* appends every request before it sends it, and which retention prunes    *)
(* from the old end, leaving a checkpoint for the chain to start from.     *)
(*                                                                         *)
(* The hash of an entry is modelled as the sequence of all the lines it    *)
(* stands for: like SHA-256, no two different chains share one.            *)
(***************************************************************************)
EXTENDS Integers, Sequences, FiniteSetsExt

CONSTANTS
    Requests,    \* requests, one for every call of HttpClient::send
    ClockMax,    \* bound: the clock runs from 0 to here, and may be set back
    Keep,        \* EGRESS_LEDGER_RETENTION_DAYS
    MaxEntries,  \* EGRESS_LEDGER_MAX_ENTRIES
    PruneBatch   \* rows pruned in one cycle

ASSUME LedgerAssumption == ClockMax \in Nat /\ Keep \in Nat /\ MaxEntries \in Nat /\ PruneBatch \in Nat

VARIABLES
    now,       \* the wall clock
    entries,   \* egress_ledger, oldest first
    anchor,    \* the newest egress_ledger_checkpoint, or the genesis
    stage,     \* where each request is: "new", "stamped", "recorded", "sent", "failed"
    stamp,     \* the time its send has read
    sent       \* the requests that left the device

ledgervars == <<now, entries, anchor, stage, stamp, sent>>

Times == 0..ClockMax
Genesis == [seq |-> 0, hash |-> <<>>]

\* entry_hash of chain_line.
EntryHash(seq, at, request, prev) ==
    Append(prev, [seq |-> seq, at |-> at, request |-> request])

LedgerInit ==
    /\ now = 0 /\ entries = <<>> /\ anchor = Genesis
    /\ stage = [r \in Requests |-> "new"] /\ stamp = [r \in Requests |-> 0] /\ sent = {}

\* head: the newest entry, else the newest checkpoint, else the genesis.
Head_ == IF entries = <<>> THEN anchor
         ELSE [seq |-> entries[Len(entries)].seq, hash |-> entries[Len(entries)].hash]

NewEntry(r) ==
    [seq |-> Head_.seq + 1, at |-> stamp[r], request |-> r, prev |-> Head_.hash,
     hash |-> EntryHash(Head_.seq + 1, stamp[r], r, Head_.hash)]

\* send reads the clock, then hands the request to a blocking thread.
Stamp(r) ==
    /\ stage[r] = "new" /\ stage' = [stage EXCEPT ![r] = "stamped"]
    /\ stamp' = [stamp EXCEPT ![r] = now]
    /\ UNCHANGED <<now, entries, anchor, sent>>

\* append: one immediate transaction.  A request it cannot record is not sent.
AppendEntry(r) ==
    /\ stage[r] = "stamped"
    /\ \/ entries' = Append(entries, NewEntry(r)) /\ stage' = [stage EXCEPT ![r] = "recorded"]
       \/ stage' = [stage EXCEPT ![r] = "failed"] /\ UNCHANGED entries
    /\ UNCHANGED <<now, anchor, stamp, sent>>

\* Mutant: the request is sent while its entry is being written.
MaySendUnrecorded(r) == stage[r] \in {"stamped", "recorded"}
MaySend(r) == stage[r] = "recorded"

\* The rest of send.
SendRequest(r) ==
    /\ MaySend(r) /\ stage' = [stage EXCEPT ![r] = "sent"] /\ sent' = sent \cup {r}
    /\ UNCHANGED <<now, entries, anchor, stamp>>

\* How far prune goes: past the horizon or the cap, and no further than a
\* batch from the first entry.
PruneThrough ==
    LET first == entries[1].seq
        last  == entries[Len(entries)].seq
        old   == {0} \cup {entries[i].seq : i \in {j \in 1..Len(entries) : entries[j].at < now - Keep}}
    IN Min({Max({Max(old), last - MaxEntries}), first - 1 + PruneBatch})

\* Mutant: the checkpoint is the first entry that stays.
CheckpointAfter(n) ==
    IF n < Len(entries) THEN [seq |-> entries[n + 1].seq, hash |-> entries[n + 1].hash]
    ELSE [seq |-> entries[n].seq, hash |-> entries[n].hash]
\* The checkpoint of a prune that removes the n oldest entries.
Checkpoint(n) == [seq |-> entries[n].seq, hash |-> entries[n].hash]

\* prune: one immediate transaction; it never goes past the last entry.
Prune ==
    /\ entries # <<>>
    /\ LET n == PruneThrough - entries[1].seq + 1
       IN /\ n \in 1..Len(entries)
          /\ anchor' = Checkpoint(n)
          /\ entries' = SubSeq(entries, n + 1, Len(entries))
    /\ UNCHANGED <<now, stage, stamp, sent>>

SetClock == \E t \in Times \ {now} : now' = t /\ UNCHANGED <<entries, anchor, stage, stamp, sent>>

\* The process dies: what was on its way to the network is not sent.
LedgerCrash ==
    /\ stage' = [r \in Requests |-> IF stage[r] \in {"stamped", "recorded"} THEN "failed" ELSE stage[r]]
    /\ stage' # stage
    /\ UNCHANGED <<now, entries, anchor, stamp, sent>>

LedgerNext ==
    \/ \E r \in Requests : Stamp(r) \/ AppendEntry(r) \/ SendRequest(r)
    \/ Prune \/ SetClock \/ LedgerCrash
LedgerSpec == LedgerInit /\ [][LedgerNext]_ledgervars

\* What the audit command checks, oldest first: each entry follows the one
\* before by one, links to its hash, and has the hash it says.
verify_chain(checkpoint, es) ==
    \A i \in 1..Len(es) :
        LET prev == IF i = 1 THEN checkpoint.hash ELSE es[i - 1].hash
            e    == es[i]
        IN /\ e.seq = checkpoint.seq + i
           /\ e.prev = prev
           /\ e.hash = EntryHash(e.seq, e.at, e.request, e.prev)

-----------------------------------------------------------------------------
(* Properties.                                                             *)

LedgerTypeOK ==
    /\ now \in Times /\ stage \in [Requests -> {"new", "stamped", "recorded", "sent", "failed"}]
    /\ stamp \in [Requests -> Times] /\ sent \subseteq Requests

\* verify_chain never finds a gap, a broken link or an edited entry in what
\* appends, prunes and restarts leave behind, whatever the clock does
\* (egress_ledger.rs, append and prune).
ChainVerifies == verify_chain(anchor, entries)

\* The ledger implements the log it promises: the hash at its head stands
\* for every request ever recorded, numbered without a gap, in an order that
\* never changes; pruning forgets entries without changing it; and no request
\* leaves before it is in it (http.rs, send; egress_ledger.rs).
Log == INSTANCE EgressLog WITH log <- Head_.hash, transmitted <- sent
LedgerImplementsLog == Log!LogSpec
=============================================================================
