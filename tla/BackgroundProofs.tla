------------------------- MODULE BackgroundProofs -------------------------
(***************************************************************************)
(* Proofs about the tasks that run beside the request handlers.  The chain *)
(* of the egress ledger verifies in every state, and the ledger implements *)
(* the append-only log of EgressLog, for any number of requests and any    *)
(* horizons; the retention sweeps spare what the uploads still owe, for    *)
(* any number of events, days, failures and restarts.                      *)
(***************************************************************************)
EXTENDS EgressLedger, Retention, SequenceTheorems, TLAPS

----------------------------------------------------------------------------
(* The egress ledger.                                                      *)

Line  == [seq : Nat, at : Times, request : Requests]
Mark  == [seq : Nat, hash : Seq(Line)]
Entry == [seq : Nat, at : Times, request : Requests, prev : Seq(Line), hash : Seq(Line)]

\* The requests a hash stands for.
In(h) == {h[k].request : k \in 1..Len(h)}

Shape == entries \in Seq(Entry) /\ anchor \in Mark

\* A hash stands for as many lines as its entry's number.
Lengths ==
    /\ Len(anchor.hash) = anchor.seq
    /\ \A k \in 1..Len(entries) : Len(entries[k].hash) = entries[k].seq

\* A request is in the chain once it is recorded and not before.
Stages ==
    /\ \A r \in Requests : stage[r] \in {"new", "stamped"} => r \notin In(Head_.hash)
    /\ \A r \in Requests : stage[r] \in {"recorded", "sent"} => r \in In(Head_.hash)
    /\ \A r \in sent : stage[r] = "sent"

LedgerInv == LedgerTypeOK /\ Shape /\ ChainVerifies /\ Lengths /\ Stages

\* head is a mark of the chain.
LEMMA HeadIsMark ==
    ASSUME Shape, Lengths
    PROVE  Head_ \in Mark /\ Len(Head_.hash) = Head_.seq
<1>1. CASE entries = <<>>
  BY <1>1 DEF Head_, Shape, Lengths
<1>2. CASE entries # <<>>
  <2>1. Len(entries) \in 1..Len(entries) /\ entries[Len(entries)] \in Entry
    BY <1>2, EmptySeq, LenProperties, ElementOfSeq DEF Shape
  <2> QED BY <2>1, <1>2 DEF Head_, Lengths, Mark, Entry
<1> QED BY <1>1, <1>2

\* What an append adds is an entry, linked to the head.
LEMMA NewEntryFacts ==
    ASSUME LedgerTypeOK, Shape, Lengths, NEW r \in Requests
    PROVE  /\ NewEntry(r) \in Entry
           /\ NewEntry(r).seq = Head_.seq + 1 /\ NewEntry(r).prev = Head_.hash
           /\ NewEntry(r).at = stamp[r] /\ NewEntry(r).request = r
           /\ NewEntry(r).hash = EntryHash(Head_.seq + 1, stamp[r], r, Head_.hash)
           /\ Len(NewEntry(r).hash) = Head_.seq + 1
<1> DEFINE line == [seq |-> Head_.seq + 1, at |-> stamp[r], request |-> r]
<1>1. Head_ \in Mark /\ Len(Head_.hash) = Head_.seq
  BY HeadIsMark
<1>2. line \in Line
  BY <1>1 DEF Line, Mark, LedgerTypeOK
<1>3. Append(Head_.hash, line) \in Seq(Line) /\ Len(Append(Head_.hash, line)) = Head_.seq + 1
  <2>1. Head_.hash \in Seq(Line) BY <1>1 DEF Mark
  <2> HIDE DEF line
  <2> QED BY <1>1, <1>2, <2>1, AppendProperties
<1> QED
  BY <1>1, <1>2, <1>3 DEF NewEntry, EntryHash, Entry, Mark, LedgerTypeOK

\* After an append the head is the new entry.
LEMMA HeadAfterAppend ==
    ASSUME LedgerTypeOK, Shape, Lengths, NEW r \in Requests,
           entries' = Append(entries, NewEntry(r)), anchor' = anchor
    PROVE  /\ entries' \in Seq(Entry) /\ Len(entries') = Len(entries) + 1
           /\ \A k \in 1..Len(entries) : entries'[k] = entries[k]
           /\ entries'[Len(entries) + 1] = NewEntry(r)
           /\ Head_' = [seq |-> NewEntry(r).seq, hash |-> NewEntry(r).hash]
<1>1. NewEntry(r) \in Entry
  BY NewEntryFacts
<1> DEFINE e == NewEntry(r)
<1>2. /\ entries' \in Seq(Entry) /\ entries' # <<>> /\ Len(entries') = Len(entries) + 1
      /\ \A k \in 1..Len(entries) : entries'[k] = entries[k]
      /\ entries'[Len(entries) + 1] = e
  <2>1. entries \in Seq(Entry) /\ e \in Entry BY <1>1 DEF Shape
  <2> HIDE DEF e
  <2>2. entries' = Append(entries, e) BY DEF e
  <2> QED BY <2>1, <2>2, AppendProperties
<1> QED BY <1>2 DEF Head_

\* A prune leaves the head where it is.
LEMMA HeadAfterPrune ==
    ASSUME LedgerInv, NEW n \in 1..Len(entries),
           anchor' = Checkpoint(n), entries' = SubSeq(entries, n + 1, Len(entries))
    PROVE  /\ entries' \in Seq(Entry) /\ anchor' \in Mark /\ Len(entries') = Len(entries) - n
           /\ \A k \in 1..(Len(entries) - n) : entries'[k] = entries[n + k]
           /\ Head_' = Head_
<1>1. entries \in Seq(Entry) /\ Len(entries) \in Nat /\ n \in Nat
  BY LenProperties DEF LedgerInv, Shape
<1>2. \A k \in 1..Len(entries) : entries[k] \in Entry
  BY <1>1, ElementOfSeq
<1>3. /\ entries' \in Seq(Entry)
      /\ Len(entries') = IF n + 1 <= Len(entries) THEN Len(entries) - (n + 1) + 1 ELSE 0
      /\ \A k \in 1..(Len(entries) - (n + 1) + 1) : entries'[k] = entries[(n + 1) + k - 1]
  <2>1. \A k \in (n + 1)..Len(entries) : entries[k] \in Entry
    BY <1>1, <1>2
  <2>2. n + 1 \in Int /\ Len(entries) \in Int
    BY <1>1
  <2> QED BY <2>1, <2>2, SubSeqProperties
<1>4. Len(entries') = Len(entries) - n
  BY <1>1, <1>3
<1>5. \A k \in 1..(Len(entries) - n) : entries'[k] = entries[n + k]
  <2> TAKE k \in 1..(Len(entries) - n)
  <2>1. k \in 1..(Len(entries) - (n + 1) + 1) /\ (n + 1) + k - 1 = n + k
    BY <1>1
  <2> QED BY <1>3, <2>1
<1>6. anchor' \in Mark
  BY <1>2 DEF Checkpoint, Mark, Entry
<1>7. Head_' = Head_
  <2>1. entries # <<>>
    BY <1>1
  <2>2. CASE n = Len(entries)
    <3>1. entries' = <<>>
      BY <2>2, <1>1, <1>3, <1>4, EmptySeq
    <3> QED BY <3>1, <2>1, <2>2 DEF Head_, Checkpoint
  <2>3. CASE n < Len(entries)
    <3>0. Len(entries) - n \in 1..(Len(entries) - n) /\ n + (Len(entries) - n) = Len(entries)
      BY <2>3, <1>1
    <3>1. entries' # <<>>
      <4> DEFINE m == Len(entries) - n
      <4>0. m \in 1..m /\ Len(entries') = m
        BY <3>0, <1>4
      <4> HIDE DEF m
      <4>1. Len(entries') # 0
        BY <4>0
      <4> QED BY <4>1, <1>3, EmptySeq
    <3>2. entries'[Len(entries')] = entries[Len(entries)]
      <4>1. entries'[Len(entries) - n] = entries[n + (Len(entries) - n)]
        BY <3>0, <1>5
      <4> QED BY <3>0, <4>1, <1>4
    <3> QED BY <3>1, <3>2, <2>1 DEF Head_
  <2> QED BY <2>2, <2>3, <1>1
<1> QED BY <1>3, <1>4, <1>5, <1>6, <1>7

-----------------------------------------------------------------------------

LEMMA LedgerInitInv == LedgerInit => LedgerInv
<1> SUFFICES ASSUME LedgerInit PROVE LedgerInv
  OBVIOUS
<1> USE DEF LedgerInit, Genesis
<1>1. LedgerTypeOK
  BY LedgerAssumption DEF LedgerTypeOK, Times
<1>2. Shape
  BY EmptySeq DEF Shape, Mark
<1>3. ChainVerifies /\ Lengths
  BY EmptySeq DEF ChainVerifies, verify_chain, Lengths
<1>4. Stages
  BY EmptySeq DEF Stages, Head_, In
<1> QED BY <1>1, <1>2, <1>3, <1>4 DEF LedgerInv

\* Recorded requests after an append.
LEMMA InAfterAppend ==
    ASSUME LedgerTypeOK, Shape, Lengths, NEW r \in Requests,
           entries' = Append(entries, NewEntry(r)), anchor' = anchor
    PROVE  /\ In(Head_'.hash) = In(Head_.hash) \cup {r}
           /\ Head_'.hash = Append(Head_.hash, [seq |-> Len(Head_.hash) + 1, at |-> stamp[r], request |-> r])
<1> DEFINE line == [seq |-> Len(Head_.hash) + 1, at |-> stamp[r], request |-> r]
           h == Head_.hash
<1>1. Head_ \in Mark /\ Len(h) = Head_.seq
  BY HeadIsMark
<1>2. Head_'.hash = Append(h, line)
  BY <1>1, HeadAfterAppend, NewEntryFacts DEF EntryHash
<1>3. h \in Seq(Line) /\ line \in Line /\ Len(h) \in Nat
  BY <1>1, LenProperties DEF Mark, Line, LedgerTypeOK
<1>4. line.request = r
  OBVIOUS
<1>5. In(Append(h, line)) = In(h) \cup {r}
  <2> HIDE DEF line, h
  <2>1. /\ Len(Append(h, line)) = Len(h) + 1
        /\ \A k \in 1..Len(h) : Append(h, line)[k] = h[k]
        /\ Append(h, line)[Len(h) + 1] = line
    BY <1>3, AppendProperties
  <2> QED BY <2>1, <1>3, <1>4 DEF In
<1> QED BY <1>2, <1>5

LEMMA AppendKeepsInv ==
    ASSUME LedgerInv, NEW r \in Requests, AppendEntry(r)
    PROVE  LedgerInv'
<1> USE DEF AppendEntry
<1>0. LedgerTypeOK /\ Shape /\ Lengths /\ ChainVerifies /\ Stages
  BY DEF LedgerInv
<1>1. LedgerTypeOK'
  BY <1>0 DEF LedgerTypeOK
<1>2. CASE entries' = entries
  <2>1. Head_' = Head_
    BY <1>2 DEF Head_
  <2>2. Shape' /\ ChainVerifies' /\ Lengths'
    BY <1>0, <1>2 DEF Shape, ChainVerifies, verify_chain, Lengths
  <2>3. stage' = [stage EXCEPT ![r] = "failed"] \/ stage' = [stage EXCEPT ![r] = "recorded"]
    OBVIOUS
  <2>4. CASE stage' = [stage EXCEPT ![r] = "failed"]
    BY <1>0, <1>1, <2>1, <2>2, <2>4 DEF Stages, LedgerInv, LedgerTypeOK
  <2>5. CASE entries' = Append(entries, NewEntry(r))
    <3>1. Len(entries') = Len(entries) + 1 /\ Len(entries) \in Nat
      BY <1>0, <2>5, HeadAfterAppend, LenProperties DEF Shape
    <3> QED BY <3>1, <1>2
  <2> QED BY <2>4, <2>5
<1>3. CASE entries' = Append(entries, NewEntry(r)) /\ stage' = [stage EXCEPT ![r] = "recorded"]
  <2>1. /\ entries' \in Seq(Entry) /\ Len(entries') = Len(entries) + 1
        /\ \A k \in 1..Len(entries) : entries'[k] = entries[k]
        /\ entries'[Len(entries) + 1] = NewEntry(r)
    BY <1>0, <1>3, HeadAfterAppend
  <2>2. Len(entries) \in Nat /\ Shape'
    BY <1>0, <2>1, LenProperties DEF Shape
  <2>3. Head_ \in Mark /\ Len(Head_.hash) = Head_.seq
    BY <1>0, HeadIsMark
  <2>4. Head_.seq = anchor.seq + Len(entries)
        /\ Head_.hash = IF Len(entries) = 0 THEN anchor.hash ELSE entries[Len(entries)].hash
    <3>1. CASE entries = <<>>
      BY <3>1, <1>0, EmptySeq DEF Head_, Shape, Mark
    <3>2. CASE entries # <<>>
      <4>1. Len(entries) \in 1..Len(entries)
        BY <3>2, <1>0, EmptySeq, <2>2 DEF Shape
      <4> QED BY <4>1, <3>2, <1>0 DEF Head_, ChainVerifies, verify_chain
    <3> QED BY <3>1, <3>2
  <2>5. ChainVerifies'
    <3> SUFFICES ASSUME NEW k \in 1..Len(entries')
                 PROVE  /\ entries'[k].seq = anchor'.seq + k
                        /\ entries'[k].prev = IF k = 1 THEN anchor'.hash ELSE entries'[k - 1].hash
                        /\ entries'[k].hash = EntryHash(entries'[k].seq, entries'[k].at,
                                                        entries'[k].request, entries'[k].prev)
      BY DEF ChainVerifies, verify_chain, EntryHash
    <3>1. CASE k <= Len(entries)
      <4>1. k \in 1..Len(entries) /\ (k # 1 => k - 1 \in 1..Len(entries))
        BY <3>1, <2>1, <2>2
      <4> QED BY <4>1, <1>0, <2>1 DEF ChainVerifies, verify_chain
    <3>2. CASE k = Len(entries) + 1
      <4>1. entries'[k] = NewEntry(r) /\ (k = 1 <=> Len(entries) = 0)
        BY <3>2, <2>1, <2>2
      <4>2. k # 1 => k - 1 = Len(entries) /\ Len(entries) \in 1..Len(entries)
        BY <3>2, <2>2
      <4>3. NewEntry(r).prev = IF k = 1 THEN anchor'.hash ELSE entries'[k - 1].hash
        BY <4>1, <4>2, <2>1, <2>4, <1>0, NewEntryFacts
      <4>4. NewEntry(r).seq = anchor'.seq + k
        BY <3>2, <2>2, <2>4, <1>0, NewEntryFacts DEF Shape, Mark
      <4>5. NewEntry(r).hash = EntryHash(NewEntry(r).seq, NewEntry(r).at, NewEntry(r).request, NewEntry(r).prev)
        BY <1>0, NewEntryFacts
      <4> QED BY <4>1, <4>3, <4>4, <4>5
    <3> QED BY <3>1, <3>2, <2>1, <2>2
  <2>6. Lengths'
    <3>1. \A k \in 1..Len(entries') : k \in 1..Len(entries) \/ k = Len(entries) + 1
      BY <2>1, <2>2
    <3>2. Len(NewEntry(r).hash) = NewEntry(r).seq
      BY <1>0, NewEntryFacts
    <3> QED BY <3>1, <3>2, <2>1, <1>0 DEF Lengths
  <2>7. Stages'
    <3>1. In(Head_'.hash) = In(Head_.hash) \cup {r}
      BY <1>0, <1>3, InAfterAppend
    <3>2. In(Head_.hash)' = In(Head_'.hash)
      BY DEF In
    <3>3. stage[r] = "stamped" /\ r \notin sent
      BY <1>0 DEF Stages
    <3>4. \A q \in Requests : stage'[q] = IF q = r THEN "recorded" ELSE stage[q]
      BY <1>0, <1>3 DEF LedgerTypeOK
    <3>5. sent' = sent /\ sent \subseteq Requests
      BY <1>0 DEF LedgerTypeOK
    <3> QED BY <3>1, <3>2, <3>3, <3>4, <3>5, <1>0 DEF Stages
  <2> QED BY <1>1, <2>2, <2>5, <2>6, <2>7 DEF LedgerInv
<1> QED BY <1>2, <1>3

LEMMA PruneKeepsInv ==
    ASSUME LedgerInv, Prune
    PROVE  LedgerInv' /\ Head_' = Head_
<1>0. LedgerTypeOK /\ Shape /\ Lengths /\ ChainVerifies /\ Stages
  BY DEF LedgerInv
<1>1. PICK n \in 1..Len(entries) :
         anchor' = Checkpoint(n) /\ entries' = SubSeq(entries, n + 1, Len(entries))
  BY DEF Prune
<1>2. /\ entries' \in Seq(Entry) /\ anchor' \in Mark /\ Len(entries') = Len(entries) - n
      /\ \A k \in 1..(Len(entries) - n) : entries'[k] = entries[n + k]
      /\ Head_' = Head_
  BY <1>1, HeadAfterPrune
<1>3. Len(entries) \in Nat /\ n \in Nat /\ n >= 1 /\ n <= Len(entries)
  BY <1>0, LenProperties DEF Shape
<1>4. LedgerTypeOK' /\ Shape'
  BY <1>0, <1>2 DEF LedgerTypeOK, Shape, Prune
<1>5. anchor'.seq = entries[n].seq /\ anchor'.hash = entries[n].hash
  BY <1>1 DEF Checkpoint
<1>6. anchor'.seq = anchor.seq + n
  BY <1>0, <1>5 DEF ChainVerifies, verify_chain
<1>7. ChainVerifies'
  <2> SUFFICES ASSUME NEW k \in 1..Len(entries')
               PROVE  /\ entries'[k].seq = anchor'.seq + k
                      /\ entries'[k].prev = IF k = 1 THEN anchor'.hash ELSE entries'[k - 1].hash
                      /\ entries'[k].hash = EntryHash(entries'[k].seq, entries'[k].at,
                                                      entries'[k].request, entries'[k].prev)
    BY DEF ChainVerifies, verify_chain, EntryHash
  <2>1. /\ n + k \in 1..Len(entries) /\ n + k # 1 /\ k \in 1..(Len(entries) - n)
        /\ (k # 1 => k - 1 \in 1..(Len(entries) - n) /\ n + (k - 1) = n + k - 1)
        /\ (k = 1 => n + k - 1 = n)
    BY <1>2, <1>3
  <2>2. entries'[k] = entries[n + k] /\ (k # 1 => entries'[k - 1] = entries[n + k - 1])
    BY <2>1, <1>2
  <2>3. entries[n + k].prev = entries[n + k - 1].hash
    BY <2>1, <1>0 DEF ChainVerifies, verify_chain
  <2>4. entries[n + k].seq = anchor.seq + (n + k)
    BY <2>1, <1>0 DEF ChainVerifies, verify_chain
  <2>5. anchor.seq + (n + k) = anchor'.seq + k
    BY <1>0, <1>3, <1>6 DEF Shape, Mark
  <2>6. entries[n + k].hash = EntryHash(entries[n + k].seq, entries[n + k].at, entries[n + k].request, entries[n + k].prev)
    BY <2>1, <1>0 DEF ChainVerifies, verify_chain
  <2> QED BY <2>1, <2>2, <2>3, <2>4, <2>5, <2>6, <1>5
<1>8. Lengths'
  <2>1. \A k \in 1..Len(entries') : k \in 1..(Len(entries) - n) /\ n + k \in 1..Len(entries)
    BY <1>2, <1>3
  <2> QED BY <2>1, <1>0, <1>2, <1>5 DEF Lengths
<1>9. Stages'
  BY <1>0, <1>2 DEF Stages, Prune, In
<1> QED BY <1>2, <1>4, <1>7, <1>8, <1>9 DEF LedgerInv

LEMMA OthersKeepInv ==
    ASSUME LedgerInv, NEW r \in Requests,
           Stamp(r) \/ SendRequest(r) \/ SetClock \/ LedgerCrash \/ UNCHANGED ledgervars
    PROVE  LedgerInv' /\ Head_' = Head_
<1>0. LedgerTypeOK /\ Shape /\ Lengths /\ ChainVerifies /\ Stages
  BY DEF LedgerInv
<1>1. entries' = entries /\ anchor' = anchor
  BY DEF Stamp, SendRequest, SetClock, LedgerCrash, ledgervars
<1>2. Head_' = Head_ /\ Shape' /\ Lengths' /\ ChainVerifies'
  BY <1>0, <1>1 DEF Head_, Shape, Lengths, ChainVerifies, verify_chain
<1>3. CASE Stamp(r)
  BY <1>0, <1>2, <1>3 DEF Stamp, LedgerTypeOK, Stages, LedgerInv, In
<1>4. CASE SendRequest(r)
  BY <1>0, <1>2, <1>4 DEF SendRequest, MaySend, LedgerTypeOK, Stages, LedgerInv, In
<1>5. CASE SetClock
  BY <1>0, <1>2, <1>5 DEF SetClock, LedgerTypeOK, Stages, LedgerInv, In
<1>6. CASE LedgerCrash
  BY <1>0, <1>2, <1>6 DEF LedgerCrash, LedgerTypeOK, Stages, LedgerInv, In
<1>7. CASE UNCHANGED ledgervars
  BY <1>0, <1>2, <1>7 DEF ledgervars, LedgerTypeOK, Stages, LedgerInv, In
<1> QED BY <1>3, <1>4, <1>5, <1>6, <1>7

LEMMA LedgerNextInv == LedgerInv /\ [LedgerNext]_ledgervars => LedgerInv'
<1> SUFFICES ASSUME LedgerInv, [LedgerNext]_ledgervars PROVE LedgerInv'
  OBVIOUS
<1>1. ASSUME NEW r \in Requests, Stamp(r) \/ SendRequest(r) PROVE LedgerInv'
  BY <1>1, OthersKeepInv
<1>2. ASSUME NEW r \in Requests, AppendEntry(r) PROVE LedgerInv'
  BY <1>2, AppendKeepsInv
<1>3. CASE Prune
  BY <1>3, PruneKeepsInv
<1>4. CASE SetClock \/ LedgerCrash \/ UNCHANGED ledgervars
  <2>1. CASE Requests = {}
    <3>0. LedgerTypeOK /\ Shape /\ Lengths /\ ChainVerifies /\ Stages
      BY DEF LedgerInv
    <3>1. entries' = entries /\ anchor' = anchor
      BY <1>4 DEF SetClock, LedgerCrash, ledgervars
    <3>2. Shape' /\ Lengths' /\ ChainVerifies'
      BY <3>0, <3>1 DEF Shape, Lengths, ChainVerifies, verify_chain
    <3>3. LedgerTypeOK' /\ sent' = sent
      BY <3>0, <1>4, <2>1 DEF SetClock, LedgerCrash, ledgervars, LedgerTypeOK
    <3> QED BY <3>0, <3>2, <3>3, <2>1 DEF LedgerInv, Stages, LedgerTypeOK
  <2>2. CASE Requests # {}
    BY <2>2, <1>4, OthersKeepInv
  <2> QED BY <2>1, <2>2
<1> QED BY <1>1, <1>2, <1>3, <1>4 DEF LedgerNext

\* verify_chain accepts what is on disk in every state the service can reach:
\* appends of concurrent requests, prunes by age and by count, crashes between
\* the two, and a clock that is set back (egress_ledger.rs, append, prune).
THEOREM ChainAlwaysVerifies == LedgerSpec => []ChainVerifies
<1>1. LedgerInv => ChainVerifies
  BY DEF LedgerInv
<1> QED BY <1>1, LedgerInitInv, LedgerNextInv, PTL DEF LedgerSpec

\* Every step of the ledger is a step of the log or changes nothing there.
LEMMA LedgerStepIsLogStep ==
    LedgerInv /\ [LedgerNext]_ledgervars => [Log!LogNext]_(Log!logvars)
<1> SUFFICES ASSUME LedgerInv, [LedgerNext]_ledgervars
             PROVE  Log!LogNext \/ UNCHANGED <<Head_.hash, sent>>
  BY DEF Log!logvars
<1>0. LedgerTypeOK /\ Shape /\ Lengths /\ ChainVerifies /\ Stages
  BY DEF LedgerInv
<1>a. Log!Recorded = In(Head_.hash)
  BY DEF Log!Recorded, In
<1>1. ASSUME NEW r \in Requests, Stamp(r)
      PROVE  UNCHANGED <<Head_.hash, sent>>
  BY <1>1, OthersKeepInv DEF Stamp
<1>2. ASSUME NEW r \in Requests, SendRequest(r)
      PROVE  Log!LogNext \/ UNCHANGED <<Head_.hash, sent>>
  <2>1. Head_'.hash = Head_.hash /\ sent' = sent \cup {r} /\ stage[r] = "recorded"
    BY <1>2, OthersKeepInv DEF SendRequest, MaySend
  <2>2. r \in In(Head_.hash) /\ r \notin sent
    BY <1>0, <2>1 DEF Stages
  <2>3. Log!Transmit(r)
    BY <2>1, <2>2, <1>a DEF Log!Transmit
  <2> QED BY <2>3 DEF Log!LogNext
<1>3. ASSUME NEW r \in Requests, AppendEntry(r)
      PROVE  Log!LogNext \/ UNCHANGED <<Head_.hash, sent>>
  <2>1. CASE entries' = entries
    BY <2>1, <1>3 DEF AppendEntry, Head_
  <2>2. CASE entries' = Append(entries, NewEntry(r))
    <3>1. Head_'.hash = Append(Head_.hash, [seq |-> Len(Head_.hash) + 1, at |-> stamp[r], request |-> r])
      BY <1>0, <1>3, <2>2, InAfterAppend DEF AppendEntry
    <3>2. r \notin In(Head_.hash) /\ stamp[r] \in Times /\ sent' = sent
      BY <1>0, <1>3 DEF AppendEntry, Stages, LedgerTypeOK
    <3>3. Log!Record(r, stamp[r])
      BY <3>1, <3>2, <1>a DEF Log!Record
    <3> QED BY <3>2, <3>3 DEF Log!LogNext
  <2> QED BY <2>1, <2>2, <1>3 DEF AppendEntry
<1>4. CASE Prune
  BY <1>4, PruneKeepsInv DEF Prune
<1>5. CASE SetClock \/ LedgerCrash \/ UNCHANGED ledgervars
  <2>1. entries' = entries /\ anchor' = anchor /\ sent' = sent
    BY <1>5 DEF SetClock, LedgerCrash, ledgervars
  <2> QED BY <2>1 DEF Head_
<1> QED BY <1>1, <1>2, <1>3, <1>4, <1>5 DEF LedgerNext

\* The ledger implements the append-only log: whatever is pruned, its head
\* stands for every request recorded since the first start, in order and
\* without a gap, and what left the device is among them (http.rs, send;
\* egress_ledger.rs).
THEOREM LedgerRefinesLog == LedgerSpec => LedgerImplementsLog
<1>1. LedgerInit => Log!LogInit
  BY DEF LedgerInit, Log!LogInit, Head_, Genesis
<1> QED
  BY <1>1, LedgerInitInv, LedgerNextInv, LedgerStepIsLogStep, PTL
     DEF LedgerSpec, LedgerImplementsLog, Log!LogSpec

----------------------------------------------------------------------------
(* Retention: what is owed stays.                                          *)

Row == [at : Nat, eligible : BOOLEAN]
Batch == [events : SUBSET Events, status : {"pending", "sent", "rejected"},
          created : Nat, sentAt : Nat]

RetentionTypeOK ==
    /\ today \in Nat /\ turn \in -1..Targets
    /\ troubles \in Nat /\ troubles <= MaxTroubles
    /\ DOMAIN raw \subseteq Events /\ \A e \in DOMAIN raw : raw[e] \in Row
    /\ memory \subseteq Events /\ batches \subseteq Batch
    /\ fate \in [Events -> {"new", "local", "owed", "sent", "rejected", "stale"}]
    /\ sends \in [Events -> Nat]

\* An event is in one place at a time, beside its row.
OneBatch == \A b, c \in batches : \A e \in b.events : e \in c.events => b = c
MemoryUnbatched == \A e \in memory : ~Batched(e)
NewIsNowhere ==
    \A e \in Events : fate[e] = "new" => e \notin DOMAIN raw /\ e \notin memory /\ ~Batched(e)

\* What the rows say of an event is what became of it.
BatchesTellFates ==
    \A b \in batches : \A e \in b.events : b.status # "pending" => fate[e] = b.status
OwedIsEligible == \A e \in DOMAIN raw : fate[e] = "owed" => raw[e].eligible

Places == OneBatch /\ MemoryUnbatched /\ NewIsNowhere /\ BatchesTellFates /\ OwedIsEligible

RetentionInv == RetentionTypeOK /\ Places /\ OwedIsOnDisk /\ BufferedIsMapped

USE DEF Targets

LEMMA InitRetention == RetentionInit => RetentionInv
<1> SUFFICES ASSUME RetentionInit PROVE RetentionInv
  OBVIOUS
<1> USE RetentionAssumption DEF RetentionInit
<1>1. DOMAIN raw = {} /\ DOMAIN mapped = {}
  OBVIOUS
<1>2. RetentionTypeOK
  BY <1>1 DEF RetentionTypeOK
<1>3. Places
  BY <1>1 DEF Places, OneBatch, MemoryUnbatched, NewIsNowhere, BatchesTellFates, OwedIsEligible, Batched
<1>4. OwedIsOnDisk /\ BufferedIsMapped
  BY <1>1 DEF OwedIsOnDisk, BufferedIsMapped
<1> QED BY <1>2, <1>3, <1>4 DEF RetentionInv

\* A delete with a LIMIT deletes nothing but the rows it is meant for.
LEMMA SweptIsSubset == ASSUME NEW S, NEW T \in Swept(S) PROVE T \subseteq S
BY DEF Swept

\* Nothing but the clock, the turn and the other tables moves.
Elsewhere == UNCHANGED <<raw, memory, batches, mapped, fate, sends>>
Clocked ==
    /\ today' \in Nat /\ turn' \in -1..Targets
    /\ troubles' \in Nat /\ troubles' <= MaxTroubles

LEMMA ElsewhereKeeps == RetentionInv /\ Clocked /\ Elsewhere => RetentionInv'
<1> SUFFICES ASSUME RetentionInv, Clocked, Elsewhere PROVE RetentionInv'
  OBVIOUS
<1> USE DEF Elsewhere, RetentionInv
<1>1. RetentionTypeOK'
  BY DEF RetentionTypeOK, Clocked
<1>2. Places'
  BY DEF Places, OneBatch, MemoryUnbatched, NewIsNowhere, BatchesTellFates, OwedIsEligible, Batched
<1>3. OwedIsOnDisk' /\ BufferedIsMapped'
  BY DEF OwedIsOnDisk, BufferedIsMapped, Batched
<1> QED BY <1>1, <1>2, <1>3

LEMMA AcceptKeeps == ASSUME RetentionInv, NEW e \in Events, Accept(e) PROVE RetentionInv'
<1> USE DEF RetentionInv
<1>1. PICK eligible \in BOOLEAN :
        /\ raw' = [x \in DOMAIN raw \cup {e} |->
                      IF x = e THEN [at |-> today, eligible |-> eligible] ELSE raw[x]]
        /\ mapped' = [x \in DOMAIN mapped \cup {e} |-> IF x = e THEN today ELSE mapped[x]]
        /\ memory' = IF eligible THEN memory \cup {e} ELSE memory
        /\ fate' = [fate EXCEPT ![e] = IF eligible THEN "owed" ELSE "local"]
  BY DEF Accept
<1>2. UNCHANGED <<today, turn, batches, sends, troubles>> /\ fate[e] = "new"
  BY DEF Accept
<1>3. DOMAIN raw' = DOMAIN raw \cup {e} /\ DOMAIN mapped' = DOMAIN mapped \cup {e}
  BY <1>1
<1>4. \A x \in DOMAIN raw' : raw'[x] = IF x = e THEN [at |-> today, eligible |-> eligible] ELSE raw[x]
  BY <1>1
<1>5. e \notin DOMAIN raw /\ e \notin memory /\ ~Batched(e)
  BY <1>2 DEF Places, NewIsNowhere
<1>6. \A x : Batched(x)' <=> Batched(x)
  BY <1>2 DEF Batched
<1>7. RetentionTypeOK'
  BY <1>1, <1>2, <1>3, <1>4 DEF RetentionTypeOK, Row
<1>8. Places'
  <2>1. OneBatch'
    BY <1>2 DEF Places, OneBatch
  <2>2. MemoryUnbatched'
    BY <1>1, <1>5, <1>6 DEF Places, MemoryUnbatched
  <2>3. NewIsNowhere'
    BY <1>1, <1>3, <1>6 DEF Places, NewIsNowhere, RetentionTypeOK
  <2>4. BatchesTellFates'
    BY <1>1, <1>2, <1>5 DEF Places, BatchesTellFates, RetentionTypeOK, Batched, Batch
  <2>5. OwedIsEligible'
    BY <1>1, <1>3, <1>4 DEF Places, OwedIsEligible, RetentionTypeOK
  <2> QED BY <2>1, <2>2, <2>3, <2>4, <2>5 DEF Places
<1>9. OwedIsOnDisk' /\ BufferedIsMapped'
  BY <1>1, <1>3, <1>6 DEF OwedIsOnDisk, BufferedIsMapped, RetentionTypeOK
<1> QED BY <1>7, <1>8, <1>9

LEMMA FlushKeeps == ASSUME RetentionInv, Flush PROVE RetentionInv'
<1> USE DEF RetentionInv
<1> DEFINE new == [events |-> memory, status |-> "pending", created |-> today, sentAt |-> 0]
<1>1. /\ batches' = batches \cup {new} /\ memory' = {} /\ new.events = memory /\ new.status = "pending"
      /\ UNCHANGED <<today, turn, raw, mapped, fate, sends, troubles>>
  BY DEF Flush
<1>2. \A x : Batched(x)' <=> Batched(x) \/ x \in memory
  BY <1>1 DEF Batched
<1>3. new \in Batch
  BY DEF RetentionTypeOK, Batch
<1> HIDE DEF new
<1>4. RetentionTypeOK'
  BY <1>1, <1>3 DEF RetentionTypeOK
<1>5. Places'
  <2>1. OneBatch'
    BY <1>1 DEF Places, OneBatch, MemoryUnbatched, Batched
  <2>2. MemoryUnbatched' /\ NewIsNowhere'
    BY <1>1, <1>2 DEF Places, MemoryUnbatched, NewIsNowhere
  <2>3. BatchesTellFates' /\ OwedIsEligible'
    BY <1>1 DEF Places, BatchesTellFates, OwedIsEligible
  <2> QED BY <2>1, <2>2, <2>3 DEF Places
<1>6. OwedIsOnDisk' /\ BufferedIsMapped'
  BY <1>1, <1>2 DEF OwedIsOnDisk, BufferedIsMapped
<1> QED BY <1>4, <1>5, <1>6

\* A batch gets its answer: the same batch under another status.
Settles(b, c) ==
    /\ b.status = "pending" /\ c \in Batch /\ c.status \in {"sent", "rejected"}
    /\ c.events = b.events /\ c.created = b.created
    /\ batches' = (batches \ {b}) \cup {c}
    /\ fate' = [e \in Events |-> IF e \in b.events THEN c.status ELSE fate[e]]
    /\ sends' \in [Events -> Nat]
    /\ UNCHANGED <<today, turn, raw, memory, mapped, rows, troubles, restarts>>

LEMMA DeliverSettles ==
  ASSUME RetentionInv, NEW b \in batches, Deliver(b) PROVE Settles(b, [b EXCEPT !.status = "sent", !.sentAt = today])
<1>1. b \in Batch /\ b.status = "pending"
  BY DEF RetentionInv, RetentionTypeOK, Deliver
<1>2. sends' \in [Events -> Nat]
  BY DEF RetentionInv, RetentionTypeOK, Deliver
<1> QED BY <1>1, <1>2 DEF Deliver, Settles, RetentionInv, RetentionTypeOK, Batch

LEMMA RejectSettles ==
  ASSUME RetentionInv, NEW b \in batches, Reject(b) PROVE Settles(b, [b EXCEPT !.status = "rejected"])
<1>1. b \in Batch /\ b.status = "pending"
  BY DEF RetentionInv, RetentionTypeOK, Reject
<1> QED BY <1>1 DEF Reject, Settles, RetentionInv, RetentionTypeOK, Batch

LEMMA SettlesKeeps ==
  ASSUME RetentionInv, NEW b \in batches, NEW c, Settles(b, c) PROVE RetentionInv'
<1> USE DEF RetentionInv
<1>1. /\ batches' = (batches \ {b}) \cup {c} /\ c.events = b.events
      /\ UNCHANGED <<today, turn, raw, memory, mapped, troubles>>
  BY DEF Settles
<1>2. \A x : Batched(x)' <=> Batched(x)
  BY <1>1 DEF Batched
<1>3. \A e \in Events : fate'[e] = IF e \in b.events THEN c.status ELSE fate[e]
  BY DEF Settles
<1>4. RetentionTypeOK'
  BY DEF RetentionTypeOK, Settles
<1>5. Places'
  <2>1. OneBatch'
    BY <1>1 DEF Places, OneBatch
  <2>2. MemoryUnbatched' /\ NewIsNowhere'
    BY <1>1, <1>2, <1>3 DEF Places, MemoryUnbatched, NewIsNowhere, Settles
  <2>3. BatchesTellFates'
    BY <1>1, <1>3 DEF Places, BatchesTellFates, OneBatch, RetentionTypeOK, Batch
  <2>4. OwedIsEligible'
    BY <1>1, <1>3 DEF Places, OwedIsEligible, RetentionTypeOK, Settles
  <2> QED BY <2>1, <2>2, <2>3, <2>4 DEF Places
<1>6. OwedIsOnDisk' /\ BufferedIsMapped'
  BY <1>1, <1>2, <1>3 DEF OwedIsOnDisk, BufferedIsMapped, Settles
<1> QED BY <1>4, <1>5, <1>6

\* A start finds in the rows what was in memory.
LEMMA RecoverKeeps ==
  ASSUME RetentionInv, Clocked, memory' = Owed \/ memory' = memory, UNCHANGED <<raw, batches, mapped, fate, sends>>
  PROVE  RetentionInv'
<1> USE DEF RetentionInv
<1>1. \A x : Batched(x)' <=> Batched(x)
  BY DEF Batched
<1>2. RetentionTypeOK'
  BY DEF RetentionTypeOK, Clocked, Owed
<1>3. Places'
  <2>1. OneBatch' /\ BatchesTellFates' /\ OwedIsEligible'
    BY DEF Places, OneBatch, BatchesTellFates, OwedIsEligible
  <2>2. MemoryUnbatched' /\ NewIsNowhere'
    BY <1>1 DEF Places, MemoryUnbatched, NewIsNowhere, Owed
  <2> QED BY <2>1, <2>2 DEF Places
<1>4. OwedIsOnDisk' /\ BufferedIsMapped'
  BY <1>1 DEF OwedIsOnDisk, BufferedIsMapped
<1> QED BY <1>2, <1>3, <1>4

LEMMA SweepRawKeeps ==
  ASSUME RetentionInv, Clocked, SweepRaw PROVE RetentionInv'
<1> USE DEF RetentionInv
<1>1. PICK S \in Swept(ExpiredRaw) : raw' = Without(raw, S)
  BY DEF SweepRaw
<1>2. S \subseteq ExpiredRaw
  BY SweptIsSubset
<1>3. DOMAIN raw' = DOMAIN raw \ S /\ \A x \in DOMAIN raw' : raw'[x] = raw[x]
  BY <1>1 DEF Without
<1>4. UNCHANGED <<memory, batches, mapped, fate, sends>>
  BY DEF SweepRaw
<1>5. \A x : Batched(x)' <=> Batched(x)
  BY <1>4 DEF Batched
<1>6. RetentionTypeOK'
  BY <1>3, <1>4 DEF RetentionTypeOK, Clocked
<1>7. Places'
  BY <1>3, <1>4, <1>5 DEF Places, OneBatch, MemoryUnbatched, NewIsNowhere, BatchesTellFates, OwedIsEligible
<1>8. OwedIsOnDisk'
  <2> SUFFICES ASSUME NEW e \in Events, fate[e] = "owed", e \in S PROVE Batched(e)
    BY <1>3, <1>4, <1>5 DEF OwedIsOnDisk
  <2>1. e \in DOMAIN raw /\ e \notin Owed
    BY <1>2 DEF ExpiredRaw
  <2> QED BY <2>1 DEF Places, OwedIsEligible, Owed
<1>9. BufferedIsMapped'
  BY <1>3, <1>4 DEF BufferedIsMapped
<1> QED BY <1>6, <1>7, <1>8, <1>9

LEMMA SweepBatchesKeeps ==
  ASSUME RetentionInv, Clocked, SweepBatches PROVE RetentionInv'
<1> USE DEF RetentionInv
<1>1. PICK S \in Swept(SentExpired(batches)) : \E R \in Swept(RejectedExpired(batches \ S)) :
       \E Q \in Swept(Stale((batches \ S) \ R)) :
          /\ batches' = batches \ (S \cup R \cup Q)
          /\ fate' = [e \in Events |->
                        IF fate[e] = "owed" /\ \E b \in Q : e \in b.events THEN "stale" ELSE fate[e]]
  BY DEF SweepBatches
<1>2. PICK R \in Swept(RejectedExpired(batches \ S)) : \E Q \in Swept(Stale((batches \ S) \ R)) :
          /\ batches' = batches \ (S \cup R \cup Q)
          /\ fate' = [e \in Events |->
                        IF fate[e] = "owed" /\ \E b \in Q : e \in b.events THEN "stale" ELSE fate[e]]
  BY <1>1
<1>3. PICK Q \in Swept(Stale((batches \ S) \ R)) :
          /\ batches' = batches \ (S \cup R \cup Q)
          /\ fate' = [e \in Events |->
                        IF fate[e] = "owed" /\ \E b \in Q : e \in b.events THEN "stale" ELSE fate[e]]
  BY <1>2
<1>4. \A b \in S \cup R : b \in batches /\ b.status # "pending"
  BY SweptIsSubset DEF SentExpired, RejectedExpired
<1>5. UNCHANGED <<raw, memory, mapped, sends>>
  BY DEF SweepBatches
<1>6. batches' \subseteq batches /\ \A x : Batched(x)' => Batched(x)
  BY <1>3 DEF Batched
<1>7. \A e \in Events : fate'[e] = fate[e] \/ (fate[e] = "owed" /\ fate'[e] = "stale")
  BY <1>3
<1>8. RetentionTypeOK'
  BY <1>3, <1>5, <1>6 DEF RetentionTypeOK, Clocked
<1>9. Places'
  <2>1. OneBatch' /\ MemoryUnbatched'
    BY <1>5, <1>6 DEF Places, OneBatch, MemoryUnbatched
  <2>2. NewIsNowhere' /\ OwedIsEligible'
    BY <1>5, <1>6, <1>7 DEF Places, NewIsNowhere, OwedIsEligible, RetentionTypeOK
  <2>3. BatchesTellFates'
    <3> SUFFICES ASSUME NEW b \in batches', NEW e \in b.events, b.status # "pending"
                 PROVE  fate'[e] = b.status
      BY DEF BatchesTellFates
    <3>1. b \in Batch /\ e \in Events /\ fate[e] = b.status
      BY <1>6 DEF Places, BatchesTellFates, RetentionTypeOK, Batch
    <3>2. fate[e] # "owed"
      BY <3>1 DEF Batch
    <3> QED BY <3>1, <3>2, <1>7
  <2> QED BY <2>1, <2>2, <2>3 DEF Places
<1>10. OwedIsOnDisk'
  <2> SUFFICES ASSUME NEW e \in Events, fate'[e] = "owed", e \notin DOMAIN raw PROVE Batched(e)'
    BY <1>5 DEF OwedIsOnDisk
  <2>1. fate[e] = "owed" /\ ~\E b \in Q : e \in b.events
    BY <1>3
  <2>2. PICK b \in batches : e \in b.events
    BY <2>1 DEF OwedIsOnDisk, Batched
  <2>3. b.status = "pending"
    BY <2>1, <2>2 DEF Places, BatchesTellFates, RetentionTypeOK, Batch
  <2>4. b \in batches'
    BY <1>3, <1>4, <2>1, <2>2, <2>3
  <2> QED BY <2>2, <2>4 DEF Batched
<1>11. BufferedIsMapped'
  BY <1>5 DEF BufferedIsMapped
<1> QED BY <1>8, <1>9, <1>10, <1>11

LEMMA SweepMappingsKeeps ==
  ASSUME RetentionInv, Clocked, SweepMappings PROVE RetentionInv'
<1> USE DEF RetentionInv
<1>1. PICK S \in Swept(ExpiredMappings) : mapped' = Without(mapped, S)
  BY DEF SweepMappings
<1>2. S \subseteq ExpiredMappings
  BY SweptIsSubset
<1>3. DOMAIN mapped' = DOMAIN mapped \ S
  BY <1>1 DEF Without
<1>4. UNCHANGED <<raw, memory, batches, fate, sends>>
  BY DEF SweepMappings
<1>5. RetentionTypeOK' /\ Places'
  BY <1>4 DEF RetentionTypeOK, Clocked, Places, OneBatch, MemoryUnbatched, NewIsNowhere,
              BatchesTellFates, OwedIsEligible, Batched
<1>6. OwedIsOnDisk' /\ BufferedIsMapped'
  BY <1>2, <1>3, <1>4 DEF OwedIsOnDisk, BufferedIsMapped, Batched, ExpiredMappings
<1> QED BY <1>5, <1>6

\* A target is one of the three that read more than their own table, or one of the others.
LEMMA TargetKinds ==
  ASSUME NEW n \in 1..Targets, RunTarget(n)
  PROVE  \/ n = 1 /\ SweepRaw
         \/ n = 2 /\ SweepBatches
         \/ n = 7 /\ SweepMappings
         \/ n > 2 /\ Elsewhere
<1> USE DEF RunTarget, Elsewhere, Sweep
<1>1. CASE n = 1
  BY <1>1
<1>2. CASE n = 2
  BY <1>2
<1>3. CASE n = 3
  BY <1>3 DEF SweepCaches
<1>4. CASE n = 4
  BY <1>4 DEF SweepIntentions
<1>5. CASE n = 5
  BY <1>5 DEF SweepRuns
<1>6. CASE n = 6
  BY <1>6 DEF SweepEmbeddings
<1>7. CASE n = 7
  BY <1>7
<1>8. CASE n = 8
  BY <1>8 DEF SweepSiteNames
<1>9. CASE n = 9
  BY <1>9 DEF SweepPromptEntries
<1>10. CASE n = 10
  BY <1>10 DEF SweepReminders
<1> QED BY <1>1, <1>2, <1>3, <1>4, <1>5, <1>6, <1>7, <1>8, <1>9, <1>10

LEMMA TurnGoesOn ==
  ASSUME turn \in -1..Targets, turn > 0, RunTarget(turn),
         turn' = IF turn = Targets THEN -1 ELSE turn + 1
  PROVE  turn' \in -1..Targets /\ turn' \notin {0, 1}
<1>1. Targets = 10
  BY DEF Targets
<1> QED BY <1>1

\* The steps of a cycle.
LEMMA TaskKeeps == RetentionInv /\ (RetentionTask \/ TargetFails) => RetentionInv'
<1> SUFFICES ASSUME RetentionInv, RetentionTask \/ TargetFails PROVE RetentionInv'
  OBVIOUS
<1> USE RetentionAssumption
<1>1. /\ today \in Nat /\ turn \in -1..Targets /\ troubles \in Nat /\ troubles <= MaxTroubles
      /\ MaxTroubles \in Nat
  BY DEF RetentionInv, RetentionTypeOK
<1>2. CASE RunNext
  <2>1. turn > 0 /\ RunTarget(turn) /\ UNCHANGED <<today, troubles>>
        /\ turn' = IF turn = Targets THEN -1 ELSE turn + 1
    BY <1>2 DEF RunNext
  <2>2. Clocked
    BY <1>1, <2>1, TurnGoesOn DEF Clocked
  <2> QED BY <1>1, <2>1, <2>2, TargetKinds, SweepRawKeeps, SweepBatchesKeeps, SweepMappingsKeeps,
             ElsewhereKeeps
<1>3. CASE BeginCycle
  BY <1>1, <1>3, ElsewhereKeeps DEF BeginCycle, Clocked, Elsewhere
<1>4. CASE NextDay
  <2>1. PICK missed \in 0..(MaxTroubles - troubles) :
          /\ today' = today + 1 + missed /\ troubles' = troubles + missed
          /\ memory' = IF missed > 0 THEN Owed ELSE memory
    BY <1>4 DEF NextDay
  <2>2. Clocked
    BY <1>1, <1>4, <2>1 DEF Clocked, NextDay
  <2> QED BY <2>1, <2>2, <1>4, RecoverKeeps DEF NextDay
<1>5. CASE TargetFails
  <2>1. Clocked
    BY <1>1, <1>5 DEF Clocked, TargetFails, Targets
  <2> QED BY <2>1, <1>5, ElsewhereKeeps DEF TargetFails, Elsewhere
<1> QED BY <1>2, <1>3, <1>4, <1>5 DEF RetentionTask

LEMMA NextRetention == RetentionInv /\ [RetentionStep]_retentionvars => RetentionInv'
<1> SUFFICES ASSUME RetentionInv, [RetentionStep]_retentionvars PROVE RetentionInv'
  OBVIOUS
<1>1. /\ today \in Nat /\ turn \in -1..Targets /\ troubles \in Nat /\ troubles <= MaxTroubles
  BY DEF RetentionInv, RetentionTypeOK
<1>2. CASE UNCHANGED retentionvars
  BY <1>1, <1>2, ElsewhereKeeps DEF retentionvars, Clocked, Elsewhere
<1>3. ASSUME NEW e \in Events, Accept(e) PROVE RetentionInv'
  BY <1>3, AcceptKeeps
<1>4. ASSUME NEW b \in batches, Deliver(b) \/ Reject(b) PROVE RetentionInv'
  BY <1>4, DeliverSettles, RejectSettles, SettlesKeeps
<1>5. ASSUME NEW t \in Tables, Touch(t) PROVE RetentionInv'
  BY <1>1, <1>5, ElsewhereKeeps DEF Touch, Clocked, Elsewhere
<1>6. CASE Flush
  BY <1>6, FlushKeeps
<1>7. CASE Restart
  BY <1>1, <1>7, RecoverKeeps DEF Restart, Clocked
<1> QED BY <1>2, <1>3, <1>4, <1>5, <1>6, <1>7, TaskKeeps DEF RetentionStep

\* An event that is owed to the backend is on disk, as a row or in a batch,
\* and what is buffered has its window, whatever is swept, limited, failed
\* or restarted in between (delete_expired, delete_expired_mappings).
THEOREM OwedStaysOnDisk == RetentionSpec => [](OwedIsOnDisk /\ BufferedIsMapped)
<1>1. RetentionInv => OwedIsOnDisk /\ BufferedIsMapped
  BY DEF RetentionInv
<1> QED BY <1>1, InitRetention, NextRetention, PTL DEF RetentionSpec

----------------------------------------------------------------------------
(* Nothing is delivered twice.                                             *)

\* A row is as old as its batch, and a batch no younger than its delivery.
AgesAgree ==
    /\ \A e \in DOMAIN raw : raw[e].at <= today
    /\ \A b \in batches :
          /\ b.created <= today /\ (b.status = "sent" => b.created <= b.sentAt)
          /\ \A e \in b.events \cap DOMAIN raw : raw[e].at <= b.created

\* A row whose event is in a batch outlives its horizon by the days on which
\* the service did not run or a target failed, and the day that is not swept yet.
Slack == IF turn \in {0, 1} THEN troubles + 1 ELSE troubles
RowsLeaveInTime ==
    \A b \in batches : b.events \cap DOMAIN raw # {} => today <= b.created + RawTtl + Slack

\* A delivered event is nowhere from where it could be delivered again.
DeliveredIsGone ==
    \A e \in Events : sends[e] > 0 =>
        /\ fate[e] = "sent" /\ e \notin memory
        /\ \A b \in batches : e \in b.events => b.status = "sent"
        /\ e \notin Owed

DeliveryInv == AgesAgree /\ RowsLeaveInTime /\ DeliveredIsGone /\ DeliveredOnce

LEMMA SlackFacts ==
  /\ RetentionInv => Slack \in Nat
  /\ Clocked => Slack' \in Nat
BY DEF RetentionInv, RetentionTypeOK, Clocked, Slack

LEMMA LaterByTheSlack ==
  ASSUME NEW t \in Nat, NEW k \in Nat, NEW l \in Nat, k <= l PROVE t + k <= t + l
OBVIOUS

LEMMA SlackGrows ==
  ASSUME NEW t \in Nat, NEW u \in Nat, NEW k \in Nat, NEW l \in Nat, u + k <= t + l
  PROVE  \A c \in Nat, h \in Nat : t <= c + h + k => u <= c + h + l
OBVIOUS

\* A sweep of the buffered rows is not cut short by its LIMIT.
SweepKeepsUp == Cardinality(ExpiredRaw) <= BatchSize

\* The days of trouble are fewer than those between the two horizons.
TroublesFit == MaxTroubles < SentKeep - RawTtl

LEMMA InitDelivery == RetentionInit => DeliveryInv
<1> SUFFICES ASSUME RetentionInit PROVE DeliveryInv
  OBVIOUS
<1>1. DOMAIN raw = {}
  BY DEF RetentionInit
<1> QED BY <1>1 DEF RetentionInit, DeliveryInv, AgesAgree, RowsLeaveInTime, DeliveredIsGone, DeliveredOnce

LEMMA AcceptDelivers ==
  ASSUME RetentionInv, DeliveryInv, NEW e \in Events, Accept(e) PROVE DeliveryInv'
<1>1. PICK eligible \in BOOLEAN :
        /\ raw' = [x \in DOMAIN raw \cup {e} |->
                      IF x = e THEN [at |-> today, eligible |-> eligible] ELSE raw[x]]
        /\ memory' = IF eligible THEN memory \cup {e} ELSE memory
        /\ fate' = [fate EXCEPT ![e] = IF eligible THEN "owed" ELSE "local"]
  BY DEF Accept
<1>2. UNCHANGED <<today, turn, batches, sends, troubles>> /\ fate[e] = "new"
  BY DEF Accept
<1>3. DOMAIN raw' = DOMAIN raw \cup {e}
  BY <1>1
<1>4. \A x \in DOMAIN raw' : raw'[x] = IF x = e THEN [at |-> today, eligible |-> eligible] ELSE raw[x]
  BY <1>1
<1>5. e \notin DOMAIN raw /\ e \notin memory /\ ~Batched(e)
  BY <1>2 DEF RetentionInv, Places, NewIsNowhere
<1>6. today \in Nat /\ sends[e] \in Nat /\ ~(sends[e] > 0)
  BY <1>2 DEF RetentionInv, RetentionTypeOK, DeliveryInv, DeliveredIsGone
<1>7. \A b \in batches : e \notin b.events
  BY <1>5 DEF Batched
<1>8. AgesAgree'
  BY <1>2, <1>3, <1>4, <1>6, <1>7 DEF DeliveryInv, AgesAgree
<1>9. RowsLeaveInTime'
  BY <1>2, <1>3, <1>7 DEF DeliveryInv, RowsLeaveInTime, Slack
<1>10. \A x \in Events \ {e} : x \in Owed' <=> x \in Owed
  BY <1>2, <1>3, <1>4 DEF Owed, Batched
<1>11. DeliveredIsGone'
  BY <1>1, <1>2, <1>6, <1>10 DEF DeliveryInv, DeliveredIsGone, RetentionInv, RetentionTypeOK
<1>12. DeliveredOnce'
  BY <1>2 DEF DeliveryInv, DeliveredOnce
<1> QED BY <1>8, <1>9, <1>11, <1>12 DEF DeliveryInv

LEMMA FlushDelivers == ASSUME RetentionInv, DeliveryInv, Flush PROVE DeliveryInv'
<1> DEFINE new == [events |-> memory, status |-> "pending", created |-> today, sentAt |-> 0]
<1>1. /\ batches' = batches \cup {new} /\ memory' = {} /\ new.events = memory /\ new.status = "pending"
      /\ new.created = today
      /\ UNCHANGED <<today, turn, raw, mapped, fate, sends, troubles>>
  BY DEF Flush
<1> HIDE DEF new
<1>2. today \in Nat /\ troubles \in Nat /\ RawTtl \in Nat
  BY RetentionAssumption DEF RetentionInv, RetentionTypeOK
<1>3. AgesAgree'
  BY <1>1, <1>2 DEF DeliveryInv, AgesAgree
<1>4. RowsLeaveInTime'
  BY <1>1, <1>2 DEF DeliveryInv, RowsLeaveInTime, Slack
<1>5. DeliveredIsGone'
  BY <1>1 DEF DeliveryInv, DeliveredIsGone, Owed, Batched
<1>6. DeliveredOnce'
  BY <1>1 DEF DeliveryInv, DeliveredOnce
<1> QED BY <1>3, <1>4, <1>5, <1>6 DEF DeliveryInv

LEMMA SettlesAges ==
  ASSUME RetentionInv, DeliveryInv, NEW b \in batches, NEW c, Settles(b, c),
         c.status = "sent" => c.sentAt = today
  PROVE  AgesAgree' /\ RowsLeaveInTime'
<1>1. /\ batches' = (batches \ {b}) \cup {c} /\ c.events = b.events /\ c.created = b.created
      /\ UNCHANGED <<today, turn, raw, troubles>>
  BY DEF Settles
<1>2. AgesAgree'
  BY <1>1 DEF DeliveryInv, AgesAgree
<1>3. RowsLeaveInTime'
  BY <1>1 DEF DeliveryInv, RowsLeaveInTime, Slack
<1> QED BY <1>2, <1>3

LEMMA DeliverDelivers ==
  ASSUME RetentionInv, DeliveryInv, NEW b \in batches, Deliver(b) PROVE DeliveryInv'
<1> DEFINE c == [b EXCEPT !.status = "sent", !.sentAt = today]
<1>1. Settles(b, c) /\ b \in Batch
  BY DeliverSettles DEF RetentionInv, RetentionTypeOK
<1>2. c.status = "sent" /\ c.sentAt = today /\ c.events = b.events
  BY <1>1 DEF Batch
<1> HIDE DEF c
<1>3. AgesAgree' /\ RowsLeaveInTime'
  BY <1>1, <1>2, SettlesAges
<1>4. /\ batches' = (batches \ {b}) \cup {c}
      /\ \A e \in Events : fate'[e] = IF e \in b.events THEN "sent" ELSE fate[e]
      /\ \A e \in Events : sends'[e] = IF e \in b.events THEN sends[e] + 1 ELSE sends[e]
      /\ UNCHANGED <<raw, memory>> /\ b.status = "pending"
  BY <1>1, <1>2 DEF Settles, Deliver
<1>5. \A e \in b.events : e \in Events /\ sends[e] = 0
  BY <1>1, <1>4 DEF DeliveryInv, DeliveredIsGone, RetentionInv, RetentionTypeOK, Batch
<1>6. \A x : Batched(x)' <=> Batched(x)
  BY <1>2, <1>4 DEF Batched
<1>7. \A x : x \in Owed' <=> x \in Owed
  BY <1>4, <1>6 DEF Owed
<1>8. DeliveredIsGone'
  <2> SUFFICES ASSUME NEW e \in Events, sends'[e] > 0
               PROVE  /\ fate'[e] = "sent" /\ e \notin memory'
                      /\ \A d \in batches' : e \in d.events => d.status = "sent"
                      /\ e \notin Owed'
    BY DEF DeliveredIsGone
  <2>1. CASE e \in b.events
    <3>1. Batched(e)
      BY <2>1 DEF Batched
    <3>2. e \notin memory /\ e \notin Owed
      BY <3>1 DEF RetentionInv, Places, MemoryUnbatched, Owed
    <3> QED BY <1>2, <1>4, <1>7, <2>1, <3>2 DEF RetentionInv, Places, OneBatch
  <2>2. CASE e \notin b.events
    BY <1>2, <1>4, <1>7, <2>2 DEF DeliveryInv, DeliveredIsGone
  <2> QED BY <2>1, <2>2
<1>9. DeliveredOnce'
  BY <1>4, <1>5 DEF DeliveryInv, DeliveredOnce
<1> QED BY <1>3, <1>8, <1>9 DEF DeliveryInv

LEMMA RejectDelivers ==
  ASSUME RetentionInv, DeliveryInv, NEW b \in batches, Reject(b) PROVE DeliveryInv'
<1> DEFINE c == [b EXCEPT !.status = "rejected"]
<1>1. Settles(b, c) /\ b \in Batch
  BY RejectSettles DEF RetentionInv, RetentionTypeOK
<1>2. c.status = "rejected" /\ c.events = b.events
  BY <1>1 DEF Batch
<1> HIDE DEF c
<1>3. AgesAgree' /\ RowsLeaveInTime'
  BY <1>1, <1>2, SettlesAges
<1>4. /\ batches' = (batches \ {b}) \cup {c}
      /\ \A e \in Events : fate'[e] = IF e \in b.events THEN "rejected" ELSE fate[e]
      /\ UNCHANGED <<raw, memory, sends>> /\ b.status = "pending"
  BY <1>1, <1>2 DEF Settles, Reject
<1>5. \A x : Batched(x)' <=> Batched(x)
  BY <1>2, <1>4 DEF Batched
<1>6. \A x : x \in Owed' <=> x \in Owed
  BY <1>4, <1>5 DEF Owed
<1>7. DeliveredIsGone'
  BY <1>2, <1>4, <1>6 DEF DeliveryInv, DeliveredIsGone
<1>8. DeliveredOnce'
  BY <1>4 DEF DeliveryInv, DeliveredOnce
<1> QED BY <1>3, <1>7, <1>8 DEF DeliveryInv

\* The rows and the batches stay: the clock goes on by no more than the slack.
LEMMA WaitDelivers ==
  ASSUME RetentionInv, DeliveryInv, Clocked, memory' = Owed \/ memory' = memory,
         UNCHANGED <<raw, batches, fate, sends>>,
         today <= today', today' + Slack <= today + Slack'
  PROVE  DeliveryInv'
<1>1. today \in Nat /\ today' \in Nat /\ Slack \in Nat /\ Slack' \in Nat /\ RawTtl \in Nat
  BY RetentionAssumption, SlackFacts DEF RetentionInv, RetentionTypeOK, Clocked
<1>2. \A b \in batches : b.created \in Nat /\ b.sentAt \in Nat
  BY DEF RetentionInv, RetentionTypeOK, Batch
<1>3. \A e \in DOMAIN raw : raw[e].at \in Nat
  BY DEF RetentionInv, RetentionTypeOK, Row
<1>4. AgesAgree'
  BY <1>1, <1>2, <1>3 DEF DeliveryInv, AgesAgree
<1>5. RowsLeaveInTime'
  <2> SUFFICES ASSUME NEW b \in batches, b.events \cap DOMAIN raw # {}
               PROVE  today' <= b.created + RawTtl + Slack'
    BY DEF RowsLeaveInTime
  <2>1. today <= b.created + RawTtl + Slack
    BY DEF DeliveryInv, RowsLeaveInTime
  <2> QED BY <1>1, <1>2, <2>1, SlackGrows
<1>6. \A x : x \in Owed' <=> x \in Owed
  BY DEF Owed, Batched
<1>7. DeliveredIsGone'
  BY <1>6 DEF DeliveryInv, DeliveredIsGone
<1>8. DeliveredOnce'
  BY DEF DeliveryInv, DeliveredOnce
<1> QED BY <1>4, <1>5, <1>7, <1>8 DEF DeliveryInv

\* The sweep of the rows takes every batched one that is past its horizon.
LEMMA SweepRawDelivers ==
  ASSUME RetentionInv, DeliveryInv, Clocked, SweepRaw, SweepKeepsUp, UNCHANGED <<today, troubles>>
  PROVE  DeliveryInv'
<1>1. raw' = Without(raw, ExpiredRaw)
  BY DEF SweepRaw, SweepKeepsUp, Swept
<1>2. DOMAIN raw' = DOMAIN raw \ ExpiredRaw /\ \A x \in DOMAIN raw' : raw'[x] = raw[x]
  BY <1>1 DEF Without
<1>3. UNCHANGED <<memory, batches, fate, sends>>
  BY DEF SweepRaw
<1>4. today \in Nat /\ troubles \in Nat /\ Slack' \in Nat /\ RawTtl \in Nat
  BY RetentionAssumption DEF RetentionInv, RetentionTypeOK, Clocked, Slack
<1>5. AgesAgree'
  BY <1>2, <1>3 DEF DeliveryInv, AgesAgree
<1>6. RowsLeaveInTime'
  <2> SUFFICES ASSUME NEW b \in batches, NEW e \in b.events, e \in DOMAIN raw, e \notin ExpiredRaw
               PROVE  today <= b.created + RawTtl + Slack'
    BY <1>2, <1>3 DEF RowsLeaveInTime
  <2>1. e \notin Owed
    BY DEF Owed, Batched
  <2>2. ~(raw[e].at < today - RawTtl)
    BY <2>1 DEF ExpiredRaw
  <2>3. raw[e].at <= b.created /\ raw[e].at \in Nat /\ b.created \in Nat
    BY DEF DeliveryInv, AgesAgree, RetentionInv, RetentionTypeOK, Row, Batch
  <2> QED BY <1>4, <2>2, <2>3
<1>7. \A x : x \in Owed' => x \in Owed
  BY <1>2, <1>3 DEF Owed, Batched
<1>8. DeliveredIsGone'
  BY <1>3, <1>7 DEF DeliveryInv, DeliveredIsGone
<1>9. DeliveredOnce'
  BY <1>3 DEF DeliveryInv, DeliveredOnce
<1> QED BY <1>5, <1>6, <1>8, <1>9 DEF DeliveryInv

\* A batch that marks an event as delivered leaves after the event's row.
LEMMA SweepBatchesDelivers ==
  ASSUME RetentionInv, DeliveryInv, TroublesFit, Clocked, SweepBatches,
         turn = 2, turn' \notin {0, 1}, UNCHANGED <<today, troubles>>
  PROVE  DeliveryInv'
<1>1. PICK S \in Swept(SentExpired(batches)) : \E R \in Swept(RejectedExpired(batches \ S)) :
       \E Q \in Swept(Stale((batches \ S) \ R)) :
          /\ batches' = batches \ (S \cup R \cup Q)
          /\ fate' = [e \in Events |->
                        IF fate[e] = "owed" /\ \E b \in Q : e \in b.events THEN "stale" ELSE fate[e]]
  BY DEF SweepBatches
<1>2. PICK R \in Swept(RejectedExpired(batches \ S)) : \E Q \in Swept(Stale((batches \ S) \ R)) :
          /\ batches' = batches \ (S \cup R \cup Q)
          /\ fate' = [e \in Events |->
                        IF fate[e] = "owed" /\ \E b \in Q : e \in b.events THEN "stale" ELSE fate[e]]
  BY <1>1
<1>3. PICK Q \in Swept(Stale((batches \ S) \ R)) :
          /\ batches' = batches \ (S \cup R \cup Q)
          /\ fate' = [e \in Events |->
                        IF fate[e] = "owed" /\ \E b \in Q : e \in b.events THEN "stale" ELSE fate[e]]
  BY <1>2
<1>4. UNCHANGED <<raw, memory, sends>>
  BY DEF SweepBatches
<1>5. batches' \subseteq batches /\ \A x : Batched(x)' => Batched(x)
  BY <1>3 DEF Batched
<1>6. \A e \in Events : fate[e] = "sent" => fate'[e] = "sent"
  BY <1>3
<1>7. /\ today \in Nat /\ troubles \in Nat /\ troubles <= MaxTroubles
      /\ RawTtl \in Nat /\ SentKeep \in Nat /\ MaxTroubles \in Nat
  BY RetentionAssumption DEF RetentionInv, RetentionTypeOK
<1>8. Slack = troubles /\ Slack' = troubles
  BY <1>7 DEF Slack
<1>9. AgesAgree'
  BY <1>4, <1>5 DEF DeliveryInv, AgesAgree
<1>10. RowsLeaveInTime'
  BY <1>4, <1>5, <1>8 DEF DeliveryInv, RowsLeaveInTime
<1>11. \A b \in S \cup Q : b \in batches /\ (b.status = "sent" => b.created < today - SentKeep)
  <2> SUFFICES ASSUME NEW b \in S \cup Q
               PROVE  b \in batches /\ (b.status = "sent" => b.created < today - SentKeep)
    OBVIOUS
  <2>1. CASE b \in S
    <3>1. b \in batches /\ b.status = "sent" /\ b.sentAt < today - SentKeep
      BY <2>1, SweptIsSubset DEF SentExpired
    <3>2. b.created <= b.sentAt /\ b.created \in Nat /\ b.sentAt \in Nat
      BY <3>1 DEF DeliveryInv, AgesAgree, RetentionInv, RetentionTypeOK, Batch
    <3> QED BY <1>7, <3>1, <3>2
  <2>2. CASE b \in Q
    BY <2>2, SweptIsSubset DEF Stale
  <2> QED BY <2>1, <2>2
<1>12. \A b \in R : b.status = "rejected"
  BY SweptIsSubset DEF RejectedExpired
<1>13. \A b \in S \cup R \cup Q : b.status = "sent" => b.events \cap DOMAIN raw = {}
  <2> SUFFICES ASSUME NEW b \in S \cup Q, b.status = "sent", b.events \cap DOMAIN raw # {} PROVE FALSE
    BY <1>12
  <2>1. b \in batches /\ b.created < today - SentKeep
    BY <1>11
  <2>2. b.created \in Nat /\ today <= b.created + RawTtl + troubles
    BY <1>8, <2>1 DEF DeliveryInv, RowsLeaveInTime, RetentionInv, RetentionTypeOK, Batch
  <2> QED BY <1>7, <2>1, <2>2 DEF TroublesFit
<1>14. DeliveredIsGone'
  <2> SUFFICES ASSUME NEW e \in Events, sends[e] > 0, e \in Owed' PROVE FALSE
    BY <1>4, <1>5, <1>6 DEF DeliveryInv, DeliveredIsGone
  <2>1. e \in DOMAIN raw /\ raw[e].eligible /\ ~Batched(e)'
    BY <1>4 DEF Owed
  <2>2. Batched(e)
    BY <1>4, <2>1 DEF Owed, DeliveryInv, DeliveredIsGone
  <2>3. PICK b \in batches : e \in b.events
    BY <2>2 DEF Batched
  <2>4. b.status = "sent"
    BY <2>3 DEF DeliveryInv, DeliveredIsGone
  <2>5. b \in S \cup R \cup Q
    BY <1>3, <2>1, <2>3 DEF Batched
  <2> QED BY <1>13, <2>1, <2>3, <2>4, <2>5
<1>15. DeliveredOnce'
  BY <1>4 DEF DeliveryInv, DeliveredOnce
<1> QED BY <1>9, <1>10, <1>14, <1>15 DEF DeliveryInv

LEMMA NextDelivery ==
  ASSUME TroublesFit, RetentionInv, SweepKeepsUp, DeliveryInv, [RetentionStep]_retentionvars
  PROVE  DeliveryInv'
<1> USE RetentionAssumption
<1>1. /\ today \in Nat /\ turn \in -1..Targets /\ troubles \in Nat /\ troubles <= MaxTroubles
      /\ MaxTroubles \in Nat
  BY DEF RetentionInv, RetentionTypeOK
<1>2. CASE UNCHANGED retentionvars
  BY <1>1, <1>2, WaitDelivers DEF retentionvars, Clocked, Slack
<1>3. ASSUME NEW e \in Events, Accept(e) PROVE DeliveryInv'
  BY <1>3, AcceptDelivers
<1>4. ASSUME NEW b \in batches, Deliver(b) \/ Reject(b) PROVE DeliveryInv'
  BY <1>4, DeliverDelivers, RejectDelivers
<1>5. ASSUME NEW t \in Tables, Touch(t) PROVE DeliveryInv'
  BY <1>1, <1>5, WaitDelivers DEF Touch, Clocked, Slack
<1>6. CASE Flush
  BY <1>6, FlushDelivers
<1>7. CASE Restart
  BY <1>1, <1>7, WaitDelivers DEF Restart, Clocked, Slack
<1>8. CASE RunNext
  <2>1. turn > 0 /\ RunTarget(turn) /\ UNCHANGED <<today, troubles>>
        /\ turn' = IF turn = Targets THEN -1 ELSE turn + 1
    BY <1>8 DEF RunNext
  <2>2. Clocked /\ turn' \notin {0, 1}
    BY <1>1, <2>1, TurnGoesOn DEF Clocked
  <2>3. CASE turn = 1 /\ SweepRaw
    BY <2>1, <2>2, <2>3, SweepRawDelivers
  <2>4. CASE turn = 2 /\ SweepBatches
    BY <2>1, <2>2, <2>4, SweepBatchesDelivers
  <2>5. CASE turn > 2 /\ UNCHANGED <<raw, memory, batches, fate, sends>>
    BY <1>1, <2>1, <2>2, <2>5, WaitDelivers DEF Slack
  <2> QED BY <1>1, <2>1, <2>3, <2>4, <2>5, TargetKinds DEF SweepMappings, Elsewhere
<1>9. CASE BeginCycle
  BY <1>1, <1>9, WaitDelivers DEF BeginCycle, Clocked, Slack
<1>10. CASE NextDay
  <2>1. PICK missed \in 0..(MaxTroubles - troubles) :
          /\ today' = today + 1 + missed /\ troubles' = troubles + missed
          /\ memory' = IF missed > 0 THEN Owed ELSE memory
    BY <1>10 DEF NextDay
  <2>2. Clocked /\ today <= today' /\ today' + Slack <= today + Slack'
    BY <1>1, <1>10, <2>1 DEF Clocked, NextDay, Slack
  <2> QED BY <2>1, <2>2, <1>10, WaitDelivers DEF NextDay
<1>11. CASE TargetFails
  <2>1. Clocked /\ today' = today
    BY <1>1, <1>11 DEF Clocked, TargetFails
  <2>2. Slack \in Nat /\ Slack' \in Nat
    BY <2>1, SlackFacts
  <2>3. Slack <= Slack'
    BY <1>1, <1>11 DEF TargetFails, Slack
  <2>4. today' + Slack <= today + Slack'
    BY <1>1, <2>1, <2>2, <2>3, LaterByTheSlack
  <2> QED BY <1>1, <2>1, <2>4, <1>11, WaitDelivers DEF TargetFails
<1> QED BY <1>2, <1>3, <1>4, <1>5, <1>6, <1>7, <1>8, <1>9, <1>10, <1>11
        DEF RetentionStep, RetentionTask

\* Besides, nothing is delivered twice: the row of an event leaves before the
\* batch that marks it as delivered, as long as the sweep of the rows is not
\* cut short and the days lost to sleep and to failing targets are fewer than
\* those between the horizons (delete_expired_batch, recover_unbatched).
THEOREM SweepsAndUploadsAgree ==
  ASSUME TroublesFit PROVE RetentionSpec /\ []SweepKeepsUp => []SweepsSpareUploads
<1>1. RetentionInv /\ DeliveryInv => SweepsSpareUploads
  BY DEF RetentionInv, DeliveryInv, SweepsSpareUploads
<1>2. RetentionInv /\ SweepKeepsUp /\ DeliveryInv /\ [RetentionStep]_retentionvars => DeliveryInv'
  BY NextDelivery
<1> QED BY <1>1, <1>2, InitRetention, NextRetention, InitDelivery, PTL DEF RetentionSpec
=============================================================================
