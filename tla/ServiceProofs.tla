---------------------------- MODULE ServiceProofs ----------------------------
(* Proofs about three parts of the running service that share no state: its *)
(* start-up, for any number of processes, builds and failures; the push     *)
(* queue, for every set of connections and every capacity; and the fetches, *)
(* for any number of days and any latencies.                                *)
EXTENDS PushQueue, Startup, Fetch, WellFoundedInduction, TLAPS

----------------------------------------------------------------------------
(* START-UP                                                                *)

(* Types.                                                                  *)

\* A process steps from one point to another and nothing else of it changes.
LEMMA GotoFacts ==
  ASSUME StartupTypeOK, NEW i \in Instances, NEW p, Goto(i, p)
  PROVE  /\ inst' = [j \in Instances |-> inst'[j]]
         /\ inst'[i] = [pc |-> p, build |-> inst[i].build, view |-> inst[i].view,
                        pend |-> inst[i].pend, mism |-> inst[i].mism, stop |-> inst[i].stop,
                        disturbed |-> inst[i].disturbed]
         /\ \A j \in Instances \ {i} : inst'[j] = inst[j]
BY DEF Goto, StartupTypeOK, ProcessOK

LEMMA GoneFacts ==
  ASSUME StartupTypeOK, NEW i \in Instances, Gone(i)
  PROVE  /\ inst' = [j \in Instances |-> inst'[j]]
         /\ inst'[i] = Off /\ \A j \in Instances \ {i} : inst'[j] = inst[j]
         /\ writer' \in {writer, None}
BY DEF Gone, StartupTypeOK

LEMMA OffIsOK == ProcessOK(Off)
BY DEF ProcessOK, Off

LEMMA InitStartupTypes == StartupInit => StartupTypeOK
BY OffIsOK, StartupAssumption DEF StartupInit, StartupTypeOK

\* Applying a migration and adding the checksums keep the shape.
LEMMA AppliedShape ==
  ASSUME NEW d, IsDatabase(d), NEW b, NEW v
  PROVE  /\ IsDatabase(ApplyMigration(d, b, v))
         /\ Recorded(ApplyMigration(d, b, v)) = Recorded(d) \cup {v}
         /\ \A w \in Recorded(d) \ {v} : ApplyMigration(d, b, v).applied[w] = d.applied[w]
         /\ ApplyMigration(d, b, v).applied[v] = [name |-> b.migs[v].name, sum |-> NoSum]
<1> DEFINE a == ApplyMigration(d, b, v).applied
<1>1. a = Record(d, b, v)
  BY DEF ApplyMigration
<1>2. DOMAIN a = Recorded(d) \cup {v}
  BY <1>1 DEF Record
<1>3. /\ \A w \in Recorded(d) \ {v} : a[w] = d.applied[w]
      /\ a[v] = [name |-> b.migs[v].name, sum |-> NoSum]
  BY <1>1 DEF Record
<1>4. \A w \in Recorded(d) : d.applied[w] = [name |-> d.applied[w].name, sum |-> d.applied[w].sum]
  BY DEF IsDatabase
<1>5. \A w \in DOMAIN a : a[w] = [name |-> a[w].name, sum |-> a[w].sum]
  BY <1>2, <1>3, <1>4
<1>6. a = [w \in DOMAIN a |-> a[w]]
  BY <1>1 DEF Record
<1>7. a = [w \in DOMAIN a |-> [name |-> a[w].name, sum |-> a[w].sum]]
  BY <1>5, <1>6
<1>8. ApplyMigration(d, b, v) = [applied |-> a, rows |-> ApplyMigration(d, b, v).rows]
  BY DEF ApplyMigration
<1>9. Recorded(ApplyMigration(d, b, v)) = DOMAIN a
  BY DEF Recorded
<1> QED BY <1>2, <1>3, <1>7, <1>8, <1>9 DEF IsDatabase, ApplyMigration

LEMMA ChecksumShape ==
  ASSUME NEW d, IsDatabase(d), NEW b
  PROVE  /\ IsDatabase(WithChecksums(d, b))
         /\ Recorded(WithChecksums(d, b)) = Recorded(d)
         /\ WithChecksums(d, b).rows = d.rows
         /\ \A v \in Recorded(d) :
              /\ WithChecksums(d, b).applied[v].name = d.applied[v].name
              /\ WithChecksums(d, b).applied[v].sum
                   = IF ChecksumVersion \in Recorded(d) /\ v \in Versions(b)
                        /\ d.applied[v].sum = NoSum
                     THEN migration_checksum(b.migs[v]) ELSE d.applied[v].sum
<1> DEFINE w == WithChecksums(d, b)
           a == w.applied
<1>1. w = [applied |-> a, rows |-> d.rows]
  BY DEF WithChecksums
<1>2. /\ a = [v \in Recorded(d) |-> a[v]] /\ DOMAIN a = Recorded(d)
      /\ \A v \in Recorded(d) :
           a[v] = [name |-> d.applied[v].name,
                   sum |-> IF ChecksumVersion \in Recorded(d) /\ v \in Versions(b)
                              /\ d.applied[v].sum = NoSum
                           THEN migration_checksum(b.migs[v]) ELSE d.applied[v].sum]
  BY DEF WithChecksums
<1>3. ASSUME NEW v \in Recorded(d)
      PROVE  /\ a[v] = [name |-> a[v].name, sum |-> a[v].sum]
             /\ a[v].name = d.applied[v].name
             /\ a[v].sum = IF ChecksumVersion \in Recorded(d) /\ v \in Versions(b)
                              /\ d.applied[v].sum = NoSum
                           THEN migration_checksum(b.migs[v]) ELSE d.applied[v].sum
  <2> DEFINE r == a[v]
             s == IF ChecksumVersion \in Recorded(d) /\ v \in Versions(b)
                     /\ d.applied[v].sum = NoSum
                  THEN migration_checksum(b.migs[v]) ELSE d.applied[v].sum
  <2>1. r = [name |-> d.applied[v].name, sum |-> s]
    BY <1>2
  <2> HIDE DEF r, s
  <2>2. r = [name |-> r.name, sum |-> r.sum] /\ r.name = d.applied[v].name /\ r.sum = s
    BY <2>1
  <2> QED BY <2>2 DEF r, s
<1>4. Recorded(w) = Recorded(d)
  BY <1>2 DEF Recorded
<1>5. a = [v \in Recorded(w) |-> [name |-> a[v].name, sum |-> a[v].sum]]
  BY <1>2, <1>3, <1>4
<1>6. w.rows = d.rows
  BY DEF WithChecksums
<1>7. IsDatabase(w)
  BY <1>1, <1>5, <1>6 DEF IsDatabase
<1> QED BY <1>3, <1>4, <1>6, <1>7

\* A step to another point, and an end, leave well formed processes.
LEMMA ProcessSteps ==
  ASSUME StartupTypeOK, NEW i \in Instances
  PROVE  /\ \A p \in {"probe", "open", "wire", "stat", "connect", "remove", "bind", "accept",
                     "backoff", "closed", "zombie"} : at(i) # "down" /\ Goto(i, p) =>
              /\ inst' = [j \in Instances |-> inst'[j]]
              /\ \A j \in Instances : ProcessOK(inst'[j])
         /\ Gone(i) =>
              /\ inst' = [j \in Instances |-> inst'[j]]
              /\ \A j \in Instances : ProcessOK(inst'[j])
              /\ writer' \in Instances \cup {None}
<1> DEFINE S == {"probe", "open", "wire", "stat", "connect", "remove", "bind", "accept",
                 "backoff", "closed", "zombie"}
<1>1. ASSUME NEW p \in S, at(i) # "down", Goto(i, p)
      PROVE  /\ inst' = [j \in Instances |-> inst'[j]]
             /\ \A j \in Instances : ProcessOK(inst'[j])
  <2>1. ProcessOK(inst[i]) /\ \A j \in Instances : ProcessOK(inst[j])
    BY DEF StartupTypeOK
  <2> DEFINE q == inst'[i]
  <2>2. q = [pc |-> p, build |-> inst[i].build, view |-> inst[i].view,
             pend |-> inst[i].pend, mism |-> inst[i].mism, stop |-> inst[i].stop,
             disturbed |-> inst[i].disturbed]
    BY <1>1, GotoFacts
  <2> HIDE DEF q
  <2>3. ProcessOK(q)
    BY <1>1, <2>1, <2>2 DEF ProcessOK, at
  <2>4. ProcessOK(inst'[i])
    BY <2>3 DEF q
  <2> QED BY <1>1, <2>1, <2>4, GotoFacts
<1>2. ASSUME Gone(i)
      PROVE  /\ inst' = [j \in Instances |-> inst'[j]]
             /\ \A j \in Instances : ProcessOK(inst'[j])
             /\ writer' \in Instances \cup {None}
  <2>1. \A j \in Instances : ProcessOK(inst[j])
    BY DEF StartupTypeOK
  <2>2. writer \in Instances \cup {None}
    BY DEF StartupTypeOK
  <2> QED BY <1>2, <2>1, <2>2, GoneFacts, OffIsOK
<1> QED BY <1>1, <1>2

\* The steps that change more of a process than its point.
LEMMA OtherSteps ==
  ASSUME StartupTypeOK, NEW i \in Instances
  PROVE  /\ OpenDatabase(i) /\ ~Refused(db, inst[i].build) =>
              /\ inst' = [j \in Instances |-> inst'[j]]
              /\ inst'[i] = [pc |-> "migrate", build |-> inst[i].build, view |-> db,
                             pend |-> Versions(inst[i].build) \ Recorded(db),
                             mism |-> Mismatched(db, inst[i].build), stop |-> inst[i].stop,
                             disturbed |-> inst[i].disturbed]
              /\ \A j \in Instances \ {i} : inst'[j] = inst[j]
         /\ Migrate(i) =>
              /\ inst' = [j \in Instances |-> inst'[j]]
              /\ \E v \in inst[i].pend :
                   inst'[i] = [pc |-> "migrate", build |-> inst[i].build,
                               view |-> ApplyMigration(inst[i].view, inst[i].build, v),
                               pend |-> inst[i].pend \ {v}, mism |-> inst[i].mism,
                               stop |-> inst[i].stop, disturbed |-> inst[i].disturbed]
              /\ \A j \in Instances \ {i} : inst'[j] = inst[j]
         /\ CommitMigrations(i) =>
              /\ inst' = [j \in Instances |-> inst'[j]]
              /\ inst'[i] = [pc |-> "wire", build |-> inst[i].build, view |-> None,
                             pend |-> inst[i].pend, mism |-> inst[i].mism,
                             stop |-> inst[i].stop, disturbed |-> inst[i].disturbed]
              /\ \A j \in Instances \ {i} : inst'[j] = inst[j]
         /\ BindFails(i) =>
              /\ inst' = [j \in Instances |-> inst'[j]]
              /\ inst'[i] = [pc |-> "zombie", build |-> inst[i].build, view |-> inst[i].view,
                             pend |-> inst[i].pend, mism |-> inst[i].mism,
                             stop |-> inst[i].stop, disturbed |-> TRUE]
              /\ \A j \in Instances \ {i} : inst'[j] = inst[j]
         /\ Signal(i) =>
              /\ inst' = [j \in Instances |-> inst'[j]]
              /\ inst'[i] = [pc |-> inst[i].pc, build |-> inst[i].build, view |-> inst[i].view,
                             pend |-> inst[i].pend, mism |-> inst[i].mism,
                             stop |-> TRUE, disturbed |-> inst[i].disturbed]
              /\ \A j \in Instances \ {i} : inst'[j] = inst[j]
<1>1. /\ inst = [j \in Instances |-> inst[j]]
      /\ inst[i] = [pc |-> inst[i].pc, build |-> inst[i].build, view |-> inst[i].view,
                    pend |-> inst[i].pend, mism |-> inst[i].mism, stop |-> inst[i].stop,
                    disturbed |-> inst[i].disturbed]
  BY DEF StartupTypeOK, ProcessOK
<1>2. OpenDatabase(i) /\ ~Refused(db, inst[i].build) =>
        /\ inst' = [j \in Instances |-> inst'[j]]
        /\ inst'[i] = [pc |-> "migrate", build |-> inst[i].build, view |-> db,
                       pend |-> Versions(inst[i].build) \ Recorded(db),
                       mism |-> Mismatched(db, inst[i].build), stop |-> inst[i].stop,
                       disturbed |-> inst[i].disturbed]
        /\ \A j \in Instances \ {i} : inst'[j] = inst[j]
  BY <1>1 DEF OpenDatabase
<1>3. Migrate(i) =>
        /\ inst' = [j \in Instances |-> inst'[j]]
        /\ \E v \in inst[i].pend :
             inst'[i] = [pc |-> "migrate", build |-> inst[i].build,
                         view |-> ApplyMigration(inst[i].view, inst[i].build, v),
                         pend |-> inst[i].pend \ {v}, mism |-> inst[i].mism,
                         stop |-> inst[i].stop, disturbed |-> inst[i].disturbed]
        /\ \A j \in Instances \ {i} : inst'[j] = inst[j]
  BY <1>1 DEF Migrate, at
<1>4. CommitMigrations(i) =>
        /\ inst' = [j \in Instances |-> inst'[j]]
        /\ inst'[i] = [pc |-> "wire", build |-> inst[i].build, view |-> None,
                       pend |-> inst[i].pend, mism |-> inst[i].mism,
                       stop |-> inst[i].stop, disturbed |-> inst[i].disturbed]
        /\ \A j \in Instances \ {i} : inst'[j] = inst[j]
  BY <1>1 DEF CommitMigrations
<1>5. BindFails(i) =>
        /\ inst' = [j \in Instances |-> inst'[j]]
        /\ inst'[i] = [pc |-> "zombie", build |-> inst[i].build, view |-> inst[i].view,
                       pend |-> inst[i].pend, mism |-> inst[i].mism,
                       stop |-> inst[i].stop, disturbed |-> TRUE]
        /\ \A j \in Instances \ {i} : inst'[j] = inst[j]
  BY <1>1 DEF BindFails
<1>6. Signal(i) =>
        /\ inst' = [j \in Instances |-> inst'[j]]
        /\ inst'[i] = [pc |-> inst[i].pc, build |-> inst[i].build, view |-> inst[i].view,
                       pend |-> inst[i].pend, mism |-> inst[i].mism,
                       stop |-> TRUE, disturbed |-> inst[i].disturbed]
        /\ \A j \in Instances \ {i} : inst'[j] = inst[j]
  BY <1>1 DEF Signal
<1> QED BY <1>2, <1>3, <1>4, <1>5, <1>6

\* A launch that its environment refuses changes nothing; any other starts a
\* process at the probe, and the starts it overlaps are disturbed.
LEMMA LaunchFacts ==
  ASSUME StartupTypeOK, NEW i \in Instances, Launch(i), inst' # inst
  PROVE  /\ inst' = [j \in Instances |-> inst'[j]]
         /\ \E b \in Builds :
              inst'[i] = [pc |-> "probe", build |-> b, view |-> None, pend |-> {}, mism |-> {},
                          stop |-> FALSE, disturbed |-> \E j \in Instances \ {i} : Starting(j)]
         /\ \A j \in Instances \ {i} :
              inst'[j] = [pc |-> inst[j].pc, build |-> inst[j].build, view |-> inst[j].view,
                          pend |-> inst[j].pend, mism |-> inst[j].mism, stop |-> inst[j].stop,
                          disturbed |-> inst[j].disturbed \/ Starting(j)]
<1> DEFINE others == {j \in Instances \ {i} : Starting(j)}
<1>1. PICK e \in Environments, b \in Builds :
        inst' = [j \in Instances |->
                   IF j = i THEN [Off EXCEPT !.pc = "probe", !.build = b,
                                              !.disturbed = others # {}]
                   ELSE [inst[j] EXCEPT !.disturbed = @ \/ j \in others]]
  BY DEF Launch
<1>2. inst'[i] = [pc |-> "probe", build |-> b, view |-> None, pend |-> {}, mism |-> {},
                  stop |-> FALSE, disturbed |-> others # {}]
  BY <1>1 DEF Off
<1>3. (others # {}) = \E j \in Instances \ {i} : Starting(j)
  OBVIOUS
<1>4. ASSUME NEW j \in Instances \ {i}
      PROVE  inst'[j] = [pc |-> inst[j].pc, build |-> inst[j].build, view |-> inst[j].view,
                         pend |-> inst[j].pend, mism |-> inst[j].mism, stop |-> inst[j].stop,
                         disturbed |-> inst[j].disturbed \/ Starting(j)]
  <2>1. inst[j] = [pc |-> inst[j].pc, build |-> inst[j].build, view |-> inst[j].view,
                   pend |-> inst[j].pend, mism |-> inst[j].mism, stop |-> inst[j].stop,
                   disturbed |-> inst[j].disturbed]
    BY DEF StartupTypeOK, ProcessOK
  <2> DEFINE s == inst[j].disturbed \/ j \in others
             t == inst[j].disturbed \/ Starting(j)
  <2>2. inst'[j] = [inst[j] EXCEPT !.disturbed = s]
    BY <1>1
  <2>3. s = t
    OBVIOUS
  <2> HIDE DEF s
  <2>4. inst'[j] = [pc |-> inst[j].pc, build |-> inst[j].build, view |-> inst[j].view,
                    pend |-> inst[j].pend, mism |-> inst[j].mism, stop |-> inst[j].stop,
                    disturbed |-> s]
    BY <2>1, <2>2
  <2> QED BY <2>3, <2>4
<1>5. inst' = [j \in Instances |-> inst'[j]]
  BY <1>1
<1>6. inst'[i] = [pc |-> "probe", build |-> b, view |-> None, pend |-> {}, mism |-> {},
                  stop |-> FALSE, disturbed |-> \E j \in Instances \ {i} : Starting(j)]
  BY <1>2, <1>3
<1> QED BY <1>4, <1>5, <1>6

\* A record with the fields of a process, at a point past the launch, is well
\* formed when its build and flags are.
LEMMA FieldsOK ==
  ASSUME NEW p, NEW q, NEW b \in Builds, NEW v, NEW e, NEW m, NEW s \in BOOLEAN,
         NEW d \in BOOLEAN,
         p = [pc |-> q, build |-> b, view |-> v, pend |-> e, mism |-> m, stop |-> s,
              disturbed |-> d],
         q \in {"probe", "open", "migrate", "wire", "stat", "connect", "remove", "bind", "accept",
               "backoff", "closed", "zombie"},
         q = "migrate" => IsDatabase(v)
  PROVE  ProcessOK(p)
BY DEF ProcessOK

LEMMA NextStartupTypes == StartupTypeOK /\ [StartupNext]_startupvars => StartupTypeOK'
<1> SUFFICES ASSUME StartupTypeOK, [StartupNext]_startupvars
             PROVE  StartupTypeOK'
  OBVIOUS
<1> DEFINE Shape == /\ inst' = [j \in Instances |-> inst'[j]]
                    /\ \A j \in Instances : ProcessOK(inst'[j])
<1>0. /\ \A j \in Instances : ProcessOK(inst[j])
      /\ inst = [j \in Instances |-> inst[j]]
  BY DEF StartupTypeOK
<1>1. CASE UNCHANGED startupvars
  BY <1>1 DEF startupvars, StartupTypeOK
<1>2. ASSUME NEW i \in Instances,
             StartUp(i) \/ ServeOrStop(i) \/ Launch(i) \/ Halt(i) \/ StoreDigest(i)
             \/ BindFails(i) \/ AcceptFails(i) \/ Signal(i) \/ Kill(i)
      PROVE  StartupTypeOK'
  <2> USE <1>2
  <2>0. ProcessOK(inst[i]) /\ (at(i) # "down" => inst[i].build \in Builds)
        /\ inst[i].stop \in BOOLEAN /\ inst[i].disturbed \in BOOLEAN
    BY <1>0 DEF ProcessOK, at
  <2>a. \A p \in {"probe", "open", "wire", "stat", "connect", "remove", "bind", "accept",
                  "backoff", "closed", "zombie"} : at(i) # "down" /\ Goto(i, p) => Shape
    BY ProcessSteps
  <2>b. Gone(i) => Shape /\ writer' \in Instances \cup {None}
    BY ProcessSteps
  <2>c. \A q : ProcessOK(q) /\ inst'[i] = q /\ (\A j \in Instances \ {i} : inst'[j] = inst[j])
              /\ inst' = [j \in Instances |-> inst'[j]] => Shape
    BY <1>0
  <2> HIDE DEF Shape
  <2>d. Shape /\ IsDatabase(db') /\ writer' \in Instances \cup {None}
        /\ path' \in Instances \cup {None}
        /\ launches' \in 0..MaxLaunches /\ faults' \in 0..MaxFaults => StartupTypeOK'
    BY DEF StartupTypeOK, Shape, IsDatabase, Recorded, ProcessOK
  <2>e. /\ IsDatabase(db) /\ writer \in Instances \cup {None} /\ path \in Instances \cup {None}
        /\ launches \in 0..MaxLaunches /\ faults \in 0..MaxFaults
        /\ MaxLaunches \in Nat /\ MaxFaults \in Nat
    BY StartupAssumption DEF StartupTypeOK
  <2>1. CASE ProbeSocket(i)
    BY <2>1, <2>a, <2>b, <2>d, <2>e DEF ProbeSocket, at
  <2>2. CASE OpenDatabase(i)
    <3>1. UNCHANGED <<db, path, launches, faults>> /\ writer' \in Instances \cup {None}
      BY <2>2, <2>b, <2>e DEF OpenDatabase
    <3>2. Shape
      <4>1. CASE Refused(db, inst[i].build)
        BY <4>1, <2>2, <2>b DEF OpenDatabase
      <4>2. CASE ~Refused(db, inst[i].build)
        <5>1. ProcessOK(inst'[i])
          <6>1. inst'[i] = [pc |-> "migrate", build |-> inst[i].build, view |-> db,
                            pend |-> Versions(inst[i].build) \ Recorded(db),
                            mism |-> Mismatched(db, inst[i].build), stop |-> inst[i].stop,
                            disturbed |-> inst[i].disturbed]
            BY <2>2, <4>2, OtherSteps
          <6>2. at(i) # "down"
            BY <2>2 DEF OpenDatabase
          <6> QED BY <6>1, <6>2, <2>0, <2>e, FieldsOK
        <5> QED BY <5>1, <2>2, <4>2, <2>c, OtherSteps
      <4> QED BY <4>1, <4>2
    <3> QED BY <3>1, <3>2, <2>d, <2>e
  <2>3. CASE Migrate(i)
    <3>1. UNCHANGED <<db, path, launches, faults>> /\ writer' \in Instances \cup {None}
      BY <2>3 DEF Migrate
    <3>2. PICK v \in inst[i].pend :
            inst'[i] = [pc |-> "migrate", build |-> inst[i].build,
                        view |-> ApplyMigration(inst[i].view, inst[i].build, v),
                        pend |-> inst[i].pend \ {v}, mism |-> inst[i].mism,
                        stop |-> inst[i].stop, disturbed |-> inst[i].disturbed]
      BY <2>3, OtherSteps
    <3>3. at(i) = "migrate" /\ IsDatabase(inst[i].view)
      BY <2>3, <2>0 DEF Migrate, ProcessOK, at
    <3>4. IsDatabase(ApplyMigration(inst[i].view, inst[i].build, v))
      BY <3>3, AppliedShape
    <3>5. ProcessOK(inst'[i])
      BY <3>2, <3>3, <3>4, <2>0, FieldsOK
    <3>6. Shape
      BY <3>5, <2>3, <2>c, OtherSteps
    <3> QED BY <3>1, <3>6, <2>d, <2>e
  <2>4. CASE CommitMigrations(i)
    <3>1. UNCHANGED <<path, launches, faults>> /\ writer' = None
          /\ db' = WithChecksums(inst[i].view, inst[i].build) /\ at(i) = "migrate"
      BY <2>4 DEF CommitMigrations
    <3>2. IsDatabase(inst[i].view)
      BY <3>1, <2>0 DEF ProcessOK, at
    <3>3. IsDatabase(db')
      BY <3>1, <3>2, ChecksumShape
    <3>4. ProcessOK(inst'[i])
      <4>1. inst'[i] = [pc |-> "wire", build |-> inst[i].build, view |-> None,
                        pend |-> inst[i].pend, mism |-> inst[i].mism,
                        stop |-> inst[i].stop, disturbed |-> inst[i].disturbed]
        BY <2>4, OtherSteps
      <4> QED BY <4>1, <3>1, <2>0, FieldsOK
    <3>5. Shape
      BY <3>4, <2>4, <2>c, OtherSteps
    <3> QED BY <3>1, <3>3, <3>5, <2>d, <2>e
  <2>5. CASE Busy(i)
    BY <2>5, <2>b, <2>d, <2>e DEF Busy
  <2>6. CASE Wire(i)
    BY <2>6, <2>a, <2>d, <2>e DEF Wire, at
  <2>7. CASE StatSocket(i)
    BY <2>7, <2>a, <2>d, <2>e DEF StatSocket, at
  <2>8. CASE ConnectSocket(i)
    BY <2>8, <2>a, <2>d, <2>e DEF ConnectSocket, at
  <2>9. CASE RemoveSocket(i)
    BY <2>9, <2>a, <2>d, <2>e DEF RemoveSocket, at
  <2>10. CASE Bind(i)
    BY <2>10, <2>a, <2>d, <2>e DEF Bind, at
  <2>11. CASE AcceptAgain(i)
    BY <2>11, <2>a, <2>d, <2>e DEF AcceptAgain, at
  <2>12. CASE next_shutdown(i)
    BY <2>12, <2>a, <2>d, <2>e DEF next_shutdown, Listening, at
  <2>13. CASE Exit(i)
    BY <2>13, <2>b, <2>d, <2>e DEF Exit
  <2>14. CASE Launch(i)
    <3>1. UNCHANGED <<db, writer, path, faults>> /\ launches' \in 0..MaxLaunches
      <4>1. UNCHANGED <<db, writer, path, faults>> /\ launches < MaxLaunches
            /\ launches' = launches + 1
        BY <2>14 DEF Launch
      <4> QED BY <4>1, <2>e
    <3>2. Shape
      <4>1. CASE inst' = inst
        BY <4>1, <1>0 DEF Shape
      <4>2. CASE inst' # inst
        <5>1. ProcessOK(inst'[i])
          <6>1. PICK b \in Builds :
                  inst'[i] = [pc |-> "probe", build |-> b, view |-> None, pend |-> {},
                              mism |-> {}, stop |-> FALSE,
                              disturbed |-> \E j \in Instances \ {i} : Starting(j)]
            BY <2>14, <4>2, LaunchFacts
          <6> DEFINE x == \E j \in Instances \ {i} : Starting(j)
          <6>2. x \in BOOLEAN
            OBVIOUS
          <6> HIDE DEF x
          <6>3. inst'[i] = [pc |-> "probe", build |-> b, view |-> None, pend |-> {},
                            mism |-> {}, stop |-> FALSE, disturbed |-> x]
            BY <6>1 DEF x
          <6> DEFINE q == inst'[i]
          <6>4. q = [pc |-> "probe", build |-> b, view |-> None, pend |-> {}, mism |-> {},
                     stop |-> FALSE, disturbed |-> x]
            BY <6>3
          <6> HIDE DEF q
          <6>5. ProcessOK(q)
            BY <6>2, <6>4 DEF ProcessOK
          <6> QED BY <6>5 DEF q
        <5>2. ASSUME NEW j \in Instances \ {i}
              PROVE  ProcessOK(inst'[j])
          <6> DEFINE x == inst[j].disturbed \/ Starting(j)
          <6>1. x \in BOOLEAN /\ ProcessOK(inst[j])
            BY <1>0
          <6>2. inst'[j] = [pc |-> inst[j].pc, build |-> inst[j].build, view |-> inst[j].view,
                            pend |-> inst[j].pend, mism |-> inst[j].mism, stop |-> inst[j].stop,
                            disturbed |-> x]
            BY <2>14, <4>2, LaunchFacts
          <6>3. inst[j].pc = "down" => x = FALSE
            BY <6>1 DEF ProcessOK, Off, Starting, at
          <6> HIDE DEF x
          <6>4. CASE inst[j].pc # "down"
            BY <6>1, <6>2, <6>4, FieldsOK DEF ProcessOK
          <6>5. CASE inst[j].pc = "down"
            BY <6>1, <6>2, <6>3, <6>5, OffIsOK DEF ProcessOK, Off
          <6> QED BY <6>4, <6>5
        <5> QED BY <2>14, <4>2, <5>1, <5>2, LaunchFacts DEF Shape
      <4> QED BY <4>1, <4>2
    <3> QED BY <3>1, <3>2, <2>d, <2>e
  <2>15. CASE Halt(i)
    BY <2>15, <2>b, <2>d, <2>e DEF Halt
  <2>16. CASE StoreDigest(i)
    <3>1. PICK r \in Rows : db' = [db EXCEPT !.rows[r] = "keyed"]
      BY <2>16 DEF StoreDigest
    <3>2. db' = [applied |-> db.applied, rows |-> [db.rows EXCEPT ![r] = "keyed"]]
      BY <3>1, <2>e DEF IsDatabase
    <3>3. db'.applied = db.applied /\ Recorded(db') = Recorded(db)
          /\ db' = [applied |-> db'.applied, rows |-> db'.rows]
      BY <3>2 DEF Recorded
    <3>4. IsDatabase(db')
      BY <3>3, <2>e DEF IsDatabase
    <3> QED BY <3>4, <2>16, <1>0, <2>d, <2>e DEF StoreDigest, Shape
  <2>17. CASE BindFails(i)
    <3>1. UNCHANGED <<db, writer, path, launches>> /\ faults' \in 0..MaxFaults
          /\ at(i) # "down"
      BY <2>17, <2>e DEF BindFails
    <3>2. ProcessOK(inst'[i])
      <4>1. inst'[i] = [pc |-> "zombie", build |-> inst[i].build, view |-> inst[i].view,
                        pend |-> inst[i].pend, mism |-> inst[i].mism,
                        stop |-> inst[i].stop, disturbed |-> TRUE]
        BY <2>17, OtherSteps
      <4> DEFINE q == inst'[i]
      <4>2. q = [pc |-> "zombie", build |-> inst[i].build, view |-> inst[i].view,
                 pend |-> inst[i].pend, mism |-> inst[i].mism, stop |-> inst[i].stop,
                 disturbed |-> TRUE]
        BY <4>1
      <4> HIDE DEF q
      <4>3. ProcessOK(q)
        BY <3>1, <4>2, <2>0 DEF ProcessOK
      <4> QED BY <4>3 DEF q
    <3> QED BY <3>1, <3>2, <2>17, <2>c, <2>d, <2>e, OtherSteps
  <2>18. CASE AcceptFails(i)
    BY <2>18, <2>a, <2>d, <2>e DEF AcceptFails, at
  <2>19. CASE Signal(i)
    <3>1. UNCHANGED <<db, writer, path, launches, faults>> /\ at(i) # "down"
          /\ at(i) # "migrate"
      BY <2>19, <2>e DEF Signal, Running, Listening
    <3>2. ProcessOK(inst'[i])
      <4>1. inst[i].pc \in {"probe", "open", "migrate", "wire", "stat", "connect", "remove",
                            "bind", "accept", "backoff", "closed", "zombie"}
        BY <3>1, <2>0 DEF ProcessOK, at
      <4>2. inst'[i] = [pc |-> inst[i].pc, build |-> inst[i].build, view |-> inst[i].view,
                        pend |-> inst[i].pend, mism |-> inst[i].mism,
                        stop |-> TRUE, disturbed |-> inst[i].disturbed]
        BY <2>19, OtherSteps
      <4> QED BY <3>1, <4>1, <4>2, <2>0, FieldsOK DEF at
    <3> QED BY <3>1, <3>2, <2>19, <2>c, <2>d, <2>e, OtherSteps
  <2>20. CASE Kill(i)
    BY <2>20, <2>b, <2>d, <2>e DEF Kill
  <2> QED BY <2>1, <2>2, <2>3, <2>4, <2>5, <2>6, <2>7, <2>8, <2>9, <2>10, <2>11, <2>12, <2>13,
             <2>14, <2>15, <2>16, <2>17, <2>18, <2>19, <2>20 DEF StartUp, ServeOrStop
<1> QED BY <1>1, <1>2 DEF StartupNext

(* Every reachable state has the types of its variables: a process that is *)
(* down keeps nothing of an earlier life, and one that migrates holds a    *)
(* database of its own.                                                    *)
THEOREM StartupTypes == StartupSpec => []StartupTypeOK
<1> QED BY InitStartupTypes, NextStartupTypes, PTL DEF StartupSpec

----------------------------------------------------------------------------
(* One service at a time.                                                  *)

\* A process whose start nothing disturbed is the only one that starts; from
\* its probe on nobody listens at the path, which it knows to be taken or
\* free; and once it listens the path is its own and other starts have not got
\* past their probe.
Alone ==
    \A i \in Instances : ~inst[i].disturbed =>
        /\ Starting(i) => \A j \in Instances \ {i} : ~Starting(j)
        /\ at(i) \in {"open", "migrate", "wire", "stat", "connect", "remove", "bind"} => ~Reachable
        /\ at(i) \in {"connect", "remove"} => path # None
        /\ at(i) = "bind" => path = None
        /\ Listening(i) =>
              path = i /\ \A j \in Instances \ {i} : Starting(j) => at(j) = "probe"
        /\ at(i) # "zombie"

\* Steps that leave the points, the flags and the path alone.
LEMMA AloneStutters ==
  ASSUME Alone, path' = path,
         \A j \in Instances : inst'[j].pc = inst[j].pc /\ inst'[j].disturbed = inst[j].disturbed,
         path \in Instances \cup {None}
  PROVE  Alone'
BY DEF Alone, Starting, Listening, Reachable, at

\* A step of one process from the point p to q, and the path with it.
LEMMA AloneMoves ==
  ASSUME Alone, StartupTypeOK, NEW i \in Instances, NEW p, NEW q,
         inst[i].pc = p, inst'[i].pc = q,
         inst'[i].disturbed = inst[i].disturbed,
         \A j \in Instances \ {i} : inst'[j] = inst[j],
         \/ path' = path /\ p = "probe" /\ q = "open" /\ ~Reachable
         \/ /\ path' = path
            /\ <<p, q>> \in {<<"open", "migrate">>, <<"migrate", "migrate">>, <<"migrate", "wire">>,
                            <<"wire", "stat">>, <<"backoff", "accept">>, <<"accept", "backoff">>,
                            <<"accept", "closed">>, <<"backoff", "closed">>}
         \/ path' = path /\ p = "stat" /\ q = IF path = None THEN "bind" ELSE "connect"
         \/ path' = path /\ p = "connect" /\ q = IF Reachable THEN "zombie" ELSE "remove"
         \/ path' = None /\ p = "remove" /\ q = IF path = None THEN "zombie" ELSE "bind"
         \/ path' = i /\ p = "bind" /\ q = "accept" /\ path = None
         \/ path' = path /\ p = "bind" /\ q = "zombie" /\ path # None
  PROVE  Alone'
<1> SUFFICES ASSUME NEW k \in Instances, ~inst'[k].disturbed
             PROVE  /\ Starting(k)' => \A j \in Instances \ {k} : ~Starting(j)'
                    /\ at(k)' \in {"open", "migrate", "wire", "stat", "connect", "remove", "bind"}
                         => ~Reachable'
                    /\ at(k)' \in {"connect", "remove"} => path' # None
                    /\ at(k)' = "bind" => path' = None
                    /\ Listening(k)' =>
                         /\ path' = k
                         /\ \A j \in Instances \ {k} : Starting(j)' => at(j)' = "probe"
                    /\ at(k)' # "zombie"
  BY DEF Alone
<1>1. /\ path \in Instances \cup {None} /\ None \notin Instances
  BY StartupAssumption DEF StartupTypeOK
<1>2. ~inst[k].disturbed
  OBVIOUS
<1>3. /\ Starting(k) => \A j \in Instances \ {k} : ~Starting(j)
      /\ at(k) \in {"open", "migrate", "wire", "stat", "connect", "remove", "bind"} => ~Reachable
      /\ at(k) \in {"connect", "remove"} => path # None
      /\ at(k) = "bind" => path = None
      /\ Listening(k) =>
            path = k /\ \A j \in Instances \ {k} : Starting(j) => at(j) = "probe"
      /\ at(k) # "zombie"
  BY <1>2 DEF Alone
<1>4. CASE k = i
  BY <1>1, <1>3, <1>4 DEF Starting, Listening, Reachable, at
<1>5. CASE k # i
  BY <1>1, <1>3, <1>5 DEF Starting, Listening, Reachable, at
<1> QED BY <1>4, <1>5

\* A process that goes leaves the socket's file behind, and nobody at it.
LEMMA AloneGone ==
  ASSUME Alone, StartupTypeOK, NEW i \in Instances, Gone(i), path' = path
  PROVE  Alone'
<1>1. /\ path \in Instances \cup {None} /\ None \notin Instances
      /\ inst'[i] = Off /\ \A j \in Instances \ {i} : inst'[j] = inst[j]
  BY GoneFacts, StartupAssumption DEF StartupTypeOK
<1>2. inst'[i].pc = "down"
  BY <1>1 DEF Off
<1> QED BY <1>1, <1>2 DEF Alone, Starting, Listening, Reachable, at

\* Where those steps lead, and whom they disturb.
LEMMA OtherMoves ==
  ASSUME StartupTypeOK, NEW i \in Instances
  PROVE  /\ OpenDatabase(i) /\ ~Refused(db, inst[i].build) =>
              inst'[i].pc = "migrate" /\ inst'[i].disturbed = inst[i].disturbed
         /\ Migrate(i) =>
              inst'[i].pc = "migrate" /\ inst'[i].disturbed = inst[i].disturbed
         /\ CommitMigrations(i) =>
              inst'[i].pc = "wire" /\ inst'[i].disturbed = inst[i].disturbed
         /\ BindFails(i) => inst'[i].pc = "zombie" /\ inst'[i].disturbed
         /\ Signal(i) =>
              inst'[i].pc = inst[i].pc /\ inst'[i].disturbed = inst[i].disturbed
<1>1. ASSUME OpenDatabase(i), ~Refused(db, inst[i].build)
      PROVE  inst'[i].pc = "migrate" /\ inst'[i].disturbed = inst[i].disturbed
  <2>1. inst'[i] = [pc |-> "migrate", build |-> inst[i].build, view |-> db,
                      pend |-> Versions(inst[i].build) \ Recorded(db), mism |-> Mismatched(db, inst[i].build),
                      stop |-> inst[i].stop, disturbed |-> inst[i].disturbed]
    BY <1>1, OtherSteps
  <2> QED BY <2>1
<1>2. ASSUME Migrate(i)
      PROVE  inst'[i].pc = "migrate" /\ inst'[i].disturbed = inst[i].disturbed
  <2>1. PICK v \in inst[i].pend :
          inst'[i] = [pc |-> "migrate", build |-> inst[i].build,
                      view |-> ApplyMigration(inst[i].view, inst[i].build, v),
                      pend |-> inst[i].pend \ {v}, mism |-> inst[i].mism,
                      stop |-> inst[i].stop, disturbed |-> inst[i].disturbed]
    BY <1>2, OtherSteps
  <2> QED BY <2>1
<1>3. ASSUME CommitMigrations(i)
      PROVE  inst'[i].pc = "wire" /\ inst'[i].disturbed = inst[i].disturbed
  <2>1. inst'[i] = [pc |-> "wire", build |-> inst[i].build, view |-> None,
                      pend |-> inst[i].pend, mism |-> inst[i].mism,
                      stop |-> inst[i].stop, disturbed |-> inst[i].disturbed]
    BY <1>3, OtherSteps
  <2> QED BY <2>1
<1>4. ASSUME BindFails(i)
      PROVE  inst'[i].pc = "zombie" /\ inst'[i].disturbed
  <2>1. inst'[i] = [pc |-> "zombie", build |-> inst[i].build, view |-> inst[i].view,
                      pend |-> inst[i].pend, mism |-> inst[i].mism,
                      stop |-> inst[i].stop, disturbed |-> TRUE]
    BY <1>4, OtherSteps
  <2> QED BY <2>1
<1>5. ASSUME Signal(i)
      PROVE  inst'[i].pc = inst[i].pc /\ inst'[i].disturbed = inst[i].disturbed
  <2>1. inst'[i] = [pc |-> inst[i].pc, build |-> inst[i].build, view |-> inst[i].view,
                      pend |-> inst[i].pend, mism |-> inst[i].mism,
                      stop |-> TRUE, disturbed |-> inst[i].disturbed]
    BY <1>5, OtherSteps
  <2> QED BY <2>1
<1> QED BY <1>1, <1>2, <1>3, <1>4, <1>5

\* A launch disturbs whatever starts beside it.
LEMMA AloneLaunch ==
  ASSUME Alone, StartupTypeOK, NEW i \in Instances, Launch(i)
  PROVE  Alone'
<1>1. path' = path /\ path \in Instances \cup {None} /\ at(i) = "down"
  BY DEF Launch, StartupTypeOK
<1>2. CASE inst' = inst
  BY <1>1, <1>2, AloneStutters
<1>3. CASE inst' # inst
  <2>1. PICK b \in Builds :
          inst'[i] = [pc |-> "probe", build |-> b, view |-> None, pend |-> {}, mism |-> {},
                      stop |-> FALSE, disturbed |-> \E j \in Instances \ {i} : Starting(j)]
    BY <1>3, LaunchFacts
  <2>2. inst'[i].pc = "probe" /\ inst'[i].disturbed = \E j \in Instances \ {i} : Starting(j)
    BY <2>1
  <2>3. \A j \in Instances \ {i} :
          inst'[j].pc = inst[j].pc /\ inst'[j].disturbed = (inst[j].disturbed \/ Starting(j))
    <3> SUFFICES ASSUME NEW j \in Instances \ {i}
                 PROVE  inst'[j].pc = inst[j].pc
                        /\ inst'[j].disturbed = (inst[j].disturbed \/ Starting(j))
      OBVIOUS
    <3> DEFINE x == inst[j].disturbed \/ Starting(j)
    <3>1. inst'[j] = [pc |-> inst[j].pc, build |-> inst[j].build, view |-> inst[j].view,
                      pend |-> inst[j].pend, mism |-> inst[j].mism, stop |-> inst[j].stop,
                      disturbed |-> x]
      BY <1>3, LaunchFacts
    <3> HIDE DEF x
    <3>2. inst'[j].pc = inst[j].pc /\ inst'[j].disturbed = x
      BY <3>1
    <3> QED BY <3>2 DEF x
  <2> SUFFICES ASSUME NEW k \in Instances, ~inst'[k].disturbed
               PROVE  /\ Starting(k)' => \A j \in Instances \ {k} : ~Starting(j)'
                      /\ at(k)' \in {"open", "migrate", "wire", "stat", "connect", "remove", "bind"}
                           => ~Reachable'
                      /\ at(k)' \in {"connect", "remove"} => path' # None
                      /\ at(k)' = "bind" => path' = None
                      /\ Listening(k)' =>
                           /\ path' = k
                           /\ \A j \in Instances \ {k} : Starting(j)' => at(j)' = "probe"
                      /\ at(k)' # "zombie"
    BY DEF Alone
  <2>4. CASE k = i
    BY <1>1, <2>2, <2>3, <2>4 DEF Starting, Listening, at
  <2>5. CASE k # i
    <3>1. ~inst[k].disturbed /\ ~Starting(k) /\ inst'[k].pc = inst[k].pc
      BY <2>3, <2>5
    <3>2. /\ Listening(k) =>
               path = k /\ \A j \in Instances \ {k} : Starting(j) => at(j) = "probe"
          /\ at(k) # "zombie"
      BY <3>1 DEF Alone
    <3> QED BY <1>1, <2>2, <2>3, <3>1, <3>2 DEF Starting, Listening, at
  <2> QED BY <2>4, <2>5
<1> QED BY <1>2, <1>3

LEMMA NextAlone == StartupTypeOK /\ Alone /\ [StartupNext]_startupvars => Alone'
<1> SUFFICES ASSUME StartupTypeOK, Alone, [StartupNext]_startupvars
             PROVE  Alone'
  OBVIOUS
<1>0. path \in Instances \cup {None}
  BY DEF StartupTypeOK
<1>1. CASE UNCHANGED startupvars
  BY <1>0, <1>1, AloneStutters DEF startupvars
<1>2. ASSUME NEW i \in Instances,
             StartUp(i) \/ ServeOrStop(i) \/ Launch(i) \/ Halt(i) \/ StoreDigest(i)
             \/ BindFails(i) \/ AcceptFails(i) \/ Signal(i) \/ Kill(i)
      PROVE  Alone'
  <2> USE <1>2
  <2>a. \A p : Goto(i, p) => /\ inst'[i].pc = p /\ inst'[i].disturbed = inst[i].disturbed
                            /\ \A j \in Instances \ {i} : inst'[j] = inst[j]
    <3> SUFFICES ASSUME NEW p, Goto(i, p)
                 PROVE  /\ inst'[i].pc = p /\ inst'[i].disturbed = inst[i].disturbed
                        /\ \A j \in Instances \ {i} : inst'[j] = inst[j]
      OBVIOUS
    <3>1. inst'[i] = [pc |-> p, build |-> inst[i].build, view |-> inst[i].view,
                      pend |-> inst[i].pend, mism |-> inst[i].mism, stop |-> inst[i].stop,
                      disturbed |-> inst[i].disturbed]
      BY GotoFacts
    <3> QED BY <3>1, GotoFacts
  <2>b. \/ OpenDatabase(i) /\ ~Refused(db, inst[i].build)
        \/ Migrate(i) \/ CommitMigrations(i) \/ BindFails(i) \/ Signal(i)
        => \A j \in Instances \ {i} : inst'[j] = inst[j]
    BY OtherSteps
  <2>1. CASE ProbeSocket(i)
    <3>1. at(i) = "probe" /\ path' = path
      BY <2>1 DEF ProbeSocket
    <3>2. CASE socket_already_in_use
      BY <2>1, <3>1, <3>2, AloneGone DEF ProbeSocket
    <3>3. CASE ~socket_already_in_use
      <4>1. Goto(i, "open") /\ ~Reachable
        BY <2>1, <3>3 DEF ProbeSocket, socket_already_in_use
      <4> QED BY <4>1, <3>1, <2>a, AloneMoves DEF at
    <3> QED BY <3>2, <3>3
  <2>2. CASE OpenDatabase(i)
    <3>1. at(i) = "open" /\ path' = path
      BY <2>2 DEF OpenDatabase
    <3>2. CASE Refused(db, inst[i].build)
      BY <2>2, <3>1, <3>2, AloneGone DEF OpenDatabase
    <3>3. CASE ~Refused(db, inst[i].build)
      <4>1. inst'[i].pc = "migrate" /\ inst'[i].disturbed = inst[i].disturbed
            /\ \A j \in Instances \ {i} : inst'[j] = inst[j]
        BY <2>2, <3>3, OtherMoves, <2>b
      <4> QED BY <4>1, <3>1, AloneMoves DEF at
    <3> QED BY <3>2, <3>3
  <2>3. CASE Migrate(i)
    <3>1. inst'[i].pc = "migrate" /\ inst'[i].disturbed = inst[i].disturbed
          /\ \A j \in Instances \ {i} : inst'[j] = inst[j]
      BY <2>3, OtherMoves, <2>b
    <3>2. at(i) = "migrate" /\ path' = path
      BY <2>3 DEF Migrate
    <3> QED BY <3>1, <3>2, AloneMoves DEF at
  <2>4. CASE CommitMigrations(i)
    <3>1. inst'[i].pc = "wire" /\ inst'[i].disturbed = inst[i].disturbed
          /\ \A j \in Instances \ {i} : inst'[j] = inst[j]
      BY <2>4, OtherMoves, <2>b
    <3>2. at(i) = "migrate" /\ path' = path
      BY <2>4 DEF CommitMigrations
    <3> QED BY <3>1, <3>2, AloneMoves DEF at
  <2>5. CASE Busy(i)
    BY <2>5, AloneGone DEF Busy
  <2>6. CASE Wire(i)
    BY <2>6, <2>a, AloneMoves DEF Wire, at
  <2>7. CASE StatSocket(i)
    BY <2>7, <2>a, AloneMoves DEF StatSocket, at
  <2>8. CASE ConnectSocket(i)
    BY <2>8, <2>a, AloneMoves DEF ConnectSocket, at
  <2>9. CASE RemoveSocket(i)
    BY <2>9, <2>a, AloneMoves DEF RemoveSocket, at
  <2>10. CASE Bind(i)
    <3>1. CASE path = None
      BY <2>10, <3>1, <2>a, AloneMoves DEF Bind, at
    <3>2. CASE path # None
      BY <2>10, <3>2, <2>a, AloneMoves DEF Bind, at
    <3> QED BY <3>1, <3>2
  <2>11. CASE AcceptAgain(i)
    BY <2>11, <2>a, AloneMoves DEF AcceptAgain, at
  <2>12. CASE next_shutdown(i)
    <3>1. path' = path /\ Goto(i, "closed") /\ at(i) \in {"accept", "backoff"}
      BY <2>12 DEF next_shutdown, Listening
    <3> QED BY <3>1, <2>a, AloneMoves DEF at
  <2>13. CASE Exit(i)
    BY <2>13, AloneGone DEF Exit
  <2>14. CASE Launch(i)
    BY <2>14, AloneLaunch
  <2>15. CASE Halt(i)
    BY <2>15, AloneGone DEF Halt
  <2>16. CASE StoreDigest(i)
    <3>1. inst' = inst /\ path' = path
      BY <2>16 DEF StoreDigest
    <3> QED BY <3>1, <1>0, AloneStutters
  <2>17. CASE BindFails(i)
    <3>1. /\ inst'[i].pc = "zombie" /\ inst'[i].disturbed
          /\ \A j \in Instances \ {i} : inst'[j] = inst[j]
      BY <2>17, OtherMoves, <2>b
    <3>2. path' = path
      BY <2>17 DEF BindFails
    <3> QED BY <3>1, <3>2, <1>0 DEF Alone, Starting, Listening, Reachable, at
  <2>18. CASE AcceptFails(i)
    BY <2>18, <2>a, AloneMoves DEF AcceptFails, at
  <2>19. CASE Signal(i)
    <3>1. \A j \in Instances :
             inst'[j].pc = inst[j].pc /\ inst'[j].disturbed = inst[j].disturbed
      BY <2>19, OtherMoves, <2>b
    <3>2. path' = path
      BY <2>19 DEF Signal
    <3> QED BY <3>1, <3>2, <1>0, AloneStutters
  <2>20. CASE Kill(i)
    BY <2>20, AloneGone DEF Kill
  <2> QED BY <2>1, <2>2, <2>3, <2>4, <2>5, <2>6, <2>7, <2>8, <2>9, <2>10, <2>11, <2>12, <2>13,
             <2>14, <2>15, <2>16, <2>17, <2>18, <2>19, <2>20 DEF StartUp, ServeOrStop
<1> QED BY <1>1, <1>2 DEF StartupNext

\* socket_already_in_use, bind: a process whose start no other start
\* overlapped and no system call failed owns the socket path while it listens,
\* and never ends up running without a listener.
THEOREM OneServiceOwnsTheSocket == StartupSpec => []OneServiceAtATime
<1>1. StartupInit => Alone
  BY DEF StartupInit, Alone, Starting, Listening, Reachable, at, Off
<1>2. Alone => OneServiceAtATime
  BY DEF Alone, OneServiceAtATime
<1> QED BY <1>1, <1>2, StartupTypes, NextAlone, PTL DEF StartupSpec

----------------------------------------------------------------------------
(* The migrations.                                                         *)

\* A transaction that was not refused: its view extends the database by
\* migrations of its build, and what is pending is the rest of them.
Migrating(p) ==
    /\ RowsAreKeyed(p.view)
    /\ Recorded(db) \subseteq Recorded(p.view)
    /\ p.pend = Versions(p.build) \ Recorded(p.view)
    /\ \A v \in Recorded(db) : p.view.applied[v] = db.applied[v]
    /\ \A v \in Recorded(p.view) \ Recorded(db) :
          v \in Versions(p.build)
          /\ p.view.applied[v] = [name |-> p.build.migs[v].name, sum |-> NoSum]
    /\ p.mism = Mismatched(db, p.build) /\ ~Refused(db, p.build)

\* A process past its transaction: every migration of its build is recorded
\* under its name and with a checksum, its own or one it reports.
RunsOn(p) ==
    /\ Versions(p.build) \subseteq Recorded(db)
    /\ \A v \in Versions(p.build) :
          /\ db.applied[v].name = p.build.migs[v].name
          /\ db.applied[v].sum # NoSum
          /\ db.applied[v].sum # migration_checksum(p.build.migs[v]) => v \in p.mism
          /\ v \in p.mism => p.build.policy = "Report"

Whole ==
    /\ RowsAreKeyed(db)
    /\ \A i \in Instances : /\ at(i) = "migrate" => Migrating(inst[i])
                            /\ at(i) = "wire" \/ Running(i) => RunsOn(inst[i])

\* The one migration that re-keys turns every digest that is none into
\* nothing; any other leaves them as they are.
LEMMA AppliedRows ==
  ASSUME NEW d, IsDatabase(d), RowsAreKeyed(d), NEW b, NEW v, v \notin Recorded(d)
  PROVE  RowsAreKeyed(ApplyMigration(d, b, v))
<1> DEFINE e == ApplyMigration(d, b, v)
<1>1. Recorded(e) = Recorded(d) \cup {v}
  BY AppliedShape
<1>4. e.rows = IF v = SaltVersion THEN rekey_stored_digests(d.rows) ELSE d.rows
  BY DEF ApplyMigration
<1>2. CASE v = SaltVersion
  <2>1. d.rows \in [Rows -> {"absent", "null", "junk", "plain"}]
    BY <1>2 DEF RowsAreKeyed
  <2>2. \A r \in Rows : rekey_stored_digests(d.rows)[r] \in {"absent", "null", "keyed"}
    BY <2>1 DEF rekey_stored_digests, rekey_stored_digest
  <2>3. rekey_stored_digests(d.rows) \in [Rows -> {"absent", "null", "keyed"}]
    <3>1. rekey_stored_digests(d.rows) = [r \in Rows |-> rekey_stored_digests(d.rows)[r]]
      BY DEF rekey_stored_digests
    <3> QED BY <2>2, <3>1
  <2>4. e.rows \in [Rows -> {"absent", "null", "keyed"}] /\ SaltVersion \in Recorded(e)
    BY <1>1, <1>4, <1>2, <2>3
  <2> QED BY <2>4 DEF RowsAreKeyed
<1>3. CASE v # SaltVersion
  <2>1. e.rows = d.rows /\ (SaltVersion \in Recorded(e) <=> SaltVersion \in Recorded(d))
    BY <1>1, <1>3, <1>4
  <2> QED BY <2>1 DEF RowsAreKeyed
<1> QED BY <1>2, <1>3

\* Steps that leave the database alone and move nobody into a transaction or
\* out of one.
LEMMA WholeStutters ==
  ASSUME Whole, db' = db,
         \A j \in Instances :
           \/ inst'[j].pc \in {"down", "probe", "open"}
           \/ /\ inst'[j].pc = "migrate" /\ inst[j].pc = "migrate"
              /\ inst'[j].view = inst[j].view /\ inst'[j].pend = inst[j].pend
              /\ inst'[j].build = inst[j].build /\ inst'[j].mism = inst[j].mism
           \/ /\ at(j) = "wire" \/ Running(j)
              /\ inst'[j].pc # "migrate"
              /\ inst'[j].build = inst[j].build /\ inst'[j].mism = inst[j].mism
  PROVE  Whole'
<1> SUFFICES ASSUME NEW j \in Instances
             PROVE  /\ at(j)' = "migrate" => Migrating(inst[j])'
                    /\ at(j)' = "wire" \/ Running(j)' => RunsOn(inst[j])'
  <2>1. RowsAreKeyed(db)'
    BY DEF Whole, RowsAreKeyed, Recorded
  <2> QED BY <2>1 DEF Whole
<1>1. CASE inst'[j].pc \in {"down", "probe", "open"}
  BY <1>1 DEF at, Running, Listening
<1>2. CASE /\ inst'[j].pc = "migrate" /\ inst[j].pc = "migrate"
           /\ inst'[j].view = inst[j].view /\ inst'[j].pend = inst[j].pend
           /\ inst'[j].build = inst[j].build /\ inst'[j].mism = inst[j].mism
  <2>1. Migrating(inst[j])
    BY <1>2 DEF Whole, at
  <2>2. Migrating(inst[j])'
    BY <1>2, <2>1 DEF Migrating, RowsAreKeyed, Recorded, Mismatched, Refused, RecordedAs
  <2> QED BY <1>2, <2>2 DEF at, Running, Listening
<1>3. CASE /\ at(j) = "wire" \/ Running(j)
           /\ inst'[j].pc # "migrate"
           /\ inst'[j].build = inst[j].build /\ inst'[j].mism = inst[j].mism
  <2>1. RunsOn(inst[j])
    BY <1>3 DEF Whole
  <2>2. RunsOn(inst[j])'
    BY <1>3, <2>1 DEF RunsOn, Recorded
  <2> QED BY <1>3, <2>2 DEF at
<1> QED BY <1>1, <1>2, <1>3

LEMMA WholeGone ==
  ASSUME Whole, StartupTypeOK, NEW i \in Instances, Gone(i), db' = db
  PROVE  Whole'
<1>1. /\ inst'[i].pc = "down" /\ \A j \in Instances \ {i} : inst'[j] = inst[j]
      /\ \A j \in Instances : ProcessOK(inst[j])
  BY GoneFacts DEF Off, StartupTypeOK
<1>2. \A j \in Instances \ {i} :
        inst[j].pc \in {"down", "probe", "open", "migrate"} \/ at(j) = "wire" \/ Running(j)
  BY <1>1 DEF ProcessOK, Running, Listening, at
<1> QED BY <1>1, <1>2, WholeStutters DEF at, Running, Listening

\* A process that goes on, outside its transaction.
LEMMA WholeMoves ==
  ASSUME Whole, StartupTypeOK, NEW i \in Instances, db' = db,
         \A j \in Instances \ {i} : inst'[j] = inst[j],
         inst'[i].build = inst[i].build, inst'[i].mism = inst[i].mism,
         inst'[i].pc # "migrate",
         inst'[i].pc = "open" \/ at(i) = "wire" \/ Running(i)
  PROVE  Whole'
<1>1. \A j \in Instances : ProcessOK(inst[j])
  BY DEF StartupTypeOK
<1>2. \A j \in Instances \ {i} :
        inst[j].pc \in {"down", "probe", "open", "migrate"} \/ at(j) = "wire" \/ Running(j)
  BY <1>1 DEF ProcessOK, Running, Listening, at
<1> QED BY <1>1, <1>2, WholeStutters DEF at, Running, Listening

LEMMA WholeOpens ==
  ASSUME Whole, StartupTypeOK, NEW i \in Instances, OpenDatabase(i),
         ~Refused(db, inst[i].build)
  PROVE  Whole'
<1>1. /\ inst'[i] = [pc |-> "migrate", build |-> inst[i].build, view |-> db,
                     pend |-> Versions(inst[i].build) \ Recorded(db),
                     mism |-> Mismatched(db, inst[i].build), stop |-> inst[i].stop,
                     disturbed |-> inst[i].disturbed]
      /\ \A j \in Instances \ {i} : inst'[j] = inst[j]
  BY OtherSteps
<1>2. /\ inst'[i].pc = "migrate" /\ inst'[i].build = inst[i].build /\ inst'[i].view = db
      /\ inst'[i].pend = Versions(inst[i].build) \ Recorded(db)
      /\ inst'[i].mism = Mismatched(db, inst[i].build)
  BY <1>1
<1>3. db' = db
  BY DEF OpenDatabase
<1>4. Migrating(inst[i])'
  <2>1. RowsAreKeyed(db)
    BY DEF Whole
  <2>2. Migrating(inst'[i])
    BY <1>2, <2>1 DEF Migrating
  <2> QED BY <1>3, <2>2 DEF Migrating, Recorded, RowsAreKeyed, Mismatched, Refused, RecordedAs
<1>5. ASSUME NEW j \in Instances \ {i}
      PROVE  /\ at(j)' = "migrate" => Migrating(inst[j])'
             /\ at(j)' = "wire" \/ Running(j)' => RunsOn(inst[j])'
  <2>1. /\ at(j) = "migrate" => Migrating(inst[j])
        /\ at(j) = "wire" \/ Running(j) => RunsOn(inst[j])
    BY DEF Whole
  <2>2. inst'[j] = inst[j] /\ (at(j)' = at(j)) /\ (Running(j)' <=> Running(j))
    BY <1>1 DEF at, Running, Listening
  <2>3. Migrating(inst[j]) => Migrating(inst[j])'
    <3>1. Migrating(inst[j])' <=> Migrating(inst[j])
      BY <1>3, <2>2, Zenon DEF Migrating, Recorded, RowsAreKeyed, Mismatched, Refused, RecordedAs
    <3> QED BY <3>1
  <2>4. RunsOn(inst[j]) => RunsOn(inst[j])'
    BY <1>3, <2>2 DEF RunsOn, Recorded
  <2> QED BY <2>1, <2>2, <2>3, <2>4
<1>6. RowsAreKeyed(db)'
  BY <1>3 DEF Whole, RowsAreKeyed, Recorded
<1> QED BY <1>2, <1>4, <1>5, <1>6 DEF Whole, at, Running, Listening

LEMMA WholeMigrates ==
  ASSUME Whole, StartupTypeOK, NEW i \in Instances, Migrate(i)
  PROVE  Whole'
<1> DEFINE b == inst[i].build
           w == inst[i].view
<1>1. PICK v \in inst[i].pend :
        inst'[i] = [pc |-> "migrate", build |-> inst[i].build,
                    view |-> ApplyMigration(inst[i].view, inst[i].build, v),
                    pend |-> inst[i].pend \ {v}, mism |-> inst[i].mism,
                    stop |-> inst[i].stop, disturbed |-> inst[i].disturbed]
  BY OtherSteps
<1> DEFINE x == ApplyMigration(w, b, v)
<1>2. /\ inst'[i].pc = "migrate" /\ inst'[i].build = b /\ inst'[i].view = x
      /\ inst'[i].pend = inst[i].pend \ {v} /\ inst'[i].mism = inst[i].mism
  BY <1>1
<1>3. db' = db /\ at(i) = "migrate" /\ \A j \in Instances \ {i} : inst'[j] = inst[j]
  BY OtherSteps DEF Migrate
<1>4. IsDatabase(w)
  BY <1>3 DEF StartupTypeOK, ProcessOK, at
<1>5. Migrating(inst[i])
  BY <1>3 DEF Whole
<1>6. v \in Versions(b) /\ v \notin Recorded(w)
  BY <1>5 DEF Migrating
<1>7. /\ Recorded(x) = Recorded(w) \cup {v}
      /\ \A u \in Recorded(w) \ {v} : x.applied[u] = w.applied[u]
      /\ x.applied[v] = [name |-> b.migs[v].name, sum |-> NoSum]
  BY <1>4, AppliedShape
<1>8. RowsAreKeyed(x)
  BY <1>4, <1>5, <1>6, AppliedRows DEF Migrating
<1> HIDE DEF b, w, x
<1>9. /\ RowsAreKeyed(w) /\ Recorded(db) \subseteq Recorded(w)
      /\ inst[i].pend = Versions(b) \ Recorded(w)
      /\ \A u \in Recorded(db) : w.applied[u] = db.applied[u]
      /\ \A u \in Recorded(w) \ Recorded(db) :
           u \in Versions(b) /\ w.applied[u] = [name |-> b.migs[u].name, sum |-> NoSum]
      /\ inst[i].mism = Mismatched(db, b) /\ ~Refused(db, b)
  BY <1>5 DEF Migrating, b, w
<1>10. /\ Recorded(db) \subseteq Recorded(x)
       /\ inst[i].pend \ {v} = Versions(b) \ Recorded(x)
       /\ \A u \in Recorded(db) : x.applied[u] = db.applied[u]
       /\ \A u \in Recorded(x) \ Recorded(db) :
            u \in Versions(b) /\ x.applied[u] = [name |-> b.migs[u].name, sum |-> NoSum]
  BY <1>6, <1>7, <1>9
<1>11. Migrating(inst'[i])
  BY <1>2, <1>8, <1>9, <1>10 DEF Migrating
<1>12. Migrating(inst[i])'
  BY <1>3, <1>11 DEF Migrating, Recorded, RowsAreKeyed, Mismatched, Refused, RecordedAs
<1>13. ASSUME NEW j \in Instances \ {i}
       PROVE  /\ at(j)' = "migrate" => Migrating(inst[j])'
              /\ at(j)' = "wire" \/ Running(j)' => RunsOn(inst[j])'
  <2>1. /\ at(j) = "migrate" => Migrating(inst[j])
        /\ at(j) = "wire" \/ Running(j) => RunsOn(inst[j])
    BY DEF Whole
  <2>2. inst'[j] = inst[j] /\ (at(j)' = at(j)) /\ (Running(j)' <=> Running(j))
    BY <1>3 DEF at, Running, Listening
  <2>3. Migrating(inst[j]) => Migrating(inst[j])'
    BY <1>3, <2>2 DEF Migrating, Recorded, RowsAreKeyed, Mismatched, Refused, RecordedAs
  <2>4. RunsOn(inst[j]) => RunsOn(inst[j])'
    BY <1>3, <2>2 DEF RunsOn, Recorded
  <2> QED BY <2>1, <2>2, <2>3, <2>4
<1>14. RowsAreKeyed(db)'
  BY <1>3 DEF Whole, RowsAreKeyed, Recorded
<1> QED BY <1>2, <1>12, <1>13, <1>14 DEF Whole, at, Running, Listening

\* The commit: the only transaction that is left ends, with a checksum on
\* every row of its build.
LEMMA WholeCommits ==
  ASSUME Whole, StartupTypeOK, NEW i \in Instances, CommitMigrations(i)
  PROVE  Whole'
<1> DEFINE b == inst[i].build
           w == inst[i].view
           x == WithChecksums(w, b)
<1>1. inst'[i] = [pc |-> "wire", build |-> b, view |-> None,
                  pend |-> inst[i].pend, mism |-> inst[i].mism,
                  stop |-> inst[i].stop, disturbed |-> inst[i].disturbed]
  BY OtherSteps
<1>2. inst'[i].pc = "wire" /\ inst'[i].build = b /\ inst'[i].mism = inst[i].mism
  BY <1>1
<1>3. /\ db' = x /\ at(i) = "migrate" /\ inst[i].pend = {}
      /\ \A j \in Instances \ {i} : at(j) # "migrate"
      /\ \A j \in Instances \ {i} : inst'[j] = inst[j]
  BY OtherSteps DEF CommitMigrations
<1>4. IsDatabase(w) /\ b \in Builds
  BY <1>3 DEF StartupTypeOK, ProcessOK, at
<1>5. /\ {SaltVersion, ChecksumVersion} \subseteq Versions(b) /\ b.policy \in {"Refuse", "Report"}
      /\ \A v \in Versions(b) : migration_checksum(b.migs[v]) # NoSum
  BY <1>4, StartupAssumption DEF migration_checksum
<1>6. /\ RowsAreKeyed(w) /\ Recorded(db) \subseteq Recorded(w)
      /\ inst[i].pend = Versions(b) \ Recorded(w)
      /\ \A u \in Recorded(db) : w.applied[u] = db.applied[u]
      /\ \A u \in Recorded(w) \ Recorded(db) :
           u \in Versions(b) /\ w.applied[u] = [name |-> b.migs[u].name, sum |-> NoSum]
      /\ inst[i].mism = Mismatched(db, b) /\ ~Refused(db, b)
  BY <1>3 DEF Migrating, Whole
<1>7. /\ Recorded(x) = Recorded(w) /\ x.rows = w.rows
      /\ \A v \in Recorded(w) :
           /\ x.applied[v].name = w.applied[v].name
           /\ x.applied[v].sum = IF ChecksumVersion \in Recorded(w) /\ v \in Versions(b)
                                    /\ w.applied[v].sum = NoSum
                                 THEN migration_checksum(b.migs[v]) ELSE w.applied[v].sum
  BY <1>4, ChecksumShape, Zenon
<1> HIDE DEF b, w, x
<1>8. Versions(b) \subseteq Recorded(w) /\ ChecksumVersion \in Recorded(w)
  BY <1>3, <1>5, <1>6
<1>9. RowsAreKeyed(x)
  BY <1>6, <1>7 DEF RowsAreKeyed
<1>10. RowsAreKeyed(db)'
  BY <1>3, <1>9 DEF RowsAreKeyed, Recorded
<1>11. ASSUME NEW v \in Versions(b)
       PROVE  /\ x.applied[v].name = b.migs[v].name
              /\ x.applied[v].sum # NoSum
              /\ x.applied[v].sum # migration_checksum(b.migs[v]) => v \in inst[i].mism
              /\ v \in inst[i].mism => b.policy = "Report"
  <2>1. /\ x.applied[v].name = w.applied[v].name
        /\ w.applied[v].sum = NoSum => x.applied[v].sum = migration_checksum(b.migs[v])
        /\ w.applied[v].sum # NoSum => x.applied[v].sum = w.applied[v].sum
    BY <1>7, <1>8
  <2>2. v \in inst[i].mism => b.policy = "Report"
    BY <1>5, <1>6 DEF Refused
  <2>3. CASE v \in Recorded(db)
    <3>1. w.applied[v].name = b.migs[v].name
      BY <1>6, <2>3 DEF Refused, RecordedAs
    <3>2. w.applied[v].sum \notin {NoSum, migration_checksum(b.migs[v])} => v \in inst[i].mism
      BY <1>6, <2>3 DEF Mismatched
    <3> QED BY <1>5, <2>1, <2>2, <3>1, <3>2
  <2>4. CASE v \notin Recorded(db)
    <3>1. w.applied[v] = [name |-> b.migs[v].name, sum |-> NoSum]
      BY <1>6, <1>8, <2>4
    <3>2. w.applied[v].name = b.migs[v].name /\ w.applied[v].sum = NoSum
      BY <3>1
    <3> QED BY <1>5, <2>1, <2>2, <3>2
  <2> QED BY <2>3, <2>4
<1>12. RunsOn(inst[i])'
  <2>1. Recorded(db)' = Recorded(w) /\ db'.applied = x.applied
    BY <1>3, <1>7 DEF Recorded
  <2> QED BY <2>1, <1>2, <1>8, <1>11 DEF RunsOn
<1>13. ASSUME NEW j \in Instances \ {i}, at(j)' = "wire" \/ Running(j)'
       PROVE  RunsOn(inst[j])'
  <2>1. inst'[j] = inst[j] /\ (at(j) = "wire" \/ Running(j))
    BY <1>3, <1>13 DEF at, Running, Listening
  <2>2. RunsOn(inst[j])
    BY <2>1 DEF Whole
  <2>3. \A v \in Versions(inst[j].build) :
          /\ v \in Recorded(w)
          /\ x.applied[v].name = db.applied[v].name
          /\ x.applied[v].sum = db.applied[v].sum
    BY <2>2, <1>6, <1>7 DEF RunsOn
  <2>4. Recorded(db)' = Recorded(w) /\ db'.applied = x.applied
    BY <1>3, <1>7 DEF Recorded
  <2> QED BY <2>1, <2>2, <2>3, <2>4 DEF RunsOn
<1>14. \A j \in Instances : at(j)' # "migrate"
  BY <1>2, <1>3 DEF at
<1> QED BY <1>10, <1>12, <1>13, <1>14 DEF Whole

\* A running process adds a digest under the salt that its build has brought.
LEMMA WholeStores ==
  ASSUME Whole, StartupTypeOK, NEW i \in Instances, StoreDigest(i)
  PROVE  Whole'
<1>1. PICK r \in Rows : db' = [db EXCEPT !.rows[r] = "keyed"]
  BY DEF StoreDigest
<1>2. /\ inst' = inst /\ Running(i) /\ \A j \in Instances : at(j) # "migrate"
      /\ IsDatabase(db)
  BY DEF StoreDigest, StartupTypeOK
<1>3. db' = [applied |-> db.applied, rows |-> [db.rows EXCEPT ![r] = "keyed"]]
  BY <1>1, <1>2 DEF IsDatabase
<1>4. db'.applied = db.applied /\ Recorded(db)' = Recorded(db)
      /\ db'.rows = [db.rows EXCEPT ![r] = "keyed"]
  BY <1>3 DEF Recorded
<1>5. SaltVersion \in Recorded(db)
  <2>1. Versions(inst[i].build) \subseteq Recorded(db)
    BY <1>2 DEF Whole, RunsOn
  <2>2. inst[i].build \in Builds
    BY <1>2 DEF StartupTypeOK, ProcessOK, Running, Listening, at
  <2> QED BY <2>1, <2>2, StartupAssumption
<1>6. db.rows \in [Rows -> {"absent", "null", "keyed"}]
  BY <1>5 DEF Whole, RowsAreKeyed
<1>7. RowsAreKeyed(db)'
  BY <1>4, <1>5, <1>6 DEF RowsAreKeyed
<1>8. \A j \in Instances : /\ (at(j)' = at(j)) /\ (Running(j)' <=> Running(j))
                           /\ RunsOn(inst[j]) => RunsOn(inst[j])'
  BY <1>2, <1>4 DEF at, Running, Listening, RunsOn
<1> QED BY <1>2, <1>7, <1>8 DEF Whole

LEMMA NextWhole == StartupTypeOK /\ Whole /\ [StartupNext]_startupvars => Whole'
<1> SUFFICES ASSUME StartupTypeOK, Whole, [StartupNext]_startupvars
             PROVE  Whole'
  OBVIOUS
<1>0. \A j \in Instances :
        inst[j].pc \in {"down", "probe", "open", "migrate"} \/ at(j) = "wire" \/ Running(j)
  BY DEF StartupTypeOK, ProcessOK, Running, Listening, at
<1>1. CASE UNCHANGED startupvars
  <2>1. db' = db /\ inst' = inst
    BY <1>1 DEF startupvars
  <2> QED BY <2>1, <1>0, WholeStutters DEF at, Running, Listening
<1>2. ASSUME NEW i \in Instances,
             StartUp(i) \/ ServeOrStop(i) \/ Launch(i) \/ Halt(i) \/ StoreDigest(i)
             \/ BindFails(i) \/ AcceptFails(i) \/ Signal(i) \/ Kill(i)
      PROVE  Whole'
  <2> USE <1>2
  <2>a. ASSUME NEW p, Goto(i, p), db' = db, p # "migrate",
               p = "open" \/ at(i) = "wire" \/ Running(i)
        PROVE  Whole'
    <3>1. inst'[i] = [pc |-> p, build |-> inst[i].build, view |-> inst[i].view,
                      pend |-> inst[i].pend, mism |-> inst[i].mism, stop |-> inst[i].stop,
                      disturbed |-> inst[i].disturbed]
          /\ \A j \in Instances \ {i} : inst'[j] = inst[j]
      BY <2>a, GotoFacts
    <3>2. inst'[i].pc = p /\ inst'[i].build = inst[i].build /\ inst'[i].mism = inst[i].mism
      BY <3>1
    <3> QED BY <2>a, <3>1, <3>2, WholeMoves
  <2>1. CASE ProbeSocket(i)
    BY <2>1, <2>a, WholeGone DEF ProbeSocket
  <2>2. CASE OpenDatabase(i)
    BY <2>2, WholeOpens, WholeGone DEF OpenDatabase
  <2>3. CASE Migrate(i)
    BY <2>3, WholeMigrates
  <2>4. CASE CommitMigrations(i)
    BY <2>4, WholeCommits
  <2>5. CASE Busy(i)
    BY <2>5, WholeGone DEF Busy
  <2>6. CASE Wire(i)
    BY <2>6, <2>a DEF Wire
  <2>7. CASE StatSocket(i)
    BY <2>7, <2>a DEF StatSocket, Running
  <2>8. CASE ConnectSocket(i)
    BY <2>8, <2>a DEF ConnectSocket, Running
  <2>9. CASE RemoveSocket(i)
    BY <2>9, <2>a DEF RemoveSocket, Running
  <2>10. CASE Bind(i)
    BY <2>10, <2>a DEF Bind, Running
  <2>11. CASE AcceptAgain(i)
    BY <2>11, <2>a DEF AcceptAgain, Running, Listening
  <2>12. CASE next_shutdown(i)
    BY <2>12, <2>a DEF next_shutdown, Running
  <2>13. CASE Exit(i)
    BY <2>13, WholeGone DEF Exit
  <2>14. CASE Launch(i)
    <3>1. db' = db /\ at(i) = "down"
      BY <2>14 DEF Launch
    <3>2. CASE inst' = inst
      BY <3>1, <3>2, <1>0, WholeStutters DEF at, Running, Listening
    <3>3. CASE inst' # inst
      <4>1. PICK b \in Builds :
              inst'[i] = [pc |-> "probe", build |-> b, view |-> None, pend |-> {}, mism |-> {},
                          stop |-> FALSE, disturbed |-> \E j \in Instances \ {i} : Starting(j)]
        BY <2>14, <3>3, LaunchFacts
      <4>2. inst'[i].pc = "probe"
        BY <4>1
      <4>3. ASSUME NEW j \in Instances \ {i}
            PROVE  /\ inst'[j].pc = inst[j].pc /\ inst'[j].build = inst[j].build
                   /\ inst'[j].view = inst[j].view /\ inst'[j].pend = inst[j].pend
                   /\ inst'[j].mism = inst[j].mism
        <5> DEFINE x == inst[j].disturbed \/ Starting(j)
        <5>1. inst'[j] = [pc |-> inst[j].pc, build |-> inst[j].build, view |-> inst[j].view,
                          pend |-> inst[j].pend, mism |-> inst[j].mism, stop |-> inst[j].stop,
                          disturbed |-> x]
          BY <2>14, <3>3, LaunchFacts
        <5> HIDE DEF x
        <5> QED BY <5>1
      <4> QED BY <3>1, <4>2, <4>3, <1>0, WholeStutters DEF at, Running, Listening
    <3> QED BY <3>2, <3>3
  <2>15. CASE Halt(i)
    BY <2>15, WholeGone DEF Halt
  <2>16. CASE StoreDigest(i)
    BY <2>16, WholeStores
  <2>17. CASE BindFails(i)
    <3>1. inst'[i] = [pc |-> "zombie", build |-> inst[i].build, view |-> inst[i].view,
                      pend |-> inst[i].pend, mism |-> inst[i].mism,
                      stop |-> inst[i].stop, disturbed |-> TRUE]
          /\ \A j \in Instances \ {i} : inst'[j] = inst[j]
      BY <2>17, OtherSteps
    <3>2. inst'[i].pc = "zombie" /\ inst'[i].build = inst[i].build
          /\ inst'[i].mism = inst[i].mism
      BY <3>1
    <3>3. db' = db /\ Running(i)
      BY <2>17 DEF BindFails, Running
    <3> QED BY <3>1, <3>2, <3>3, WholeMoves
  <2>18. CASE AcceptFails(i)
    BY <2>18, <2>a DEF AcceptFails, Running, Listening
  <2>19. CASE Signal(i)
    <3>1. inst'[i] = [pc |-> inst[i].pc, build |-> inst[i].build, view |-> inst[i].view,
                      pend |-> inst[i].pend, mism |-> inst[i].mism,
                      stop |-> TRUE, disturbed |-> inst[i].disturbed]
          /\ \A j \in Instances \ {i} : inst'[j] = inst[j]
      BY <2>19, OtherSteps
    <3>2. inst'[i].pc = inst[i].pc /\ inst'[i].build = inst[i].build
          /\ inst'[i].mism = inst[i].mism
      BY <3>1
    <3>3. db' = db /\ Running(i) /\ inst[i].pc # "migrate"
      BY <2>19 DEF Signal, Running, Listening, at
    <3> QED BY <3>1, <3>2, <3>3, WholeMoves
  <2>20. CASE Kill(i)
    BY <2>20, WholeGone DEF Kill
  <2> QED BY <2>1, <2>2, <2>3, <2>4, <2>5, <2>6, <2>7, <2>8, <2>9, <2>10, <2>11, <2>12, <2>13,
             <2>14, <2>15, <2>16, <2>17, <2>18, <2>19, <2>20 DEF StartUp, ServeOrStop
<1> QED BY <1>1, <1>2 DEF StartupNext

\* apply_embedded_migrations: whatever starts, crashes, halts and waits for
\* whom, the digests on disk are keyed once, by the migration that brings the
\* salt, and a process past its transaction runs on its own migrations or
\* reports the ones that were others.
THEOREM DatabaseStaysWhole == StartupSpec => []DatabaseIsWhole
<1>1. StartupInit => Whole
  BY StartupAssumption DEF StartupInit, Whole, at, Running, Listening, Off
<1>2. Whole => DatabaseIsWhole
  BY DEF Whole, RunsOn, DatabaseIsWhole
<1> QED BY <1>1, <1>2, StartupTypes, NextWhole, PTL DEF StartupSpec

----------------------------------------------------------------------------
(* THE PUSH QUEUE                                                          *)

(* The deque operations.                                                   *)

LEMMA ConcatFacts ==
  ASSUME NEW S, NEW a \in Seq(S), NEW b \in Seq(S)
  PROVE  /\ a \o b \in Seq(S)
         /\ Len(a \o b) = Len(a) + Len(b)
         /\ \A j \in 1 .. Len(a) + Len(b) :
               (a \o b)[j] = IF j <= Len(a) THEN a[j] ELSE b[j - Len(a)]
OBVIOUS

LEMMA RemoveAtFacts ==
  ASSUME NEW S, NEW q \in Seq(S), NEW k \in 1 .. Len(q)
  PROVE  /\ RemoveAt(q, k) \in Seq(S)
         /\ Len(RemoveAt(q, k)) = Len(q) - 1
         /\ \A j \in 1 .. Len(q) - 1 :
               RemoveAt(q, k)[j] = IF j < k THEN q[j] ELSE q[j + 1]
<1> DEFINE a == SubSeq(q, 1, k - 1)
           b == SubSeq(q, k + 1, Len(q))
<1>1. a \in Seq(S) /\ Len(a) = k - 1 /\ \A j \in 1 .. k - 1 : a[j] = q[j]
  OBVIOUS
<1>2. b \in Seq(S) /\ Len(b) = Len(q) - k /\ \A j \in 1 .. Len(q) - k : b[j] = q[k + j]
  OBVIOUS
<1>3. RemoveAt(q, k) = a \o b
  BY DEF RemoveAt
<1> HIDE DEF a, b
<1>n. Len(q) \in Nat
  OBVIOUS
<1>4. /\ a \o b \in Seq(S)
      /\ Len(a \o b) = Len(a) + Len(b)
      /\ \A j \in 1 .. Len(a) + Len(b) :
            (a \o b)[j] = IF j <= Len(a) THEN a[j] ELSE b[j - Len(a)]
  BY <1>1, <1>2, ConcatFacts
<1>5. Len(a \o b) = Len(q) - 1
  BY <1>1, <1>2, <1>4, <1>n
<1>6. ASSUME NEW j \in 1 .. Len(q) - 1
      PROVE  (a \o b)[j] = IF j < k THEN q[j] ELSE q[j + 1]
  <2>1. j \in 1 .. Len(a) + Len(b)
    BY <1>1, <1>2, <1>n
  <2>2. CASE j < k
    BY <1>1, <1>4, <1>n, <2>1, <2>2
  <2>3. CASE ~(j < k)
    <3>1. j - (k - 1) \in 1 .. Len(q) - k /\ k + (j - (k - 1)) = j + 1
      BY <1>n, <2>3
    <3>2. b[j - (k - 1)] = q[j + 1]
      BY <1>2, <3>1
    <3>3. (a \o b)[j] = b[j - (k - 1)]
      BY <1>1, <1>4, <1>n, <2>1, <2>3
    <3> QED BY <2>3, <3>2, <3>3
  <2> QED BY <2>2, <2>3
<1> QED
  BY <1>3, <1>4, <1>5, <1>6

LEMMA TailFacts ==
  ASSUME NEW S, NEW q \in Seq(S), q # <<>>
  PROVE  /\ Tail(q) \in Seq(S) /\ Head(q) \in S
         /\ Len(Tail(q)) = Len(q) - 1 /\ Len(q) \in Nat \ {0}
         /\ Head(q) = q[1]
         /\ \A j \in 1 .. Len(q) - 1 : Tail(q)[j] = q[j + 1]
OBVIOUS

LEMMA FrontFacts ==
  ASSUME NEW S, NEW q \in Seq(S), NEW e \in S
  PROVE  /\ <<e>> \o q \in Seq(S)
         /\ Len(<<e>> \o q) = Len(q) + 1
         /\ (<<e>> \o q)[1] = e
         /\ \A j \in 1 .. Len(q) : (<<e>> \o q)[j + 1] = q[j]
OBVIOUS

----------------------------------------------------------------------------
(* Types.                                                                  *)

\* A new entry is an entry.
LEMMA NewEntry ==
  ASSUME pushed \in 0 .. MaxMessages, pushed < MaxMessages, NEW u \in BOOLEAN
  PROVE  /\ [id |-> pushed + 1, urgent |-> u] \in Entries
         /\ pushed + 1 \in 0 .. MaxMessages
BY BoundsAreNat DEF Entries, BoundsAreNat

LEMMA InitTypes == Init => TypeOK
<1> SUFFICES ASSUME Init PROVE TypeOK
  OBVIOUS
<1>1. queue \in Seq(Entries) /\ received \in [Conns -> Seq(Entries)]
  BY DEF Init
<1>2. pushed \in 0 .. MaxMessages /\ errors \in [Conns -> 0 .. MaxErrors] /\ owed \in Nat
  BY BoundsAreNat, MaxErrorsIsPositive DEF Init, BoundsAreNat, MaxErrorsIsPositive
<1>3. pc \in [Conns -> InLoop \cup {"new", "hello", "flush", "flushed", "closed"}]
  BY DEF Init
<1>4. /\ permit \in BOOLEAN
      /\ holding \in [Conns -> Entries \cup {Nothing}]
      /\ peer \in [Conns -> {"open", "gone"}]
      /\ stage \in {"up", "announced", "cancelled"}
      /\ farewell \in Entries \cup {Nothing}
      /\ evicted \in SUBSET Entries
      /\ lost \in SUBSET Entries
  BY DEF Init
<1> QED
  BY <1>1, <1>2, <1>3, <1>4 DEF TypeOK

LEMMA ProducersTypes == TypeOK /\ Producers => TypeOK'
<1> SUFFICES ASSUME TypeOK, Producers PROVE TypeOK'
  OBVIOUS
<1> USE DEF TypeOK
<1>1. CASE Enqueue
  <2>1. /\ [id |-> pushed + 1, urgent |-> FALSE] \in Entries
        /\ pushed + 1 \in 0 .. MaxMessages
    BY <1>1, NewEntry DEF Enqueue
  <2>2. queue' \in Seq(Entries)
    <3>1. CASE queue' = PushedBack(queue, [id |-> pushed + 1, urgent |-> FALSE])
      BY <2>1, <3>1 DEF PushedBack
    <3>2. ASSUME NEW index \in Evictable(queue),
                 queue' = PushedBack(RemoveAt(queue, index),
                                     [id |-> pushed + 1, urgent |-> FALSE])
          PROVE  queue' \in Seq(Entries)
      <4>1. index \in 1 .. Len(queue)
        BY DEF Evictable
      <4>2. RemoveAt(queue, index) \in Seq(Entries)
        BY <4>1, RemoveAtFacts
      <4> QED BY <2>1, <3>2, <4>2 DEF PushedBack
    <3>3. CASE queue' = queue
      BY <3>3
    <3> QED BY <1>1, <3>1, <3>2, <3>3 DEF Enqueue
  <2>3. evicted' \in SUBSET Entries
    <3>1. ASSUME NEW index \in Evictable(queue) PROVE queue[index] \in Entries
      BY DEF Evictable
    <3> QED BY <1>1, <2>1, <3>1 DEF Enqueue
  <2>4. owed' \in Nat /\ pushed' \in 0 .. MaxMessages
    BY <1>1, <2>1 DEF Enqueue
  <2> QED
    BY <1>1, <2>2, <2>3, <2>4 DEF Enqueue, cvars, svars
<1>2. CASE EnqueueUrgent
  <2>1. /\ [id |-> pushed + 1, urgent |-> TRUE] \in Entries
        /\ pushed + 1 \in 0 .. MaxMessages
    BY <1>2, NewEntry DEF EnqueueUrgent
  <2>2. queue' \in Seq(Entries)
    BY <1>2, <2>1, FrontFacts DEF EnqueueUrgent, PushedFront
  <2> QED
    BY <1>2, <2>1, <2>2 DEF EnqueueUrgent, cvars, svars, ghosts
<1>3. CASE PushShuttingDown
  <2>1. /\ [id |-> pushed + 1, urgent |-> TRUE] \in Entries
        /\ pushed + 1 \in 0 .. MaxMessages
    BY <1>3, NewEntry DEF PushShuttingDown
  <2>2. queue' \in Seq(Entries)
    BY <1>3, <2>1, FrontFacts DEF PushShuttingDown, PushedFront
  <2>3. farewell' \in Entries \cup {Nothing} /\ owed' \in Nat /\ pushed' \in 0 .. MaxMessages
    BY <1>3, <2>1 DEF PushShuttingDown
  <2>4. stage' \in {"up", "announced", "cancelled"}
    BY <1>3 DEF PushShuttingDown
  <2> QED
    BY <1>3, <2>2, <2>3, <2>4 DEF PushShuttingDown, cvars, ghosts
<1>4. CASE NotifyOne
  <2>0. owed' \in Nat
    BY <1>4 DEF NotifyOne
  <2>1. permit' \in BOOLEAN
    BY <1>4, Zenon DEF NotifyOne
  <2>2. pc' \in [Conns -> InLoop \cup {"new", "hello", "flush", "flushed", "closed"}]
    BY <1>4 DEF NotifyOne, InLoop, Selecting
  <2> QED
    BY <1>4, <2>0, <2>1, <2>2 DEF NotifyOne, svars, ghosts
<1>5. CASE Cancel
  BY <1>5 DEF Cancel, qvars, cvars, ghosts
<1> QED
  BY <1>1, <1>2, <1>3, <1>4, <1>5 DEF Producers

\* A step that moves a connection and touches no message.
QuietStep(c) ==
    \/ Accept(c) \/ PeerLeaves(c) \/ HelloAccepted(c) \/ HelloEnds(c)
    \/ Malformed(c) \/ AuthStateChanged(c) \/ FrameArrives(c) \/ FrameTooLarge(c)
    \/ Drained(c) \/ Park(c) \/ Wake(c) \/ Routed(c)
    \/ StreamEnds(c) \/ ShutdownSeen(c) \/ FlushEnds(c)

\* A step that moves a message.
CarryingStep(c) == TakeNext(c) \/ WriteDone(c) \/ WriteFails(c) \/ FlushNext(c)

LEMMA StepKinds ==
  ASSUME Next
  PROVE  \/ Producers
         \/ \E c \in Conns : QuietStep(c) \/ CarryingStep(c)
BY DEF Next, ClientStep, OwnStep, QuietStep, CarryingStep

\* The messages and the queue stay where they are.
LEMMA QuietStepsCarryNothing ==
  ASSUME NEW c \in Conns, QuietStep(c)
  PROVE  UNCHANGED <<queue, pushed, holding, farewell, received, evicted, lost>>
BY DEF QuietStep, Accept, PeerLeaves, HelloAccepted, HelloEnds, Malformed,
  AuthStateChanged, FrameArrives, FrameTooLarge, Drained, Park, Wake, Routed,
  StreamEnds, ShutdownSeen, FlushEnds, qvars, svars, ghosts

\* The bound on the error count needs the reason for it: a connection that has
\* reached the limit is closed.
ErrorsBelowLimit == \A c \in Conns : pc[c] # "closed" => errors[c] < MaxErrors

Places == InLoop \cup {"new", "hello", "flush", "flushed", "closed"}

\* Where a connection that takes no message goes, and what it counts.
LEMMA QuietMoves ==
  ASSUME TypeOK, ErrorsBelowLimit, NEW c \in Conns, QuietStep(c)
  PROVE  /\ \E l \in Places : pc' = [pc EXCEPT ![c] = l]
         /\ owed' \in Nat /\ permit' \in BOOLEAN
         /\ peer' \in [Conns -> {"open", "gone"}]
         /\ stage' = stage
<1> USE DEF TypeOK, GoTo, PassOn, Places, InLoop, Selecting
<1>1. CASE Accept(c)
  BY <1>1 DEF Accept, qvars, svars
<1>2. CASE PeerLeaves(c)
  <2>1. pc' = [pc EXCEPT ![c] = pc[c]] /\ pc[c] \in Places
    BY <1>2 DEF PeerLeaves
  <2> QED BY <1>2, <2>1 DEF PeerLeaves, qvars, svars
<1>3. CASE HelloAccepted(c)
  BY <1>3 DEF HelloAccepted, qvars, svars
<1>4. CASE HelloEnds(c)
  BY <1>4 DEF HelloEnds, qvars, svars
<1>5. CASE Malformed(c)
  <2>1. \/ pc' = [pc EXCEPT ![c] = "closed"] \/ pc' = [pc EXCEPT ![c] = "hello"]
        \/ pc' = [pc EXCEPT ![c] = "drain"]
    BY <1>5 DEF Malformed, AfterMalformed
  <2>2. \E l \in Places : pc' = [pc EXCEPT ![c] = l]
    BY <2>1
  <2>3. /\ owed' \in Nat /\ permit' = permit /\ peer' = peer /\ stage' = stage
    BY <1>5 DEF Malformed, svars
  <2> QED BY <2>2, <2>3
<1>6. CASE AuthStateChanged(c)
  <2>1. pc' = [pc EXCEPT ![c] = "drain"] \/ pc' = [pc EXCEPT ![c] = "closed"]
    BY <1>6 DEF AuthStateChanged
  <2>2. \E l \in Places : pc' = [pc EXCEPT ![c] = l]
    BY <2>1
  <2>3. /\ owed' \in Nat /\ permit' = permit /\ peer' = peer /\ stage' = stage
    BY <1>6 DEF AuthStateChanged, svars
  <2> QED BY <2>2, <2>3
<1>7. CASE FrameArrives(c) \/ FrameTooLarge(c)
  BY <1>7 DEF FrameArrives, FrameTooLarge, svars
<1>8. CASE Drained(c)
  BY <1>8 DEF Drained, qvars, svars
<1>9. CASE Park(c)
  BY <1>9 DEF Park, svars
<1>10. CASE Wake(c)
  BY <1>10 DEF Wake, qvars, svars
<1>11. CASE Routed(c)
  BY <1>11 DEF Routed, AfterMalformed, qvars, svars
<1>12. CASE StreamEnds(c)
  BY <1>12 DEF StreamEnds, svars
<1>13. CASE ShutdownSeen(c)
  BY <1>13 DEF ShutdownSeen, svars
<1>14. CASE FlushEnds(c)
  BY <1>14 DEF FlushEnds, qvars, svars
<1> QED
  BY <1>1, <1>2, <1>3, <1>4, <1>5, <1>6, <1>7, <1>8, <1>9, <1>10, <1>11,
     <1>12, <1>13, <1>14 DEF QuietStep

LEMMA QuietErrors ==
  ASSUME TypeOK, ErrorsBelowLimit, NEW c \in Conns, QuietStep(c)
  PROVE  errors' \in [Conns -> 0 .. MaxErrors] /\ ErrorsBelowLimit'
<1> USE DEF TypeOK, ErrorsBelowLimit, GoTo
<1>1. CASE Malformed(c)
  <2>1. pc[c] # "closed"
    BY <1>1 DEF Malformed, Selecting
  <2>2. /\ errors[c] \in 0 .. MaxErrors /\ errors[c] < MaxErrors
        /\ errors' = [errors EXCEPT ![c] = errors[c] + 1]
    BY <1>1, <2>1 DEF Malformed
  <2>3. errors' \in [Conns -> 0 .. MaxErrors]
    BY <2>2, MaxErrorsIsPositive DEF MaxErrorsIsPositive
  <2>4. pc'[c] # "closed" => errors'[c] < MaxErrors
    BY <1>1, <2>3, MaxErrorsIsPositive DEF Malformed, AfterMalformed, MaxErrorsIsPositive
  <2>5. \A d \in Conns \ {c} : pc'[d] = pc[d] /\ errors'[d] = errors[d]
    BY <1>1, <2>2 DEF Malformed
  <2> QED BY <2>3, <2>4, <2>5
<1>2. CASE Routed(c)
  <2>1. pc[c] # "closed"
    BY <1>2 DEF Routed
  <2>2. \A d \in Conns \ {c} : pc'[d] = pc[d] /\ errors'[d] = errors[d]
    BY <1>2 DEF Routed
  <2>3. CASE UNCHANGED errors
    BY <2>1, <2>2, <2>3
  <2>4. CASE errors' = [errors EXCEPT ![c] = @ + 1] /\ GoTo(c, AfterMalformed(c, "drain"))
    <3>1. errors[c] \in 0 .. MaxErrors /\ errors[c] < MaxErrors
      BY <2>1
    <3>2. errors' \in [Conns -> 0 .. MaxErrors]
      BY <2>4, <3>1, MaxErrorsIsPositive DEF MaxErrorsIsPositive
    <3>3. pc'[c] # "closed" => errors'[c] < MaxErrors
      BY <2>4, <3>2, MaxErrorsIsPositive DEF AfterMalformed, MaxErrorsIsPositive
    <3> QED BY <2>2, <3>2, <3>3
  <2> QED BY <1>2, <2>3, <2>4 DEF Routed
<1>3. CASE ~Malformed(c) /\ ~Routed(c)
  <2>1. errors' = errors
    BY <1>3 DEF QuietStep, Accept, PeerLeaves, HelloAccepted, HelloEnds,
      AuthStateChanged, FrameArrives, FrameTooLarge, Drained, Park, Wake,
      StreamEnds, ShutdownSeen, FlushEnds
  <2>2. pc[c] # "closed"
    BY <1>3 DEF QuietStep, Accept, PeerLeaves, HelloAccepted, HelloEnds,
      AuthStateChanged, FrameArrives, FrameTooLarge, Drained, Park, Wake,
      StreamEnds, ShutdownSeen, FlushEnds, Selecting
  <2>3. \A d \in Conns \ {c} : pc'[d] = pc[d]
    BY QuietMoves
  <2> QED BY <2>1, <2>2, <2>3
<1> QED BY <1>1, <1>2, <1>3

\* A message is in the hands of a connection exactly while it is written.
HoldsWhileWriting == \A c \in Conns : (pc[c] = "write") <=> (holding[c] # Nothing)

LEMMA NothingElse == Nothing \notin Entries
BY NothingIsNoEntry, BoundsAreNat DEF NothingIsNoEntry, Entries, BoundsAreNat

LEMMA CarryingTypes ==
  ASSUME TypeOK, ErrorsBelowLimit, HoldsWhileWriting, NEW c \in Conns, CarryingStep(c)
  PROVE  TypeOK' /\ ErrorsBelowLimit' /\ HoldsWhileWriting'
<1> USE DEF TypeOK
<1>0. holding[c] \in Entries \cup {Nothing} /\ Nothing \notin Entries
  BY NothingElse
<1>1. CASE TakeNext(c)
  <2>1. queue' \in Seq(Entries) /\ Head(queue) \in Entries
    BY <1>1, TailFacts DEF TakeNext, WithoutPopped
  <2>2. holding' = [holding EXCEPT ![c] = Head(queue)]
    BY <1>1 DEF TakeNext, Popped
  <2>3. pc' = [pc EXCEPT ![c] = "write"] /\ pc[c] = "drain"
    BY <1>1 DEF TakeNext, GoTo
  <2>4. TypeOK'
    BY <1>1, <2>1, <2>2, <2>3 DEF TakeNext, svars, ghosts, InLoop
  <2>5. ErrorsBelowLimit'
    BY <1>1, <2>3 DEF TakeNext, ErrorsBelowLimit
  <2>6. HoldsWhileWriting'
    BY <1>0, <2>1, <2>2, <2>3 DEF HoldsWhileWriting
  <2> QED BY <2>4, <2>5, <2>6
<1>2. CASE WriteDone(c)
  <2>1. holding[c] \in Entries
    BY <1>0, <1>2 DEF WriteDone, HoldsWhileWriting
  <2>2. received' \in [Conns -> Seq(Entries)]
    BY <1>2, <2>1 DEF WriteDone
  <2>3. pc' = [pc EXCEPT ![c] = "drain"] /\ pc[c] = "write"
    BY <1>2 DEF WriteDone, GoTo
  <2>4. holding' = [holding EXCEPT ![c] = Nothing]
    BY <1>2 DEF WriteDone
  <2>5. TypeOK'
    BY <1>2, <2>2, <2>3, <2>4 DEF WriteDone, qvars, svars, InLoop
  <2>6. ErrorsBelowLimit'
    BY <1>2, <2>3 DEF WriteDone, ErrorsBelowLimit
  <2>7. HoldsWhileWriting'
    BY <2>3, <2>4 DEF HoldsWhileWriting
  <2> QED BY <2>5, <2>6, <2>7
<1>3. CASE WriteFails(c)
  <2>1. holding[c] \in Entries
    BY <1>0, <1>3 DEF WriteFails, HoldsWhileWriting
  <2>3. pc' = [pc EXCEPT ![c] = "closed"] /\ pc[c] = "write"
    BY <1>3 DEF WriteFails, GoTo
  <2>4. holding' = [holding EXCEPT ![c] = Nothing]
    BY <1>3 DEF WriteFails
  <2>5. TypeOK'
    BY <1>3, <2>1, <2>3, <2>4 DEF WriteFails, qvars, svars
  <2>6. ErrorsBelowLimit'
    BY <1>3, <2>3 DEF WriteFails, ErrorsBelowLimit
  <2>7. HoldsWhileWriting'
    BY <2>3, <2>4 DEF HoldsWhileWriting
  <2> QED BY <2>5, <2>6, <2>7
<1>4. CASE FlushNext(c)
  <2>1. queue' \in Seq(Entries) /\ Head(queue) \in Entries
    BY <1>4, TailFacts DEF FlushNext, WithoutPopped
  <2>2. received' \in [Conns -> Seq(Entries)] /\ lost' \in SUBSET Entries
    <3>1. CASE peer[c] = "open"
      <4>1. received' = [received EXCEPT ![c] = Append(received[c], Head(queue))]
        BY <1>4, <3>1 DEF FlushNext, Popped
      <4>2. Append(received[c], Head(queue)) \in Seq(Entries)
        BY <2>1
      <4> QED BY <1>4, <3>1, <4>1, <4>2 DEF FlushNext
    <3>2. CASE peer[c] # "open"
      BY <1>4, <2>1, <3>2 DEF FlushNext, Popped
    <3> QED BY <3>1, <3>2
  <2>3. TypeOK'
    BY <1>4, <2>1, <2>2 DEF FlushNext, cvars, svars
  <2> QED
    BY <1>4, <2>3 DEF FlushNext, cvars, ErrorsBelowLimit, HoldsWhileWriting
<1> QED BY <1>1, <1>2, <1>3, <1>4 DEF CarryingStep

LEMMA QuietHolds ==
  ASSUME TypeOK, HoldsWhileWriting, NEW c \in Conns, QuietStep(c)
  PROVE  HoldsWhileWriting'
<1> USE DEF TypeOK, GoTo
<1>1. holding' = holding
  BY QuietStepsCarryNothing
<1>2. CASE PeerLeaves(c)
  BY <1>1, <1>2 DEF PeerLeaves, HoldsWhileWriting
<1>3. CASE ~PeerLeaves(c)
  <2>1. pc[c] # "write"
    BY <1>3 DEF QuietStep, Accept, HelloAccepted, HelloEnds, Malformed,
      AuthStateChanged, FrameArrives, FrameTooLarge, Drained, Park, Wake, Routed,
      StreamEnds, ShutdownSeen, FlushEnds, Selecting
  <2>2. \E l : l # "write" /\ pc' = [pc EXCEPT ![c] = l]
    <3>1. CASE Accept(c) \/ HelloAccepted(c) \/ HelloEnds(c) \/ FrameArrives(c)
      BY <3>1 DEF Accept, HelloAccepted, HelloEnds, FrameArrives
    <3>2. CASE FrameTooLarge(c) \/ Drained(c) \/ Wake(c) \/ StreamEnds(c)
               \/ ShutdownSeen(c) \/ FlushEnds(c)
      BY <3>2 DEF FrameTooLarge, Drained, Wake, StreamEnds, ShutdownSeen, FlushEnds
    <3>3. CASE Malformed(c) \/ AuthStateChanged(c) \/ Park(c) \/ Routed(c)
      <4>1. \/ pc' = [pc EXCEPT ![c] = "closed"] \/ pc' = [pc EXCEPT ![c] = "hello"]
            \/ pc' = [pc EXCEPT ![c] = "drain"] \/ pc' = [pc EXCEPT ![c] = "wait"]
            \/ pc' = [pc EXCEPT ![c] = "woken"]
        BY <3>3 DEF Malformed, AuthStateChanged, Park, Routed, AfterMalformed
      <4> QED BY <4>1
    <3> QED BY <1>3, <3>1, <3>2, <3>3 DEF QuietStep
  <2> QED BY <1>1, <2>1, <2>2 DEF HoldsWhileWriting
<1> QED BY <1>2, <1>3

LEMMA ProducersHold ==
  ASSUME TypeOK, ErrorsBelowLimit, HoldsWhileWriting, Producers
  PROVE  ErrorsBelowLimit' /\ HoldsWhileWriting'
<1> USE DEF TypeOK, ErrorsBelowLimit, HoldsWhileWriting
<1>1. CASE NotifyOne
  <2>1. holding' = holding /\ errors' = errors
    BY <1>1 DEF NotifyOne
  <2>2. CASE pc' = pc
    BY <2>1, <2>2
  <2>3. ASSUME NEW c \in Conns, pc[c] = "wait", pc' = [pc EXCEPT ![c] = "woken"]
        PROVE  ErrorsBelowLimit' /\ HoldsWhileWriting'
    BY <2>1, <2>3
  <2> QED BY <1>1, <2>2, <2>3 DEF NotifyOne
<1>2. CASE ~NotifyOne
  <2>1. UNCHANGED <<pc, holding, errors>>
    BY <1>2 DEF Producers, Enqueue, EnqueueUrgent, PushShuttingDown, Cancel, cvars
  <2> QED BY <2>1
<1> QED BY <1>1, <1>2

\* The types, with what makes them inductive.
TypeInvariant == TypeOK /\ ErrorsBelowLimit /\ HoldsWhileWriting

LEMMA InitTypeInvariant == Init => TypeInvariant
<1> SUFFICES ASSUME Init PROVE TypeInvariant
  OBVIOUS
<1>1. ErrorsBelowLimit /\ HoldsWhileWriting
  BY MaxErrorsIsPositive DEF Init, ErrorsBelowLimit, HoldsWhileWriting, MaxErrorsIsPositive
<1> QED BY <1>1, InitTypes DEF TypeInvariant

LEMMA NextTypeInvariant == TypeInvariant /\ [Next]_vars => TypeInvariant'
<1> SUFFICES ASSUME TypeInvariant, [Next]_vars PROVE TypeInvariant'
  OBVIOUS
<1> USE DEF TypeInvariant
<1>1. CASE Producers
  BY <1>1, ProducersTypes, ProducersHold
<1>2. ASSUME NEW c \in Conns, CarryingStep(c) PROVE TypeInvariant'
  BY <1>2, CarryingTypes
<1>3. ASSUME NEW c \in Conns, QuietStep(c) PROVE TypeInvariant'
  <2>1. errors' \in [Conns -> 0 .. MaxErrors] /\ ErrorsBelowLimit'
    BY <1>3, QuietErrors
  <2>2. HoldsWhileWriting'
    BY <1>3, QuietHolds
  <2>3. UNCHANGED <<queue, pushed, holding, farewell, received, evicted, lost>>
    BY <1>3, QuietStepsCarryNothing
  <2>4. PICK l \in Places : pc' = [pc EXCEPT ![c] = l]
    BY <1>3, QuietMoves
  <2>5. owed' \in Nat /\ permit' \in BOOLEAN /\ peer' \in [Conns -> {"open", "gone"}]
        /\ stage' = stage
    BY <1>3, QuietMoves
  <2>6. pc' \in [Conns -> Places]
    BY <2>4 DEF TypeOK, Places
  <2>7. TypeOK'
    BY <2>1, <2>3, <2>5, <2>6 DEF TypeOK, Places
  <2> QED BY <2>1, <2>2, <2>7
<1>4. CASE UNCHANGED vars
  BY <1>4 DEF vars, qvars, cvars, svars, ghosts, TypeOK, ErrorsBelowLimit, HoldsWhileWriting
<1> QED
  BY <1>1, <1>2, <1>3, <1>4, StepKinds

(* Every reachable state is well typed: in particular no connection is     *)
(* served past the error limit.                                            *)
THEOREM PushTypeCorrect == Spec => []TypeOK
<1>1. TypeInvariant => TypeOK
  BY DEF TypeInvariant
<1> QED
  BY <1>1, InitTypeInvariant, NextTypeInvariant, PTL DEF Spec

----------------------------------------------------------------------------
(* The shape of the deque.                                                 *)

RoutineEntry(n) == [id |-> n, urgent |-> FALSE]
UrgentEntry(n) == [id |-> n, urgent |-> TRUE]

\* What a step may do to the deque.
Grows == ~IsFull(queue) /\ queue' = Append(queue, RoutineEntry(pushed + 1))
Displaces ==
    \E k \in Evictable(queue) :
        queue' = Append(RemoveAt(queue, k), RoutineEntry(pushed + 1))
Overtakes == queue' = <<UrgentEntry(pushed + 1)>> \o queue
Pops == queue # <<>> /\ queue' = Tail(queue)

LEMMA QueueSteps ==
  ASSUME [Next]_vars
  PROVE  \/ Grows /\ pushed' = pushed + 1 /\ pushed < MaxMessages
         \/ Displaces /\ pushed' = pushed + 1 /\ pushed < MaxMessages
         \/ Overtakes /\ pushed' = pushed + 1 /\ pushed < MaxMessages
         \/ Pops /\ pushed' = pushed
         \/ queue' = queue /\ pushed' \in {pushed, pushed + 1}
<1> USE DEF Grows, Displaces, Overtakes, Pops, RoutineEntry, UrgentEntry
<1>1. CASE Producers
  <2>1. CASE Enqueue
    BY <2>1 DEF Enqueue, PushedBack
  <2>2. CASE EnqueueUrgent
    BY <2>2 DEF EnqueueUrgent, PushedFront
  <2>3. CASE PushShuttingDown
    BY <2>3 DEF PushShuttingDown, PushedFront
  <2>4. CASE NotifyOne \/ Cancel
    BY <2>4 DEF NotifyOne, Cancel, qvars
  <2> QED BY <1>1, <2>1, <2>2, <2>3, <2>4 DEF Producers
<1>2. ASSUME NEW c \in Conns, CarryingStep(c)
      PROVE  (Pops \/ queue' = queue) /\ pushed' = pushed
  BY <1>2 DEF CarryingStep, TakeNext, WriteDone, WriteFails, FlushNext, WithoutPopped, qvars
<1>3. ASSUME NEW c \in Conns, QuietStep(c)
      PROVE  queue' = queue /\ pushed' = pushed
  BY <1>3, QuietStepsCarryNothing
<1>4. CASE UNCHANGED vars
  BY <1>4 DEF vars, qvars
<1> QED BY <1>1, <1>2, <1>3, <1>4, StepKinds

\* What each change makes of the entries.
LEMMA GrowsFacts ==
  ASSUME TypeOK, Grows
  PROVE  /\ Len(queue') = Len(queue) + 1 /\ DOMAIN queue' = 1 .. Len(queue')
         /\ Len(queue) < Capacity /\ Len(queue) \in Nat
         /\ queue'[Len(queue) + 1] = RoutineEntry(pushed + 1)
         /\ \A j \in 1 .. Len(queue) : queue'[j] = queue[j]
<1>1. queue \in Seq(Entries) /\ queue' = Append(queue, RoutineEntry(pushed + 1))
  BY DEF TypeOK, Grows
<1>2. Len(queue) < Capacity
  BY <1>1, CapacityIsNat DEF Grows, IsFull, CapacityIsNat
<1> QED BY <1>1, <1>2

LEMMA DisplacesFacts ==
  ASSUME TypeOK, Displaces
  PROVE  \E k \in 1 .. Len(queue) :
           /\ ~queue[k].urgent
           /\ \A j \in 1 .. Len(queue) : j < k => queue[j].urgent
           /\ Len(queue') = Len(queue) /\ DOMAIN queue' = 1 .. Len(queue)
           /\ Len(queue) \in Nat
           /\ queue'[Len(queue)] = RoutineEntry(pushed + 1)
           /\ \A j \in 1 .. Len(queue) - 1 :
                 queue'[j] = IF j < k THEN queue[j] ELSE queue[j + 1]
<1>1. queue \in Seq(Entries)
  BY DEF TypeOK
<1>2. PICK k \in Evictable(queue) :
        queue' = Append(RemoveAt(queue, k), RoutineEntry(pushed + 1))
  BY DEF Displaces
<1>3. /\ k \in 1 .. Len(queue) /\ ~queue[k].urgent
      /\ \A j \in 1 .. Len(queue) : j < k => queue[j].urgent
  BY <1>1 DEF Evictable
<1> DEFINE r == RemoveAt(queue, k)
<1>4. /\ r \in Seq(Entries) /\ Len(r) = Len(queue) - 1
      /\ \A j \in 1 .. Len(queue) - 1 : r[j] = IF j < k THEN queue[j] ELSE queue[j + 1]
  BY <1>1, <1>3, RemoveAtFacts
<1>5. queue' = Append(r, RoutineEntry(pushed + 1))
  BY <1>2
<1> HIDE DEF r
<1>6. /\ Len(queue') = Len(r) + 1 /\ DOMAIN queue' = 1 .. Len(r) + 1
      /\ queue'[Len(r) + 1] = RoutineEntry(pushed + 1)
      /\ \A j \in 1 .. Len(r) : queue'[j] = r[j]
  BY <1>4, <1>5
<1>7. Len(queue) \in Nat /\ Len(r) + 1 = Len(queue)
  BY <1>1, <1>4
<1> QED BY <1>3, <1>4, <1>6, <1>7

LEMMA OvertakesFacts ==
  ASSUME TypeOK, Overtakes, pushed < MaxMessages
  PROVE  /\ Len(queue') = Len(queue) + 1 /\ DOMAIN queue' = 1 .. Len(queue')
         /\ Len(queue) \in Nat
         /\ queue'[1] = UrgentEntry(pushed + 1)
         /\ \A j \in 2 .. Len(queue) + 1 : queue'[j] = queue[j - 1]
<1>1. queue \in Seq(Entries) /\ queue' = <<UrgentEntry(pushed + 1)>> \o queue
  BY DEF TypeOK, Overtakes
<1> QED BY <1>1

LEMMA PopsFacts ==
  ASSUME TypeOK, Pops
  PROVE  /\ Len(queue') = Len(queue) - 1 /\ DOMAIN queue' = 1 .. Len(queue')
         /\ Len(queue) \in Nat \ {0} /\ Head(queue) = queue[1]
         /\ \A j \in 1 .. Len(queue) - 1 : queue'[j] = queue[j + 1]
<1>1. queue \in Seq(Entries) /\ queue # <<>> /\ queue' = Tail(queue)
  BY DEF TypeOK, Pops
<1> QED BY <1>1, TailFacts

QueueShape == UrgentAhead /\ RoutineBounded

LEMMA NextQueueShape ==
  ASSUME TypeOK, QueueShape, [Next]_vars
  PROVE  QueueShape'
<1> USE CapacityIsNat DEF QueueShape, UrgentAhead, RoutineBounded, CapacityIsNat
<1>0. queue \in Seq(Entries) /\ DOMAIN queue = 1 .. Len(queue) /\ Len(queue) \in Nat
  BY DEF TypeOK
<1>1. CASE Grows
  <2>1. /\ Len(queue') = Len(queue) + 1 /\ DOMAIN queue' = 1 .. Len(queue')
        /\ Len(queue) < Capacity
        /\ ~queue'[Len(queue) + 1].urgent
        /\ \A j \in 1 .. Len(queue) : queue'[j] = queue[j]
    BY <1>1, GrowsFacts DEF RoutineEntry
  <2>2. UrgentAhead'
    BY <1>0, <2>1
  <2>3. RoutineBounded'
    BY <1>0, <2>1
  <2> QED BY <2>2, <2>3
<1>2. CASE Displaces
  <2>1. PICK k \in 1 .. Len(queue) :
          /\ ~queue[k].urgent
          /\ \A j \in 1 .. Len(queue) : j < k => queue[j].urgent
          /\ Len(queue') = Len(queue) /\ DOMAIN queue' = 1 .. Len(queue)
          /\ queue'[Len(queue)] = RoutineEntry(pushed + 1)
          /\ \A j \in 1 .. Len(queue) - 1 :
                queue'[j] = IF j < k THEN queue[j] ELSE queue[j + 1]
    BY <1>2, DisplacesFacts
  <2>2. ~queue'[Len(queue)].urgent
    BY <2>1 DEF RoutineEntry
  <2>3. \A j \in 1 .. Len(queue) : k <= j => ~queue'[j].urgent
    BY <1>0, <2>1, <2>2
  <2>4. \A j \in 1 .. Len(queue) : j < k => queue'[j].urgent
    BY <1>0, <2>1
  <2>5. UrgentAhead'
    BY <1>0, <2>1, <2>3, <2>4
  <2>6. RoutineBounded'
    <3>1. Len(queue) - k < Capacity
      BY <1>0, <2>1
    <3> QED BY <1>0, <2>1, <2>4, <3>1
  <2> QED BY <2>5, <2>6
<1>3. CASE Overtakes /\ pushed < MaxMessages
  <2>1. /\ Len(queue') = Len(queue) + 1 /\ DOMAIN queue' = 1 .. Len(queue')
        /\ queue'[1].urgent
        /\ \A j \in 2 .. Len(queue) + 1 : queue'[j] = queue[j - 1]
    BY <1>3, OvertakesFacts DEF UrgentEntry
  <2>2. UrgentAhead'
    <3> SUFFICES ASSUME NEW i \in DOMAIN queue', NEW j \in DOMAIN queue',
                        i < j, queue'[j].urgent
                 PROVE  queue'[i].urgent
      OBVIOUS
    <3>1. CASE i = 1
      BY <2>1, <3>1
    <3>2. CASE i # 1
      <4>1. /\ i - 1 \in DOMAIN queue /\ j - 1 \in DOMAIN queue /\ i - 1 < j - 1
            /\ queue'[i] = queue[i - 1] /\ queue'[j] = queue[j - 1]
        BY <1>0, <2>1, <3>2
      <4> QED BY <4>1
    <3> QED BY <3>1, <3>2
  <2>3. RoutineBounded'
    <3> SUFFICES ASSUME NEW i \in DOMAIN queue', ~queue'[i].urgent
                 PROVE  Len(queue') - i < Capacity
      OBVIOUS
    <3>1. /\ i - 1 \in DOMAIN queue /\ queue'[i] = queue[i - 1]
      BY <1>0, <2>1
    <3>2. Len(queue) - (i - 1) < Capacity
      BY <3>1
    <3> QED BY <1>0, <2>1, <3>2
  <2> QED BY <2>2, <2>3
<1>4. CASE Pops
  <2>1. /\ Len(queue') = Len(queue) - 1 /\ DOMAIN queue' = 1 .. Len(queue')
        /\ \A j \in 1 .. Len(queue) - 1 : queue'[j] = queue[j + 1]
    BY <1>4, PopsFacts
  <2>2. UrgentAhead'
    <3> SUFFICES ASSUME NEW i \in DOMAIN queue', NEW j \in DOMAIN queue',
                        i < j, queue'[j].urgent
                 PROVE  queue'[i].urgent
      OBVIOUS
    <3>1. /\ i + 1 \in DOMAIN queue /\ j + 1 \in DOMAIN queue /\ i + 1 < j + 1
          /\ queue'[i] = queue[i + 1] /\ queue'[j] = queue[j + 1]
      BY <1>0, <2>1
    <3> QED BY <3>1
  <2>3. RoutineBounded'
    BY <1>0, <2>1
  <2> QED BY <2>2, <2>3
<1>5. CASE queue' = queue
  BY <1>5
<1> QED BY <1>1, <1>2, <1>3, <1>4, <1>5, QueueSteps

LEMMA AlwaysShaped == Spec => []QueueShape
<1>1. Init => TypeInvariant /\ QueueShape
  <2>1. Init => QueueShape
    BY DEF Init, QueueShape, UrgentAhead, RoutineBounded
  <2> QED BY <2>1, InitTypeInvariant
<1>2. (TypeInvariant /\ QueueShape) /\ [Next]_vars => (TypeInvariant /\ QueueShape)'
  BY NextTypeInvariant, NextQueueShape DEF TypeInvariant
<1> QED BY <1>1, <1>2, PTL DEF Spec

(* No urgent message ever waits behind a routine one.                      *)
THEOREM UrgentAlwaysAhead == Spec => []UrgentAhead
<1>1. QueueShape => UrgentAhead
  BY DEF QueueShape
<1> QED BY <1>1, AlwaysShaped, PTL

(* RoutineEntry messages never take more room than the queue's capacity.        *)
THEOREM RoutineAlwaysBounded == Spec => []RoutineBounded
<1>1. QueueShape => RoutineBounded
  BY DEF QueueShape
<1> QED BY <1>1, AlwaysShaped, PTL

----------------------------------------------------------------------------
(* Evictions.                                                              *)

LEMMA NextNeverEvictsUrgent ==
  ASSUME UrgentNeverEvicted, [Next]_vars
  PROVE  UrgentNeverEvicted'
<1>1. CASE Enqueue
  <2>1. ASSUME NEW m \in evicted' \ evicted PROVE ~m.urgent
    <3>1. \/ \E index \in Evictable(queue) : m = queue[index]
          \/ m = [id |-> pushed + 1, urgent |-> FALSE]
      BY <1>1, <2>1 DEF Enqueue
    <3> QED BY <3>1 DEF Evictable
  <2> QED BY <2>1 DEF UrgentNeverEvicted
<1>2. CASE ~Enqueue
  <2>1. evicted' = evicted
    <3>1. CASE Producers
      BY <1>2, <3>1 DEF Producers, EnqueueUrgent, NotifyOne, PushShuttingDown, Cancel, ghosts
    <3>2. ASSUME NEW c \in Conns, CarryingStep(c) PROVE evicted' = evicted
      BY <3>2 DEF CarryingStep, TakeNext, WriteDone, WriteFails, FlushNext, ghosts
    <3>3. ASSUME NEW c \in Conns, QuietStep(c) PROVE evicted' = evicted
      BY <3>3, QuietStepsCarryNothing
    <3>4. CASE UNCHANGED vars
      BY <3>4 DEF vars, ghosts
    <3> QED BY <3>1, <3>2, <3>3, <3>4, StepKinds
  <2> QED BY <2>1 DEF UrgentNeverEvicted
<1> QED BY <1>1, <1>2

(* No urgent message is ever dropped to make room.                         *)
THEOREM UrgentIsNeverEvicted == Spec => []UrgentNeverEvicted
<1>1. Init => UrgentNeverEvicted
  BY DEF Init, UrgentNeverEvicted
<1>2. UrgentNeverEvicted /\ [Next]_vars => UrgentNeverEvicted'
  BY NextNeverEvictsUrgent
<1> QED BY <1>1, <1>2, PTL DEF Spec

----------------------------------------------------------------------------
(* The order of routine messages.                                          *)

\* x was pushed before y, when both are routine.
Before(x, y) == ~x.urgent /\ ~y.urgent => x.id < y.id

\* The ids are those of messages pushed so far.
IdsBounded ==
    /\ \A i \in DOMAIN queue : queue[i].id <= pushed
    /\ \A c \in Conns : holding[c] # Nothing => holding[c].id <= pushed
    /\ \A c \in Conns : \A i \in DOMAIN received[c] : received[c][i].id <= pushed

\* The deque is in order, and what has left it is older than what is in it.
QueueInOrder ==
    \A i, j \in DOMAIN queue : i < j => Before(queue[i], queue[j])
TakenIsOlder ==
    \A c \in Conns, j \in DOMAIN queue :
        /\ holding[c] # Nothing => Before(holding[c], queue[j])
        /\ \A i \in DOMAIN received[c] : Before(received[c][i], queue[j])

\* What a connection is writing is newer than what its client has.
HeldIsNewer ==
    \A c \in Conns : \A i \in DOMAIN received[c] :
        holding[c] # Nothing => Before(received[c][i], holding[c])

ReceivedInOrder ==
    \A c \in Conns : \A i, j \in DOMAIN received[c] :
        i < j => Before(received[c][i], received[c][j])

OrderInvariant ==
    /\ IdsBounded /\ QueueInOrder /\ TakenIsOlder /\ HeldIsNewer /\ ReceivedInOrder

\* Every entry of the new deque was in the old one, or has just been pushed.
LEMMA EntriesComeFrom ==
  ASSUME TypeOK, [Next]_vars, NEW j \in DOMAIN queue'
  PROVE  \/ \E i \in DOMAIN queue : queue'[j] = queue[i]
         \/ queue'[j].id = pushed + 1 /\ pushed' = pushed + 1
<1>0. queue \in Seq(Entries) /\ DOMAIN queue = 1 .. Len(queue) /\ Len(queue) \in Nat
  BY DEF TypeOK
<1>1. CASE Grows /\ pushed' = pushed + 1
  BY <1>0, <1>1, GrowsFacts DEF RoutineEntry
<1>2. CASE Displaces /\ pushed' = pushed + 1
  <2>1. PICK k \in 1 .. Len(queue) :
          /\ DOMAIN queue' = 1 .. Len(queue)
          /\ queue'[Len(queue)] = RoutineEntry(pushed + 1)
          /\ \A i \in 1 .. Len(queue) - 1 :
                queue'[i] = IF i < k THEN queue[i] ELSE queue[i + 1]
    BY <1>2, DisplacesFacts
  <2>2. CASE j = Len(queue)
    BY <1>2, <2>1, <2>2 DEF RoutineEntry
  <2>3. CASE j # Len(queue)
    <3>1. /\ j \in 1 .. Len(queue) - 1 /\ j \in DOMAIN queue /\ j + 1 \in DOMAIN queue
      BY <1>0, <2>1, <2>3
    <3>2. queue'[j] = queue[j] \/ queue'[j] = queue[j + 1]
      BY <2>1, <3>1
    <3> QED BY <3>1, <3>2
  <2> QED BY <2>2, <2>3
<1>3. CASE Overtakes /\ pushed' = pushed + 1 /\ pushed < MaxMessages
  <2>1. /\ Len(queue') = Len(queue) + 1 /\ DOMAIN queue' = 1 .. Len(queue')
        /\ queue'[1].id = pushed + 1
        /\ \A i \in 2 .. Len(queue) + 1 : queue'[i] = queue[i - 1]
    BY <1>3, OvertakesFacts DEF UrgentEntry
  <2>2. CASE j = 1
    BY <1>3, <2>1, <2>2
  <2>3. CASE j # 1
    <3>1. j - 1 \in DOMAIN queue /\ queue'[j] = queue[j - 1]
      BY <1>0, <2>1, <2>3
    <3> QED BY <3>1
  <2> QED BY <2>2, <2>3
<1>4. CASE Pops
  <2>1. /\ Len(queue') = Len(queue) - 1 /\ DOMAIN queue' = 1 .. Len(queue')
        /\ \A i \in 1 .. Len(queue) - 1 : queue'[i] = queue[i + 1]
    BY <1>4, PopsFacts
  <2>2. j + 1 \in DOMAIN queue /\ queue'[j] = queue[j + 1]
    BY <1>0, <2>1
  <2> QED BY <2>2
<1>5. CASE queue' = queue
  BY <1>5
<1> QED BY <1>1, <1>2, <1>3, <1>4, <1>5, QueueSteps

LEMMA NextQueueInOrder ==
  ASSUME TypeOK, IdsBounded, QueueInOrder, [Next]_vars
  PROVE  QueueInOrder'
<1>0. /\ queue \in Seq(Entries) /\ DOMAIN queue = 1 .. Len(queue) /\ Len(queue) \in Nat
      /\ pushed \in Nat
  BY BoundsAreNat DEF TypeOK, BoundsAreNat
<1>e. ASSUME NEW i \in DOMAIN queue PROVE queue[i].id \in Nat /\ queue[i].id <= pushed
  <2>1. queue[i] \in Entries
    BY <1>0
  <2>2. queue[i].id \in 1 .. MaxMessages
    BY <2>1 DEF Entries
  <2> QED BY <2>2, BoundsAreNat DEF IdsBounded, BoundsAreNat
<1> USE DEF QueueInOrder
<1>1. CASE Grows
  <2>1. /\ Len(queue') = Len(queue) + 1 /\ DOMAIN queue' = 1 .. Len(queue')
        /\ queue'[Len(queue) + 1].id = pushed + 1
        /\ \A j \in 1 .. Len(queue) : queue'[j] = queue[j]
    BY <1>1, GrowsFacts DEF RoutineEntry
  <2> SUFFICES ASSUME NEW i \in DOMAIN queue', NEW j \in DOMAIN queue', i < j
               PROVE  Before(queue'[i], queue'[j])
    OBVIOUS
  <2>2. i \in DOMAIN queue /\ queue'[i] = queue[i]
    BY <1>0, <2>1
  <2>3. CASE j = Len(queue) + 1
    BY <1>0, <1>e, <2>1, <2>2, <2>3 DEF Before
  <2>4. CASE j # Len(queue) + 1
    BY <1>0, <2>1, <2>2, <2>4
  <2> QED BY <2>3, <2>4
<1>2. CASE Displaces
  <2>1. PICK k \in 1 .. Len(queue) :
          /\ DOMAIN queue' = 1 .. Len(queue)
          /\ queue'[Len(queue)].id = pushed + 1
          /\ \A j \in 1 .. Len(queue) - 1 :
                queue'[j] = IF j < k THEN queue[j] ELSE queue[j + 1]
    BY <1>2, DisplacesFacts DEF RoutineEntry
  <2> DEFINE old(j) == IF j < k THEN j ELSE j + 1
  <2>2. \A j \in 1 .. Len(queue) - 1 : old(j) \in DOMAIN queue /\ queue'[j] = queue[old(j)]
    BY <1>0, <2>1
  <2> SUFFICES ASSUME NEW i \in DOMAIN queue', NEW j \in DOMAIN queue', i < j
               PROVE  Before(queue'[i], queue'[j])
    OBVIOUS
  <2>3. i \in 1 .. Len(queue) - 1
    BY <1>0, <2>1
  <2>4. CASE j = Len(queue)
    <3>1. queue'[i].id \in Nat /\ queue'[i].id <= pushed
      BY <1>e, <2>2, <2>3
    <3>2. queue'[j].id = pushed + 1
      BY <2>1, <2>4
    <3> QED BY <1>0, <3>1, <3>2 DEF Before
  <2>5. CASE j # Len(queue)
    <3>1. j \in 1 .. Len(queue) - 1 /\ old(i) < old(j)
      BY <1>0, <2>1, <2>3, <2>5
    <3> QED BY <2>2, <2>3, <3>1
  <2> QED BY <2>4, <2>5
<1>3. CASE Overtakes /\ pushed < MaxMessages
  <2>1. /\ Len(queue') = Len(queue) + 1 /\ DOMAIN queue' = 1 .. Len(queue')
        /\ queue'[1].urgent
        /\ \A j \in 2 .. Len(queue) + 1 : queue'[j] = queue[j - 1]
    BY <1>3, OvertakesFacts DEF UrgentEntry
  <2> SUFFICES ASSUME NEW i \in DOMAIN queue', NEW j \in DOMAIN queue', i < j
               PROVE  Before(queue'[i], queue'[j])
    OBVIOUS
  <2>2. CASE i = 1
    BY <2>1, <2>2 DEF Before
  <2>3. CASE i # 1
    <3>1. /\ i - 1 \in DOMAIN queue /\ j - 1 \in DOMAIN queue /\ i - 1 < j - 1
          /\ queue'[i] = queue[i - 1] /\ queue'[j] = queue[j - 1]
      BY <1>0, <2>1, <2>3
    <3> QED BY <3>1
  <2> QED BY <2>2, <2>3
<1>4. CASE Pops
  <2>1. /\ Len(queue') = Len(queue) - 1 /\ DOMAIN queue' = 1 .. Len(queue')
        /\ \A j \in 1 .. Len(queue) - 1 : queue'[j] = queue[j + 1]
    BY <1>4, PopsFacts
  <2> SUFFICES ASSUME NEW i \in DOMAIN queue', NEW j \in DOMAIN queue', i < j
               PROVE  Before(queue'[i], queue'[j])
    OBVIOUS
  <2>2. /\ i + 1 \in DOMAIN queue /\ j + 1 \in DOMAIN queue /\ i + 1 < j + 1
        /\ queue'[i] = queue[i + 1] /\ queue'[j] = queue[j + 1]
    BY <1>0, <2>1
  <2> QED BY <2>2
<1>5. CASE queue' = queue
  BY <1>5
<1> QED BY <1>1, <1>2, <1>3, <1>4, <1>5, QueueSteps

LEMMA AppendFacts ==
  ASSUME NEW S, NEW q \in Seq(S), NEW e \in S
  PROVE  /\ Append(q, e) \in Seq(S) /\ Len(q) \in Nat
         /\ DOMAIN q = 1 .. Len(q) /\ DOMAIN Append(q, e) = 1 .. Len(q) + 1
         /\ Append(q, e)[Len(q) + 1] = e
         /\ \A j \in 1 .. Len(q) : Append(q, e)[j] = q[j]
OBVIOUS

\* What a step may do to the messages that have left the deque.
Takes(c) ==
    /\ Pops /\ holding' = [holding EXCEPT ![c] = queue[1]]
    /\ holding[c] = Nothing /\ received' = received
Delivers(c) ==
    /\ queue' = queue /\ holding[c] # Nothing
    /\ holding' = [holding EXCEPT ![c] = Nothing]
    /\ received' = [received EXCEPT ![c] = Append(received[c], holding[c])]
Fails(c) ==
    /\ queue' = queue /\ received' = received
    /\ holding' = [holding EXCEPT ![c] = Nothing]
Flushes(c) ==
    /\ Pops /\ holding' = holding /\ holding[c] = Nothing
    /\ received' = [received EXCEPT ![c] = Append(received[c], queue[1])]

LEMMA TakenSteps ==
  ASSUME TypeInvariant, [Next]_vars
  PROVE  \/ holding' = holding /\ received' = received
         \/ \E c \in Conns :
              /\ pushed' = pushed
              /\ Takes(c) \/ Delivers(c) \/ Fails(c) \/ Flushes(c)
<1> USE DEF TypeInvariant
<1>1. CASE Producers
  BY <1>1 DEF Producers, Enqueue, EnqueueUrgent, NotifyOne, PushShuttingDown, Cancel,
    cvars, ghosts
<1>2. ASSUME NEW c \in Conns, CarryingStep(c)
      PROVE  \/ holding' = holding /\ received' = received
             \/ pushed' = pushed /\ (Takes(c) \/ Delivers(c) \/ Fails(c) \/ Flushes(c))
  <2>1. CASE TakeNext(c)
    <3>1. Pops /\ pushed' = pushed /\ received' = received
      BY <2>1 DEF TakeNext, WithoutPopped, Pops, ghosts
    <3>2. Head(queue) = queue[1]
      BY <3>1, PopsFacts
    <3>3. holding[c] = Nothing
      BY <2>1 DEF TakeNext, HoldsWhileWriting
    <3> QED BY <2>1, <3>1, <3>2, <3>3 DEF TakeNext, Takes, Popped
  <2>2. CASE WriteDone(c)
    <3>1. holding[c] # Nothing
      BY <2>2 DEF WriteDone, HoldsWhileWriting
    <3> QED BY <2>2, <3>1 DEF WriteDone, Delivers, qvars
  <2>3. CASE WriteFails(c)
    BY <2>3 DEF WriteFails, Fails, qvars
  <2>4. CASE FlushNext(c)
    <3>1. Pops /\ pushed' = pushed /\ holding' = holding
      BY <2>4 DEF FlushNext, WithoutPopped, Pops, cvars
    <3>2. Head(queue) = queue[1]
      BY <3>1, PopsFacts
    <3>3. holding[c] = Nothing
      BY <2>4 DEF FlushNext, HoldsWhileWriting
    <3> QED BY <2>4, <3>1, <3>2, <3>3 DEF FlushNext, Flushes, Popped
  <2> QED BY <1>2, <2>1, <2>2, <2>3, <2>4 DEF CarryingStep
<1>3. ASSUME NEW c \in Conns, QuietStep(c)
      PROVE  holding' = holding /\ received' = received
  BY <1>3, QuietStepsCarryNothing
<1>4. CASE UNCHANGED vars
  BY <1>4 DEF vars, cvars, ghosts
<1> QED BY <1>1, <1>2, <1>3, <1>4, StepKinds

\* What a connection holds or has received comes from before the step, or from
\* the front of the deque.
LEMMA HeldComesFrom ==
  ASSUME TypeInvariant, [Next]_vars, NEW c \in Conns, holding'[c] # Nothing
  PROVE  \/ holding'[c] = holding[c] /\ holding[c] # Nothing
         \/ /\ holding[c] = Nothing /\ holding'[c] = queue[1]
            /\ Pops /\ received' = received
<1> USE DEF TypeInvariant, TypeOK
<1>1. ASSUME NEW d \in Conns, Takes(d)
      PROVE  \/ holding'[c] = holding[c]
             \/ holding[c] = Nothing /\ holding'[c] = queue[1] /\ Pops /\ received' = received
  BY <1>1 DEF Takes
<1>2. ASSUME NEW d \in Conns, Delivers(d) \/ Fails(d) \/ Flushes(d)
      PROVE  holding'[c] = holding[c]
  BY <1>2 DEF Delivers, Fails, Flushes
<1> QED BY <1>1, <1>2, TakenSteps

LEMMA ReceivedComesFrom ==
  ASSUME TypeInvariant, [Next]_vars, NEW c \in Conns
  PROVE  \/ received'[c] = received[c]
         \/ /\ received'[c] = Append(received[c], holding[c])
            /\ holding[c] # Nothing /\ holding'[c] = Nothing /\ queue' = queue
         \/ /\ received'[c] = Append(received[c], queue[1])
            /\ Pops /\ holding'[c] = Nothing
<1> USE DEF TypeInvariant, TypeOK
<1>1. ASSUME NEW d \in Conns, Takes(d) \/ Fails(d)
      PROVE  received'[c] = received[c]
  BY <1>1 DEF Takes, Fails
<1>2. ASSUME NEW d \in Conns, Delivers(d)
      PROVE  \/ received'[c] = received[c]
             \/ /\ received'[c] = Append(received[c], holding[c])
                /\ holding[c] # Nothing /\ holding'[c] = Nothing /\ queue' = queue
  BY <1>2 DEF Delivers
<1>3. ASSUME NEW d \in Conns, Flushes(d)
      PROVE  \/ received'[c] = received[c]
             \/ /\ received'[c] = Append(received[c], queue[1])
                /\ Pops /\ holding'[c] = Nothing
  BY <1>3 DEF Flushes
<1> QED BY <1>1, <1>2, <1>3, TakenSteps

LEMMA ReceivedEntry ==
  ASSUME TypeInvariant, [Next]_vars, NEW c \in Conns, NEW i \in DOMAIN received'[c]
  PROVE  \/ i \in DOMAIN received[c] /\ received'[c][i] = received[c][i]
         \/ /\ i = Len(received[c]) + 1 /\ received'[c][i] = holding[c]
            /\ holding[c] # Nothing /\ holding'[c] = Nothing /\ queue' = queue
         \/ /\ i = Len(received[c]) + 1 /\ received'[c][i] = queue[1]
            /\ Pops /\ holding'[c] = Nothing
<1>0. /\ received[c] \in Seq(Entries)
      /\ holding[c] # Nothing => holding[c] \in Entries
      /\ Pops => queue[1] \in Entries
  <2>1. Pops => queue[1] \in Entries
    <3> SUFFICES ASSUME Pops PROVE queue[1] \in Entries
      OBVIOUS
    <3>1. queue \in Seq(Entries) /\ 1 \in DOMAIN queue
      BY PopsFacts DEF TypeInvariant, TypeOK
    <3> QED BY <3>1
  <2> QED BY <2>1 DEF TypeInvariant, TypeOK
<1>1. CASE received'[c] = received[c]
  BY <1>1
<1>2. CASE /\ received'[c] = Append(received[c], holding[c])
           /\ holding[c] # Nothing /\ holding'[c] = Nothing /\ queue' = queue
  <2>1. /\ DOMAIN received'[c] = 1 .. Len(received[c]) + 1 /\ Len(received[c]) \in Nat
        /\ DOMAIN received[c] = 1 .. Len(received[c])
        /\ received'[c][Len(received[c]) + 1] = holding[c]
        /\ \A j \in 1 .. Len(received[c]) : received'[c][j] = received[c][j]
    BY <1>0, <1>2, AppendFacts
  <2> QED BY <1>2, <2>1
<1>3. CASE /\ received'[c] = Append(received[c], queue[1])
           /\ Pops /\ holding'[c] = Nothing
  <2>1. /\ DOMAIN received'[c] = 1 .. Len(received[c]) + 1 /\ Len(received[c]) \in Nat
        /\ DOMAIN received[c] = 1 .. Len(received[c])
        /\ received'[c][Len(received[c]) + 1] = queue[1]
        /\ \A j \in 1 .. Len(received[c]) : received'[c][j] = received[c][j]
    BY <1>0, <1>3, AppendFacts
  <2> QED BY <1>3, <2>1
<1> QED BY <1>1, <1>2, <1>3, ReceivedComesFrom

\* Ids never exceed the number of pushes, which never falls.
LEMMA PushedGrows ==
  ASSUME TypeOK, [Next]_vars
  PROVE  pushed \in Nat /\ pushed' \in Nat /\ pushed <= pushed'
<1>1. pushed \in Nat
  BY BoundsAreNat DEF TypeOK, BoundsAreNat
<1>2. pushed' = pushed \/ pushed' = pushed + 1
  BY QueueSteps
<1> QED BY <1>1, <1>2

\* The entries that a state names are entries, with natural numbers for ids.
LEMMA IdsAreNat ==
  ASSUME NEW m \in Entries
  PROVE  m.id \in Nat
BY BoundsAreNat DEF Entries, BoundsAreNat

LEMMA NextIdsBounded ==
  ASSUME TypeInvariant, TypeOK', IdsBounded, [Next]_vars
  PROVE  IdsBounded'
<1>0. TypeOK /\ pushed \in Nat /\ pushed' \in Nat /\ pushed <= pushed'
  BY PushedGrows DEF TypeInvariant
<1>q. ASSUME NEW i \in DOMAIN queue PROVE queue[i].id \in Nat /\ queue[i].id <= pushed'
  <2>1. queue[i] \in Entries
    BY <1>0 DEF TypeOK
  <2> QED BY <1>0, <2>1, IdsAreNat DEF IdsBounded
<1>h. ASSUME NEW c \in Conns, holding[c] # Nothing PROVE holding[c].id <= pushed'
  <2>1. holding[c] \in Entries
    BY <1>0, <1>h DEF TypeOK
  <2> QED BY <1>0, <1>h, <2>1, IdsAreNat DEF IdsBounded
<1>p. Pops => queue[1].id <= pushed'
  <2>1. Pops => 1 \in DOMAIN queue
    BY <1>0, PopsFacts DEF TypeOK
  <2> QED BY <2>1, <1>q
<1>1. ASSUME NEW j \in DOMAIN queue' PROVE queue'[j].id <= pushed'
  <2>1. CASE \E i \in DOMAIN queue : queue'[j] = queue[i]
    BY <1>q, <2>1
  <2>2. CASE queue'[j].id = pushed + 1 /\ pushed' = pushed + 1
    BY <1>0, <2>2
  <2> QED BY <1>0, <2>1, <2>2, EntriesComeFrom
<1>2. ASSUME NEW c \in Conns, holding'[c] # Nothing PROVE holding'[c].id <= pushed'
  BY <1>2, <1>h, <1>p, HeldComesFrom
<1>3. ASSUME NEW c \in Conns, NEW i \in DOMAIN received'[c]
      PROVE  received'[c][i].id <= pushed'
  <2>1. CASE i \in DOMAIN received[c] /\ received'[c][i] = received[c][i]
    <3>1. received[c][i] \in Entries /\ received[c][i].id <= pushed
      BY <1>0, <2>1 DEF TypeOK, IdsBounded
    <3> QED BY <1>0, <2>1, <3>1, IdsAreNat
  <2> QED BY <1>h, <1>p, <2>1, ReceivedEntry
<1> QED BY <1>1, <1>2, <1>3 DEF IdsBounded

\* Older than everything in the deque, and pushed already: still so afterwards.
LEMMA StaysOlder ==
  ASSUME TypeOK, [Next]_vars, NEW x \in Entries, x.id <= pushed,
         \A j \in DOMAIN queue : Before(x, queue[j]),
         NEW j \in DOMAIN queue'
  PROVE  Before(x, queue'[j])
<1>1. CASE \E i \in DOMAIN queue : queue'[j] = queue[i]
  BY <1>1
<1>2. CASE queue'[j].id = pushed + 1
  <2>1. x.id \in Nat /\ pushed \in Nat
    BY IdsAreNat, PushedGrows
  <2> QED BY <1>2, <2>1 DEF Before
<1> QED BY <1>1, <1>2, EntriesComeFrom

\* The front entry is older than what it leaves behind.
LEMMA PoppedIsOlder ==
  ASSUME TypeOK, QueueInOrder, Pops, NEW j \in DOMAIN queue'
  PROVE  Before(queue[1], queue'[j])
<1>1. /\ Len(queue') = Len(queue) - 1 /\ DOMAIN queue' = 1 .. Len(queue')
      /\ Len(queue) \in Nat \ {0}
      /\ \A i \in 1 .. Len(queue) - 1 : queue'[i] = queue[i + 1]
  BY PopsFacts
<1>2. DOMAIN queue = 1 .. Len(queue)
  BY DEF TypeOK
<1>3. 1 \in DOMAIN queue /\ j + 1 \in DOMAIN queue /\ 1 < j + 1 /\ queue'[j] = queue[j + 1]
  BY <1>1, <1>2
<1> QED BY <1>3 DEF QueueInOrder

LEMMA NextOrder ==
  ASSUME TypeInvariant, TypeInvariant', OrderInvariant, [Next]_vars
  PROVE  OrderInvariant'
<1> USE DEF OrderInvariant
<1>0. TypeOK /\ TypeOK'
  BY DEF TypeInvariant
<1>1. IdsBounded'
  BY <1>0, NextIdsBounded
<1>2. QueueInOrder'
  BY <1>0, NextQueueInOrder
<1>f. ASSUME Pops PROVE 1 \in DOMAIN queue /\ queue[1] \in Entries
  <2>1. 1 \in DOMAIN queue
    BY <1>0, <1>f, PopsFacts DEF TypeOK
  <2> QED BY <1>0, <2>1 DEF TypeOK
<1>h. ASSUME NEW c \in Conns, holding[c] # Nothing, NEW j \in DOMAIN queue'
      PROVE  Before(holding[c], queue'[j])
  <2>1. holding[c] \in Entries /\ holding[c].id <= pushed
    BY <1>0, <1>h DEF TypeOK, IdsBounded
  <2>2. \A i \in DOMAIN queue : Before(holding[c], queue[i])
    BY <1>h DEF TakenIsOlder
  <2> QED BY <1>0, <2>1, <2>2, StaysOlder
<1>3. TakenIsOlder'
  <2>1. ASSUME NEW c \in Conns, NEW j \in DOMAIN queue', holding'[c] # Nothing
        PROVE  Before(holding'[c], queue'[j])
    <3>1. CASE holding'[c] = holding[c] /\ holding[c] # Nothing
      BY <1>h, <3>1
    <3>2. CASE holding'[c] = queue[1] /\ Pops
      BY <1>0, <3>2, PoppedIsOlder
    <3> QED BY <2>1, <3>1, <3>2, HeldComesFrom
  <2>2. ASSUME NEW c \in Conns, NEW j \in DOMAIN queue', NEW i \in DOMAIN received'[c]
        PROVE  Before(received'[c][i], queue'[j])
    <3>1. CASE i \in DOMAIN received[c] /\ received'[c][i] = received[c][i]
      <4>1. received[c][i] \in Entries /\ received[c][i].id <= pushed
        BY <1>0, <3>1 DEF TypeOK, IdsBounded
      <4>2. \A k \in DOMAIN queue : Before(received[c][i], queue[k])
        BY <3>1 DEF TakenIsOlder
      <4>3. Before(received[c][i], queue'[j])
        BY <1>0, <4>1, <4>2, StaysOlder
      <4> QED BY <3>1, <4>3
    <3>2. CASE received'[c][i] = holding[c] /\ holding[c] # Nothing
      BY <1>h, <3>2
    <3>3. CASE received'[c][i] = queue[1] /\ Pops
      BY <1>0, <3>3, PoppedIsOlder
    <3> QED BY <3>1, <3>2, <3>3, ReceivedEntry
  <2> QED BY <2>1, <2>2 DEF TakenIsOlder
<1>4. HeldIsNewer'
  <2> SUFFICES ASSUME NEW c \in Conns, NEW i \in DOMAIN received'[c], holding'[c] # Nothing
               PROVE  Before(received'[c][i], holding'[c])
    BY DEF HeldIsNewer
  <2>1. i \in DOMAIN received[c] /\ received'[c][i] = received[c][i]
    BY ReceivedEntry
  <2>2. CASE holding'[c] = holding[c] /\ holding[c] # Nothing
    BY <2>1, <2>2 DEF HeldIsNewer
  <2>3. CASE holding'[c] = queue[1] /\ Pops
    BY <1>f, <2>1, <2>3 DEF TakenIsOlder
  <2> QED BY <2>2, <2>3, HeldComesFrom
<1>5. ReceivedInOrder'
  <2> SUFFICES ASSUME NEW c \in Conns, NEW i \in DOMAIN received'[c],
                      NEW j \in DOMAIN received'[c], i < j
               PROVE  Before(received'[c][i], received'[c][j])
    BY DEF ReceivedInOrder
  <2>0. /\ DOMAIN received[c] = 1 .. Len(received[c]) /\ Len(received[c]) \in Nat
        /\ DOMAIN received'[c] \subseteq Int
    BY <1>0 DEF TypeOK
  <2>1. CASE j \in DOMAIN received[c] /\ received'[c][j] = received[c][j]
    <3>1. i \in DOMAIN received[c] /\ received'[c][i] = received[c][i]
      BY <2>0, <2>1, ReceivedEntry
    <3> QED BY <2>1, <3>1 DEF ReceivedInOrder
  <2>2. CASE j = Len(received[c]) + 1
    <3>1. i \in DOMAIN received[c] /\ received'[c][i] = received[c][i]
      BY <2>0, <2>2, ReceivedEntry
    <3>2. CASE received'[c][j] = holding[c] /\ holding[c] # Nothing
      BY <3>1, <3>2 DEF HeldIsNewer
    <3>3. CASE received'[c][j] = queue[1] /\ Pops
      BY <1>f, <3>1, <3>3 DEF TakenIsOlder
    <3>4. j \notin DOMAIN received[c]
      BY <2>0, <2>2
    <3> QED BY <3>2, <3>3, <3>4, ReceivedEntry
  <2> QED BY <2>1, <2>2, ReceivedEntry
<1> QED BY <1>1, <1>2, <1>3, <1>4, <1>5

(* Every client gets the routine messages it is sent in the order in which *)
(* they were pushed.                                                       *)
THEOREM RoutineArrivesInOrder == Spec => []RoutineInOrder
<1>1. Init => TypeInvariant /\ OrderInvariant
  <2>1. Init => OrderInvariant
    BY DEF Init, OrderInvariant, IdsBounded, QueueInOrder, TakenIsOlder, HeldIsNewer,
      ReceivedInOrder
  <2> QED BY <2>1, InitTypeInvariant
<1>2. (TypeInvariant /\ OrderInvariant) /\ [Next]_vars => (TypeInvariant /\ OrderInvariant)'
  BY NextTypeInvariant, NextOrder
<1>3. OrderInvariant => RoutineInOrder
  BY DEF OrderInvariant, ReceivedInOrder, RoutineInOrder, Before
<1> QED BY <1>1, <1>2, <1>3, PTL DEF Spec

(* The four promises about the order of the queue, together.               *)
THEOREM PushOrderHolds == Spec => []PushOrder
  BY UrgentAlwaysAhead, RoutineAlwaysBounded, UrgentIsNeverEvicted, RoutineArrivesInOrder, PTL
  DEF PushOrder

----------------------------------------------------------------------------
(* The fate of a message.                                                  *)

\* The ids in a sequence of entries, and that none is there twice.
IdsOf(q) == {q[i].id : i \in DOMAIN q}
NoneTwice(q) == \A i, j \in DOMAIN q : q[i].id = q[j].id => i = j

LEMMA AppendedIds ==
  ASSUME NEW S, NEW q \in Seq(S), NEW e \in S
  PROVE  /\ IdsOf(Append(q, e)) = IdsOf(q) \cup {e.id}
         /\ NoneTwice(q) /\ e.id \notin IdsOf(q) => NoneTwice(Append(q, e))
<1>1. /\ Len(q) \in Nat /\ DOMAIN q = 1 .. Len(q)
      /\ DOMAIN Append(q, e) = 1 .. Len(q) + 1
      /\ Append(q, e)[Len(q) + 1] = e
      /\ \A j \in 1 .. Len(q) : Append(q, e)[j] = q[j]
  BY AppendFacts
<1> DEFINE r == Append(q, e)
<1> HIDE DEF r
<1>2. DOMAIN r = DOMAIN q \cup {Len(q) + 1} /\ r[Len(q) + 1] = e
  BY <1>1 DEF r
<1>3. \A j \in DOMAIN q : r[j] = q[j]
  BY <1>1 DEF r
<1>4. IdsOf(r) = IdsOf(q) \cup {e.id}
  BY <1>2, <1>3 DEF IdsOf
<1>5. NoneTwice(q) /\ e.id \notin IdsOf(q) => NoneTwice(r)
  BY <1>2, <1>3 DEF IdsOf, NoneTwice
<1> QED BY <1>4, <1>5 DEF r

LEMMA PrependedIds ==
  ASSUME NEW S, NEW q \in Seq(S), NEW e \in S
  PROVE  /\ IdsOf(<<e>> \o q) = IdsOf(q) \cup {e.id}
         /\ NoneTwice(q) /\ e.id \notin IdsOf(q) => NoneTwice(<<e>> \o q)
<1> DEFINE r == <<e>> \o q
<1>1. /\ Len(q) \in Nat /\ DOMAIN q = 1 .. Len(q) /\ r \in Seq(S)
      /\ Len(r) = Len(q) + 1 /\ r[1] = e /\ \A j \in 1 .. Len(q) : r[j + 1] = q[j]
  BY FrontFacts
<1> HIDE DEF r
<1>2. DOMAIN r = 1 .. Len(q) + 1
  BY <1>1
<1>3. \A j \in DOMAIN r : j = 1 \/ (j - 1 \in DOMAIN q /\ r[j] = q[j - 1])
  <2> TAKE j \in DOMAIN r
  <2>1. CASE j # 1
    <3>1. j - 1 \in 1 .. Len(q) /\ (j - 1) + 1 = j
      BY <1>1, <1>2, <2>1
    <3> QED BY <1>1, <3>1
  <2> QED BY <2>1
<1>4. \A j \in DOMAIN q : j + 1 \in DOMAIN r /\ r[j + 1] = q[j]
  BY <1>1, <1>2
<1>5. IdsOf(r) = IdsOf(q) \cup {e.id}
  <2>1. ASSUME NEW n \in IdsOf(r) PROVE n \in IdsOf(q) \cup {e.id}
    BY <1>1, <1>3, <2>1 DEF IdsOf
  <2>2. ASSUME NEW n \in IdsOf(q) PROVE n \in IdsOf(r)
    BY <1>4, <2>2 DEF IdsOf
  <2>3. e.id \in IdsOf(r)
    BY <1>1, <1>2 DEF IdsOf
  <2> QED BY <2>1, <2>2, <2>3
<1>6. ASSUME NoneTwice(q), e.id \notin IdsOf(q) PROVE NoneTwice(r)
  <2> SUFFICES ASSUME NEW i \in DOMAIN r, NEW j \in DOMAIN r, r[i].id = r[j].id
               PROVE  i = j
    BY DEF NoneTwice
  <2>1. i = 1 <=> j = 1
    BY <1>1, <1>3, <1>6 DEF IdsOf
  <2>2. CASE i # 1
    <3>1. i - 1 = j - 1
      BY <1>3, <1>6, <2>1, <2>2 DEF NoneTwice
    <3> QED BY <1>2, <3>1
  <2> QED BY <2>1, <2>2
<1> QED BY <1>5, <1>6 DEF r

\* Taking the k-th entry out takes out its id and no other.
LEMMA RemovedIds ==
  ASSUME NEW S, NEW q \in Seq(S), NEW k \in 1 .. Len(q), NoneTwice(q)
  PROVE  /\ q[k].id \in IdsOf(q)
         /\ IdsOf(RemoveAt(q, k)) = IdsOf(q) \ {q[k].id}
         /\ NoneTwice(RemoveAt(q, k))
<1> DEFINE r == RemoveAt(q, k)
           At(j) == IF j < k THEN j ELSE j + 1
<1>1. /\ Len(q) \in Nat /\ DOMAIN q = 1 .. Len(q) /\ r \in Seq(S) /\ Len(r) = Len(q) - 1
      /\ \A j \in 1 .. Len(q) - 1 : r[j] = IF j < k THEN q[j] ELSE q[j + 1]
  <2>1. Len(q) \in Nat /\ DOMAIN q = 1 .. Len(q)
    OBVIOUS
  <2>2. /\ r \in Seq(S) /\ Len(r) = Len(q) - 1
        /\ \A j \in 1 .. Len(q) - 1 : r[j] = IF j < k THEN q[j] ELSE q[j + 1]
    BY RemoveAtFacts
  <2> QED BY <2>1, <2>2
<1> HIDE DEF r
<1>2. DOMAIN r = 1 .. Len(q) - 1
  BY <1>1
<1>3. \A j \in DOMAIN r : At(j) \in DOMAIN q /\ At(j) # k /\ r[j] = q[At(j)]
  BY <1>1, <1>2
<1>4. \A i \in DOMAIN q : i # k => \E j \in DOMAIN r : At(j) = i
  <2> SUFFICES ASSUME NEW i \in DOMAIN q, i # k PROVE \E j \in DOMAIN r : At(j) = i
    OBVIOUS
  <2>1. CASE i < k
    BY <1>1, <1>2, <2>1
  <2>2. CASE i > k
    <3>1. i - 1 \in DOMAIN r /\ At(i - 1) = i
      BY <1>1, <1>2, <2>2
    <3> QED BY <3>1
  <2> QED BY <1>1, <2>1, <2>2
<1>5. \A i, j \in DOMAIN r : At(i) = At(j) => i = j
  BY <1>2
<1>6. k \in DOMAIN q
  BY <1>1
<1> HIDE DEF At
<1>7. q[k].id \in IdsOf(q)
  BY <1>6 DEF IdsOf
<1>8. IdsOf(r) = IdsOf(q) \ {q[k].id}
  <2>1. ASSUME NEW n \in IdsOf(r) PROVE n \in IdsOf(q) /\ n # q[k].id
    BY <1>3, <1>6, <2>1 DEF IdsOf, NoneTwice
  <2>2. ASSUME NEW n \in IdsOf(q), n # q[k].id PROVE n \in IdsOf(r)
    BY <1>3, <1>4, <2>2 DEF IdsOf
  <2> QED BY <2>1, <2>2
<1>9. NoneTwice(r)
  BY <1>3, <1>5 DEF NoneTwice
<1> QED BY <1>7, <1>8, <1>9 DEF r

LEMMA PoppedIds ==
  ASSUME NEW S, NEW q \in Seq(S), q # <<>>, NoneTwice(q)
  PROVE  /\ q[1].id \in IdsOf(q)
         /\ IdsOf(Tail(q)) = IdsOf(q) \ {q[1].id}
         /\ NoneTwice(Tail(q))
<1> DEFINE r == Tail(q)
<1>1. /\ Len(q) \in Nat \ {0} /\ DOMAIN q = 1 .. Len(q) /\ DOMAIN r = 1 .. Len(q) - 1
      /\ \A j \in 1 .. Len(q) - 1 : r[j] = q[j + 1]
  BY TailFacts
<1> HIDE DEF r
<1>2. \A j \in DOMAIN r : j + 1 \in DOMAIN q /\ j + 1 # 1 /\ r[j] = q[j + 1]
  BY <1>1
<1>3. \A i \in DOMAIN q : i # 1 => \E j \in DOMAIN r : j + 1 = i
  <2> SUFFICES ASSUME NEW i \in DOMAIN q, i # 1 PROVE \E j \in DOMAIN r : j + 1 = i
    OBVIOUS
  <2>1. i - 1 \in DOMAIN r /\ (i - 1) + 1 = i
    BY <1>1
  <2> QED BY <2>1
<1>4. \A i, j \in DOMAIN r : i + 1 = j + 1 => i = j
  BY <1>1
<1>5. 1 \in DOMAIN q
  BY <1>1
<1>6. IdsOf(r) = IdsOf(q) \ {q[1].id}
  <2>1. ASSUME NEW n \in IdsOf(r) PROVE n \in IdsOf(q) /\ n # q[1].id
    BY <1>2, <1>5, <2>1 DEF IdsOf, NoneTwice
  <2>2. ASSUME NEW n \in IdsOf(q), n # q[1].id PROVE n \in IdsOf(r)
    BY <1>2, <1>3, <2>2 DEF IdsOf
  <2> QED BY <2>1, <2>2
<1>7. NoneTwice(r)
  BY <1>2, <1>4 DEF NoneTwice
<1> QED BY <1>5, <1>6, <1>7 DEF r, IdsOf

\* The ids in the hands of connections and of clients.
HeldIds == {holding[c].id : c \in {d \in Conns : holding[d] # Nothing}}
GotIds == UNION {IdsOf(received[c]) : c \in Conns}

HeldOnce ==
    \A c, d \in Conns :
        holding[c] # Nothing /\ holding[d] # Nothing /\ holding[c].id = holding[d].id => c = d
GotOnce ==
    /\ \A c \in Conns : NoneTwice(received[c])
    /\ \A c, d \in Conns : IdsOf(received[c]) \cap IdsOf(received[d]) # {} => c = d

\* P is divided among five sets.
Divided(P, W, H, G, E, L) ==
    /\ P = W \cup H \cup G \cup E \cup L
    /\ W \cap (H \cup G \cup E \cup L) = {}
    /\ H \cap (G \cup E \cup L) = {}
    /\ G \cap (E \cup L) = {}
    /\ E \cap L = {}

\* OneFate, place by place.
Fates ==
    /\ Divided(1 .. pushed, IdsOf(queue), HeldIds, GotIds, Ids(evicted), Ids(lost))
    /\ NoneTwice(queue) /\ HeldOnce /\ GotOnce

LEMMA FatesMeanOneFate ==
  ASSUME TypeOK, Fates
  PROVE  OneFate
<1>1. Ids(ToSet(queue)) = IdsOf(queue)
  BY DEF Ids, ToSet, IdsOf
<1>2. Ids(Held) = HeldIds
  BY DEF Ids, Held, HeldIds
<1>3. Ids(Got) = GotIds
  <2>1. \A c \in Conns : Ids(ToSet(received[c])) = IdsOf(received[c])
    BY DEF Ids, ToSet, IdsOf
  <2>2. ASSUME NEW n \in Ids(Got) PROVE n \in GotIds
    BY <2>1, <2>2 DEF Ids, Got, GotIds
  <2>3. ASSUME NEW n \in GotIds PROVE n \in Ids(Got)
    BY <2>1, <2>3 DEF Ids, Got, GotIds
  <2> QED BY <2>2, <2>3
<1>4. \A A, B : Ids(A \cup B) = Ids(A) \cup Ids(B)
  BY DEF Ids
<1> HIDE DEF Ids
<1>5. /\ 1 .. pushed = Ids(ToSet(queue) \cup Held \cup Got \cup evicted \cup lost)
      /\ Ids(ToSet(queue)) \cap Ids(Held \cup Got \cup evicted \cup lost) = {}
      /\ Ids(Held) \cap Ids(Got \cup evicted \cup lost) = {}
      /\ Ids(Got) \cap Ids(evicted \cup lost) = {}
      /\ Ids(evicted) \cap Ids(lost) = {}
  <2>1. /\ Ids(ToSet(queue) \cup Held \cup Got \cup evicted \cup lost)
             = IdsOf(queue) \cup HeldIds \cup GotIds \cup Ids(evicted) \cup Ids(lost)
        /\ Ids(Held \cup Got \cup evicted \cup lost)
             = HeldIds \cup GotIds \cup Ids(evicted) \cup Ids(lost)
        /\ Ids(Got \cup evicted \cup lost) = GotIds \cup Ids(evicted) \cup Ids(lost)
        /\ Ids(evicted \cup lost) = Ids(evicted) \cup Ids(lost)
    <3>1. Ids(evicted \cup lost) = Ids(evicted) \cup Ids(lost)
      BY <1>4
    <3>2. Ids(Got \cup evicted) = GotIds \cup Ids(evicted)
      BY <1>3, <1>4
    <3>3. Ids(Got \cup evicted \cup lost) = GotIds \cup Ids(evicted) \cup Ids(lost)
      BY <1>4, <3>2
    <3>4. Ids(Held \cup Got) = HeldIds \cup GotIds
      BY <1>2, <1>3, <1>4
    <3>5. Ids(Held \cup Got \cup evicted) = HeldIds \cup GotIds \cup Ids(evicted)
      BY <1>4, <3>4
    <3>6. Ids(Held \cup Got \cup evicted \cup lost)
            = HeldIds \cup GotIds \cup Ids(evicted) \cup Ids(lost)
      BY <1>4, <3>5
    <3>7. Ids(ToSet(queue) \cup Held) = IdsOf(queue) \cup HeldIds
      BY <1>1, <1>2, <1>4
    <3>8. Ids(ToSet(queue) \cup Held \cup Got) = IdsOf(queue) \cup HeldIds \cup GotIds
      BY <1>3, <1>4, <3>7
    <3>9. Ids(ToSet(queue) \cup Held \cup Got \cup evicted)
            = IdsOf(queue) \cup HeldIds \cup GotIds \cup Ids(evicted)
      BY <1>4, <3>8
    <3>10. Ids(ToSet(queue) \cup Held \cup Got \cup evicted \cup lost)
             = IdsOf(queue) \cup HeldIds \cup GotIds \cup Ids(evicted) \cup Ids(lost)
      BY <1>4, <3>9
    <3> QED BY <3>1, <3>3, <3>6, <3>10
  <2> QED BY <1>1, <1>2, <1>3, <2>1 DEF Fates, Divided
<1>6. ASSUME NEW c \in Conns, NEW d \in Conns,
             NEW i \in DOMAIN received[c], NEW j \in DOMAIN received[d],
             received[c][i].id = received[d][j].id
      PROVE  c = d /\ i = j
  <2>1. c = d
    BY <1>6 DEF Fates, GotOnce, IdsOf
  <2> QED BY <1>6, <2>1 DEF Fates, GotOnce, NoneTwice
<1> QED BY <1>5, <1>6 DEF OneFate, Fates, NoneTwice, HeldOnce

LEMMA InitFates == Init => Fates
<1> SUFFICES ASSUME Init PROVE Fates
  OBVIOUS
<1>1. IdsOf(<<>>) = {} /\ NoneTwice(<<>>)
  BY DEF IdsOf, NoneTwice
<1>2. HeldIds = {} /\ HeldOnce
  BY DEF Init, HeldIds, HeldOnce
<1>3. \A c \in Conns : received[c] = <<>>
  BY DEF Init
<1>4. GotIds = {} /\ GotOnce
  BY <1>1, <1>3 DEF GotIds, GotOnce
<1>5. Ids(evicted) = {} /\ Ids(lost) = {} /\ queue = <<>> /\ 1 .. pushed = {}
  BY DEF Init, Ids
<1> QED BY <1>1, <1>2, <1>4, <1>5 DEF Fates, Divided

\* What taking, dropping and delivering do to the ids.
LEMMA TakenIds ==
  ASSUME TypeOK, NEW c \in Conns, NEW x \in Entries, HeldOnce, holding[c] = Nothing,
         holding' = [holding EXCEPT ![c] = x], x.id \notin HeldIds
  PROVE  HeldIds' = HeldIds \cup {x.id} /\ HeldOnce'
<1>1. /\ holding'[c] = x /\ x # Nothing
      /\ \A d \in Conns : d # c => holding'[d] = holding[d]
  BY NothingElse DEF TypeOK
<1>2. HeldIds' = HeldIds \cup {x.id}
  BY <1>1 DEF HeldIds
<1>3. HeldOnce'
  BY <1>1 DEF HeldIds, HeldOnce
<1> QED BY <1>2, <1>3

LEMMA DroppedIds ==
  ASSUME TypeOK, NEW c \in Conns, HeldOnce, holding[c] # Nothing,
         holding' = [holding EXCEPT ![c] = Nothing]
  PROVE  /\ holding[c].id \in HeldIds
         /\ HeldIds' = HeldIds \ {holding[c].id} /\ HeldOnce'
<1>1. holding'[c] = Nothing /\ \A d \in Conns : d # c => holding'[d] = holding[d]
  BY DEF TypeOK
<1>2. holding[c].id \in HeldIds
  BY DEF HeldIds
<1>3. HeldIds' = HeldIds \ {holding[c].id}
  BY <1>1 DEF HeldIds, HeldOnce
<1>4. HeldOnce'
  BY <1>1 DEF HeldOnce
<1> QED BY <1>2, <1>3, <1>4

LEMMA DeliveredIds ==
  ASSUME TypeOK, NEW c \in Conns, NEW x \in Entries, GotOnce, x.id \notin GotIds,
         received' = [received EXCEPT ![c] = Append(received[c], x)]
  PROVE  GotIds' = GotIds \cup {x.id} /\ GotOnce'
<1>1. /\ received'[c] = Append(received[c], x) /\ received[c] \in Seq(Entries)
      /\ \A d \in Conns : d # c => received'[d] = received[d]
  BY DEF TypeOK
<1>2. x.id \notin IdsOf(received[c]) /\ NoneTwice(received[c])
  BY DEF GotIds, GotOnce
<1>3. IdsOf(received'[c]) = IdsOf(received[c]) \cup {x.id} /\ NoneTwice(received'[c])
  BY <1>1, <1>2, AppendedIds
<1>4. \A d \in Conns : d # c => IdsOf(received'[d]) = IdsOf(received[d])
  BY <1>1
<1>5. GotIds' = GotIds \cup {x.id}
  BY <1>3, <1>4, Zenon DEF GotIds
<1>6. \A d \in Conns : NoneTwice(received'[d])
  BY <1>1, <1>3 DEF GotOnce
<1>7. \A d, e \in Conns : IdsOf(received'[d]) \cap IdsOf(received'[e]) # {} => d = e
  BY <1>3, <1>4 DEF GotOnce, GotIds
<1> QED BY <1>5, <1>6, <1>7 DEF GotOnce

\* Every step leaves the messages alone, adds a new one, or moves one.
Adds == (Grows \/ Overtakes) /\ UNCHANGED <<holding, received, evicted, lost>>
Displaced ==
    /\ \E k \in Evictable(queue) :
          /\ queue' = Append(RemoveAt(queue, k), RoutineEntry(pushed + 1))
          /\ evicted' = evicted \cup {queue[k]}
    /\ UNCHANGED <<holding, received, lost>>
DequeRefused ==
    /\ evicted' = evicted \cup {RoutineEntry(pushed + 1)}
    /\ UNCHANGED <<queue, holding, received, lost>>
Moves(c) ==
    \/ Takes(c) /\ lost' = lost
    \/ Delivers(c) /\ lost' = lost
    \/ Fails(c) /\ holding[c] # Nothing /\ lost' = lost \cup {holding[c]}
    \/ Flushes(c) /\ lost' = lost
    \/ Pops /\ lost' = lost \cup {queue[1]} /\ UNCHANGED <<holding, received>>

LEMMA FateSteps ==
  ASSUME TypeInvariant, [Next]_vars
  PROVE  \/ UNCHANGED <<queue, pushed, holding, received, evicted, lost>>
         \/ /\ Adds \/ Displaced \/ DequeRefused
            /\ pushed' = pushed + 1 /\ pushed < MaxMessages
         \/ \E c \in Conns : Moves(c) /\ UNCHANGED <<pushed, evicted>>
<1>1. CASE Producers
  <2> USE DEF RoutineEntry, UrgentEntry, Adds, Grows, Overtakes, PushedBack, PushedFront, cvars, ghosts
  <2>1. CASE Enqueue
    BY <2>1 DEF Enqueue, Displaced, DequeRefused
  <2>2. CASE EnqueueUrgent
    BY <2>2 DEF EnqueueUrgent
  <2>3. CASE PushShuttingDown
    BY <2>3 DEF PushShuttingDown
  <2>4. CASE NotifyOne \/ Cancel
    BY <2>4 DEF NotifyOne, Cancel, qvars
  <2> QED BY <1>1, <2>1, <2>2, <2>3, <2>4 DEF Producers
<1>2. ASSUME NEW c \in Conns, CarryingStep(c)
      PROVE  Moves(c) /\ UNCHANGED <<pushed, evicted>>
  <2> USE DEF Moves, ghosts, qvars, cvars, TypeInvariant, HoldsWhileWriting
  <2>0. Pops => Head(queue) = queue[1]
    BY PopsFacts
  <2>1. CASE TakeNext(c)
    BY <2>0, <2>1 DEF TakeNext, WithoutPopped, Popped, Pops, Takes
  <2>2. CASE WriteDone(c)
    BY <2>2 DEF WriteDone, Delivers
  <2>3. CASE WriteFails(c)
    BY <2>3 DEF WriteFails, Fails
  <2>4. CASE FlushNext(c)
    BY <2>0, <2>4 DEF FlushNext, WithoutPopped, Popped, Pops, Flushes
  <2> QED BY <1>2, <2>1, <2>2, <2>3, <2>4 DEF CarryingStep
<1>3. ASSUME NEW c \in Conns, QuietStep(c)
      PROVE  UNCHANGED <<queue, pushed, holding, received, evicted, lost>>
  BY <1>3, QuietStepsCarryNothing
<1>4. CASE UNCHANGED vars
  BY <1>4 DEF vars, qvars, cvars, ghosts
<1> QED BY <1>1, <1>2, <1>3, <1>4, StepKinds

\* A new message has a new id.
LEMMA NewId ==
  ASSUME TypeOK, Fates, pushed < MaxMessages
  PROVE  /\ 1 .. (pushed + 1) = (1 .. pushed) \cup {pushed + 1}
         /\ pushed + 1 \notin 1 .. pushed
BY BoundsAreNat DEF TypeOK, BoundsAreNat

LEMMA NextFates ==
  ASSUME TypeInvariant, Fates, [Next]_vars
  PROVE  Fates'
<1> USE DEF TypeInvariant
<1> DEFINE n == pushed + 1
           W == IdsOf(queue)
           E == Ids(evicted)
           L == Ids(lost)
<1>0. /\ queue \in Seq(Entries)
      /\ \A c \in Conns : holding[c] # Nothing => holding[c] \in Entries
      /\ \A x \in Entries : x # Nothing
  BY NothingElse DEF TypeOK
<1>d. /\ Divided(1 .. pushed, W, HeldIds, GotIds, E, L)
      /\ NoneTwice(queue) /\ HeldOnce /\ GotOnce
  BY DEF Fates
<1>u. \A x : Ids(evicted \cup {x}) = E \cup {x.id} /\ Ids(lost \cup {x}) = L \cup {x.id}
  BY DEF Ids
<1> HIDE DEF W, E, L
<1>1. CASE UNCHANGED <<queue, pushed, holding, received, evicted, lost>>
  BY <1>1 DEF Fates, HeldIds, GotIds, HeldOnce, GotOnce
<1>2. ASSUME pushed' = n, pushed < MaxMessages, UNCHANGED <<holding, received, lost>>
      PROVE  /\ 1 .. pushed' = (1 .. pushed) \cup {n} /\ n \notin 1 .. pushed
             /\ RoutineEntry(n) \in Entries /\ UrgentEntry(n) \in Entries
             /\ RoutineEntry(n).id = n /\ UrgentEntry(n).id = n
             /\ HeldIds' = HeldIds /\ GotIds' = GotIds /\ HeldOnce' /\ GotOnce' /\ Ids(lost') = L
             /\ n \notin W /\ n \notin HeldIds /\ n \notin GotIds /\ n \notin E /\ n \notin L
  <2>1. 1 .. pushed' = (1 .. pushed) \cup {n} /\ n \notin 1 .. pushed
    BY <1>2, NewId
  <2>2. RoutineEntry(n) \in Entries /\ UrgentEntry(n) \in Entries
    BY <1>2, NewEntry DEF TypeOK, RoutineEntry, UrgentEntry
  <2>3. RoutineEntry(n).id = n /\ UrgentEntry(n).id = n
    BY DEF RoutineEntry, UrgentEntry
  <2>4. HeldIds' = HeldIds /\ GotIds' = GotIds /\ HeldOnce' /\ GotOnce' /\ Ids(lost') = L
    BY <1>2, <1>d DEF HeldIds, GotIds, HeldOnce, GotOnce, L
  <2>5. n \notin W /\ n \notin HeldIds /\ n \notin GotIds /\ n \notin E /\ n \notin L
    BY <1>d, <2>1 DEF Divided
  <2> QED BY <2>1, <2>2, <2>3, <2>4, <2>5
<1>3. CASE Adds /\ pushed' = n /\ pushed < MaxMessages
  <2> HIDE DEF n
  <2>1. UNCHANGED <<holding, received, evicted, lost>>
    BY <1>3 DEF Adds
  <2>2. IdsOf(queue') = W \cup {n} /\ NoneTwice(queue')
    <3>1. CASE Grows
      <4>1. queue' = Append(queue, RoutineEntry(n))
        BY <3>1 DEF Grows, n
      <4> QED BY <1>0, <1>2, <1>3, <1>d, <2>1, <4>1, AppendedIds DEF W
    <3>2. CASE Overtakes
      <4>1. queue' = <<UrgentEntry(n)>> \o queue
        BY <3>2 DEF Overtakes, n
      <4> QED BY <1>0, <1>2, <1>3, <1>d, <2>1, <4>1, PrependedIds DEF W
    <3> QED BY <1>3, <3>1, <3>2 DEF Adds
  <2>3. Ids(evicted') = E
    BY <2>1 DEF E
  <2>4. Divided(1 .. pushed', W \cup {n}, HeldIds, GotIds, E, L)
    BY <1>2, <1>3, <1>d, <2>1 DEF Divided
  <2> QED BY <1>2, <1>3, <2>1, <2>2, <2>3, <2>4 DEF Fates
<1>4. CASE Displaced /\ pushed' = n /\ pushed < MaxMessages
  <2>1. PICK k \in Evictable(queue) : /\ queue' = Append(RemoveAt(queue, k), RoutineEntry(n))
                                      /\ evicted' = evicted \cup {queue[k]}
    BY <1>4 DEF Displaced
  <2> HIDE DEF n
  <2>2. UNCHANGED <<holding, received, lost>>
    BY <1>4 DEF Displaced
  <2>3. k \in 1 .. Len(queue)
    BY <1>0 DEF Evictable
  <2>4. /\ queue[k].id \in W /\ RemoveAt(queue, k) \in Seq(Entries)
        /\ IdsOf(RemoveAt(queue, k)) = W \ {queue[k].id} /\ NoneTwice(RemoveAt(queue, k))
    BY <1>0, <1>d, <2>3, RemovedIds, RemoveAtFacts DEF W
  <2>5. IdsOf(queue') = (W \ {queue[k].id}) \cup {n} /\ NoneTwice(queue')
    <3> DEFINE r == RemoveAt(queue, k)
    <3>1. r \in Seq(Entries) /\ IdsOf(r) = W \ {queue[k].id} /\ NoneTwice(r)
      BY <2>4
    <3>2. queue' = Append(r, RoutineEntry(n))
      BY <2>1
    <3> HIDE DEF r
    <3>3. RoutineEntry(n) \in Entries /\ RoutineEntry(n).id = n /\ n \notin W
      BY <1>2, <1>4, <2>2
    <3> QED BY <3>1, <3>2, <3>3, AppendedIds
  <2>6. Ids(evicted') = E \cup {queue[k].id}
    BY <1>u, <2>1
  <2>7. Divided(1 .. pushed', (W \ {queue[k].id}) \cup {n}, HeldIds, GotIds,
                E \cup {queue[k].id}, L)
    BY <1>2, <1>4, <1>d, <2>2, <2>4 DEF Divided
  <2> QED BY <1>2, <1>4, <2>2, <2>5, <2>6, <2>7 DEF Fates
<1>5. CASE DequeRefused /\ pushed' = n /\ pushed < MaxMessages
  <2>1. evicted' = evicted \cup {RoutineEntry(n)} /\ UNCHANGED <<queue, holding, received, lost>>
    BY <1>5 DEF DequeRefused
  <2> HIDE DEF n
  <2>2. Ids(evicted') = E \cup {n}
    BY <1>2, <1>5, <1>u, <2>1
  <2>3. IdsOf(queue') = W /\ NoneTwice(queue')
    BY <1>d, <2>1 DEF W
  <2>4. Divided(1 .. pushed', W, HeldIds, GotIds, E \cup {n}, L)
    BY <1>2, <1>5, <1>d, <2>1 DEF Divided
  <2> QED BY <1>2, <1>5, <2>1, <2>2, <2>3, <2>4 DEF Fates
<1>6. ASSUME NEW c \in Conns, Moves(c), UNCHANGED <<pushed, evicted>>
      PROVE  Fates'
  <2>1. Ids(evicted') = E
    BY <1>6 DEF E
  <2>p. Pops => /\ queue[1] \in Entries /\ queue[1].id \in W
                /\ IdsOf(queue') = W \ {queue[1].id} /\ NoneTwice(queue')
    <3> SUFFICES ASSUME Pops
                 PROVE  /\ queue[1] \in Entries /\ queue[1].id \in W
                        /\ IdsOf(queue') = W \ {queue[1].id} /\ NoneTwice(queue')
      OBVIOUS
    <3>1. queue # <<>> /\ queue' = Tail(queue) /\ queue[1] \in Entries
      BY <1>0, TailFacts DEF Pops
    <3> QED BY <1>0, <1>d, <3>1, PoppedIds DEF W
  <2>q. queue' = queue => IdsOf(queue') = W /\ NoneTwice(queue')
    BY <1>d DEF W
  <2>h. holding' = holding => HeldIds' = HeldIds /\ HeldOnce'
    BY <1>d DEF HeldIds, HeldOnce
  <2>g. received' = received => GotIds' = GotIds /\ GotOnce'
    BY <1>d DEF GotIds, GotOnce
  <2>l. lost' = lost => Ids(lost') = L
    BY DEF L
  <2>2. CASE Takes(c) /\ lost' = lost
    <3>1. /\ Pops /\ holding' = [holding EXCEPT ![c] = queue[1]]
          /\ holding[c] = Nothing /\ received' = received
      BY <2>2 DEF Takes
    <3>2. queue[1].id \notin HeldIds
      BY <1>d, <2>p, <3>1 DEF Divided
    <3>3. HeldIds' = HeldIds \cup {queue[1].id} /\ HeldOnce'
      BY <1>d, <2>p, <3>1, <3>2, TakenIds
    <3>4. Divided(1 .. pushed', W \ {queue[1].id}, HeldIds \cup {queue[1].id}, GotIds, E, L)
      BY <1>6, <1>d, <2>p, <3>1 DEF Divided
    <3> QED BY <2>1, <2>2, <2>p, <2>g, <2>l, <3>1, <3>3, <3>4 DEF Fates
  <2>3. CASE Delivers(c) /\ lost' = lost
    <3> DEFINE x == holding[c]
    <3>1. /\ queue' = queue /\ x # Nothing /\ holding' = [holding EXCEPT ![c] = Nothing]
          /\ received' = [received EXCEPT ![c] = Append(received[c], x)] /\ x \in Entries
      BY <1>0, <2>3 DEF Delivers
    <3>2. x.id \in HeldIds /\ HeldIds' = HeldIds \ {x.id} /\ HeldOnce'
      BY <1>d, <3>1, DroppedIds
    <3> HIDE DEF x
    <3>3. GotIds' = GotIds \cup {x.id} /\ GotOnce'
      <4>1. x.id \notin GotIds
        BY <1>d, <3>2 DEF Divided
      <4> QED BY <1>d, <3>1, <4>1, DeliveredIds
    <3>4. Divided(1 .. pushed', W, HeldIds \ {x.id}, GotIds \cup {x.id}, E, L)
      BY <1>6, <1>d, <3>2 DEF Divided
    <3> QED BY <2>1, <2>3, <2>q, <2>l, <3>1, <3>2, <3>3, <3>4 DEF Fates
  <2>4. CASE Fails(c) /\ holding[c] # Nothing /\ lost' = lost \cup {holding[c]}
    <3>1. /\ holding[c].id \in HeldIds
          /\ HeldIds' = HeldIds \ {holding[c].id} /\ HeldOnce'
      BY <1>d, <2>4, DroppedIds DEF Fails
    <3>2. Ids(lost') = L \cup {holding[c].id}
      BY <1>u, <2>4
    <3>3. Divided(1 .. pushed', W, HeldIds \ {holding[c].id}, GotIds, E, L \cup {holding[c].id})
      BY <1>6, <1>d, <3>1 DEF Divided
    <3> QED BY <2>1, <2>4, <2>q, <2>g, <3>1, <3>2, <3>3 DEF Fates, Fails
  <2>5. CASE Flushes(c) /\ lost' = lost
    <3>1. /\ Pops /\ holding' = holding
          /\ received' = [received EXCEPT ![c] = Append(received[c], queue[1])]
      BY <2>5 DEF Flushes
    <3>2. GotIds' = GotIds \cup {queue[1].id} /\ GotOnce'
      <4>1. queue[1].id \notin GotIds
        BY <1>d, <2>p, <3>1 DEF Divided
      <4> QED BY <1>d, <2>p, <3>1, <4>1, DeliveredIds
    <3>3. Divided(1 .. pushed', W \ {queue[1].id}, HeldIds, GotIds \cup {queue[1].id}, E, L)
      BY <1>6, <1>d, <2>p, <3>1 DEF Divided
    <3> QED BY <2>1, <2>5, <2>p, <2>h, <2>l, <3>1, <3>2, <3>3 DEF Fates
  <2>6. CASE Pops /\ lost' = lost \cup {queue[1]} /\ UNCHANGED <<holding, received>>
    <3>1. Ids(lost') = L \cup {queue[1].id}
      BY <1>u, <2>6
    <3>2. Divided(1 .. pushed', W \ {queue[1].id}, HeldIds, GotIds, E, L \cup {queue[1].id})
      BY <1>6, <1>d, <2>p, <2>6 DEF Divided
    <3> QED BY <2>1, <2>6, <2>p, <2>h, <2>g, <3>1, <3>2 DEF Fates
  <2> QED BY <1>6, <2>2, <2>3, <2>4, <2>5, <2>6 DEF Moves
<1> QED BY <1>1, <1>3, <1>4, <1>5, <1>6, FateSteps

LEMMA AlwaysFated == Spec => [](TypeInvariant /\ Fates)
<1>1. Init => TypeInvariant /\ Fates
  BY InitTypeInvariant, InitFates
<1>2. TypeInvariant /\ Fates /\ [Next]_vars => (TypeInvariant /\ Fates)'
  BY NextTypeInvariant, NextFates
<1> QED BY <1>1, <1>2, PTL DEF Spec

\* Every message pushed (PushQueue::enqueue, enqueue_urgent) is in exactly one
\* place: queued, in a connection's hands, received once, evicted or lost in
\* a failed write, however many connections share the queue.
THEOREM MessagesHaveOneFate == Spec => []OneFate
<1>1. TypeInvariant /\ Fates => OneFate
  BY FatesMeanOneFate DEF TypeInvariant
<1> QED BY <1>1, AlwaysFated, PTL

----------------------------------------------------------------------------
(* The farewell.                                                           *)

\* The token is cancelled after the farewell is pushed, a connection flushes
\* after it is cancelled, and what is queued later is another message.
Announced ==
    /\ stage # "up" => farewell # Nothing /\ farewell.id <= pushed
    /\ \A c \in Conns : pc[c] \in {"flush", "flushed"} => stage = "cancelled"
    /\ \A c \in Conns : pc[c] = "flushed" => \A i \in DOMAIN queue : queue[i] # farewell

\* Only ShutdownSeen leads to the flush, and only FlushEnds out of it.
LEMMA FlushSteps ==
  ASSUME TypeInvariant, [Next]_vars, NEW c \in Conns
  PROVE  /\ pc'[c] = "flush" => pc[c] = "flush" \/ stage = "cancelled"
         /\ pc'[c] = "flushed" =>
              pc[c] = "flushed" \/ (pc[c] = "flush" /\ queue' = queue /\ queue = <<>>)
<1> USE DEF TypeInvariant, TypeOK, InLoop, Selecting
<1>1. CASE Producers
  BY <1>1 DEF Producers, Enqueue, EnqueueUrgent, NotifyOne, PushShuttingDown, Cancel, cvars
<1>2. ASSUME NEW d \in Conns, CarryingStep(d)
      PROVE  pc'[c] \in {"flush", "flushed"} => pc'[c] = pc[c]
  BY <1>2 DEF CarryingStep, TakeNext, WriteDone, WriteFails, FlushNext, GoTo, cvars
<1>3. ASSUME NEW d \in Conns, QuietStep(d)
      PROVE  /\ pc'[c] = "flush" => pc[c] = "flush" \/ stage = "cancelled"
             /\ pc'[c] = "flushed" =>
                  pc[c] = "flushed" \/ (pc[c] = "flush" /\ queue' = queue /\ queue = <<>>)
  <2>1. CASE ShutdownSeen(d) \/ FlushEnds(d)
    BY <2>1 DEF ShutdownSeen, FlushEnds, GoTo, qvars
  <2>2. CASE Accept(d) \/ PeerLeaves(d) \/ HelloAccepted(d) \/ HelloEnds(d)
    BY <2>2 DEF Accept, PeerLeaves, HelloAccepted, HelloEnds, GoTo
  <2>3. CASE Malformed(d) \/ Routed(d)
    BY <2>3 DEF Malformed, Routed, AfterMalformed, GoTo
  <2>4. CASE AuthStateChanged(d) \/ FrameArrives(d) \/ FrameTooLarge(d) \/ StreamEnds(d)
    BY <2>4 DEF AuthStateChanged, FrameArrives, FrameTooLarge, StreamEnds, GoTo
  <2>5. CASE Drained(d) \/ Park(d) \/ Wake(d)
    BY <2>5 DEF Drained, Park, Wake, GoTo
  <2> QED BY <1>3, <2>1, <2>2, <2>3, <2>4, <2>5 DEF QuietStep
<1>4. CASE UNCHANGED vars
  BY <1>4 DEF vars, cvars
<1> QED BY <1>1, <1>2, <1>3, <1>4, StepKinds

LEMMA StageSteps ==
  ASSUME [Next]_vars
  PROVE  \/ stage' = stage /\ farewell' = farewell
         \/ stage = "up" /\ stage' = "announced" /\ farewell' = UrgentEntry(pushed + 1)
            /\ pushed' = pushed + 1 /\ pc' = pc
         \/ stage = "announced" /\ stage' = "cancelled" /\ farewell' = farewell /\ pc' = pc
<1>1. CASE Producers
  BY <1>1 DEF Producers, Enqueue, EnqueueUrgent, NotifyOne, PushShuttingDown, Cancel, CancelFrom,
    UrgentEntry, cvars, svars
<1>2. ASSUME NEW c \in Conns, CarryingStep(c) PROVE stage' = stage /\ farewell' = farewell
  BY <1>2 DEF CarryingStep, TakeNext, WriteDone, WriteFails, FlushNext, svars
<1>3. ASSUME NEW c \in Conns, QuietStep(c) PROVE stage' = stage /\ farewell' = farewell
  BY <1>3 DEF QuietStep, Accept, PeerLeaves, HelloAccepted, HelloEnds, Malformed,
    AuthStateChanged, FrameArrives, FrameTooLarge, Drained, Park, Wake, Routed,
    StreamEnds, ShutdownSeen, FlushEnds, svars
<1>4. CASE UNCHANGED vars
  BY <1>4 DEF vars, svars
<1> QED BY <1>1, <1>2, <1>3, <1>4, StepKinds

LEMMA NextAnnounced ==
  ASSUME TypeInvariant, TypeInvariant', Announced, [Next]_vars
  PROVE  Announced'
<1>0. /\ pushed \in Nat /\ pushed' \in Nat /\ pushed' >= pushed
      /\ farewell # Nothing => farewell.id \in Nat
  <2>1. pushed \in Nat /\ pushed' \in Nat
    BY BoundsAreNat DEF TypeInvariant, TypeOK, BoundsAreNat
  <2>2. pushed' >= pushed
    BY PushedGrows DEF TypeInvariant
  <2>3. farewell # Nothing => farewell.id \in Nat
    BY BoundsAreNat DEF TypeInvariant, TypeOK, Entries, BoundsAreNat
  <2> QED BY <2>1, <2>2, <2>3
<1>1. stage' # "up" => farewell' # Nothing /\ farewell'.id <= pushed'
  <2>1. CASE stage' = stage /\ farewell' = farewell
    BY <1>0, <2>1 DEF Announced
  <2>2. CASE farewell' = UrgentEntry(pushed + 1) /\ pushed' = pushed + 1 /\ stage' = "announced"
    <3>1. farewell' \in Entries \cup {Nothing} /\ farewell'.id = pushed + 1
      BY <2>2 DEF TypeInvariant, TypeOK, UrgentEntry
    <3>2. UrgentEntry(pushed + 1) \in Entries
      BY <1>0, <2>2, BoundsAreNat DEF TypeInvariant, TypeOK, Entries, UrgentEntry, BoundsAreNat
    <3> QED BY <1>0, <2>2, <3>1, <3>2, NothingElse
  <2>3. CASE stage = "announced" /\ farewell' = farewell
    BY <1>0, <2>3 DEF Announced
  <2> QED BY <2>1, <2>2, <2>3, StageSteps
<1>2. ASSUME NEW c \in Conns, pc'[c] \in {"flush", "flushed"} PROVE stage' = "cancelled"
  BY <1>2, FlushSteps, StageSteps DEF Announced
<1>3. ASSUME NEW c \in Conns, pc'[c] = "flushed", NEW j \in DOMAIN queue'
      PROVE  queue'[j] # farewell'
  <2>1. CASE pc[c] = "flushed"
    <3>1. stage = "cancelled" /\ farewell' = farewell
      BY <2>1, StageSteps DEF Announced
    <3>2. farewell # Nothing /\ farewell.id <= pushed
      BY <3>1 DEF Announced
    <3>3. CASE \E i \in DOMAIN queue : queue'[j] = queue[i]
      BY <2>1, <3>1, <3>3 DEF Announced
    <3>4. CASE queue'[j].id = pushed + 1
      BY <1>0, <3>1, <3>2, <3>4
    <3> QED BY <3>3, <3>4, EntriesComeFrom DEF TypeInvariant
  <2>2. CASE queue' = queue /\ queue = <<>>
    BY <2>2
  <2> QED BY <1>3, <2>1, <2>2, FlushSteps
<1> QED BY <1>1, <1>2, <1>3 DEF Announced

\* A connection that ended through the shutdown branch (connection.rs, the
\* flush after the token is cancelled) has not left the ShuttingDown message
\* in the queue.
THEOREM FlushesAreAnnounced == Spec => []FlushedMeansAnnounced
<1>1. Init => Announced
  BY DEF Init, Announced
<1>2. TypeInvariant /\ Announced /\ [Next]_vars => Announced'
  BY NextTypeInvariant, NextAnnounced
<1>3. TypeInvariant /\ Announced => FlushedMeansAnnounced
  BY DEF Announced, FlushedMeansAnnounced, ToSet
<1> QED BY <1>1, <1>2, <1>3, InitTypeInvariant, NextTypeInvariant, PTL DEF Spec

\* Nothing pushed is doubled or forgotten, and a connection that flushed has
\* said goodbye.
THEOREM PushesStayAccountedFor == Spec => []PushesAccountedFor
<1>1. OneFate /\ FlushedMeansAnnounced => PushesAccountedFor
  BY DEF PushesAccountedFor
<1> QED BY <1>1, MessagesHaveOneFate, FlushesAreAnnounced, PTL

----------------------------------------------------------------------------
(* THE FETCHES                                                             *)

Ages == 0..MaxAge
CacheRow == [left : Int, age : Ages, says : {"none", "ready", "bare", "negative"}]
Task == [pc : {"idle", "start", "queue", "call", "answered"}, kind : Kinds,
         dates : SUBSET Nat, got : SUBSET Nat,
         says : {"none", "ready", "bare", "negative"}, wait : Nat, age : Ages]

FetchTypeOK ==
    /\ rows \in [Kinds -> [Dates("history") -> CacheRow]]
    /\ tasks \in [Runners -> Task]
    /\ locks \in [Kinds -> Runners \cup {Nobody}]

\* A call under way holds the lock of its kind.
CallsHoldLocks == \A t \in Runners : tasks[t].pc \in {"call", "answered"} => locks[tasks[t].kind] = t

\* An answer that is not stored yet is younger than every row of its kind.
AnswersAreNews ==
    \A t \in Runners : tasks[t].pc = "answered" =>
        \A d \in Dates("history") : tasks[t].age <= rows[tasks[t].kind][d].age

FetchInv == FetchTypeOK /\ CallsHoldLocks /\ AnswersAreNews

LEMMA DatesAreDays == \A k : Dates(k) \subseteq Dates("history") /\ Dates(k) \subseteq Nat
BY FetchAssumption DEF Dates

LEMMA IdleIsTask == Idle \in Task /\ Idle.pc = "idle"
BY FetchAssumption DEF Idle, Task, Ages, Kinds

LEMMA NoRowIsRow == NoRow \in CacheRow /\ NoRow.age = MaxAge
BY FetchAssumption DEF NoRow, CacheRow, Ages

LEMMA InitFetch == FetchInit => FetchInv
BY IdleIsTask, NoRowIsRow DEF FetchInit, FetchInv, FetchTypeOK, CallsHoldLocks, AnswersAreNews

\* What a runner goes on with, having no lock.
LEMMA ProceedFacts ==
  ASSUME FetchTypeOK, NEW t \in Runners, tasks' = Proceed(t)
  PROVE  /\ tasks' \in [Runners -> Task] /\ tasks'[t].pc \notin {"call", "answered"}
         /\ \A u \in Runners \ {t} : tasks'[u] = tasks[u]
<1> DEFINE next == [Idle EXCEPT !.pc = "start", !.kind = "insight", !.dates = Dates("insight")]
<1>1. next \in Task /\ next.pc = "start"
  BY IdleIsTask, DatesAreDays DEF Task, Kinds
<1> HIDE DEF next
<1>2. tasks' \in {[tasks EXCEPT ![t] = next], [tasks EXCEPT ![t] = Idle]}
  BY DEF Proceed, Finish, next
<1> QED BY <1>1, <1>2, IdleIsTask DEF FetchTypeOK

\* A runner moves without a lock, and no row with it.
Aside(t) ==
    /\ tasks' \in [Runners -> Task] /\ tasks'[t].pc \notin {"call", "answered"}
    /\ \A u \in Runners \ {t} : tasks'[u] = tasks[u]
    /\ UNCHANGED rows
    /\ \A k \in Kinds : locks'[k] = locks[k] \/ locks[k] = t
    /\ locks' \in [Kinds -> Runners \cup {Nobody}]

LEMMA AsideKeeps == ASSUME FetchInv, NEW t \in Runners, Aside(t) PROVE FetchInv'
BY DEF FetchInv, FetchTypeOK, CallsHoldLocks, AnswersAreNews, Aside, Task, Runners, Nobody

LEMMA ServeKeeps ==
  ASSUME FetchInv, NEW t \in Runners, Serve(t), UNCHANGED <<rows, locks>> PROVE FetchInv'
BY ProceedFacts, AsideKeeps DEF Serve, Aside, FetchInv, FetchTypeOK

LEMMA ProbeKeeps == ASSUME FetchInv, NEW t \in Runners, Probe(t) PROVE FetchInv'
<1>1. UNCHANGED <<rows, locks>>
  BY DEF Probe
<1>2. CASE Serve(t)
  BY <1>1, <1>2, ServeKeeps
<1>3. CASE tasks' = [tasks EXCEPT ![t].pc = "queue"]
  <2>1. Aside(t)
    BY <1>1, <1>3 DEF Aside, FetchInv, FetchTypeOK, Task
  <2> QED BY <2>1, AsideKeeps
<1> QED BY <1>2, <1>3 DEF Probe

LEMMA AcquireKeeps == ASSUME FetchInv, NEW t \in Runners, Acquire(t) PROVE FetchInv'
<1>1. CASE Serve(t) /\ UNCHANGED locks
  BY <1>1, ServeKeeps DEF Acquire
<1>2. CASE /\ tasks' = [tasks EXCEPT ![t].pc = "call", ![t].wait = 0]
           /\ locks' = [locks EXCEPT ![tasks[t].kind] = t]
  <2>1. UNCHANGED rows /\ locks[tasks[t].kind] = Nobody
    BY DEF Acquire, LockFree
  <2>2. tasks[t].kind \in Kinds
    BY DEF FetchInv, FetchTypeOK, Task
  <2>3. /\ tasks' \in [Runners -> Task] /\ tasks'[t].pc = "call" /\ tasks'[t].kind = tasks[t].kind
        /\ \A u \in Runners \ {t} : tasks'[u] = tasks[u]
    BY <1>2 DEF FetchInv, FetchTypeOK, Task
  <2>4. FetchTypeOK'
    BY <1>2, <2>1, <2>2, <2>3 DEF FetchInv, FetchTypeOK
  <2>5. CallsHoldLocks'
    BY <1>2, <2>1, <2>2, <2>3 DEF FetchInv, FetchTypeOK, CallsHoldLocks, Runners, Nobody
  <2>6. AnswersAreNews'
    BY <2>1, <2>3 DEF FetchInv, AnswersAreNews
  <2> QED BY <2>4, <2>5, <2>6 DEF FetchInv
<1> QED BY <1>1, <1>2 DEF Acquire

LEMMA CloudAnswersKeeps == ASSUME FetchInv, NEW t \in Runners, CloudAnswers(t) PROVE FetchInv'
<1>1. CloudDates(tasks[t].kind) \subseteq Nat
  BY DatesAreDays DEF CloudDates
<1>2. Says(tasks[t].kind) \in {"none", "ready", "bare", "negative"}
  BY DEF Says
<1>3. 0 \in Ages /\ \A a \in Ages : 0 <= a
  BY FetchAssumption DEF Ages
<1> DEFINE new == [tasks[t] EXCEPT !.pc = "answered", !.age = 0, !.got = CloudDates(tasks[t].kind),
                                   !.says = Says(tasks[t].kind)]
<1>8. tasks[t] \in Task /\ tasks \in [Runners -> Task]
  BY DEF FetchInv, FetchTypeOK
<1>9. new \in Task /\ new.age = 0 /\ new.kind = tasks[t].kind
  BY <1>1, <1>2, <1>3, <1>8 DEF Task
<1>10. tasks' = [tasks EXCEPT ![t] = new] /\ tasks[t].pc = "call"
  BY <1>8 DEF CloudAnswers
<1> HIDE DEF new
<1>4. /\ tasks' \in [Runners -> Task] /\ tasks'[t].age = 0 /\ tasks'[t].kind = tasks[t].kind
      /\ tasks[t].pc = "call" /\ \A u \in Runners \ {t} : tasks'[u] = tasks[u]
  BY <1>8, <1>9, <1>10
<1>5. UNCHANGED <<rows, locks>>
  BY DEF CloudAnswers
<1>6. FetchTypeOK' /\ CallsHoldLocks'
  BY <1>4, <1>5 DEF FetchInv, FetchTypeOK, CallsHoldLocks
<1>7. AnswersAreNews'
  <2> SUFFICES ASSUME NEW u \in Runners, tasks'[u].pc = "answered", NEW d \in Dates("history")
               PROVE  tasks'[u].age <= rows[tasks'[u].kind][d].age
    BY <1>5 DEF AnswersAreNews
  <2>1. CASE u = t
    BY <1>3, <1>4, <2>1 DEF FetchInv, FetchTypeOK, Task, CacheRow
  <2>2. CASE u # t
    BY <1>4, <2>2 DEF FetchInv, AnswersAreNews
  <2> QED BY <2>1, <2>2
<1> QED BY <1>6, <1>7 DEF FetchInv

\* What the cache holds after an answer.
LEMMA StoredFacts ==
  ASSUME FetchTypeOK, NEW t \in Runners
  PROVE  /\ Stored(tasks[t]) \in [Dates("history") -> CacheRow]
         /\ \A d \in Dates("history") :
               \/ Stored(tasks[t])[d] = rows[tasks[t].kind][d]
               \/ Stored(tasks[t])[d].age = tasks[t].age
<1> DEFINE task == tasks[t]
           left == IF task.kind = "history" THEN CacheTtl["history"]
                   ELSE CacheTtl[IF task.says = "ready" THEN "insight" ELSE "negative"] - task.wait
           new == [age |-> task.age, says |-> task.says, left |-> left]
<1>1. task \in Task
  BY DEF FetchTypeOK
<1>2. left \in Int
  <2>1. CacheTtl["history"] \in Int /\ CacheTtl["insight"] \in Int /\ CacheTtl["negative"] \in Int
    BY FetchAssumption
  <2>2. task.wait \in Int
    BY <1>1 DEF Task
  <2> QED BY <2>1, <2>2
<1>3. new \in CacheRow /\ new.age = task.age
  BY <1>1, <1>2 DEF CacheRow, Task
<1>4. \A d \in Dates("history") : rows[task.kind][d] \in CacheRow
  BY <1>1 DEF FetchTypeOK, Task
<1>5. Stored(task) = [d \in Dates("history") |-> IF d \notin task.got THEN rows[task.kind][d] ELSE new]
  BY DEF Stored
<1> HIDE DEF new, task
<1>6. Stored(task) \in [Dates("history") -> CacheRow]
  BY <1>3, <1>4, <1>5
<1>7. \A d \in Dates("history") : Stored(task)[d] = rows[task.kind][d] \/ Stored(task)[d].age = task.age
  BY <1>3, <1>5
<1> QED BY <1>6, <1>7 DEF task

\* The runner that stored an answer has gone on, its rows are no older.
LEMMA ArriveFacts ==
  ASSUME FetchInv, NEW t \in Runners, Arrive(t)
  PROVE  /\ tasks[t].pc = "answered" /\ tasks[t].kind \in Kinds /\ locks[tasks[t].kind] = t
         /\ rows' \in [Kinds -> [Dates("history") -> CacheRow]]
         /\ \A k \in Kinds : \A d \in Dates("history") : rows'[k][d].age <= rows[k][d].age
         /\ \A k \in Kinds : k # tasks[t].kind => rows'[k] = rows[k]
<1>1. tasks[t].pc = "answered" /\ rows' = [rows EXCEPT ![tasks[t].kind] = Stored(tasks[t])]
  BY DEF Arrive
<1>2. tasks[t].kind \in Kinds /\ locks[tasks[t].kind] = t
  BY <1>1 DEF FetchInv, FetchTypeOK, Task, CallsHoldLocks
<1>3. \A k \in Kinds : \A d \in Dates("history") : rows[k][d].age \in Ages
  BY DEF FetchInv, FetchTypeOK, CacheRow
<1>4. \A d \in Dates("history") : Stored(tasks[t])[d].age <= rows[tasks[t].kind][d].age
  <2>1. \A d \in Dates("history") : tasks[t].age <= rows[tasks[t].kind][d].age
    BY <1>1 DEF FetchInv, AnswersAreNews
  <2> QED BY <1>2, <1>3, <2>1, StoredFacts DEF FetchInv, Ages
<1>5. \A k \in Kinds : \A d \in Dates("history") : rows'[k][d].age <= rows[k][d].age
  <2> SUFFICES ASSUME NEW k \in Kinds, NEW d \in Dates("history") PROVE rows'[k][d].age <= rows[k][d].age
    OBVIOUS
  <2>1. CASE k = tasks[t].kind
    BY <1>1, <1>2, <1>4, <2>1 DEF FetchInv, FetchTypeOK
  <2>2. CASE k # tasks[t].kind
    BY <1>1, <1>2, <1>3, <2>2 DEF FetchInv, FetchTypeOK, Ages
  <2> QED BY <2>1, <2>2
<1>6. rows' \in [Kinds -> [Dates("history") -> CacheRow]]
  BY <1>1, <1>2, StoredFacts DEF FetchInv, FetchTypeOK
<1> QED BY <1>1, <1>2, <1>5, <1>6 DEF FetchInv, FetchTypeOK

LEMMA UnlockFacts ==
  ASSUME FetchTypeOK, NEW t \in Runners, Unlock(t)
  PROVE  /\ locks' \in [Kinds -> Runners \cup {Nobody}]
         /\ \A k \in Kinds : locks'[k] = locks[k] \/ locks[k] = t
BY DEF FetchTypeOK, Unlock

LEMMA ArriveKeeps == ASSUME FetchInv, NEW t \in Runners, Arrive(t) PROVE FetchInv'
<1>1. /\ tasks' \in [Runners -> Task] /\ tasks'[t].pc \notin {"call", "answered"}
      /\ \A u \in Runners \ {t} : tasks'[u] = tasks[u]
      /\ locks' \in [Kinds -> Runners \cup {Nobody}]
      /\ \A k \in Kinds : locks'[k] = locks[k] \/ locks[k] = t
  BY ProceedFacts, UnlockFacts DEF Arrive, FetchInv
<1>2. FetchTypeOK'
  BY <1>1, ArriveFacts DEF FetchTypeOK
<1>3. CallsHoldLocks'
  BY <1>1 DEF FetchInv, FetchTypeOK, CallsHoldLocks, Task, Runners, Nobody
<1>4. AnswersAreNews'
  <2> SUFFICES ASSUME NEW u \in Runners, tasks'[u].pc = "answered", NEW d \in Dates("history")
               PROVE  tasks'[u].age <= rows'[tasks'[u].kind][d].age
    BY DEF AnswersAreNews
  <2>1. u # t /\ tasks'[u] = tasks[u]
    BY <1>1
  <2>2. locks[tasks[u].kind] = u /\ tasks[u].kind \in Kinds
    BY <2>1 DEF FetchInv, FetchTypeOK, CallsHoldLocks, Task
  <2>3. rows'[tasks[u].kind] = rows[tasks[u].kind]
    BY <2>1, <2>2, ArriveFacts
  <2> QED BY <2>1, <2>3 DEF FetchInv, AnswersAreNews
<1> QED BY <1>2, <1>3, <1>4 DEF FetchInv

LEMMA FailKeeps == ASSUME FetchInv, NEW t \in Runners, Fail(t) PROVE FetchInv'
<1>1. Aside(t)
  BY ProceedFacts, UnlockFacts DEF Fail, FetchInv, Aside
<1> QED BY <1>1, AsideKeeps

\* A runner that was idle begins.
LEMMA BegunIsTask ==
  ASSUME NEW dates \in SUBSET Nat, NEW kind \in Kinds
  PROVE  /\ [Idle EXCEPT !.pc = "start", !.dates = dates] \in Task
         /\ [Idle EXCEPT !.pc = "start", !.dates = dates].pc = "start"
         /\ [Idle EXCEPT !.pc = "start", !.kind = kind, !.dates = dates] \in Task
         /\ [Idle EXCEPT !.pc = "start", !.kind = kind, !.dates = dates].pc = "start"
BY IdleIsTask DEF Task

LEMMA StartKeeps ==
  ASSUME FetchInv, NEW t \in Runners, NEW new \in Task, new.pc = "start",
         tasks' = [tasks EXCEPT ![t] = new], UNCHANGED <<rows, locks>>
  PROVE  FetchInv'
<1>1. Aside(t)
  BY DEF Aside, FetchInv, FetchTypeOK
<1> QED BY <1>1, AsideKeeps

LEMMA StayKeeps == FetchInv /\ UNCHANGED <<rows, tasks, locks>> => FetchInv'
BY DEF FetchInv, FetchTypeOK, CallsHoldLocks, AnswersAreNews

LEMMA OlderFacts ==
  /\ \A a \in Ages : Older(a) \in Ages
  /\ \A a, b \in Ages : a <= b => Older(a) <= Older(b)
  /\ \A a \in Ages : Older(a) <= MaxAge
BY FetchAssumption DEF Older, Ages

\* Everything ages alike, and a missing row is as old as can be.
LEMMA TickKeeps == ASSUME FetchInv, FetchTick PROVE FetchInv'
<1> DEFINE Aged(r) == IF r = NoRow THEN NoRow
                      ELSE [r EXCEPT !.left = IF @ = 0 THEN 0 ELSE @ - 1, !.age = Older(@)]
           Waits(t) == IF tasks[t].pc = "idle" THEN Idle
                       ELSE [tasks[t] EXCEPT !.wait = @ + 1, !.age = Older(@)]
<1>1. /\ rows' = [k \in Kinds |-> [d \in Dates("history") |-> Aged(rows[k][d])]]
      /\ tasks' = [t \in Runners |-> Waits(t)] /\ locks' = locks
  BY DEF FetchTick
<1>2. \A r \in CacheRow : Aged(r) \in CacheRow /\ Aged(r).age \in {Older(r.age), MaxAge}
  <2> SUFFICES ASSUME NEW r \in CacheRow, r # NoRow PROVE Aged(r) \in CacheRow /\ Aged(r).age = Older(r.age)
    BY NoRowIsRow
  <2>1. Older(r.age) \in Ages
    BY OlderFacts DEF CacheRow
  <2>2. (IF r.left = 0 THEN 0 ELSE r.left - 1) \in Int
    BY DEF CacheRow
  <2> QED BY <2>1, <2>2 DEF CacheRow
<1>3. \A t \in Runners : tasks[t].pc # "idle" =>
         /\ Waits(t) \in Task /\ Waits(t).age = Older(tasks[t].age)
         /\ Waits(t).pc = tasks[t].pc /\ Waits(t).kind = tasks[t].kind
  <2> SUFFICES ASSUME NEW t \in Runners, tasks[t].pc # "idle"
               PROVE  /\ Waits(t) \in Task /\ Waits(t).age = Older(tasks[t].age)
                      /\ Waits(t).pc = tasks[t].pc /\ Waits(t).kind = tasks[t].kind
    OBVIOUS
  <2>1. tasks[t] \in Task
    BY DEF FetchInv, FetchTypeOK
  <2>2. tasks[t].wait + 1 \in Nat /\ Older(tasks[t].age) \in Ages
    BY <2>1, OlderFacts DEF Task
  <2> QED BY <2>1, <2>2 DEF Task
<1>4. \A t \in Runners : tasks[t].pc = "idle" => Waits(t) = Idle
  OBVIOUS
<1> HIDE DEF Aged, Waits
<1>5. /\ \A t \in Runners : tasks'[t] = Waits(t)
      /\ \A k \in Kinds : \A d \in Dates("history") : rows'[k][d] = Aged(rows[k][d])
  BY <1>1
<1>6. FetchTypeOK'
  <2>1. tasks' \in [Runners -> Task]
    BY <1>1, <1>3, <1>4, IdleIsTask
  <2>2. rows' \in [Kinds -> [Dates("history") -> CacheRow]]
    BY <1>1, <1>2 DEF FetchInv, FetchTypeOK
  <2> QED BY <1>1, <2>1, <2>2 DEF FetchInv, FetchTypeOK
<1>7. CallsHoldLocks'
  BY <1>1, <1>3, <1>4, <1>5, IdleIsTask DEF FetchInv, CallsHoldLocks
<1>8. AnswersAreNews'
  <2> SUFFICES ASSUME NEW t \in Runners, tasks'[t].pc = "answered", NEW d \in Dates("history")
               PROVE  tasks'[t].age <= rows'[tasks'[t].kind][d].age
    BY DEF AnswersAreNews
  <2>1. tasks[t].pc = "answered" /\ tasks'[t].age = Older(tasks[t].age) /\ tasks'[t].kind = tasks[t].kind
    BY <1>3, <1>4, <1>5, IdleIsTask
  <2>2. tasks[t].age \in Ages /\ tasks[t].kind \in Kinds
    BY DEF FetchInv, FetchTypeOK, Task
  <2>3. rows[tasks[t].kind][d] \in CacheRow
    BY <2>2 DEF FetchInv, FetchTypeOK
  <2>4. tasks[t].age <= rows[tasks[t].kind][d].age /\ rows[tasks[t].kind][d].age \in Ages
    BY <2>1, <2>3 DEF FetchInv, AnswersAreNews, CacheRow
  <2>5. rows'[tasks[t].kind][d].age \in {Older(rows[tasks[t].kind][d].age), MaxAge}
    BY <1>2, <1>5, <2>2, <2>3
  <2> QED BY <2>1, <2>2, <2>4, <2>5, OlderFacts
<1> QED BY <1>6, <1>7, <1>8 DEF FetchInv

LEMMA NextFetch == FetchInv /\ [FetchNext]_fetchvars => FetchInv'
<1> SUFFICES ASSUME FetchInv, [FetchNext]_fetchvars PROVE FetchInv'
  OBVIOUS
<1>1. ASSUME NEW t \in Runners, Probe(t) \/ Acquire(t) \/ CloudAnswers(t) \/ Arrive(t) \/ Fail(t)
      PROVE  FetchInv'
  BY <1>1, ProbeKeeps, AcquireKeeps, CloudAnswersKeeps, ArriveKeeps, FailKeeps
<1>2. CASE Schedule
  <2>1. PICK t \in {"sched", "overlap"} :
          tasks' = [tasks EXCEPT ![t] = [Idle EXCEPT !.pc = "start", !.dates = Dates("history")]]
    BY <1>2 DEF Schedule
  <2> QED BY <1>2, <2>1, StartKeeps, BegunIsTask, DatesAreDays DEF Schedule, Runners, Kinds
<1>3. CASE ClientAsks
  <2>1. UNCHANGED <<rows, locks>>
    BY <1>3 DEF ClientAsks
  <2>2. \/ UNCHANGED tasks
        \/ tasks' = [tasks EXCEPT !["req"] = [Idle EXCEPT !.pc = "start", !.dates = Dates("history")]]
        \/ tasks' = [tasks EXCEPT !["req"] = [Idle EXCEPT !.pc = "start", !.kind = "insight",
                                                            !.dates = Dates("insight")]]
    BY <1>3 DEF ClientAsks, RequestHistory
  <2> QED BY <2>1, <2>2, StartKeeps, StayKeeps, BegunIsTask, DatesAreDays DEF Runners, Kinds
<1>4. CASE PollClaims \/ MakeInsight \/ Trouble \/ UNCHANGED fetchvars
  BY <1>4, StayKeeps DEF PollClaims, MakeInsight, Trouble, fetchvars
<1>5. CASE FetchTick
  BY <1>5, TickKeeps
<1> QED BY <1>1, <1>2, <1>3, <1>4, <1>5 DEF FetchNext, Run

\* Only the arrival of its answer takes a runner out of "answered".
LEMMA OnlyArrivals ==
  ASSUME FetchInv, FetchNext, NEW t \in Runners, tasks[t].pc = "answered", tasks'[t].pc # "answered"
  PROVE  Arrive(t)
<1>1. ASSUME NEW u \in Runners, Probe(u) \/ Acquire(u) \/ CloudAnswers(u) \/ Arrive(u) \/ Fail(u)
      PROVE  Arrive(t)
  <2>1. \/ Arrive(u)
        \/ tasks[u].pc # "answered" /\ \A v \in Runners \ {u} : tasks'[v] = tasks[v]
    BY <1>1, ProceedFacts
       DEF Probe, Acquire, CloudAnswers, Fail, Serve, FetchInv, FetchTypeOK
  <2>2. CASE Arrive(u)
    BY <2>2, ProceedFacts DEF Arrive, FetchInv
  <2> QED BY <2>1, <2>2
<1>2. CASE Schedule
  BY <1>2 DEF Schedule, FetchInv, FetchTypeOK
<1>3. CASE ClientAsks
  BY <1>3 DEF ClientAsks, RequestHistory, FetchInv, FetchTypeOK
<1>4. CASE PollClaims \/ MakeInsight \/ Trouble
  BY <1>4 DEF PollClaims, MakeInsight, Trouble
<1>5. CASE FetchTick
  <2>1. tasks' = [u \in Runners |-> IF tasks[u].pc = "idle" THEN Idle
                    ELSE [tasks[u] EXCEPT !.wait = @ + 1, !.age = Older(@)]]
    BY <1>5 DEF FetchTick
  <2>2. tasks'[t] = [tasks[t] EXCEPT !.wait = @ + 1, !.age = Older(@)]
    BY <2>1
  <2> QED BY <2>2 DEF FetchInv, FetchTypeOK, Task
<1> QED BY <1>1, <1>2, <1>3, <1>4, <1>5 DEF FetchNext, Run

\* For any latencies of the cloud, any ages and any number of requests: the
\* one lock per kind makes every answer that is stored at least as young as
\* each row it replaces (inflight_lock, daily_history, daily_insight).
THEOREM CacheStaysAhead == FetchSpec => CacheNeverGoesBack
<1>1. FetchInv /\ [FetchNext]_fetchvars =>
        [\A t \in Runners : tasks[t].pc = "answered" /\ tasks'[t].pc # "answered"
            => \A k \in Kinds, d \in Dates("history") : rows'[k][d].age <= rows[k][d].age]_fetchvars
  BY OnlyArrivals, ArriveFacts
<1> QED BY <1>1, InitFetch, NextFetch, PTL DEF FetchSpec, CacheNeverGoesBack

(***************************************************************************)
(* How late the card and the insight may be.                               *)

\* The cloud answers and the session holds.
Well == auth /\ cloud = "up"
Asks(t, kind) == tasks[t].pc \in {"call", "answered"} /\ tasks[t].kind = kind
\* An answer that will not reach the card, and one that says there is no
\* insight: each was given before the time in question began.
Partial(t) ==
    /\ tasks[t].pc = "answered" /\ tasks[t].kind = "history"
    /\ ~(tasks[t].got = Dates("history") /\ tasks[t].says = "ready")
Unmade(t) ==
    /\ tasks[t].pc = "answered" /\ tasks[t].kind = "insight" /\ tasks[t].says # "ready"

Cards == [source : {"none", "cloud", "mac", "empty"}, age : Ages]
ClocksInStep ==
    /\ since \in 0..Interval /\ troubles \in 0..MaxTroubles /\ up \in Nat /\ unseen \in Nat
    /\ card \in Cards /\ insight \in [made : BOOLEAN, claimed : BOOLEAN]
    /\ unseen <= up /\ (up > 0 => Well) /\ (unseen > 0 => insight.made)
TaskInTime(t) ==
    /\ tasks[t].pc # "idle" => tasks[t].dates = Dates(tasks[t].kind)
    /\ tasks[t].pc \in {"call", "answered"} => tasks[t].wait <= Timeout
    /\ tasks[t].pc = "answered" => tasks[t].age <= tasks[t].wait
    /\ tasks[t].pc = "answered" /\ tasks[t].kind = "insight"
          => tasks[t].got = {0} /\ (tasks[t].says = "ready" => insight.made)
    /\ Partial(t) => up <= tasks[t].wait
    /\ Unmade(t) => unseen <= tasks[t].wait
TasksInTime == \A t \in Runners : TaskInTime(t)
LocksAreHeld == \A k \in Kinds : locks[k] # Nobody => Asks(locks[k], k)
HistoryInTime ==
    \A d \in Dates("history") :
        /\ rows["history"][d].left <= CacheTtl["history"]
        /\ rows["history"][d].left > 0
              => rows["history"][d].left + rows["history"][d].age <= Timeout + CacheTtl["history"]
Row0 == rows["insight"][0]
InsightInTime ==
    /\ Row0.says = "ready" => insight.made /\ Row0.left <= CacheTtl["insight"]
    /\ Row0.says # "ready" => Row0.left <= CacheTtl["negative"]
InTime == ClocksInStep /\ TasksInTime /\ LocksAreHeld /\ HistoryInTime /\ InsightInTime

----------------------------------------------------------------------------
LEMMA Latencies ==
  /\ Timeout \in Nat /\ Interval \in Nat /\ Interval > 0 /\ Lag \in Nat /\ MaxTroubles \in Nat
  /\ MaxAge \in Nat /\ Days \in Nat /\ Days > 0
  /\ CacheTtl["history"] > 0
  /\ CacheTtl["history"] \in Nat /\ CacheTtl["insight"] \in Nat /\ CacheTtl["negative"] \in Nat
BY FetchAssumption

LEMMA DayZero == 0 \in Dates("history") /\ Dates("insight") = {0} /\ Dates("history") \subseteq Nat
BY Latencies DEF Dates

LEMMA InitInTime == FetchInit => InTime
<1> SUFFICES ASSUME FetchInit PROVE InTime
  OBVIOUS
<1>1. /\ tasks = [t \in Runners |-> Idle] /\ Idle.pc = "idle"
      /\ rows = [k \in Kinds |-> [d \in Dates("history") |-> NoRow]]
      /\ locks = [k \in Kinds |-> Nobody]
      /\ since = 0 /\ up = 0 /\ unseen = 0 /\ troubles = 0
      /\ card = [source |-> "none", age |-> MaxAge]
      /\ insight = [made |-> FALSE, claimed |-> FALSE]
  BY IdleIsTask DEF FetchInit
<1>2. NoRow.left = 0 /\ NoRow.says = "none"
  BY DEF NoRow
<1>3. ClocksInStep
  BY <1>1, Latencies DEF ClocksInStep, Cards, Ages
<1>4. TasksInTime /\ LocksAreHeld
  BY <1>1 DEF TasksInTime, TaskInTime, LocksAreHeld, Partial, Unmade
<1>5. HistoryInTime /\ InsightInTime
  BY <1>1, <1>2, Latencies, DayZero DEF HistoryInTime, InsightInTime, Row0, Kinds
<1> QED BY <1>3, <1>4, <1>5 DEF InTime

----------------------------------------------------------------------------
(* What a step of a runner may be.                                         *)

Refreshers == {"sched", "overlap"}
Begins(kind) == [Idle EXCEPT !.pc = "start", !.kind = kind, !.dates = Dates(kind)]

\* Done with its kind, runner t asks for the insight next, or is idle.
MovesOn(t) ==
    /\ tasks' \in [Runners -> Task] /\ \A u \in Runners \ {t} : tasks'[u] = tasks[u]
    /\ \/ tasks'[t] = Idle /\ (t \in Refreshers => tasks[t].kind = "insight")
       \/ tasks'[t] = Begins("insight") /\ t \in Refreshers /\ tasks[t].kind = "history"

LEMMA BegunFacts ==
  ASSUME NEW kind \in Kinds
  PROVE  /\ Begins(kind) \in Task /\ Begins(kind).pc = "start" /\ Begins(kind).kind = kind
         /\ Begins(kind).dates = Dates(kind)
BY IdleIsTask, DatesAreDays DEF Begins, Task

LEMMA ProceedMovesOn ==
  ASSUME FetchTypeOK, NEW t \in Runners, tasks' = Proceed(t)
  PROVE  MovesOn(t)
<1>1. tasks \in [Runners -> Task] /\ tasks[t].kind \in Kinds
  BY DEF FetchTypeOK, Task
<1>2. CASE t # "req" /\ tasks[t].kind = "history"
  <2>1. tasks' = [tasks EXCEPT ![t] = Begins("insight")]
    BY <1>2 DEF Proceed, Begins
  <2> QED BY <1>1, <1>2, <2>1, BegunFacts DEF MovesOn, Runners, Refreshers, Kinds
<1>3. CASE ~(t # "req" /\ tasks[t].kind = "history")
  <2>1. tasks' = [tasks EXCEPT ![t] = Idle]
    BY <1>3 DEF Proceed, Finish
  <2> QED BY <1>1, <1>3, <2>1, IdleIsTask DEF MovesOn, Runners, Refreshers, Kinds
<1> QED BY <1>2, <1>3

IsFresh(kind) == \A d \in Dates(kind) : rows[kind][d].left > 0

\* A runner that has the answer in the cache, that has to queue for the lock,
\* that has it, and that has the answer.
Served(t) ==
    /\ tasks[t].pc \in {"start", "queue"} /\ MovesOn(t) /\ IsFresh(tasks[t].kind)
    /\ UNCHANGED <<locks, troubles>>
    /\ \/ UNCHANGED card
       \/ t = "req" /\ tasks[t].kind = "history" /\ card' \in CachedHistory(Dates("history"))
    /\ IF t = "req" /\ tasks[t].kind = "insight" THEN onScreen' = (Row0.says = "ready")
       ELSE UNCHANGED onScreen
Misses(t) ==
    /\ troubles' = IF IsFresh(tasks[t].kind) THEN troubles + 1 ELSE troubles
    /\ troubles' <= MaxTroubles /\ UNCHANGED <<card, onScreen>>
Stands(t, p) ==
    /\ tasks' \in [Runners -> Task] /\ \A u \in Runners \ {t} : tasks'[u] = tasks[u]
    /\ tasks'[t].pc = p /\ tasks'[t].kind = tasks[t].kind /\ tasks'[t].dates = tasks[t].dates
Queued(t) ==
    /\ tasks[t].pc = "start" /\ Stands(t, "queue") /\ UNCHANGED locks /\ Misses(t)
Called(t) ==
    /\ tasks[t].pc = "queue" /\ Stands(t, "call") /\ tasks'[t].wait = 0
    /\ locks[tasks[t].kind] = Nobody /\ locks' = [locks EXCEPT ![tasks[t].kind] = t] /\ Misses(t)
Answered(t) ==
    /\ tasks[t].pc = "call" /\ Stands(t, "answered") /\ tasks'[t].wait = tasks[t].wait
    /\ tasks'[t].age = 0 /\ tasks'[t].got = CloudDates(tasks[t].kind)
    /\ tasks'[t].says = Says(tasks[t].kind)
    /\ auth /\ cloud # "down" /\ UNCHANGED <<locks, troubles, card, onScreen>>
Still == UNCHANGED <<auth, cloud, rows, since, insight, up, unseen>>

LEMMA FreshIsFresh ==
  ASSUME InTime, NEW t \in Runners, tasks[t].pc # "idle"
  PROVE  /\ tasks[t].dates = Dates(tasks[t].kind)
         /\ Fresh(tasks[t].kind, tasks[t].dates) <=> IsFresh(tasks[t].kind)
BY DEF InTime, TasksInTime, TaskInTime, Fresh, IsFresh

LEMMA ServeIsServed ==
  ASSUME FetchInv, InTime, NEW t \in Runners, tasks[t].pc \in {"start", "queue"},
         Fresh(tasks[t].kind, tasks[t].dates), Serve(t), UNCHANGED <<locks, troubles>>
  PROVE  Served(t)
<1>1. tasks[t].dates = Dates(tasks[t].kind) /\ IsFresh(tasks[t].kind) /\ tasks[t].kind \in Kinds
  BY FreshIsFresh DEF FetchInv, FetchTypeOK, Task
<1>2. MovesOn(t)
  BY ProceedMovesOn DEF Serve, FetchInv
<1>3. \/ UNCHANGED card
      \/ t = "req" /\ tasks[t].kind = "history" /\ card' \in CachedHistory(Dates("history"))
  BY <1>1 DEF Serve
<1>4. IF t = "req" /\ tasks[t].kind = "insight" THEN onScreen' = (Row0.says = "ready") ELSE UNCHANGED onScreen
  <2>1. CASE t = "req" /\ tasks[t].kind = "insight"
    <3>1. onScreen' = \A d \in tasks[t].dates : rows["insight"][d].says = "ready"
      BY <2>1 DEF Serve
    <3>2. tasks[t].dates = {0}
      BY <1>1, <2>1, DayZero
    <3> QED BY <2>1, <3>1, <3>2 DEF Row0
  <2>2. CASE ~(t = "req" /\ tasks[t].kind = "insight")
    BY <2>2 DEF Serve
  <2> QED BY <2>1, <2>2
<1> QED BY <1>1, <1>2, <1>3, <1>4 DEF Served

LEMMA MissMisses ==
  ASSUME InTime, NEW t \in Runners, tasks[t].pc # "idle", Miss(t), UNCHANGED <<card, onScreen>>
  PROVE  Misses(t)
BY FreshIsFresh, Latencies DEF Miss, Misses, InTime, ClocksInStep

LEMMA ProbeSteps ==
  ASSUME FetchInv, InTime, NEW t \in Runners, Probe(t)
  PROVE  Still /\ (Served(t) \/ Queued(t))
<1>1. Still /\ tasks[t].pc = "start" /\ UNCHANGED locks
  BY DEF Probe, Still
<1>2. CASE Fresh(tasks[t].kind, tasks[t].dates) /\ Serve(t) /\ UNCHANGED troubles
  BY <1>1, <1>2, ServeIsServed
<1>3. CASE Miss(t) /\ tasks' = [tasks EXCEPT ![t].pc = "queue"] /\ UNCHANGED <<card, onScreen>>
  <2>1. Misses(t)
    BY <1>1, <1>3, MissMisses
  <2>2. Stands(t, "queue")
    BY <1>3 DEF Stands, FetchInv, FetchTypeOK, Task
  <2> QED BY <1>1, <2>1, <2>2 DEF Queued
<1> QED BY <1>1, <1>2, <1>3 DEF Probe

LEMMA AcquireSteps ==
  ASSUME FetchInv, InTime, NEW t \in Runners, Acquire(t)
  PROVE  Still /\ (Served(t) \/ Called(t))
<1>1. Still /\ tasks[t].pc = "queue" /\ locks[tasks[t].kind] = Nobody
  BY DEF Acquire, Still, LockFree
<1>2. CASE Fresh(tasks[t].kind, tasks[t].dates) /\ Serve(t) /\ UNCHANGED <<locks, troubles>>
  BY <1>1, <1>2, ServeIsServed
<1>3. CASE /\ Miss(t) /\ tasks' = [tasks EXCEPT ![t].pc = "call", ![t].wait = 0]
           /\ locks' = [locks EXCEPT ![tasks[t].kind] = t] /\ UNCHANGED <<card, onScreen>>
  <2>1. Misses(t)
    BY <1>1, <1>3, MissMisses
  <2>2. Stands(t, "call") /\ tasks'[t].wait = 0
    BY <1>3 DEF Stands, FetchInv, FetchTypeOK, Task
  <2> QED BY <1>1, <1>3, <2>1, <2>2 DEF Called
<1> QED BY <1>1, <1>2, <1>3 DEF Acquire

LEMMA CloudAnswersSteps ==
  ASSUME FetchInv, InTime, NEW t \in Runners, CloudAnswers(t)
  PROVE  Still /\ Answered(t)
<1> DEFINE new == [tasks[t] EXCEPT !.pc = "answered", !.age = 0, !.got = CloudDates(tasks[t].kind),
                                   !.says = Says(tasks[t].kind)]
<1>1. tasks[t] \in Task /\ tasks \in [Runners -> Task] /\ tasks' \in [Runners -> Task]
  BY CloudAnswersKeeps DEF FetchInv, FetchTypeOK
<1>2. tasks' = [tasks EXCEPT ![t] = new] /\ tasks[t].pc = "call"
  BY <1>1 DEF CloudAnswers
<1>3. /\ new.pc = "answered" /\ new.age = 0 /\ new.got = CloudDates(tasks[t].kind)
      /\ new.says = Says(tasks[t].kind) /\ new.kind = tasks[t].kind
      /\ new.wait = tasks[t].wait /\ new.dates = tasks[t].dates
  BY <1>1 DEF Task
<1> HIDE DEF new
<1>4. tasks'[t] = new /\ \A u \in Runners \ {t} : tasks'[u] = tasks[u]
  BY <1>1, <1>2
<1> QED BY <1>1, <1>2, <1>3, <1>4 DEF Answered, Stands, Still, CloudAnswers

LEMMA LeastExists ==
    ASSUME NEW T, T \subseteq Nat, T # {}
    PROVE  \E m \in T : \A n \in T : m <= n
  <1>1. PICK m \in T : \A n \in T : ~ (<<n, m>> \in OpToRel(<, Nat))
    BY NatLessThanWellFounded, WFMin
  <1>2. ASSUME NEW a \in Nat, NEW b \in Nat, a < b PROVE <<a, b>> \in OpToRel(<, Nat)
    <2>1. <<a, b>> \in Nat \X Nat /\ <<a, b>>[1] = a /\ <<a, b>>[2] = b
      OBVIOUS
    <2> QED
      BY <1>2, <2>1 DEF OpToRel
  <1>3. ASSUME NEW n \in T PROVE m <= n
    <2>1. n \in Nat /\ m \in Nat
      OBVIOUS
    <2>2. ~(n < m)
      BY <1>1, <1>2, <2>1
    <2> QED
      BY <2>1, <2>2
  <1> QED
    BY <1>3

LEMMA GreatestExists ==
    ASSUME NEW S, NEW k \in Nat, S \subseteq 0..k, S # {}
    PROVE  \E m \in S : \A n \in S : n <= m
  <1> DEFINE T == {b \in Nat : \A n \in S : n <= b}
  <1>1. k \in T
    OBVIOUS
  <1>2. PICK b \in T : \A n \in T : b <= n
    BY <1>1, LeastExists
  <1>3. b \in S
    <2>1. CASE b = 0
      <3>1. \A n \in S : n = 0
        BY <1>2, <2>1
      <3> QED
        BY <2>1, <3>1
    <2>2. ASSUME b # 0, b \notin S PROVE FALSE
      <3>1. b - 1 \in T
        BY <2>2
      <3> QED
        BY <1>2, <2>2, <3>1
    <2> QED
      BY <2>1, <2>2
  <1> QED
    BY <1>2, <1>3

LEMMA MaxFacts ==
  ASSUME NEW S, NEW k \in Nat, S \subseteq 0 .. k, S # {}
  PROVE  Max(S) \in S /\ \A n \in S : n <= Max(S)
<1>1. \E m \in S : \A n \in S : m >= n
  BY GreatestExists
<1> QED BY <1>1 DEF Max


\* What a request shows of the cache is as young as the life left to a row tells.
LEMMA CachedAge ==
  ASSUME FetchInv, InTime, IsFresh("history"), NEW c \in CachedHistory(Dates("history"))
  PROVE  /\ c \in Cards
         /\ \E d \in Dates("history") :
               c.age + rows["history"][d].left <= Timeout + CacheTtl["history"]
<1> DEFINE H == rows["history"]
           S == {H[d].age : d \in Dates("history")}
<1>1. H \in [Dates("history") -> CacheRow] /\ 0 \in Dates("history") /\ MaxAge \in Nat
  BY DayZero, Latencies DEF FetchInv, FetchTypeOK, Kinds
<1>2. \A d \in Dates("history") :
         /\ H[d].age \in 0..MaxAge /\ H[d].left \in Int /\ H[d].left > 0
         /\ H[d].left <= CacheTtl["history"] /\ H[d].age + H[d].left <= Timeout + CacheTtl["history"]
  <2> SUFFICES ASSUME NEW d \in Dates("history")
               PROVE  /\ H[d].age \in 0..MaxAge /\ H[d].left \in Int /\ H[d].left > 0
                      /\ H[d].left <= CacheTtl["history"]
                      /\ H[d].age + H[d].left <= Timeout + CacheTtl["history"]
    OBVIOUS
  <2>1. H[d].age \in 0..MaxAge /\ H[d].left \in Int
    BY <1>1 DEF CacheRow, Ages
  <2>2. H[d].left > 0
    BY DEF IsFresh
  <2>3. H[d].left <= CacheTtl["history"] /\ H[d].left + H[d].age <= Timeout + CacheTtl["history"]
    BY <2>2 DEF InTime, HistoryInTime
  <2> QED BY <2>1, <2>2, <2>3, Latencies
<1>3. CASE c \in LocalHistory
  <2>1. c.age = 0
    BY <1>3 DEF LocalHistory
  <2>2. 0 + H[0].left <= Timeout + CacheTtl["history"]
    BY <1>1, <1>2, Latencies
  <2> QED BY <1>1, <1>3, <2>1, <2>2 DEF Ages, Cards, LocalHistory
<1>4. CASE c = [source |-> "cloud", age |-> Max(S)]
  <2>1. S \subseteq 0..MaxAge /\ S # {}
    BY <1>1, <1>2
  <2>2. Max(S) \in S
    BY <1>1, <2>1, MaxFacts
  <2>3. PICK d \in Dates("history") : c.age = H[d].age
    BY <1>4, <2>2
  <2>4. c \in Cards
    BY <1>2, <1>4, <2>3 DEF Ages, Cards
  <2> QED BY <1>2, <2>3, <2>4
<1> QED BY <1>3, <1>4 DEF CachedHistory

----------------------------------------------------------------------------
(* The clocks stay in step.                                                *)

LEMMA StepsKeepClocks ==
  ASSUME FetchInv, InTime, Still, NEW t \in Runners, Served(t) \/ Queued(t) \/ Called(t) \/ Answered(t)
  PROVE  ClocksInStep'
<1>1. troubles' \in 0..MaxTroubles
  BY Latencies DEF InTime, ClocksInStep, Served, Queued, Called, Answered, Misses
<1>2. card' \in Cards
  <2>1. CASE UNCHANGED card
    BY <2>1 DEF InTime, ClocksInStep
  <2>2. CASE Served(t) /\ tasks[t].kind = "history" /\ card' \in CachedHistory(Dates("history"))
    BY <2>2, CachedAge DEF Served
  <2> QED BY <2>1, <2>2 DEF Served, Queued, Called, Answered, Misses
<1> QED BY <1>1, <1>2 DEF InTime, ClocksInStep, Still, Well

\* What holds of a runner that only queues, or begins, or is idle.
LEMMA AsideInTime ==
  ASSUME NEW t \in Runners, tasks'[t].pc \in {"start", "queue", "idle"},
         tasks'[t].pc = "idle" \/ tasks'[t].dates = Dates(tasks'[t].kind)
  PROVE  TaskInTime(t)'
BY DEF TaskInTime, Partial, Unmade, Dates

\* A runner that takes no step stays in time while the clocks do not advance.
LEMMA SameInTime ==
  ASSUME InTime, FetchTypeOK, NEW t \in Runners, tasks'[t] = tasks[t],
         up' \in Nat, unseen' \in Nat, up' <= up, unseen' <= unseen, insight.made => insight'.made
  PROVE  TaskInTime(t)'
<1>1. tasks[t].wait \in Nat /\ up \in Nat /\ unseen \in Nat /\ TaskInTime(t)
  BY DEF InTime, ClocksInStep, TasksInTime, FetchTypeOK, Task
<1> QED BY <1>1 DEF TaskInTime, Partial, Unmade, Dates

\* What the cloud answers while all is well reaches the card and the screen.
LEMMA AnsweredInTime ==
  ASSUME FetchInv, InTime, Still, NEW t \in Runners, Answered(t)
  PROVE  /\ TaskInTime(t)'
         /\ Partial(t)' => ~Well
         /\ Unmade(t)' => ~insight.made
<1>1. /\ tasks[t] \in Task /\ tasks[t].kind \in Kinds /\ tasks[t].wait \in Nat
      /\ tasks[t].wait <= Timeout /\ tasks[t].dates = Dates(tasks[t].kind)
      /\ tasks'[t].pc = "answered" /\ tasks'[t].kind = tasks[t].kind
      /\ tasks'[t].dates = Dates(tasks[t].kind)
      /\ tasks'[t].wait = tasks[t].wait /\ tasks'[t].age = 0
      /\ tasks'[t].got = CloudDates(tasks[t].kind) /\ tasks'[t].says = Says(tasks[t].kind)
  BY DEF FetchInv, FetchTypeOK, Task, InTime, TasksInTime, TaskInTime, Answered, Stands
<1>2. Well /\ tasks[t].kind = "history" =>
         CloudDates(tasks[t].kind) = Dates("history") /\ Says(tasks[t].kind) = "ready"
  BY DEF Well, CloudDates, Says
<1>3. tasks[t].kind = "insight" =>
         /\ CloudDates(tasks[t].kind) = {0}
         /\ Says(tasks[t].kind) = IF insight.made THEN "ready" ELSE "negative"
  BY DEF CloudDates, Says
<1>4. /\ insight' = insight /\ up' = up /\ unseen' = unseen /\ up \in Nat /\ unseen \in Nat
      /\ (up > 0 => Well) /\ (unseen > 0 => insight.made)
  BY DEF Still, InTime, ClocksInStep
<1>5. Partial(t)' => ~Well
  BY <1>1, <1>2 DEF Partial, Dates
<1>6. Unmade(t)' => ~insight.made
  BY <1>1, <1>3 DEF Unmade
<1>7. Partial(t)' => up' <= tasks'[t].wait
  BY <1>1, <1>4, <1>5
<1>8. Unmade(t)' => unseen' <= tasks'[t].wait
  BY <1>1, <1>4, <1>6
<1>9. TaskInTime(t)'
  BY <1>1, <1>3, <1>4, <1>7, <1>8 DEF TaskInTime, Dates
<1> QED BY <1>5, <1>6, <1>9

LEMMA StepsKeepTasks ==
  ASSUME FetchInv, InTime, Still, NEW t \in Runners, Served(t) \/ Queued(t) \/ Called(t) \/ Answered(t)
  PROVE  TasksInTime' /\ LocksAreHeld'
<1>1. \A u \in Runners \ {t} : tasks'[u] = tasks[u]
  BY DEF Served, Queued, Called, Answered, MovesOn, Stands
<1>2. \A u \in Runners \ {t} : TaskInTime(u)'
  BY <1>1, SameInTime DEF Still, InTime, ClocksInStep, FetchInv
<1>3. tasks[t].kind \in Kinds /\ (tasks[t].pc # "idle" => tasks[t].dates = Dates(tasks[t].kind))
  BY DEF FetchInv, FetchTypeOK, Task, InTime, TasksInTime, TaskInTime
<1>4. TaskInTime(t)'
  <2>1. CASE Served(t)
    BY <2>1, AsideInTime, BegunFacts, IdleIsTask DEF Served, MovesOn, Kinds
  <2>2. CASE Queued(t)
    BY <1>3, <2>2, AsideInTime DEF Queued, Stands
  <2>3. CASE Called(t)
    BY <1>3, <2>3, Latencies DEF Called, Stands, TaskInTime, Partial, Unmade, Dates
  <2> QED BY <2>1, <2>2, <2>3, AnsweredInTime
<1>5. LocksAreHeld'
  <2> SUFFICES ASSUME NEW k \in Kinds, locks'[k] # Nobody PROVE Asks(locks[k], k)'
    BY DEF LocksAreHeld, Asks
  <2>1. locks[k] # Nobody => locks[k] \in Runners /\ Asks(locks[k], k)
    BY DEF InTime, LocksAreHeld, FetchInv, FetchTypeOK
  <2>2. CASE Called(t) /\ k = tasks[t].kind
    BY <1>3, <2>2 DEF Called, Stands, Asks, FetchInv, FetchTypeOK
  <2>3. CASE ~(Called(t) /\ k = tasks[t].kind)
    <3>1. locks'[k] = locks[k]
      BY <1>3, <2>3 DEF Served, Queued, Called, Answered, FetchInv, FetchTypeOK
    <3>2. CASE locks[k] = t
      BY <2>1, <2>3, <3>1, <3>2 DEF Served, Queued, Called, Answered, Stands, Asks
    <3>3. CASE locks[k] # t
      BY <1>1, <2>1, <3>1, <3>3 DEF Asks
    <3> QED BY <3>2, <3>3
  <2> QED BY <2>2, <2>3
<1> QED BY <1>2, <1>4, <1>5 DEF TasksInTime

LEMMA StepsKeepTime ==
  ASSUME FetchInv, InTime, Still, NEW t \in Runners, Served(t) \/ Queued(t) \/ Called(t) \/ Answered(t)
  PROVE  InTime'
<1>1. HistoryInTime' /\ InsightInTime'
  BY DEF InTime, Still, HistoryInTime, InsightInTime, Row0, Dates
<1> QED BY <1>1, StepsKeepClocks, StepsKeepTasks DEF InTime

\* What the arrival of an answer leaves in the cache, and what it frees.
Arrived(t) ==
    /\ tasks[t].pc = "answered" /\ locks[tasks[t].kind] = t /\ MovesOn(t)
    /\ locks' = [k \in Kinds |-> IF k = tasks[t].kind THEN Nobody ELSE locks[k]]
    /\ UNCHANGED <<auth, cloud, since, insight, up, unseen, troubles>>
    /\ IF tasks[t].kind = "history"
       THEN /\ rows'["insight"] = rows["insight"] /\ UNCHANGED onScreen
            /\ \A d \in Dates("history") :
                  IF d \in tasks[t].got
                  THEN /\ rows'["history"][d].age = tasks[t].age
                       /\ rows'["history"][d].left = CacheTtl["history"]
                  ELSE rows'["history"][d] = rows["history"][d]
            /\ card' \in Cards
            /\ ~Partial(t) => card'.age = tasks[t].age
       ELSE /\ rows'["history"] = rows["history"] /\ UNCHANGED card
            /\ rows'["insight"][0].says = tasks[t].says
            /\ rows'["insight"][0].left =
                  CacheTtl[IF tasks[t].says = "ready" THEN "insight" ELSE "negative"] - tasks[t].wait
            /\ tasks[t].says = "ready" => onScreen'

LEMMA OnlyItsLock ==
  ASSUME FetchInv, InTime, NEW t \in Runners, Unlock(t), tasks[t].pc \in {"call", "answered"}
  PROVE  locks' = [k \in Kinds |-> IF k = tasks[t].kind THEN Nobody ELSE locks[k]]
<1>1. \A k \in Kinds : locks[k] = t <=> k = tasks[t].kind
  BY DEF FetchInv, FetchTypeOK, CallsHoldLocks, Task, InTime, LocksAreHeld, Asks, Runners, Nobody
<1> QED BY <1>1 DEF Unlock

LEMMA ArriveArrives ==
  ASSUME FetchInv, InTime, NEW t \in Runners, Arrive(t)
  PROVE  Arrived(t)
<1>1. /\ tasks[t].pc = "answered" /\ tasks[t].kind \in Kinds /\ locks[tasks[t].kind] = t
      /\ rows' \in [Kinds -> [Dates("history") -> CacheRow]]
  BY ArriveFacts
<1>2. MovesOn(t)
  BY ProceedMovesOn DEF Arrive, FetchInv
<1>3. locks' = [k \in Kinds |-> IF k = tasks[t].kind THEN Nobody ELSE locks[k]]
  BY <1>1, OnlyItsLock DEF Arrive
<1>4. UNCHANGED <<auth, cloud, since, insight, up, unseen, troubles>>
  BY DEF Arrive
<1>5. /\ rows' = [rows EXCEPT ![tasks[t].kind] = Stored(tasks[t])]
      /\ Stored(tasks[t]) = [d \in Dates("history") |->
            IF d \notin tasks[t].got THEN rows[tasks[t].kind][d]
            ELSE [age |-> tasks[t].age, says |-> tasks[t].says,
                  left |-> IF tasks[t].kind = "history" THEN CacheTtl["history"]
                           ELSE CacheTtl[IF tasks[t].says = "ready" THEN "insight" ELSE "negative"]
                                - tasks[t].wait]]
  BY DEF Arrive, Stored
<1>6. rows'[tasks[t].kind] = Stored(tasks[t]) /\ \A k \in Kinds : k # tasks[t].kind => rows'[k] = rows[k]
  BY <1>1, <1>5 DEF FetchInv, FetchTypeOK
<1>7. tasks[t].age \in Ages /\ 0 \in Ages /\ card \in Cards
  BY Latencies DEF FetchInv, FetchTypeOK, Task, InTime, ClocksInStep, Ages
<1>8. CASE tasks[t].kind = "history"
  <2>1. rows'["insight"] = rows["insight"] /\ UNCHANGED onScreen
    BY <1>6, <1>8 DEF Kinds, Arrive
  <2>2. \A d \in Dates("history") :
           IF d \in tasks[t].got
           THEN rows'["history"][d].age = tasks[t].age /\ rows'["history"][d].left = CacheTtl["history"]
           ELSE rows'["history"][d] = rows["history"][d]
    BY <1>5, <1>6, <1>8
  <2>3. /\ card' \in {card, [source |-> "cloud", age |-> tasks[t].age]} \cup LocalHistory
        /\ tasks[t].got # {} /\ tasks[t].says = "ready"
              => card' = [source |-> "cloud", age |-> tasks[t].age]
    <3>1. card' \in CASE tasks[t].got = {} -> IF t = "req" THEN LocalHistory ELSE {card}
                      [] tasks[t].got # {} /\ tasks[t].says = "bare" ->
                            IF t = "req" THEN {[source |-> "cloud", age |-> tasks[t].age]} \cup LocalHistory
                            ELSE {card}
                      [] tasks[t].got # {} /\ tasks[t].says # "bare" ->
                            {[source |-> "cloud", age |-> tasks[t].age]}
      BY <1>8 DEF Arrive
    <3> HIDE DEF LocalHistory
    <3>2. CASE tasks[t].got = {}
      BY <3>1, <3>2
    <3>3. CASE tasks[t].got # {} /\ tasks[t].says = "bare"
      BY <3>1, <3>3
    <3>4. CASE tasks[t].got # {} /\ tasks[t].says # "bare"
      BY <3>1, <3>4
    <3> QED BY <3>2, <3>3, <3>4
  <2>4. card' \in Cards
    BY <1>7, <2>3 DEF LocalHistory, Cards
  <2>5. ~Partial(t) => card'.age = tasks[t].age
    BY <1>1, <1>8, <2>3, DayZero DEF Partial
  <2> QED BY <1>1, <1>2, <1>3, <1>4, <1>8, <2>1, <2>2, <2>4, <2>5 DEF Arrived
<1>9. CASE tasks[t].kind = "insight"
  <2>1. rows'["history"] = rows["history"] /\ UNCHANGED card
    BY <1>6, <1>9 DEF Kinds, Arrive
  <2>2. tasks[t].got = {0}
    BY <1>1, <1>9 DEF InTime, TasksInTime, TaskInTime
  <2>3. rows'["insight"][0] = [age |-> tasks[t].age, says |-> tasks[t].says,
           left |-> CacheTtl[IF tasks[t].says = "ready" THEN "insight" ELSE "negative"] - tasks[t].wait]
    BY <1>5, <1>6, <1>9, <2>2, DayZero
  <2>4. tasks[t].says = "ready" => onScreen'
    BY <1>9 DEF Arrive
  <2> QED BY <1>1, <1>2, <1>3, <1>4, <1>9, <2>1, <2>3, <2>4 DEF Arrived
<1> QED BY <1>1, <1>8, <1>9 DEF Kinds

LEMMA FreedLocks ==
  ASSUME FetchInv, InTime, NEW t \in Runners, \A u \in Runners \ {t} : tasks'[u] = tasks[u],
         tasks[t].kind \in Kinds, locks[tasks[t].kind] = t,
         locks' = [k \in Kinds |-> IF k = tasks[t].kind THEN Nobody ELSE locks[k]]
  PROVE  LocksAreHeld'
<1> SUFFICES ASSUME NEW k \in Kinds, locks'[k] # Nobody PROVE Asks(locks[k], k)'
  BY DEF LocksAreHeld
<1>1. locks'[k] = locks[k] /\ k # tasks[t].kind /\ locks[k] \in Runners /\ Asks(locks[k], k)
  BY DEF InTime, LocksAreHeld, FetchInv, FetchTypeOK
<1>2. locks[k] # t
  BY <1>1 DEF Asks
<1> QED BY <1>1, <1>2 DEF Asks

LEMMA MovesOnInTime ==
  ASSUME FetchInv, InTime, NEW t \in Runners, MovesOn(t), UNCHANGED <<up, unseen, insight>>
  PROVE  TasksInTime'
<1>1. \A u \in Runners \ {t} : TaskInTime(u)'
  BY SameInTime DEF MovesOn, InTime, ClocksInStep, FetchInv
<1>2. TaskInTime(t)'
  BY AsideInTime, BegunFacts, IdleIsTask DEF MovesOn, Kinds
<1> QED BY <1>1, <1>2 DEF TasksInTime

LEMMA ArriveKeepsTime ==
  ASSUME FetchInv, InTime, NEW t \in Runners, Arrived(t)
  PROVE  InTime'
<1>1. /\ tasks[t] \in Task /\ tasks[t].kind \in Kinds /\ tasks[t].wait \in Nat /\ tasks[t].age \in Nat
      /\ tasks[t].wait <= Timeout /\ tasks[t].age <= tasks[t].wait
      /\ (tasks[t].kind = "insight" /\ tasks[t].says = "ready" => insight.made)
  BY Latencies DEF FetchInv, FetchTypeOK, Task, Ages, InTime, TasksInTime, TaskInTime, Arrived
<1>2. TasksInTime' /\ LocksAreHeld'
  BY <1>1, MovesOnInTime, FreedLocks DEF Arrived, MovesOn
<1>3. ClocksInStep'
  BY <1>1, Latencies DEF Arrived, InTime, ClocksInStep, Well, Kinds
<1>4. HistoryInTime'
  <2> SUFFICES ASSUME NEW d \in Dates("history")
               PROVE  /\ rows'["history"][d].left <= CacheTtl["history"]
                      /\ rows'["history"][d].left > 0
                            => rows'["history"][d].left + rows'["history"][d].age
                                 <= Timeout + CacheTtl["history"]
    BY DEF HistoryInTime, Dates
  <2>1. CASE rows'["history"][d] = rows["history"][d]
    BY <2>1 DEF InTime, HistoryInTime
  <2>2. CASE rows'["history"][d].age = tasks[t].age /\ rows'["history"][d].left = CacheTtl["history"]
    BY <1>1, <2>2, Latencies
  <2> QED BY <1>1, <2>1, <2>2 DEF Arrived, Kinds
<1>5. InsightInTime'
  <2>1. CASE tasks[t].kind = "history"
    BY <2>1 DEF Arrived, InTime, InsightInTime, Row0
  <2>2. CASE tasks[t].kind = "insight"
    BY <1>1, <2>2, Latencies DEF Arrived, InTime, InsightInTime, Row0
  <2> QED BY <1>1, <2>1, <2>2 DEF Kinds
<1> QED BY <1>2, <1>3, <1>4, <1>5 DEF InTime

\* A call fails only while something is wrong.
LEMMA FailKeepsTime ==
  ASSUME FetchInv, InTime, NEW t \in Runners, Fail(t)
  PROVE  InTime' /\ ~Well'
<1>1. /\ tasks[t].pc = "call" /\ tasks[t].kind \in Kinds /\ ~Well
      /\ UNCHANGED <<auth, cloud, rows, since, insight, up, unseen, troubles>>
  BY DEF Fail, FetchInv, FetchTypeOK, Task, Well
<1>2. locks[tasks[t].kind] = t
  BY <1>1 DEF FetchInv, CallsHoldLocks
<1>3. MovesOn(t)
  BY ProceedMovesOn DEF Fail, FetchInv
<1>4. locks' = [k \in Kinds |-> IF k = tasks[t].kind THEN Nobody ELSE locks[k]]
  BY <1>1, OnlyItsLock DEF Fail
<1>5. card' \in Cards
  BY Latencies DEF Fail, LocalHistory, InTime, ClocksInStep, Ages, Cards
<1>6. TasksInTime' /\ LocksAreHeld'
  BY <1>1, <1>2, <1>3, <1>4, MovesOnInTime, FreedLocks DEF MovesOn
<1>7. ClocksInStep' /\ HistoryInTime' /\ InsightInTime' /\ ~Well'
  BY <1>1, <1>5 DEF InTime, ClocksInStep, HistoryInTime, InsightInTime, Row0, Well, Dates
<1> QED BY <1>6, <1>7 DEF InTime

\* An idle runner begins with a kind.
Begun(t, kind) ==
    /\ tasks[t].pc = "idle"
    /\ tasks'[t].pc = "start" /\ tasks'[t].kind = kind /\ tasks'[t].dates = Dates(kind)
    /\ \A u \in Runners \ {t} : tasks'[u] = tasks[u]

LEMMA BegunInTime ==
  ASSUME FetchInv, InTime, NEW t \in Runners, NEW kind \in Kinds, Begun(t, kind),
         UNCHANGED <<up, unseen, insight, locks>>
  PROVE  TasksInTime' /\ LocksAreHeld'
<1>1. \A u \in Runners \ {t} : TaskInTime(u)'
  BY SameInTime DEF Begun, InTime, ClocksInStep, FetchInv
<1>2. TaskInTime(t)'
  BY AsideInTime, BegunFacts DEF Begun
<1>3. LocksAreHeld'
  <2> SUFFICES ASSUME NEW k \in Kinds, locks[k] # Nobody PROVE Asks(locks[k], k)'
    BY DEF LocksAreHeld
  <2>1. locks[k] \in Runners /\ Asks(locks[k], k) /\ locks[k] # t
    BY DEF InTime, LocksAreHeld, FetchInv, FetchTypeOK, Asks, Begun
  <2> QED BY <2>1 DEF Begun, Asks
<1> QED BY <1>1, <1>2, <1>3 DEF TasksInTime

LEMMA BeginsFromIdle ==
  LET h == [Idle EXCEPT !.pc = "start", !.dates = Dates("history")]
      i == [Idle EXCEPT !.pc = "start", !.kind = "insight", !.dates = Dates("insight")]
  IN  /\ h.pc = "start" /\ h.kind = "history" /\ h.dates = Dates("history")
      /\ i.pc = "start" /\ i.kind = "insight" /\ i.dates = Dates("insight")
<1>1. Idle \in Task /\ Idle.kind = "history"
  BY IdleIsTask DEF Idle
<1> QED BY <1>1 DEF Task

LEMMA ScheduleSteps ==
  ASSUME FetchInv, InTime, Schedule
  PROVE  /\ \E t \in Refreshers : Begun(t, "history")
         /\ auth /\ since = Interval /\ since' = 0
         /\ UNCHANGED <<auth, cloud, rows, locks, card, insight, onScreen, up, unseen, troubles>>
<1>1. PICK t \in Refreshers :
        /\ tasks[t].pc = "idle"
        /\ tasks' = [tasks EXCEPT ![t] = [Idle EXCEPT !.pc = "start", !.dates = Dates("history")]]
  BY DEF Schedule, Refreshers
<1>3. Begun(t, "history")
  BY <1>1, BeginsFromIdle DEF Begun, FetchInv, FetchTypeOK, Refreshers, Runners
<1> QED BY <1>1, <1>3, Latencies DEF Schedule, IsDue, InTime, ClocksInStep

LEMMA ScheduleKeepsTime == ASSUME FetchInv, InTime, Schedule PROVE InTime'
<1>1. TasksInTime' /\ LocksAreHeld'
  BY ScheduleSteps, BegunInTime DEF Kinds, Refreshers, Runners
<1> QED BY <1>1, ScheduleSteps, Latencies
        DEF InTime, ClocksInStep, HistoryInTime, InsightInTime, Row0, Well, Dates

\* What the client asks is answered at once, or begins.
LEMMA ClientAsksSteps ==
  ASSUME FetchInv, InTime, ClientAsks
  PROVE  /\ \/ UNCHANGED tasks \/ \E kind \in Kinds : Begun("req", kind)
         /\ \/ UNCHANGED card
            \/ card' \in LocalHistory
            \/ IsFresh("history") /\ card' \in CachedHistory(Dates("history"))
         /\ UNCHANGED <<auth, cloud, rows, locks, since, insight, onScreen, up, unseen, troubles>>
<1>1. /\ tasks["req"].pc = "idle"
      /\ UNCHANGED <<auth, cloud, rows, locks, since, insight, onScreen, up, unseen, troubles>>
  BY DEF ClientAsks
<1>3. \/ UNCHANGED tasks
      \/ tasks' = [tasks EXCEPT !["req"] = [Idle EXCEPT !.pc = "start", !.dates = Dates("history")]]
      \/ tasks' = [tasks EXCEPT !["req"] = [Idle EXCEPT !.pc = "start", !.kind = "insight",
                                                          !.dates = Dates("insight")]]
  BY DEF ClientAsks, RequestHistory
<1>4. \/ UNCHANGED tasks \/ \E kind \in Kinds : Begun("req", kind)
  BY <1>1, <1>3, BeginsFromIdle DEF Begun, FetchInv, FetchTypeOK, Runners, Kinds
<1>5. Fresh("history", Dates("history")) => IsFresh("history")
  BY DEF Fresh, IsFresh
<1>7. \/ card' = card \/ card' \in LocalHistory
      \/ IsFresh("history") /\ card' \in CachedHistory(Dates("history"))
  BY <1>5 DEF ClientAsks, RequestHistory
<1> QED BY <1>1, <1>4, <1>7

LEMMA ClientAsksKeepsTime == ASSUME FetchInv, InTime, ClientAsks PROVE InTime'
<1>1. TasksInTime' /\ LocksAreHeld'
  <2>1. CASE UNCHANGED tasks
    <3>1. TasksInTime'
      BY <2>1, ClientAsksSteps, SameInTime DEF InTime, ClocksInStep, FetchInv, TasksInTime
    <3> QED BY <2>1, <3>1, ClientAsksSteps DEF InTime, LocksAreHeld, Asks
  <2>2. CASE \E kind \in Kinds : Begun("req", kind)
    BY <2>2, ClientAsksSteps, BegunInTime DEF Runners
  <2> QED BY <2>1, <2>2, ClientAsksSteps
<1>2. card' \in Cards
  BY ClientAsksSteps, CachedAge, Latencies DEF InTime, ClocksInStep, Ages, Cards, LocalHistory
<1> QED BY <1>1, <1>2, ClientAsksSteps
        DEF InTime, ClocksInStep, HistoryInTime, InsightInTime, Row0, Well, Dates

LEMMA PollKeepsTime == ASSUME FetchInv, InTime, PollClaims PROVE InTime'
<1>1. /\ insight' \in [made : BOOLEAN, claimed : BOOLEAN] /\ insight'.made = insight.made
      /\ UNCHANGED <<auth, cloud, rows, locks, tasks, since, card, up, unseen, troubles>>
  BY DEF PollClaims, InTime, ClocksInStep
<1>2. TasksInTime'
  BY <1>1, SameInTime DEF InTime, ClocksInStep, FetchInv, TasksInTime
<1> QED BY <1>1, <1>2 DEF InTime, ClocksInStep, LocksAreHeld, Asks, HistoryInTime, InsightInTime, Row0,
                          Well, Dates

LEMMA MakeKeepsTime == ASSUME FetchInv, InTime, MakeInsight PROVE InTime'
<1>1. /\ insight' \in [made : BOOLEAN, claimed : BOOLEAN] /\ insight'.made
      /\ UNCHANGED <<auth, cloud, rows, locks, tasks, since, card, up, unseen, troubles>>
  BY DEF MakeInsight, InTime, ClocksInStep
<1>2. TasksInTime'
  BY <1>1, SameInTime DEF InTime, ClocksInStep, FetchInv, TasksInTime
<1> QED BY <1>1, <1>2 DEF InTime, ClocksInStep, LocksAreHeld, Asks, HistoryInTime, InsightInTime, Row0,
                          Well, Dates

LEMMA TroubleSteps ==
  ASSUME InTime, Trouble
  PROVE  /\ troubles' = troubles + 1 /\ troubles' <= MaxTroubles /\ up' = 0 /\ unseen' = 0
         /\ UNCHANGED <<rows, locks, tasks, since, card, insight, onScreen>>
BY Latencies DEF Trouble, InTime, ClocksInStep

LEMMA TroubleKeepsTime == ASSUME FetchInv, InTime, Trouble PROVE InTime'
<1>1. TasksInTime'
  BY TroubleSteps, SameInTime DEF InTime, ClocksInStep, FetchInv, TasksInTime
<1>2. ClocksInStep'
  BY TroubleSteps, Latencies DEF InTime, ClocksInStep
<1> QED BY <1>1, <1>2, TroubleSteps DEF InTime, LocksAreHeld, Asks, HistoryInTime, InsightInTime, Row0, Dates

\* A tick of the clock.
Ticked ==
    /\ auth => since < Interval /\ since' = since + 1
    /\ since' \in 0..Interval
    /\ \A t \in Runners : tasks[t].pc = "idle" => tasks'[t].pc = "idle"
    /\ \A t \in Runners : tasks[t].pc # "idle" =>
          /\ ~Urgent(t)
          /\ tasks'[t].pc = tasks[t].pc /\ tasks'[t].kind = tasks[t].kind
          /\ tasks'[t].dates = tasks[t].dates
          /\ tasks'[t].got = tasks[t].got /\ tasks'[t].says = tasks[t].says
          /\ tasks'[t].wait = tasks[t].wait + 1
          /\ tasks'[t].age \in Nat /\ tasks'[t].age <= tasks[t].age + 1
    /\ \A k \in Kinds : \A d \in Dates("history") :
          /\ rows'[k][d].left = IF rows[k][d].left = 0 THEN 0 ELSE rows[k][d].left - 1
          /\ rows'[k][d].says = rows[k][d].says
          /\ rows'[k][d].age \in Nat /\ rows'[k][d].age <= rows[k][d].age + 1
    /\ card' \in Cards /\ card'.age <= card.age + 1
    /\ up' \in Nat /\ up' <= up + 1 /\ (up' > 0 => Well)
    /\ unseen' \in Nat /\ unseen' <= unseen + 1 /\ unseen' <= up'
    /\ unseen' > 0 => insight.made /\ ~onScreen
    /\ UNCHANGED <<auth, cloud, locks, insight, onScreen, troubles>>

LEMMA OlderIsNext ==
  ASSUME NEW n \in Nat PROVE Older(n) \in Nat /\ Older(n) <= n + 1 /\ Older(n) >= n
BY Latencies DEF Older

LEMMA TickTicks == ASSUME FetchInv, InTime, FetchTick PROVE Ticked
<1>1. /\ rows \in [Kinds -> [Dates("history") -> CacheRow]] /\ tasks \in [Runners -> Task]
      /\ since \in 0..Interval /\ up \in Nat /\ unseen \in Nat /\ card \in Cards /\ unseen <= up
  BY DEF FetchInv, FetchTypeOK, InTime, ClocksInStep
<1>2. /\ auth => since < Interval /\ since' = since + 1
      /\ since' \in 0..Interval
  <2>1. ~(auth /\ since >= Interval) /\ since' = IF since < Interval THEN since + 1 ELSE since
    BY DEF FetchTick, IsDue
  <2> QED BY <1>1, <2>1, Latencies
<1>3. ASSUME NEW t \in Runners, tasks[t].pc # "idle"
      PROVE  /\ ~Urgent(t)
             /\ tasks'[t].pc = tasks[t].pc /\ tasks'[t].kind = tasks[t].kind
          /\ tasks'[t].dates = tasks[t].dates
             /\ tasks'[t].got = tasks[t].got /\ tasks'[t].says = tasks[t].says
             /\ tasks'[t].wait = tasks[t].wait + 1
             /\ tasks'[t].age \in Nat /\ tasks'[t].age <= tasks[t].age + 1
  <2>1. tasks'[t] = [tasks[t] EXCEPT !.wait = @ + 1, !.age = Older(@)]
    BY <1>3 DEF FetchTick
  <2>2. tasks[t] \in Task /\ tasks[t].age \in Nat
    BY <1>1, Latencies DEF Task, Ages
  <2>3. Older(tasks[t].age) \in Nat /\ Older(tasks[t].age) <= tasks[t].age + 1
    BY <2>2, OlderIsNext
  <2>4. ~Urgent(t)
    BY DEF FetchTick
  <2> HIDE DEF Older
  <2> QED BY <2>1, <2>2, <2>3, <2>4 DEF Task
<1>4. ASSUME NEW t \in Runners, tasks[t].pc = "idle" PROVE tasks'[t].pc = "idle"
  <2>1. tasks'[t] = Idle
    BY <1>4 DEF FetchTick
  <2> QED BY <2>1, IdleIsTask
<1>5. ASSUME NEW k \in Kinds, NEW d \in Dates("history")
      PROVE  /\ rows'[k][d].left = IF rows[k][d].left = 0 THEN 0 ELSE rows[k][d].left - 1
             /\ rows'[k][d].says = rows[k][d].says
             /\ rows'[k][d].age \in Nat /\ rows'[k][d].age <= rows[k][d].age + 1
  <2> DEFINE r == rows[k][d]
  <2>1. r \in CacheRow /\ r.age \in Nat /\ r.left \in Int
    BY <1>1, Latencies DEF CacheRow, Ages
  <2>2. rows'[k][d] = IF r = NoRow THEN NoRow
                      ELSE [r EXCEPT !.left = IF @ = 0 THEN 0 ELSE @ - 1, !.age = Older(@)]
    BY DEF FetchTick
  <2>3. Older(r.age) \in Nat /\ Older(r.age) <= r.age + 1
    BY <2>1, OlderIsNext
  <2>4. CASE r = NoRow
    <3>1. NoRow.left = 0
      BY DEF NoRow
    <3> QED BY <2>1, <2>2, <2>4, <3>1
  <2>5. CASE r # NoRow
    <3> HIDE DEF r
    <3>1. rows'[k][d] = [r EXCEPT !.left = IF @ = 0 THEN 0 ELSE @ - 1, !.age = Older(@)]
      BY <2>2, <2>5
    <3>2. /\ rows'[k][d].left = IF r.left = 0 THEN 0 ELSE r.left - 1
          /\ rows'[k][d].says = r.says /\ rows'[k][d].age = Older(r.age)
      BY <2>1, <3>1 DEF CacheRow
    <3> QED BY <2>3, <3>2 DEF r
  <2> QED BY <2>4, <2>5
<1>6. card' \in Cards /\ card'.age <= card.age + 1
  <2>1. card' = [card EXCEPT !.age = Older(@)]
    BY DEF FetchTick
  <2>2. card.age \in Ages /\ card.age \in Nat
    BY <1>1, Latencies DEF Cards, Ages
  <2> HIDE DEF Older
  <2>3. Older(card.age) \in Ages /\ Older(card.age) <= card.age + 1
    BY <2>2, OlderIsNext, OlderFacts
  <2> QED BY <1>1, <2>1, <2>3 DEF Cards
<1>7. /\ up' \in Nat /\ up' <= up + 1 /\ (up' > 0 => Well)
      /\ unseen' \in Nat /\ unseen' <= unseen + 1 /\ unseen' <= up'
      /\ unseen' > 0 => insight.made /\ ~onScreen
  <2>1. /\ up' = IF Well THEN Older(up) ELSE 0
        /\ unseen' = IF insight.made /\ ~onScreen /\ Well THEN Older(unseen) ELSE 0
    BY DEF FetchTick, Well
  <2>2. Older(unseen) <= Older(up)
    BY <1>1, Latencies DEF Older
  <2> QED BY <1>1, <2>1, <2>2, OlderIsNext
<1> QED BY <1>2, <1>3, <1>4, <1>5, <1>6, <1>7 DEF Ticked, FetchTick

LEMMA TickKeepsTime == ASSUME FetchInv, InTime, Ticked PROVE InTime'
<1>1. ClocksInStep'
  BY DEF Ticked, InTime, ClocksInStep, Well
<1>2. ASSUME NEW t \in Runners PROVE TaskInTime(t)'
  <2>1. CASE tasks[t].pc = "idle"
    BY <2>1 DEF Ticked, TaskInTime, Partial, Unmade
  <2>2. CASE tasks[t].pc # "idle"
    <3>1. /\ TaskInTime(t) /\ tasks[t].wait \in Nat /\ tasks[t].age \in Nat
          /\ up \in Nat /\ unseen \in Nat /\ up' \in Nat /\ unseen' \in Nat
          /\ up' <= up + 1 /\ unseen' <= unseen + 1 /\ insight' = insight
      BY Latencies DEF InTime, ClocksInStep, TasksInTime, FetchInv, FetchTypeOK, Task, Ages, Ticked
    <3>2. /\ tasks'[t].pc = tasks[t].pc /\ tasks'[t].kind = tasks[t].kind /\ tasks'[t].dates = tasks[t].dates
          /\ tasks'[t].got = tasks[t].got /\ tasks'[t].says = tasks[t].says
          /\ tasks'[t].wait = tasks[t].wait + 1
          /\ tasks'[t].age \in Nat /\ tasks'[t].age <= tasks[t].age + 1
      BY <2>2 DEF Ticked
    <3>3. tasks[t].pc \in {"call", "answered"} => tasks[t].wait # Timeout
      BY <2>2 DEF Ticked, Urgent
    <3>4. Partial(t)' = Partial(t) /\ Unmade(t)' = Unmade(t)
      BY <3>2 DEF Partial, Unmade, Dates
    <3>5. Timeout \in Nat
      BY Latencies
    <3>6. /\ tasks'[t].pc # "idle" => tasks'[t].dates = Dates(tasks'[t].kind)
          /\ tasks'[t].pc = "answered" /\ tasks'[t].kind = "insight"
                => tasks'[t].got = {0} /\ (tasks'[t].says = "ready" => insight'.made)
      BY <3>1, <3>2 DEF TaskInTime
    <3>7. /\ tasks'[t].pc \in {"call", "answered"} => tasks'[t].wait <= Timeout
          /\ tasks'[t].pc = "answered" => tasks'[t].age <= tasks'[t].wait
          /\ Partial(t) => up' <= tasks'[t].wait
          /\ Unmade(t) => unseen' <= tasks'[t].wait
      BY <3>1, <3>2, <3>3, <3>5 DEF TaskInTime
    <3> QED BY <3>4, <3>6, <3>7 DEF TaskInTime, Dates
  <2> QED BY <2>1, <2>2
<1>3. LocksAreHeld'
  <2> SUFFICES ASSUME NEW k \in Kinds, locks[k] # Nobody PROVE Asks(locks[k], k)'
    BY DEF LocksAreHeld, Ticked
  <2>1. locks[k] \in Runners /\ Asks(locks[k], k)
    BY DEF InTime, LocksAreHeld, FetchInv, FetchTypeOK
  <2> QED BY <2>1 DEF Ticked, Asks
<1>4. ASSUME NEW k \in Kinds, NEW d \in Dates("history")
      PROVE  /\ rows[k][d].left \in Int /\ rows[k][d].age \in Nat
             /\ rows'[k][d].left = IF rows[k][d].left = 0 THEN 0 ELSE rows[k][d].left - 1
             /\ rows'[k][d].age \in Nat /\ rows'[k][d].age <= rows[k][d].age + 1
             /\ rows'[k][d].says = rows[k][d].says
  BY Latencies DEF FetchInv, FetchTypeOK, CacheRow, Ages, Ticked
<1>5. HistoryInTime'
  <2> SUFFICES ASSUME NEW d \in Dates("history")
               PROVE  /\ rows'["history"][d].left <= CacheTtl["history"]
                      /\ rows'["history"][d].left > 0
                            => rows'["history"][d].left + rows'["history"][d].age
                                 <= Timeout + CacheTtl["history"]
    BY DEF HistoryInTime, Dates
  <2>1. /\ rows["history"][d].left <= CacheTtl["history"]
        /\ rows["history"][d].left > 0
              => rows["history"][d].left + rows["history"][d].age <= Timeout + CacheTtl["history"]
    BY DEF InTime, HistoryInTime
  <2>2. "history" \in Kinds
    BY DEF Kinds
  <2> QED BY <1>4, <2>1, <2>2, Latencies
<1>6. InsightInTime'
  <2>1. insight' = insight /\ "insight" \in Kinds /\ 0 \in Dates("history")
    BY DayZero DEF Ticked, Kinds
  <2> QED BY <1>4, <2>1, Latencies DEF InTime, InsightInTime, Row0
<1> QED BY <1>1, <1>2, <1>3, <1>5, <1>6 DEF InTime, TasksInTime

LEMMA StillKeepsTime == InTime /\ UNCHANGED fetchvars => InTime'
BY DEF InTime, ClocksInStep, TasksInTime, TaskInTime, LocksAreHeld, Asks, HistoryInTime, InsightInTime,
       Row0, Partial, Unmade, Well, Dates, fetchvars

LEMMA NextInTime == FetchInv /\ InTime /\ [FetchNext]_fetchvars => InTime'
<1> SUFFICES ASSUME FetchInv, InTime, [FetchNext]_fetchvars PROVE InTime'
  OBVIOUS
<1>1. ASSUME NEW t \in Runners, Probe(t) \/ Acquire(t) \/ CloudAnswers(t) \/ Arrive(t) \/ Fail(t)
      PROVE  InTime'
  BY <1>1, ProbeSteps, AcquireSteps, CloudAnswersSteps, StepsKeepTime, ArriveArrives, ArriveKeepsTime,
     FailKeepsTime
<1> QED BY <1>1, ScheduleKeepsTime, ClientAsksKeepsTime, PollKeepsTime, MakeKeepsTime, TroubleKeepsTime,
           TickTicks, TickKeepsTime, StillKeepsTime DEF FetchNext, Run

----------------------------------------------------------------------------
(* The card.                                                               *)

\* A card that is x ticks old will have a new history in time: a call is out
\* that will end in time, one is about to begin, or the next refresh will find
\* a row that has expired by then.
CardOnTime(x) ==
    \/ \E t \in Runners : Asks(t, "history") /\ x + Timeout - tasks[t].wait <= Lag
    \/ \E d \in Dates("history") :
         \/ /\ rows["history"][d].left <= 0 /\ x + Timeout <= Lag
            /\ \E t \in Runners : tasks[t].kind = "history" /\ tasks[t].pc \in {"start", "queue"}
         \/ rows["history"][d].left <= 0 /\ x + Interval - since + Timeout <= Lag
         \/ rows["history"][d].left > 0 /\ x + rows["history"][d].left + Interval - 1 + Timeout <= Lag

\* Unless an answer of a worse time is on its way, the card is on time, or has
\* been since the good time began.
CardDebt ==
    Well /\ (\A t \in Runners : ~Partial(t)) =>
        \E x \in Nat : (card.age <= x \/ up + 1 <= x) /\ CardOnTime(x)

LEMMA CardRoom ==
  /\ 2 * Timeout + CacheTtl["history"] + Interval <= Lag
  /\ 2 * Timeout + 1 + Interval <= Lag
  /\ Timeout < Lag
BY Latencies, LagAssumption

LEMMA CardSum ==
  ASSUME NEW x \in Nat, x <= Timeout + 1, NEW s \in 0..Interval, NEW l \in Int, l <= CacheTtl["history"]
  PROVE  x + Interval - s + Timeout <= Lag /\ x + l + Interval - 1 + Timeout <= Lag
<1> DEFINE H == CacheTtl["history"]
<1>1. H \in Nat /\ Timeout \in Nat /\ Interval \in Nat /\ Lag \in Nat
  BY Latencies
<1>2. 2 * Timeout + H + Interval <= Lag /\ 2 * Timeout + 1 + Interval <= Lag /\ l <= H
  BY CardRoom
<1> HIDE DEF H
<1>3. x + Interval - s + Timeout <= Lag
  BY <1>1, <1>2
<1> QED BY <1>1, <1>2, <1>3

LEMMA CardBaseline ==
  ASSUME FetchInv', InTime', NEW x \in Nat, x <= Timeout + 1
  PROVE  CardOnTime(x)'
<1>1. rows'["history"][0].left \in Int /\ since' \in 0..Interval /\ 0 \in Dates("history")
  BY DayZero DEF FetchInv, FetchTypeOK, Kinds, CacheRow, InTime, ClocksInStep, Dates
<1>2. rows'["history"][0].left <= CacheTtl["history"]
  BY DayZero DEF InTime, HistoryInTime, Dates
<1>3. \/ rows'["history"][0].left <= 0 /\ x + Interval - since' + Timeout <= Lag
      \/ /\ rows'["history"][0].left > 0
         /\ x + rows'["history"][0].left + Interval - 1 + Timeout <= Lag
  BY <1>1, <1>2, CardSum
<1> QED BY <1>1, <1>3 DEF CardOnTime, Dates

LEMMA CachedOnTime ==
  ASSUME FetchInv, InTime, IsFresh("history"), UNCHANGED <<rows, since>>,
         NEW c \in CachedHistory(Dates("history"))
  PROVE  \E x \in Nat : c.age <= x /\ CardOnTime(x)'
<1>1. PICK d \in Dates("history") : c.age + rows["history"][d].left <= Timeout + CacheTtl["history"]
  BY CachedAge
<1>2. rows["history"][d].left \in Int /\ rows["history"][d].left > 0
  BY DEF IsFresh, FetchInv, FetchTypeOK, Kinds, CacheRow
<1>3. c.age \in Nat
  BY CachedAge, Latencies DEF Cards, Ages
<1>4. c.age + rows["history"][d].left + Interval - 1 + Timeout <= Lag
  BY <1>1, <1>2, <1>3, CardRoom, Latencies
<1>5. CardOnTime(c.age)'
  BY <1>2, <1>4 DEF CardOnTime, Dates
<1>6. PICK x \in Nat : x = c.age
  BY <1>3
<1>7. x + rows["history"][d].left + Interval - 1 + Timeout <= Lag
  BY <1>4, <1>6
<1>8. CardOnTime(x)'
  BY <1>2, <1>7 DEF CardOnTime, Dates
<1> QED BY <1>3, <1>6, <1>8

\* A step of a runner that stores nothing leaves the card on time.
LEMMA StepsStayOnTime ==
  ASSUME FetchInv, InTime, Still, NEW t \in Runners, Served(t) \/ Queued(t) \/ Called(t) \/ Answered(t),
         NEW x \in Nat, CardOnTime(x)
  PROVE  CardOnTime(x)'
<1>1. /\ \A u \in Runners \ {t} : tasks'[u] = tasks[u]
      /\ UNCHANGED <<rows, since>>
  BY DEF Served, Queued, Called, Answered, MovesOn, Stands, Still
<1>2. ASSUME NEW u \in Runners, Asks(u, "history"), x + Timeout - tasks[u].wait <= Lag
      PROVE  CardOnTime(x)'
  <2>1. Asks(u, "history")' /\ tasks'[u].wait = tasks[u].wait
    BY <1>1, <1>2 DEF Served, Queued, Called, Answered, Stands, Asks
  <2> QED BY <1>2, <2>1 DEF CardOnTime
<1>3. ASSUME NEW d \in Dates("history"), rows["history"][d].left <= 0, x + Timeout <= Lag,
             NEW u \in Runners, tasks[u].kind = "history", tasks[u].pc \in {"start", "queue"}
      PROVE  CardOnTime(x)'
  <2>1. ~IsFresh(tasks[u].kind)
    BY <1>3 DEF IsFresh, FetchInv, FetchTypeOK, Kinds, CacheRow
  <2>2. CASE u = t /\ Called(t)
    <3>1. Asks(t, "history")' /\ tasks'[t].wait = 0
      BY <1>3, <2>2 DEF Called, Stands, Asks
    <3>2. x + Timeout - 0 <= Lag
      BY <1>3, Latencies
    <3> QED BY <3>1, <3>2 DEF CardOnTime
  <2>3. CASE u # t \/ Queued(t)
    <3>1. tasks'[u].kind = "history" /\ tasks'[u].pc \in {"start", "queue"}
      BY <1>1, <1>3, <2>3 DEF Queued, Stands
    <3> QED BY <1>1, <1>3, <3>1 DEF CardOnTime, Dates
  <2> QED BY <1>3, <2>1, <2>2, <2>3 DEF Served, Answered
<1>4. ASSUME NEW d \in Dates("history"),
             \/ rows["history"][d].left <= 0 /\ x + Interval - since + Timeout <= Lag
             \/ /\ rows["history"][d].left > 0
                /\ x + rows["history"][d].left + Interval - 1 + Timeout <= Lag
      PROVE  CardOnTime(x)'
  BY <1>1, <1>4 DEF CardOnTime, Dates
<1> QED BY <1>2, <1>3, <1>4 DEF CardOnTime

LEMMA StepsKeepDebt ==
  ASSUME FetchInv, InTime, CardDebt, Still,
         NEW t \in Runners, Served(t) \/ Queued(t) \/ Called(t) \/ Answered(t)
  PROVE  CardDebt'
<1> SUFFICES ASSUME Well', \A u \in Runners : ~Partial(u)'
             PROVE  \E x \in Nat : (card'.age <= x \/ up' + 1 <= x) /\ CardOnTime(x)'
  BY DEF CardDebt
<1>1. Well /\ up' = up /\ \A u \in Runners \ {t} : tasks'[u] = tasks[u]
  BY DEF Served, Queued, Called, Answered, MovesOn, Stands, Still, Well
<1>2. \A u \in Runners : ~Partial(u)
  BY <1>1 DEF Partial, Served, Queued, Called, Answered, Dates
<1>3. PICK x \in Nat : (card.age <= x \/ up + 1 <= x) /\ CardOnTime(x)
  BY <1>1, <1>2 DEF CardDebt
<1>4. CASE UNCHANGED card
  BY <1>1, <1>3, <1>4, StepsStayOnTime
<1>5. CASE Served(t) /\ tasks[t].kind = "history" /\ card' \in CachedHistory(Dates("history"))
  <2>1. IsFresh("history") /\ UNCHANGED <<rows, since>>
    BY <1>5 DEF Served, Still
  <2> QED BY <1>5, <2>1, CachedOnTime
<1> QED BY <1>4, <1>5 DEF Served, Queued, Called, Answered, Misses

\* A stored answer is either new to the card, or from before the good time,
\* which is then as young as that call.
LEMMA ArriveKeepsDebt ==
  ASSUME FetchInv, InTime, CardDebt, FetchInv', InTime', NEW t \in Runners, Arrived(t)
  PROVE  CardDebt'
<1> SUFFICES ASSUME Well', \A u \in Runners : ~Partial(u)'
             PROVE  \E x \in Nat : (card'.age <= x \/ up' + 1 <= x) /\ CardOnTime(x)'
  BY DEF CardDebt
<1>1. /\ tasks[t].kind \in Kinds /\ tasks[t].wait \in Nat /\ tasks[t].wait <= Timeout
      /\ tasks[t].age \in Nat /\ tasks[t].age <= tasks[t].wait /\ up \in Nat /\ up' = up /\ Well
      /\ Partial(t) => up <= tasks[t].wait
  BY Latencies DEF FetchInv, FetchTypeOK, Task, Ages, InTime, ClocksInStep, TasksInTime, TaskInTime,
                   Arrived, Well
<1>2. CASE tasks[t].kind = "history"
  <2>1. CASE Partial(t)
    <3>1. up + 1 \in Nat /\ up + 1 <= Timeout + 1
      BY <1>1, <2>1, Latencies
    <3>2. PICK x \in Nat : x = up + 1
      BY <3>1
    <3>3. CardOnTime(x)'
      BY <3>1, <3>2, CardBaseline
    <3> QED BY <1>1, <3>2, <3>3
  <2>2. CASE ~Partial(t)
    <3>1. card'.age = tasks[t].age
      BY <1>2, <2>2 DEF Arrived
    <3>2. PICK x \in Nat : x = tasks[t].age
      BY <1>1
    <3>3. x <= Timeout + 1
      BY <1>1, <3>2, Latencies
    <3>4. CardOnTime(x)'
      BY <3>3, CardBaseline
    <3> QED BY <3>1, <3>2, <3>4
  <2> QED BY <2>1, <2>2
<1>3. CASE tasks[t].kind = "insight"
  <2>1. /\ rows'["history"] = rows["history"] /\ UNCHANGED <<since, card>>
        /\ \A u \in Runners \ {t} : tasks'[u] = tasks[u]
    BY <1>3 DEF Arrived, MovesOn
  <2>2. \A u \in Runners : ~Partial(u)
    BY <1>3, <2>1 DEF Partial, Dates
  <2>3. PICK x \in Nat : (card.age <= x \/ up + 1 <= x) /\ CardOnTime(x)
    BY <1>1, <2>2 DEF CardDebt
  <2>4. \A u \in Runners : tasks[u].kind = "history" => u # t
    BY <1>3
  <2>5. ASSUME NEW u \in Runners, Asks(u, "history"), x + Timeout - tasks[u].wait <= Lag
        PROVE  CardOnTime(x)'
    BY <2>1, <2>4, <2>5 DEF Asks, CardOnTime
  <2>6. ASSUME NEW d \in Dates("history"), rows["history"][d].left <= 0, x + Timeout <= Lag,
               NEW u \in Runners, tasks[u].kind = "history", tasks[u].pc \in {"start", "queue"}
        PROVE  CardOnTime(x)'
    BY <2>1, <2>4, <2>6 DEF CardOnTime, Dates
  <2>7. ASSUME NEW d \in Dates("history"),
               \/ rows["history"][d].left <= 0 /\ x + Interval - since + Timeout <= Lag
               \/ /\ rows["history"][d].left > 0
                  /\ x + rows["history"][d].left + Interval - 1 + Timeout <= Lag
        PROVE  CardOnTime(x)'
    BY <2>1, <2>7 DEF CardOnTime, Dates
  <2>8. CardOnTime(x)'
    BY <2>3, <2>5, <2>6, <2>7 DEF CardOnTime
  <2> QED BY <1>1, <2>1, <2>3, <2>8
<1> QED BY <1>1, <1>2, <1>3 DEF Kinds

\* A refresh begins when it is due, and finds an expired row expired.
LEMMA ScheduleKeepsDebt ==
  ASSUME FetchInv, InTime, CardDebt, Schedule
  PROVE  CardDebt'
<1> SUFFICES ASSUME Well', \A u \in Runners : ~Partial(u)'
             PROVE  \E x \in Nat : (card'.age <= x \/ up' + 1 <= x) /\ CardOnTime(x)'
  BY DEF CardDebt
<1>1. PICK t \in Refreshers : Begun(t, "history")
  BY ScheduleSteps
<1>2. /\ Well /\ since = Interval /\ UNCHANGED <<rows, card, up>> /\ t \in Runners
      /\ tasks[t].pc = "idle" /\ \A u \in Runners \ {t} : tasks'[u] = tasks[u]
      /\ tasks'[t].pc = "start" /\ tasks'[t].kind = "history"
  BY <1>1, ScheduleSteps DEF Well, Begun, Refreshers, Runners
<1>3. \A u \in Runners : ~Partial(u)
  BY <1>2 DEF Partial, Dates
<1>4. PICK x \in Nat : (card.age <= x \/ up + 1 <= x) /\ CardOnTime(x)
  BY <1>2, <1>3 DEF CardDebt
<1>5. ASSUME NEW u \in Runners, Asks(u, "history"), x + Timeout - tasks[u].wait <= Lag
      PROVE  CardOnTime(x)'
  BY <1>2, <1>5 DEF Asks, CardOnTime
<1>6. ASSUME NEW d \in Dates("history"), rows["history"][d].left <= 0, x + Timeout <= Lag,
             NEW u \in Runners, tasks[u].kind = "history", tasks[u].pc \in {"start", "queue"}
      PROVE  CardOnTime(x)'
  BY <1>2, <1>6 DEF CardOnTime, Dates
<1>7. ASSUME NEW d \in Dates("history"), rows["history"][d].left <= 0,
             x + Interval - since + Timeout <= Lag
      PROVE  CardOnTime(x)'
  <2>1. x + Timeout <= Lag
    BY <1>2, <1>7, Latencies
  <2> QED BY <1>2, <1>7, <2>1 DEF CardOnTime, Dates
<1>8. ASSUME NEW d \in Dates("history"), rows["history"][d].left > 0,
             x + rows["history"][d].left + Interval - 1 + Timeout <= Lag
      PROVE  CardOnTime(x)'
  BY <1>2, <1>8 DEF CardOnTime, Dates
<1>9. CardOnTime(x)'
  BY <1>4, <1>5, <1>6, <1>7, <1>8 DEF CardOnTime
<1> QED BY <1>2, <1>4, <1>9

LEMMA ClientAsksKeepsDebt ==
  ASSUME FetchInv, InTime, CardDebt, FetchInv', InTime', ClientAsks
  PROVE  CardDebt'
<1> SUFFICES ASSUME Well', \A u \in Runners : ~Partial(u)'
             PROVE  \E x \in Nat : (card'.age <= x \/ up' + 1 <= x) /\ CardOnTime(x)'
  BY DEF CardDebt
<1>1. Well /\ UNCHANGED <<rows, since, up>>
  BY ClientAsksSteps DEF Well
<1>2. /\ "req" \in Runners
      /\ \A u \in Runners : tasks[u].pc # "idle" => tasks'[u] = tasks[u]
  BY ClientAsksSteps DEF Begun, Runners
<1>3. CASE UNCHANGED card
  <2>1. \A u \in Runners : ~Partial(u)
    BY <1>2 DEF Partial, Dates
  <2>2. PICK x \in Nat : (card.age <= x \/ up + 1 <= x) /\ CardOnTime(x)
    BY <1>1, <2>1 DEF CardDebt
  <2>3. ASSUME NEW u \in Runners, Asks(u, "history"), x + Timeout - tasks[u].wait <= Lag
        PROVE  CardOnTime(x)'
    BY <1>2, <2>3 DEF Asks, CardOnTime
  <2>4. ASSUME NEW d \in Dates("history"), rows["history"][d].left <= 0, x + Timeout <= Lag,
               NEW u \in Runners, tasks[u].kind = "history", tasks[u].pc \in {"start", "queue"}
        PROVE  CardOnTime(x)'
    BY <1>1, <1>2, <2>4 DEF CardOnTime, Dates
  <2>5. ASSUME NEW d \in Dates("history"),
               \/ rows["history"][d].left <= 0 /\ x + Interval - since + Timeout <= Lag
               \/ /\ rows["history"][d].left > 0
                  /\ x + rows["history"][d].left + Interval - 1 + Timeout <= Lag
        PROVE  CardOnTime(x)'
    BY <1>1, <2>5 DEF CardOnTime, Dates
  <2>6. CardOnTime(x)'
    BY <2>2, <2>3, <2>4, <2>5 DEF CardOnTime
  <2> QED BY <1>1, <1>3, <2>2, <2>6
<1>4. CASE card' \in LocalHistory
  <2>1. card'.age = 0
    BY <1>4 DEF LocalHistory
  <2>2. PICK x \in Nat : x = 0
    OBVIOUS
  <2>3. CardOnTime(x)'
    BY <2>2, CardBaseline, Latencies
  <2> QED BY <2>1, <2>2, <2>3
<1>5. CASE IsFresh("history") /\ card' \in CachedHistory(Dates("history"))
  BY <1>1, <1>5, CachedOnTime
<1> QED BY <1>3, <1>4, <1>5, ClientAsksSteps

LEMMA TroubleKeepsDebt ==
  ASSUME FetchInv, InTime, FetchInv', InTime', Trouble
  PROVE  CardDebt'
<1>1. up' = 0
  BY TroubleSteps
<1>2. PICK x \in Nat : x = 1
  OBVIOUS
<1>3. CardOnTime(x)'
  BY <1>2, CardBaseline, Latencies
<1> QED BY <1>1, <1>2, <1>3 DEF CardDebt

LEMMA OthersKeepDebt ==
  CardDebt /\ UNCHANGED <<auth, cloud, rows, tasks, since, card, up>> => CardDebt'
BY DEF CardDebt, Well, Partial, CardOnTime, Asks, Dates

LEMMA FailKeepsDebt ==
  ASSUME FetchInv, InTime, NEW t \in Runners, Fail(t) PROVE CardDebt'
BY FailKeepsTime DEF CardDebt

\* A tick takes from the time that is left.
LEMMA TickStaysOnTime ==
  ASSUME FetchInv, InTime, Ticked, Well, \A u \in Runners : ~Partial(u), NEW x \in Nat, CardOnTime(x)
  PROVE  CardOnTime(x + 1)'
<1>1. since \in 0..Interval /\ since < Interval /\ since' = since + 1
  BY DEF Ticked, Well, InTime, ClocksInStep
<1>2. /\ Timeout \in Nat /\ Lag \in Nat /\ Interval \in Nat
      /\ \A t \in Runners : tasks[t].wait \in Nat /\ tasks[t].kind \in Kinds
      /\ \A t \in Runners : tasks[t].pc \in {"call", "answered"} => tasks[t].wait <= Timeout
      /\ \A d \in Dates("history") : rows["history"][d].left \in Int
  BY Latencies DEF FetchInv, FetchTypeOK, Task, Kinds, CacheRow, InTime, TasksInTime, TaskInTime
<1>3. \A d \in Dates("history") :
         rows'["history"][d].left = IF rows["history"][d].left = 0 THEN 0 ELSE rows["history"][d].left - 1
  BY DEF Ticked, Kinds
<1>4. ASSUME NEW t \in Runners, Asks(t, "history"), x + Timeout - tasks[t].wait <= Lag
      PROVE  CardOnTime(x + 1)'
  <2>1. Asks(t, "history")' /\ tasks'[t].wait = tasks[t].wait + 1
    BY <1>4 DEF Asks, Ticked
  <2>2. x + 1 + Timeout - tasks'[t].wait <= Lag
    BY <1>2, <1>4, <2>1
  <2> QED BY <2>1, <2>2 DEF CardOnTime
<1>5. ASSUME NEW d \in Dates("history"), rows["history"][d].left <= 0, x + Timeout <= Lag,
             NEW u \in Runners, tasks[u].kind = "history", tasks[u].pc \in {"start", "queue"}
      PROVE  CardOnTime(x + 1)'
  <2>1. ~(tasks[u].pc = "queue" /\ LockFree(u)) /\ tasks[u].pc # "start"
    BY <1>5 DEF Ticked, Urgent
  <2>2. locks["history"] # Nobody
    BY <1>5, <2>1 DEF LockFree
  <2>3. PICK h \in Runners : h = locks["history"]
    BY <2>2 DEF FetchInv, FetchTypeOK, Kinds
  <2>4. Asks(h, "history")
    BY <2>2, <2>3 DEF InTime, LocksAreHeld, Kinds
  <2>5. x + Timeout - tasks[h].wait <= Lag
    BY <1>2, <1>5
  <2> QED BY <1>4, <2>4, <2>5
<1>6. ASSUME NEW d \in Dates("history"), rows["history"][d].left <= 0,
             x + Interval - since + Timeout <= Lag
      PROVE  CardOnTime(x + 1)'
  <2>1. rows'["history"][d].left <= 0 /\ x + 1 + Interval - since' + Timeout <= Lag
    BY <1>1, <1>2, <1>3, <1>6
  <2> QED BY <2>1 DEF CardOnTime, Dates
<1>7. ASSUME NEW d \in Dates("history"), rows["history"][d].left > 0,
             x + rows["history"][d].left + Interval - 1 + Timeout <= Lag
      PROVE  CardOnTime(x + 1)'
  <2>1. \/ rows'["history"][d].left > 0 /\ x + 1 + rows'["history"][d].left + Interval - 1 + Timeout <= Lag
        \/ rows'["history"][d].left <= 0 /\ x + 1 + Interval - since' + Timeout <= Lag
    BY <1>1, <1>2, <1>3, <1>7
  <2> QED BY <2>1 DEF CardOnTime, Dates
<1> QED BY <1>4, <1>5, <1>6, <1>7 DEF CardOnTime

LEMMA TickKeepsDebt ==
  ASSUME FetchInv, InTime, CardDebt, Ticked
  PROVE  CardDebt'
<1> SUFFICES ASSUME Well', \A u \in Runners : ~Partial(u)'
             PROVE  \E x \in Nat : (card'.age <= x \/ up' + 1 <= x) /\ CardOnTime(x)'
  BY DEF CardDebt
<1>1. Well
  BY DEF Ticked, Well
<1>2. \A u \in Runners : ~Partial(u)
  BY DEF Ticked, Partial, Dates
<1>3. PICK x \in Nat : (card.age <= x \/ up + 1 <= x) /\ CardOnTime(x)
  BY <1>1, <1>2 DEF CardDebt
<1>4. x + 1 \in Nat /\ CardOnTime(x + 1)'
  BY <1>1, <1>2, <1>3, TickStaysOnTime
<1>5. card'.age <= x + 1 \/ up' + 1 <= x + 1
  BY <1>3, Latencies DEF Ticked, InTime, ClocksInStep, Cards, Ages
<1> QED BY <1>4, <1>5

LEMMA InitDebt == FetchInit => CardDebt
<1> SUFFICES ASSUME FetchInit PROVE \E x \in Nat : (card.age <= x \/ up + 1 <= x) /\ CardOnTime(x)
  BY DEF CardDebt
<1>1. /\ up = 0 /\ since = 0 /\ rows = [k \in Kinds |-> [d \in Dates("history") |-> NoRow]]
      /\ NoRow.left = 0
  BY DEF FetchInit, NoRow
<1>2. rows["history"][0].left = 0 /\ 0 \in Dates("history")
  BY <1>1, DayZero DEF Kinds
<1>3. 1 + Interval - since + Timeout <= Lag
  BY <1>1, CardRoom, Latencies
<1>4. CardOnTime(1)
  BY <1>2, <1>3 DEF CardOnTime
<1> QED BY <1>1, <1>4

LEMMA NextDebt ==
  FetchInv /\ InTime /\ CardDebt /\ FetchInv' /\ InTime' /\ [FetchNext]_fetchvars => CardDebt'
<1> SUFFICES ASSUME FetchInv, InTime, CardDebt, FetchInv', InTime', [FetchNext]_fetchvars PROVE CardDebt'
  OBVIOUS
<1>1. ASSUME NEW t \in Runners, Probe(t) \/ Acquire(t) \/ CloudAnswers(t) \/ Arrive(t) \/ Fail(t)
      PROVE  CardDebt'
  BY <1>1, ProbeSteps, AcquireSteps, CloudAnswersSteps, StepsKeepDebt, ArriveArrives, ArriveKeepsDebt,
     FailKeepsDebt
<1>2. CASE PollClaims \/ MakeInsight \/ UNCHANGED fetchvars
  BY <1>2, OthersKeepDebt DEF PollClaims, MakeInsight, fetchvars
<1> QED BY <1>1, <1>2, ScheduleKeepsDebt, ClientAsksKeepsDebt, TroubleKeepsDebt, TickTicks,
           TickKeepsDebt DEF FetchNext, Run

LEMMA DebtIsPaid == FetchInv /\ InTime /\ CardDebt => CardIsCurrent
<1> SUFFICES ASSUME FetchInv, InTime, CardDebt, up >= Lag PROVE card.age <= Lag
  BY DEF CardIsCurrent
<1>1. /\ up \in Nat /\ Lag \in Nat /\ Timeout \in Nat /\ Timeout < Lag /\ card.age \in Nat
      /\ Interval \in Nat /\ since \in 0..Interval
  BY Latencies, CardRoom DEF InTime, ClocksInStep, Cards, Ages
<1>2. Well
  BY <1>1 DEF InTime, ClocksInStep
<1>3. ASSUME NEW t \in Runners PROVE ~Partial(t)
  <2>1. tasks[t].wait \in Nat /\ (Partial(t) => up <= tasks[t].wait /\ tasks[t].wait <= Timeout)
    BY DEF FetchInv, FetchTypeOK, Task, InTime, TasksInTime, TaskInTime, Partial
  <2> QED BY <1>1, <2>1
<1>4. PICK x \in Nat : (card.age <= x \/ up + 1 <= x) /\ CardOnTime(x)
  BY <1>2, <1>3 DEF CardDebt
<1>5. x <= Lag
  <2>1. ASSUME NEW t \in Runners, Asks(t, "history"), x + Timeout - tasks[t].wait <= Lag
        PROVE  x <= Lag
    <3>1. tasks[t].wait \in Nat /\ tasks[t].wait <= Timeout
      BY <2>1 DEF FetchInv, FetchTypeOK, Task, InTime, TasksInTime, TaskInTime, Asks
    <3> QED BY <1>1, <2>1, <3>1
  <2>2. ASSUME NEW d \in Dates("history"), rows["history"][d].left > 0,
               x + rows["history"][d].left + Interval - 1 + Timeout <= Lag
        PROVE  x <= Lag
    <3>1. rows["history"][d].left \in Int
      BY DEF FetchInv, FetchTypeOK, Kinds, CacheRow
    <3> QED BY <1>1, <2>2, <3>1
  <2> QED BY <1>1, <1>4, <2>1, <2>2 DEF CardOnTime
<1> QED BY <1>1, <1>4, <1>5

\* For any number of days, any latencies and any number of requests and of
\* troubles: once the cloud has answered and the session has held for Lag
\* ticks, what the card shows was read from the cloud, or built here, at most
\* Lag ticks ago, although a refresh may find the rows of the one before still
\* fresh and push nothing (FetchScheduler::run, get_history_cache).
THEOREM CardStaysCurrent == FetchSpec => []CardIsCurrent
<1>1. FetchInit => FetchInv /\ InTime /\ CardDebt
  BY InitFetch, InitInTime, InitDebt
<1>2. FetchInv /\ InTime /\ CardDebt /\ [FetchNext]_fetchvars => (FetchInv /\ InTime /\ CardDebt)'
  BY NextFetch, NextInTime, NextDebt
<1>3. FetchInv /\ InTime /\ CardDebt => CardIsCurrent
  BY DebtIsPaid
<1> QED BY <1>1, <1>2, <1>3, PTL DEF FetchSpec

----------------------------------------------------------------------------
(* The insight.                                                            *)

\* What the troubles that are left can cost.
Late == Timeout * (MaxTroubles - troubles)

\* How long a refresh may be held up by the history: by the call that is out,
\* by another when that one brings too little, and by late reads of the cache.
HistoryLasts ==
    IF locks["history"] # Nobody
    THEN Timeout - tasks[locks["history"]].wait
         + (IF Partial(locks["history"]) THEN Timeout ELSE 0) + Late
    ELSE IF IsFresh("history") THEN Late ELSE Timeout + Late

\* An insight that has not been shown for x ticks will be in time: a call is
\* out that will bring it, one is about to begin, a refresh is on its way to
\* it, or the next one will find that the row has expired.
InsightOnTime(x) ==
    \/ \E t \in Runners : Asks(t, "insight") /\ x + Timeout - tasks[t].wait <= Lag
    \/ /\ Row0.left <= 0
       /\ \/ /\ x + Timeout <= Lag
             /\ \E t \in Runners : tasks[t].kind = "insight" /\ tasks[t].pc \in {"start", "queue"}
          \/ /\ x + HistoryLasts + Timeout <= Lag
             /\ \E t \in Refreshers : tasks[t].kind = "history" /\ tasks[t].pc # "idle"
          \/ x + Interval - since + 2 * Timeout + Late <= Lag
    \/ Row0.left > 0 /\ x + Row0.left + Interval - 1 + 2 * Timeout + Late <= Lag

Shown == onScreen /\ Row0.says = "ready"

InsightDebt ==
    /\ unseen <= Lag
    /\ Well /\ insight.made /\ (\A t \in Runners : ~Unmade(t)) =>
          Shown \/ \E x \in Nat : unseen <= x /\ InsightOnTime(x)

MostLate == Timeout * MaxTroubles

LEMMA TimesNat == ASSUME NEW a \in Nat, NEW b \in Nat PROVE a * b \in Nat
OBVIOUS

LEMMA LateIsNat ==
  ASSUME NEW m \in 0..MaxTroubles PROVE Timeout * (MaxTroubles - m) \in Nat
BY Latencies, TimesNat

LEMMA InsightRoom ==
  /\ MostLate \in Nat
  /\ CacheTtl["insight"] + Interval + MostLate + Timeout <= Lag + 1
  /\ CacheTtl["negative"] + Interval + MostLate + 2 * Timeout <= Lag + 1
  /\ Interval + MostLate + 3 * Timeout <= Lag
<1>1. Timeout \in Nat /\ MaxTroubles \in Nat
  BY Latencies
<1>2. /\ (MaxTroubles + 1) * Timeout = MostLate + Timeout
      /\ (MaxTroubles + 2) * Timeout = MostLate + 2 * Timeout
      /\ (MaxTroubles + 3) * Timeout = MostLate + 3 * Timeout
      /\ MostLate \in Nat
  BY <1>1 DEF MostLate
<1>3. /\ CacheTtl["insight"] + Interval + (MaxTroubles + 1) * Timeout <= Lag + 1
      /\ CacheTtl["negative"] + Interval + (MaxTroubles + 2) * Timeout <= Lag + 1
      /\ Interval + (MaxTroubles + 3) * Timeout <= Lag
  BY LagAssumption
<1>4. /\ CacheTtl["insight"] + Interval + (MostLate + Timeout) <= Lag + 1
      /\ CacheTtl["negative"] + Interval + (MostLate + 2 * Timeout) <= Lag + 1
      /\ Interval + (MostLate + 3 * Timeout) <= Lag
  BY <1>2, <1>3
<1> HIDE DEF MostLate
<1> QED BY <1>1, <1>2, <1>4, Latencies

LEMMA LateFacts ==
  ASSUME InTime
  PROVE  Late \in Nat /\ Late <= MostLate
<1>1. Timeout \in Nat /\ MaxTroubles \in Nat /\ troubles \in 0..MaxTroubles
  BY Latencies DEF InTime, ClocksInStep
<1> QED BY <1>1 DEF Late, MostLate

LEMMA LateSteps ==
  ASSUME InTime, InTime'
  PROVE  /\ troubles' = troubles => Late' = Late
         /\ troubles' = troubles + 1 =>
               Late' + Timeout = Late /\ Late' \in Nat /\ Late' + Timeout <= MostLate
<1>1. Timeout \in Nat /\ MaxTroubles \in Nat /\ troubles \in 0..MaxTroubles /\ troubles' \in 0..MaxTroubles
  BY Latencies DEF InTime, ClocksInStep
<1>2. Late \in Nat /\ Late <= MostLate
  BY LateFacts
<1>3. troubles' = troubles => Late' = Late
  BY DEF Late
<1>4. troubles' = troubles + 1 => Late' + Timeout = Late
  BY <1>1 DEF Late
<1>5. Late' \in Nat
  <2>1. PICK m \in 0..MaxTroubles : m = troubles'
    BY <1>1
  <2>2. Timeout * (MaxTroubles - m) \in Nat
    BY LateIsNat
  <2> QED BY <2>1, <2>2 DEF Late
<1> QED BY <1>1, <1>2, <1>3, <1>4, <1>5

LEMMA RowZero ==
  ASSUME FetchInv, InTime
  PROVE  /\ Row0.left \in Int
         /\ Row0.left <= CacheTtl["insight"] \/ Row0.left <= CacheTtl["negative"]
         /\ ~insight.made => Row0.left <= CacheTtl["negative"]
BY DayZero DEF FetchInv, FetchTypeOK, Kinds, CacheRow, InTime, InsightInTime, Row0

LEMMA HistoryLastsFacts ==
  ASSUME FetchInv, InTime
  PROVE  /\ HistoryLasts \in Nat
         /\ (\A t \in Runners : ~Partial(t)) => HistoryLasts <= Timeout + Late
<1>1. Timeout \in Nat /\ Late \in Nat
  BY Latencies, LateFacts
<1>2. CASE locks["history"] # Nobody
  <2>1. PICK h \in Runners : h = locks["history"]
    BY <1>2 DEF FetchInv, FetchTypeOK, Kinds
  <2>2. Asks(h, "history")
    BY <1>2, <2>1 DEF InTime, LocksAreHeld, Kinds
  <2>3. tasks[h].wait \in Nat /\ tasks[h].wait <= Timeout
    BY <2>2 DEF FetchInv, FetchTypeOK, Task, InTime, TasksInTime, TaskInTime, Asks
  <2>4. HistoryLasts = Timeout - tasks[h].wait + (IF Partial(h) THEN Timeout ELSE 0) + Late
    BY <1>2, <2>1 DEF HistoryLasts
  <2> QED BY <1>1, <2>3, <2>4
<1>3. CASE locks["history"] = Nobody
  BY <1>1, <1>3 DEF HistoryLasts
<1> QED BY <1>2, <1>3

LEMMA InsightBaseline ==
  ASSUME FetchInv', InTime', NEW x \in Nat,
         x + Interval + 2 * Timeout + Late' <= Lag,
         Row0'.left > 0 => x + Row0'.left + Interval - 1 + 2 * Timeout + Late' <= Lag
  PROVE  InsightOnTime(x)'
<1>1. Row0'.left \in Int /\ since' \in 0..Interval /\ Timeout \in Nat /\ Interval \in Nat /\ Lag \in Nat
  BY DayZero, Latencies DEF FetchInv, FetchTypeOK, Kinds, CacheRow, InTime, ClocksInStep, Row0, Dates
<1>2. Late' \in Nat
  <2>1. PICK m \in 0..MaxTroubles : m = troubles'
    BY DEF InTime, ClocksInStep
  <2>2. Timeout * (MaxTroubles - m) \in Nat
    BY LateIsNat
  <2> QED BY <2>1, <2>2 DEF Late
<1>3. x + Interval - since' + 2 * Timeout + Late' <= Lag
  <2>1. PICK l \in Nat, s \in 0..Interval : l = Late' /\ s = since'
    BY <1>1, <1>2
  <2>2. x + Interval + 2 * Timeout + l <= Lag
    BY <2>1
  <2>3. s \in Nat /\ s <= Interval
    BY <1>1
  <2>4. x + Interval - s + 2 * Timeout + l <= Lag
    BY <1>1, <2>2, <2>3
  <2> QED BY <2>1, <2>4
<1>4. \/ Row0'.left <= 0 /\ x + Interval - since' + 2 * Timeout + Late' <= Lag
      \/ Row0'.left > 0 /\ x + Row0'.left + Interval - 1 + 2 * Timeout + Late' <= Lag
  BY <1>1, <1>3
<1> QED BY <1>4 DEF InsightOnTime

\* What the clauses of InsightOnTime come to, one by one.
LEMMA OnTimeByCall ==
  ASSUME NEW x \in Nat, NEW t \in Runners, Asks(t, "insight")', x + Timeout - tasks'[t].wait <= Lag
  PROVE  InsightOnTime(x)'
BY DEF InsightOnTime

LEMMA OnTimeByStart ==
  ASSUME NEW x \in Nat, Row0'.left <= 0, x + Timeout <= Lag,
         NEW t \in Runners, tasks'[t].kind = "insight", tasks'[t].pc \in {"start", "queue"}
  PROVE  InsightOnTime(x)'
BY DEF InsightOnTime

LEMMA OnTimeByRefresh ==
  ASSUME NEW x \in Nat, Row0'.left <= 0, x + HistoryLasts' + Timeout <= Lag,
         NEW t \in Refreshers, tasks'[t].kind = "history", tasks'[t].pc # "idle"
  PROVE  InsightOnTime(x)'
BY DEF InsightOnTime

LEMMA OnTimeByInterval ==
  ASSUME NEW x \in Nat,
         \/ Row0'.left <= 0 /\ x + Interval - since' + 2 * Timeout + Late' <= Lag
         \/ Row0'.left > 0 /\ x + Row0'.left + Interval - 1 + 2 * Timeout + Late' <= Lag
  PROVE  InsightOnTime(x)'
BY DEF InsightOnTime

LEMMA LateShrinks ==
  ASSUME InTime, InTime', troubles' = troubles \/ troubles' = troubles + 1
  PROVE  \E l, m \in Nat : l = Late /\ m = Late' /\ m <= l
<1>1. /\ Late \in Nat /\ Late' \in Nat /\ Timeout \in Nat
      /\ troubles' = troubles => Late' = Late
      /\ troubles' = troubles + 1 => Late' + Timeout = Late
  BY LateFacts, LateSteps, Latencies
<1>2. PICK l, m \in Nat : l = Late /\ m = Late'
  BY <1>1
<1>3. m = l \/ m + Timeout = l
  BY <1>1, <1>2
<1>4. m <= l
  BY <1>1, <1>3
<1> QED BY <1>2, <1>4

LEMMA StepsTroubles ==
  ASSUME NEW t \in Runners, Served(t) \/ Queued(t) \/ Called(t) \/ Answered(t)
  PROVE  troubles' = troubles \/ troubles' = troubles + 1
BY DEF Served, Queued, Called, Answered, Misses

LEMMA ShorterSum ==
  ASSUME NEW i \in Nat, NEW l \in Nat, NEW m \in Nat, m <= l
  PROVE  i + m \in Nat /\ i + m <= i + l
OBVIOUS

LEMMA StepsShortenHistory ==
  ASSUME FetchInv, InTime, FetchInv', InTime', Still, Well,
         NEW t \in Runners, Served(t) \/ Queued(t) \/ Called(t) \/ Answered(t)
  PROVE  \E a, b \in Nat : a = HistoryLasts /\ b = HistoryLasts' /\ b <= a
<1>1. PICK l, m \in Nat : l = Late /\ m = Late' /\ m <= l
  BY LateShrinks, StepsTroubles
<1>2. PICK a \in Nat : a = HistoryLasts
  BY HistoryLastsFacts
<1>3. /\ \A u \in Runners \ {t} : tasks'[u] = tasks[u]
      /\ IsFresh("history")' = IsFresh("history") /\ tasks[t].kind \in Kinds
  BY DEF Served, Queued, Called, Answered, MovesOn, Stands, Still, IsFresh, Dates, FetchInv, FetchTypeOK, Task
<1>6. Timeout \in Nat
  BY Latencies
<1>4. CASE Called(t) /\ tasks[t].kind = "history"
  <2>1. /\ locks["history"] = Nobody /\ locks'["history"] = t /\ t # Nobody
        /\ tasks'[t].wait = 0 /\ tasks'[t].pc = "call"
    BY <1>4 DEF Called, Stands, FetchInv, FetchTypeOK, Kinds, Runners, Nobody
  <2>2. HistoryLasts' = Timeout - 0 + 0 + m
    BY <1>1, <2>1 DEF HistoryLasts, Partial
  <2>3. troubles' = IF IsFresh("history") THEN troubles + 1 ELSE troubles
    BY <1>4 DEF Called, Misses
  <2>4. CASE IsFresh("history")
    <3>1. a = l
      BY <1>1, <1>2, <2>1, <2>4 DEF HistoryLasts
    <3>2. m + Timeout = l
      BY <1>1, <2>3, <2>4, LateSteps
    <3>3. Timeout - 0 + 0 + m = a
      BY <1>6, <3>1, <3>2
    <3> QED BY <1>2, <2>2, <3>3
  <2>5. CASE ~IsFresh("history")
    <3>1. a = Timeout + l
      BY <1>1, <1>2, <2>1, <2>5 DEF HistoryLasts
    <3>2. m = l
      BY <1>1, <2>3, <2>5, LateSteps
    <3>3. Timeout - 0 + 0 + m = a
      BY <1>6, <3>1, <3>2
    <3> QED BY <1>2, <2>2, <3>3
  <2> QED BY <2>4, <2>5
<1>5. CASE ~(Called(t) /\ tasks[t].kind = "history")
  <2>1. locks'["history"] = locks["history"]
    BY <1>3, <1>5 DEF Served, Queued, Called, Answered, FetchInv, FetchTypeOK, Kinds
  <2>2. CASE locks["history"] = Nobody
    <3>1. /\ a = IF IsFresh("history") THEN l ELSE Timeout + l
          /\ HistoryLasts' = IF IsFresh("history") THEN m ELSE Timeout + m
      BY <1>1, <1>2, <1>3, <2>1, <2>2 DEF HistoryLasts
    <3>2. CASE IsFresh("history")
      BY <1>1, <1>2, <3>1, <3>2
    <3>3. CASE ~IsFresh("history")
      <4>1. a = Timeout + l /\ HistoryLasts' = Timeout + m
        BY <3>1, <3>3
      <4>3. m <= l
        BY <1>1
      <4>2. Timeout + m \in Nat /\ Timeout + m <= a
        BY <1>6, <4>1, <4>3, ShorterSum
      <4> QED BY <1>2, <4>1, <4>2
    <3> QED BY <3>2, <3>3
  <2>3. CASE locks["history"] # Nobody
    <3>1. PICK h \in Runners : h = locks["history"]
      BY <2>3 DEF FetchInv, FetchTypeOK, Kinds
    <3>2. Asks(h, "history") /\ tasks[h].wait \in Nat /\ tasks[h].wait <= Timeout
      BY <2>3, <3>1 DEF InTime, LocksAreHeld, Kinds, FetchInv, FetchTypeOK, Task, TasksInTime,
                        TaskInTime, Asks
    <3>3. tasks'[h].wait = tasks[h].wait /\ (Partial(h)' <=> Partial(h))
      <4>1. CASE h # t
        BY <1>3, <4>1 DEF Partial, Dates
      <4>2. CASE h = t
        <5>1. Answered(t)
          BY <3>2, <4>2 DEF Served, Queued, Called, Asks
        <5>2. ~Partial(t)
          BY <5>1 DEF Answered, Partial
        <5>3. ~Partial(t)'
          BY <5>1, AnsweredInTime
        <5>4. tasks'[t].wait = tasks[t].wait
          BY <5>1 DEF Answered
        <5> QED BY <4>2, <5>2, <5>3, <5>4
      <4> QED BY <4>1, <4>2
    <3>4. /\ a = Timeout - tasks[h].wait + (IF Partial(h) THEN Timeout ELSE 0) + l
          /\ HistoryLasts' = Timeout - tasks[h].wait + (IF Partial(h) THEN Timeout ELSE 0) + m
      BY <1>1, <1>2, <2>1, <2>3, <3>1, <3>3 DEF HistoryLasts
    <3>5. PICK b \in Nat : b = Timeout - tasks[h].wait + (IF Partial(h) THEN Timeout ELSE 0) + m
      BY <1>1, <1>6, <3>2
    <3>6. b <= a
      BY <1>1, <1>6, <3>2, <3>4, <3>5
    <3> QED BY <1>2, <3>4, <3>5, <3>6
  <2> QED BY <2>2, <2>3
<1> QED BY <1>4, <1>5

LEMMA IntervalSums ==
  ASSUME NEW x \in Nat, NEW s \in 0..Interval, NEW r \in Int, NEW l \in Nat, NEW m \in Nat, m <= l
  PROVE  /\ x + Interval - s + 2 * Timeout + l <= Lag => x + Interval - s + 2 * Timeout + m <= Lag
         /\ x + r + Interval - 1 + 2 * Timeout + l <= Lag
              => x + r + Interval - 1 + 2 * Timeout + m <= Lag
<1>1. Timeout \in Nat /\ Lag \in Nat /\ Interval \in Nat /\ s \in Nat
  BY Latencies
<1>2. PICK i \in Int : i = x + Interval - s + 2 * Timeout
  BY <1>1
<1>3. PICK j \in Int : j = x + r + Interval - 1 + 2 * Timeout
  BY <1>1
<1>4. (i + l <= Lag => i + m <= Lag) /\ (j + l <= Lag => j + m <= Lag)
  BY <1>1
<1> QED BY <1>2, <1>3, <1>4

LEMMA StepsKeepInsight ==
  ASSUME FetchInv, InTime, FetchInv', InTime', Still, Well,
         NEW t \in Runners, Served(t) \/ Queued(t) \/ Called(t) \/ Answered(t),
         NEW x \in Nat, InsightOnTime(x)
  PROVE  InsightOnTime(x)'
<1>1. /\ \A u \in Runners \ {t} : tasks'[u] = tasks[u]
      /\ UNCHANGED <<rows, since>> /\ Row0' = Row0 /\ tasks[t].kind \in Kinds
  BY DEF Served, Queued, Called, Answered, MovesOn, Stands, Still, Row0, FetchInv, FetchTypeOK, Task
<1>7. PICK l, m \in Nat : l = Late /\ m = Late' /\ m <= l
  BY LateShrinks, StepsTroubles
<1>8. PICK a, b \in Nat : a = HistoryLasts /\ b = HistoryLasts' /\ b <= a
  BY StepsShortenHistory
<1>2. /\ Timeout \in Nat /\ Lag \in Nat /\ Interval \in Nat
      /\ since \in 0..Interval /\ Row0.left \in Int
  BY RowZero, Latencies DEF InTime, ClocksInStep
<1>3. ASSUME NEW u \in Runners, Asks(u, "insight"), x + Timeout - tasks[u].wait <= Lag
      PROVE  InsightOnTime(x)'
  <2>1. Asks(u, "insight")' /\ tasks'[u].wait = tasks[u].wait
    BY <1>1, <1>3 DEF Served, Queued, Called, Answered, Stands, Asks
  <2> QED BY <1>3, <2>1, OnTimeByCall
<1>4. ASSUME Row0.left <= 0, x + Timeout <= Lag,
             NEW u \in Runners, tasks[u].kind = "insight", tasks[u].pc \in {"start", "queue"}
      PROVE  InsightOnTime(x)'
  <2>1. ~IsFresh(tasks[u].kind)
    BY <1>2, <1>4, DayZero DEF IsFresh, Row0
  <2>2. CASE u = t /\ Called(t)
    <3>1. Asks(t, "insight")' /\ tasks'[t].wait = 0
      BY <1>4, <2>2 DEF Called, Stands, Asks
    <3>2. x + Timeout - 0 <= Lag
      BY <1>2, <1>4
    <3> QED BY <3>1, <3>2, OnTimeByCall
  <2>3. CASE u # t \/ Queued(t)
    <3>1. tasks'[u].kind = "insight" /\ tasks'[u].pc \in {"start", "queue"}
      BY <1>1, <1>4, <2>3 DEF Queued, Stands
    <3> QED BY <1>1, <1>4, <3>1, OnTimeByStart
  <2> QED BY <1>4, <2>1, <2>2, <2>3 DEF Served, Answered
<1>5. ASSUME Row0.left <= 0, x + HistoryLasts + Timeout <= Lag,
             NEW u \in Refreshers, tasks[u].kind = "history", tasks[u].pc # "idle"
      PROVE  InsightOnTime(x)'
  <2>1. u \in Runners
    BY DEF Refreshers, Runners
  <2>2. CASE u = t /\ Served(t)
    <3>1. tasks'[t].kind = "insight" /\ tasks'[t].pc = "start"
      BY <1>5, <2>2, BegunFacts DEF Served, MovesOn, Kinds
    <3>2. x + Timeout <= Lag
      BY <1>2, <1>5, <1>8
    <3> QED BY <1>1, <1>5, <3>1, <3>2, OnTimeByStart
  <2>3. CASE ~(u = t /\ Served(t))
    <3>1. tasks'[u].kind = "history" /\ tasks'[u].pc # "idle"
      BY <1>1, <1>5, <2>1, <2>3 DEF Queued, Called, Answered, Stands
    <3>2. x + b + Timeout <= Lag
      BY <1>2, <1>5, <1>8
    <3>3. x + HistoryLasts' + Timeout <= Lag
      BY <1>8, <3>2
    <3> QED BY <1>1, <1>5, <3>1, <3>3, OnTimeByRefresh
  <2> QED BY <2>2, <2>3
<1>6. ASSUME \/ Row0.left <= 0 /\ x + Interval - since + 2 * Timeout + Late <= Lag
             \/ Row0.left > 0 /\ x + Row0.left + Interval - 1 + 2 * Timeout + Late <= Lag
      PROVE  InsightOnTime(x)'
  <2>1. \/ Row0.left <= 0 /\ x + Interval - since + 2 * Timeout + m <= Lag
        \/ Row0.left > 0 /\ x + Row0.left + Interval - 1 + 2 * Timeout + m <= Lag
    BY <1>2, <1>6, <1>7, IntervalSums
  <2> QED BY <1>1, <1>7, <2>1, OnTimeByInterval
<1> QED BY <1>3, <1>4, <1>5, <1>6 DEF InsightOnTime

LEMMA StepsKeepArrival ==
  ASSUME FetchInv, InTime, FetchInv', InTime', InsightDebt, Still,
         NEW t \in Runners, Served(t) \/ Queued(t) \/ Called(t) \/ Answered(t)
  PROVE  InsightDebt'
<1>1. unseen' <= Lag
  BY DEF InsightDebt, Still
<1> SUFFICES ASSUME Well', insight'.made, \A u \in Runners : ~Unmade(u)'
             PROVE  Shown' \/ \E x \in Nat : unseen' <= x /\ InsightOnTime(x)'
  BY <1>1 DEF InsightDebt
<1>2. Well /\ insight.made /\ unseen' = unseen /\ Row0' = Row0
  BY DEF Still, Well, Row0
<1>3. ASSUME NEW u \in Runners PROVE ~Unmade(u)
  BY DEF Served, Queued, Called, Answered, MovesOn, Stands, Unmade
<1>4. CASE Shown
  <2>1. onScreen'
    BY <1>4 DEF Shown, Served, Queued, Called, Answered, Misses
  <2> QED BY <1>2, <1>4, <2>1 DEF Shown
<1>5. CASE ~Shown
  <2>1. PICK x \in Nat : unseen <= x /\ InsightOnTime(x)
    BY <1>2, <1>3, <1>5 DEF InsightDebt
  <2> QED BY <1>2, <2>1, StepsKeepInsight
<1> QED BY <1>4, <1>5

\* With the answer the runner gives the history back.
LEMMA ArriveShortensHistory ==
  ASSUME FetchInv, InTime, FetchInv', InTime', NEW t \in Runners, Arrived(t), tasks[t].kind = "history"
  PROVE  \E a, b \in Nat : a = HistoryLasts /\ b = HistoryLasts' /\ b <= a
<1>1. /\ locks["history"] = t /\ locks'["history"] = Nobody /\ t # Nobody
      /\ tasks[t].wait \in Nat /\ tasks[t].wait <= Timeout /\ Timeout \in Nat
  BY Latencies DEF Arrived, Kinds, Runners, Nobody, FetchInv, FetchTypeOK, Task, InTime, TasksInTime,
                   TaskInTime
<1>2. PICK l \in Nat : l = Late /\ l = Late'
  BY LateFacts DEF Arrived, Late
<1>3. HistoryLasts = Timeout - tasks[t].wait + (IF Partial(t) THEN Timeout ELSE 0) + l
  BY <1>1, <1>2 DEF HistoryLasts
<1>4. HistoryLasts' = IF IsFresh("history")' THEN l ELSE Timeout + l
  BY <1>1, <1>2 DEF HistoryLasts
<1>5. ~Partial(t) => IsFresh("history")'
  <2> SUFFICES ASSUME ~Partial(t), NEW d \in Dates("history") PROVE rows'["history"][d].left > 0
    BY DEF IsFresh, Dates
  <2>1. d \in tasks[t].got
    BY DEF Partial, Arrived
  <2> QED BY <2>1, Latencies DEF Arrived
<1>6. PICK w \in Nat : w = tasks[t].wait
  BY <1>1
<1>7. CASE Partial(t)
  <2>1. HistoryLasts = Timeout - w + Timeout + l
    BY <1>3, <1>6, <1>7
  <2>2. HistoryLasts' = l \/ HistoryLasts' = Timeout + l
    BY <1>4
  <2>3. /\ Timeout - w + Timeout + l \in Nat /\ l <= Timeout - w + Timeout + l
        /\ Timeout + l \in Nat /\ Timeout + l <= Timeout - w + Timeout + l
    BY <1>1, <1>6
  <2> QED BY <2>1, <2>2, <2>3
<1>8. CASE ~Partial(t)
  <2>1. HistoryLasts = Timeout - w + l
    BY <1>1, <1>3, <1>6, <1>8
  <2>2. HistoryLasts' = l
    BY <1>4, <1>5, <1>8
  <2>3. Timeout - w + l \in Nat /\ l <= Timeout - w + l
    BY <1>1, <1>6
  <2> QED BY <2>1, <2>2, <2>3
<1> QED BY <1>7, <1>8

LEMMA ArriveKeepsInsight ==
  ASSUME FetchInv, InTime, FetchInv', InTime', NEW t \in Runners, Arrived(t), tasks[t].kind = "history",
         NEW x \in Nat, InsightOnTime(x)
  PROVE  InsightOnTime(x)'
<1>1. /\ \A u \in Runners \ {t} : tasks'[u] = tasks[u]
      /\ UNCHANGED <<since, troubles>> /\ Row0' = Row0 /\ Late' = Late
  BY DEF Arrived, MovesOn, Row0, Late
<1>2. PICK a, b \in Nat : a = HistoryLasts /\ b = HistoryLasts' /\ b <= a
  BY ArriveShortensHistory
<1>3. Timeout \in Nat /\ Lag \in Nat
  BY Latencies
<1>4. ASSUME NEW u \in Runners, Asks(u, "insight"), x + Timeout - tasks[u].wait <= Lag
      PROVE  InsightOnTime(x)'
  <2>1. Asks(u, "insight")' /\ tasks'[u].wait = tasks[u].wait
    BY <1>1, <1>4 DEF Asks
  <2> QED BY <1>4, <2>1, OnTimeByCall
<1>5. ASSUME Row0.left <= 0, x + Timeout <= Lag,
             NEW u \in Runners, tasks[u].kind = "insight", tasks[u].pc \in {"start", "queue"}
      PROVE  InsightOnTime(x)'
  BY <1>1, <1>5, OnTimeByStart
<1>6. ASSUME Row0.left <= 0, x + HistoryLasts + Timeout <= Lag,
             NEW u \in Refreshers, tasks[u].kind = "history", tasks[u].pc # "idle"
      PROVE  InsightOnTime(x)'
  <2>1. CASE u = t
    <3>1. tasks'[t].kind = "insight" /\ tasks'[t].pc = "start"
      BY <1>6, <2>1, BegunFacts DEF Arrived, MovesOn, Kinds
    <3>2. x + Timeout <= Lag
      BY <1>2, <1>3, <1>6
    <3> QED BY <1>1, <1>6, <3>1, <3>2, OnTimeByStart
  <2>2. CASE u # t
    <3>1. x + b + Timeout <= Lag
      BY <1>2, <1>3, <1>6
    <3>2. x + HistoryLasts' + Timeout <= Lag /\ u \in Runners
      BY <1>2, <3>1 DEF Refreshers, Runners
    <3> QED BY <1>1, <1>6, <2>2, <3>2, OnTimeByRefresh
  <2> QED BY <2>1, <2>2
<1>7. ASSUME \/ Row0.left <= 0 /\ x + Interval - since + 2 * Timeout + Late <= Lag
             \/ Row0.left > 0 /\ x + Row0.left + Interval - 1 + 2 * Timeout + Late <= Lag
      PROVE  InsightOnTime(x)'
  BY <1>1, <1>7, OnTimeByInterval
<1> QED BY <1>4, <1>5, <1>6, <1>7 DEF InsightOnTime

LEMMA ArriveKeepsArrival ==
  ASSUME FetchInv, InTime, FetchInv', InTime', InsightDebt, NEW t \in Runners, Arrived(t)
  PROVE  InsightDebt'
<1>1. unseen' <= Lag
  BY DEF InsightDebt, Arrived
<1> SUFFICES ASSUME Well', insight'.made, \A u \in Runners : ~Unmade(u)'
             PROVE  Shown' \/ \E x \in Nat : unseen' <= x /\ InsightOnTime(x)'
  BY <1>1 DEF InsightDebt
<1>2. Well /\ insight.made /\ unseen' = unseen
  BY DEF Arrived, Well
<1>3. CASE tasks[t].kind = "history"
  <2>1. ASSUME NEW u \in Runners PROVE ~Unmade(u)
    BY <1>3 DEF Arrived, MovesOn, Unmade
  <2>2. Row0' = Row0 /\ onScreen' = onScreen
    BY <1>3 DEF Arrived, Row0
  <2>3. CASE Shown
    BY <2>2, <2>3 DEF Shown
  <2>4. CASE ~Shown
    <3>1. PICK x \in Nat : unseen <= x /\ InsightOnTime(x)
      BY <1>2, <2>1, <2>4 DEF InsightDebt
    <3> QED BY <1>2, <1>3, <3>1, ArriveKeepsInsight
  <2> QED BY <2>3, <2>4
<1>4. CASE tasks[t].kind = "insight" /\ tasks[t].says = "ready"
  BY <1>4 DEF Arrived, Shown, Row0
<1>5. CASE tasks[t].kind = "insight" /\ tasks[t].says # "ready"
  <2>1. PICK x \in Nat : x = tasks[t].wait
    BY DEF FetchInv, FetchTypeOK, Task
  <2>2. unseen' <= x /\ x <= Timeout
    BY <1>2, <1>5, <2>1 DEF Arrived, Unmade, InTime, TasksInTime, TaskInTime
  <2>3. Row0'.left = CacheTtl["negative"] - x
    BY <1>5, <2>1 DEF Arrived, Row0
  <2>4. PICK l \in Nat : l = Late' /\ l <= MostLate
    BY LateFacts DEF Arrived, Late
  <2>5. MostLate \in Nat /\ Timeout \in Nat /\ Interval \in Nat /\ Lag \in Nat /\ CacheTtl["negative"] \in Nat
    BY Latencies, InsightRoom
  <2>6. x + Interval + 2 * Timeout + l <= Lag
    <3>1. Interval + MostLate + 3 * Timeout <= Lag /\ x <= Timeout /\ l <= MostLate
      BY <2>2, <2>4, InsightRoom
    <3> QED BY <2>5, <3>1
  <2>7. x + (CacheTtl["negative"] - x) + Interval - 1 + 2 * Timeout + l <= Lag
    BY <2>4, <2>5, InsightRoom
  <2>8. InsightOnTime(x)'
    BY <2>3, <2>4, <2>6, <2>7, InsightBaseline
  <2> QED BY <2>2, <2>8
<1>6. tasks[t].kind \in Kinds
  BY DEF FetchInv, FetchTypeOK, Task
<1> QED BY <1>3, <1>4, <1>5, <1>6 DEF Kinds

\* A step of neither a runner nor the clock leaves the history's hold as it is.
LEMMA HistoryStays ==
  ASSUME FetchInv, InTime, UNCHANGED <<rows, locks, troubles>>,
         \A u \in Runners : tasks[u].pc # "idle" => tasks'[u] = tasks[u]
  PROVE  HistoryLasts' = HistoryLasts
<1>1. Late' = Late /\ IsFresh("history")' = IsFresh("history")
  BY DEF Late, IsFresh, Dates
<1>2. CASE locks["history"] = Nobody
  BY <1>1, <1>2 DEF HistoryLasts
<1>3. CASE locks["history"] # Nobody
  <2>1. PICK h \in Runners : h = locks["history"]
    BY <1>3 DEF FetchInv, FetchTypeOK, Kinds
  <2>2. tasks'[h] = tasks[h]
    BY <1>3, <2>1 DEF InTime, LocksAreHeld, Kinds, Asks
  <2>3. Partial(h)' = Partial(h)
    BY <2>2 DEF Partial, Dates
  <2> QED BY <1>1, <1>3, <2>1, <2>2, <2>3 DEF HistoryLasts
<1> QED BY <1>2, <1>3

LEMMA OthersKeepInsight ==
  ASSUME FetchInv, InTime, UNCHANGED <<rows, locks, troubles>>, since' = since \/ Row0.left > 0,
         \A u \in Runners : tasks[u].pc # "idle" => tasks'[u] = tasks[u],
         NEW x \in Nat, InsightOnTime(x)
  PROVE  InsightOnTime(x)'
<1>1. Late' = Late /\ Row0' = Row0 /\ HistoryLasts' = HistoryLasts
  BY HistoryStays DEF Late, Row0
<1>2. ASSUME NEW u \in Runners, Asks(u, "insight"), x + Timeout - tasks[u].wait <= Lag
      PROVE  InsightOnTime(x)'
  <2>1. Asks(u, "insight")' /\ tasks'[u].wait = tasks[u].wait
    BY <1>2 DEF Asks
  <2> QED BY <1>2, <2>1, OnTimeByCall
<1>3. ASSUME Row0.left <= 0, x + Timeout <= Lag,
             NEW u \in Runners, tasks[u].kind = "insight", tasks[u].pc \in {"start", "queue"}
      PROVE  InsightOnTime(x)'
  BY <1>1, <1>3, OnTimeByStart
<1>4. ASSUME Row0.left <= 0, x + HistoryLasts + Timeout <= Lag,
             NEW u \in Refreshers, tasks[u].kind = "history", tasks[u].pc # "idle"
      PROVE  InsightOnTime(x)'
  BY <1>1, <1>4, OnTimeByRefresh DEF Refreshers, Runners
<1>5. ASSUME \/ Row0.left <= 0 /\ x + Interval - since + 2 * Timeout + Late <= Lag
             \/ Row0.left > 0 /\ x + Row0.left + Interval - 1 + 2 * Timeout + Late <= Lag
      PROVE  InsightOnTime(x)'
  <2>1. Row0.left \in Int
    BY RowZero
  <2> QED BY <1>1, <1>5, <2>1, OnTimeByInterval
<1> QED BY <1>2, <1>3, <1>4, <1>5 DEF InsightOnTime

\* A refresh that begins when it is due.
LEMMA ScheduleKeepsInsight ==
  ASSUME FetchInv, InTime, FetchInv', InTime', Schedule, Row0.left <= 0,
         NEW x \in Nat, unseen <= x, InsightOnTime(x)
  PROVE  \E y \in Nat : unseen <= y /\ InsightOnTime(y)'
<1>1. PICK t \in Refreshers : Begun(t, "history")
  BY ScheduleSteps
<1>2. /\ since = Interval /\ UNCHANGED <<rows, locks, troubles>> /\ t \in Runners
      /\ \A u \in Runners : tasks[u].pc # "idle" => tasks'[u] = tasks[u]
      /\ tasks'[t].pc = "start" /\ tasks'[t].kind = "history"
  BY <1>1, ScheduleSteps DEF Begun, Refreshers, Runners
<1>3. Late' = Late /\ Row0' = Row0 /\ HistoryLasts' = HistoryLasts
  BY <1>2, HistoryStays DEF Late, Row0
<1>4. /\ Timeout \in Nat /\ Lag \in Nat /\ Interval \in Nat /\ Late \in Nat /\ Late <= MostLate
      /\ MostLate \in Nat /\ Interval + MostLate + 3 * Timeout <= Lag
      /\ HistoryLasts \in Nat
  BY Latencies, LateFacts, InsightRoom, HistoryLastsFacts
<1>5. CASE \E h \in Runners : Partial(h)
  <2>1. PICK h \in Runners : Partial(h)
    BY <1>5
  <2>2. /\ locks["history"] = h /\ h # Nobody
        /\ tasks[h].wait \in Nat /\ tasks[h].wait <= Timeout /\ up <= tasks[h].wait
        /\ unseen \in Nat /\ up \in Nat /\ unseen <= up
    BY <2>1 DEF Partial, FetchInv, FetchTypeOK, Task, CallsHoldLocks, Runners, Nobody, InTime, TasksInTime,
                TaskInTime, ClocksInStep
  <2>3. HistoryLasts = Timeout - tasks[h].wait + Timeout + Late
    BY <2>1, <2>2 DEF HistoryLasts
  <2>4. unseen + HistoryLasts + Timeout <= Lag
    BY <1>4, <2>2, <2>3
  <2> QED BY <1>2, <1>3, <2>2, <2>4, OnTimeByRefresh
<1>6. CASE \A h \in Runners : ~Partial(h)
  <2>1. HistoryLasts <= Timeout + Late
    BY <1>6, HistoryLastsFacts
  <2>2. CASE x + Interval - since + 2 * Timeout + Late <= Lag
    <3>1. x + HistoryLasts + Timeout <= Lag
      BY <1>2, <1>4, <2>1, <2>2
    <3> QED BY <1>2, <1>3, <3>1, OnTimeByRefresh
  <2>3. ASSUME NEW u \in Runners, Asks(u, "insight"), x + Timeout - tasks[u].wait <= Lag
        PROVE  InsightOnTime(x)'
    <3>1. Asks(u, "insight")' /\ tasks'[u].wait = tasks[u].wait
      BY <1>2, <2>3 DEF Asks
    <3> QED BY <2>3, <3>1, OnTimeByCall
  <2>4. ASSUME x + Timeout <= Lag,
               NEW u \in Runners, tasks[u].kind = "insight", tasks[u].pc \in {"start", "queue"}
        PROVE  InsightOnTime(x)'
    BY <1>2, <1>3, <2>4, OnTimeByStart
  <2>5. ASSUME x + HistoryLasts + Timeout <= Lag,
               NEW u \in Refreshers, tasks[u].kind = "history", tasks[u].pc # "idle"
        PROVE  InsightOnTime(x)'
    BY <1>2, <1>3, <2>5, OnTimeByRefresh DEF Refreshers, Runners
  <2>6. Row0.left \in Int /\ ~(Row0.left > 0)
    BY RowZero
  <2> QED BY <2>2, <2>3, <2>4, <2>5, <2>6 DEF InsightOnTime
<1> QED BY <1>5, <1>6

LEMMA ScheduleKeepsArrival ==
  ASSUME FetchInv, InTime, FetchInv', InTime', InsightDebt, Schedule
  PROVE  InsightDebt'
<1>1. /\ UNCHANGED <<auth, cloud, rows, locks, insight, onScreen, unseen, troubles>>
      /\ \A u \in Runners : tasks[u].pc # "idle" => tasks'[u] = tasks[u]
  BY ScheduleSteps DEF Begun
<1>2. unseen' <= Lag
  BY <1>1 DEF InsightDebt
<1> SUFFICES ASSUME Well', insight'.made, \A u \in Runners : ~Unmade(u)'
             PROVE  Shown' \/ \E x \in Nat : unseen' <= x /\ InsightOnTime(x)'
  BY <1>2 DEF InsightDebt
<1>3. Well /\ insight.made /\ (\A u \in Runners : ~Unmade(u)) /\ Row0' = Row0
  BY <1>1 DEF Well, Unmade, Row0
<1>4. CASE Shown
  BY <1>1, <1>3, <1>4 DEF Shown
<1>5. CASE ~Shown
  <2>1. PICK x \in Nat : unseen <= x /\ InsightOnTime(x)
    BY <1>3, <1>5 DEF InsightDebt
  <2>2. CASE Row0.left > 0
    BY <1>1, <2>1, <2>2, OthersKeepInsight
  <2>3. CASE Row0.left <= 0
    BY <1>1, <2>1, <2>3, ScheduleKeepsInsight
  <2> QED BY <2>2, <2>3, RowZero
<1> QED BY <1>4, <1>5

\* What changes neither the rows nor a runner at work.
LEMMA OthersKeepArrival ==
  ASSUME FetchInv, InTime, InsightDebt,
         UNCHANGED <<auth, cloud, rows, locks, troubles, since, unseen>>,
         insight'.made = insight.made, onScreen => onScreen',
         \A u \in Runners : tasks[u].pc # "idle" => tasks'[u] = tasks[u]
  PROVE  InsightDebt'
<1>1. unseen' <= Lag
  BY DEF InsightDebt
<1> SUFFICES ASSUME Well', insight'.made, \A u \in Runners : ~Unmade(u)'
             PROVE  Shown' \/ \E x \in Nat : unseen' <= x /\ InsightOnTime(x)'
  BY <1>1 DEF InsightDebt
<1>2. Well /\ insight.made /\ (\A u \in Runners : ~Unmade(u)) /\ Row0' = Row0
  BY DEF Well, Unmade, Row0
<1>3. CASE Shown
  BY <1>2, <1>3 DEF Shown
<1>4. CASE ~Shown
  <2>1. PICK x \in Nat : unseen <= x /\ InsightOnTime(x)
    BY <1>2, <1>4 DEF InsightDebt
  <2> QED BY <2>1, OthersKeepInsight
<1> QED BY <1>3, <1>4

LEMMA ClientAsksKeepsArrival == ASSUME FetchInv, InTime, InsightDebt, ClientAsks PROVE InsightDebt'
<1>1. \A u \in Runners : tasks[u].pc # "idle" => tasks'[u] = tasks[u]
  BY ClientAsksSteps DEF Begun
<1> QED BY <1>1, ClientAsksSteps, OthersKeepArrival

LEMMA PollKeepsArrival == ASSUME FetchInv, InTime, InsightDebt, PollClaims PROVE InsightDebt'
<1>1. insight'.made = insight.made
  BY DEF PollClaims, InTime, ClocksInStep
<1>2. UNCHANGED <<auth, cloud, rows, locks, tasks, since, unseen, troubles>>
  BY DEF PollClaims
<1>3. onScreen => onScreen'
  <2>1. onScreen' = onScreen \/ onScreen' = TRUE
    BY DEF PollClaims
  <2> QED BY <2>1
<1> QED BY <1>1, <1>2, <1>3, OthersKeepArrival

LEMMA IdleKeepsArrival == ASSUME FetchInv, InTime, InsightDebt, UNCHANGED fetchvars PROVE InsightDebt'
BY OthersKeepArrival DEF fetchvars

LEMMA SumsFromNowOn ==
  ASSUME NEW l \in Nat, l <= MostLate, NEW r \in Int,
         \/ r <= CacheTtl["negative"]
         \/ r <= CacheTtl["insight"] /\ l + Timeout <= MostLate
  PROVE  /\ 0 + Interval + 2 * Timeout + l <= Lag
         /\ 0 + r + Interval - 1 + 2 * Timeout + l <= Lag
<1>1. /\ MostLate \in Nat /\ Timeout \in Nat /\ Interval \in Nat /\ Lag \in Nat
      /\ CacheTtl["negative"] \in Nat /\ CacheTtl["insight"] \in Nat
  BY Latencies, InsightRoom
<1>2. /\ Interval + MostLate + 3 * Timeout <= Lag
      /\ CacheTtl["negative"] + Interval + MostLate + 2 * Timeout <= Lag + 1
      /\ CacheTtl["insight"] + Interval + MostLate + Timeout <= Lag + 1
  BY InsightRoom
<1> QED BY <1>1, <1>2

\* The insight is made, or all becomes well: the time counts from now.
LEMMA FromNowOn ==
  ASSUME FetchInv', InTime', unseen' = 0, NEW l \in Nat, l = Late', l <= MostLate,
         \/ Row0'.left <= CacheTtl["negative"]
         \/ Row0'.left <= CacheTtl["insight"] /\ l + Timeout <= MostLate
  PROVE  InsightDebt'
<1>1. PICK r \in Int : r = Row0'.left
  BY DayZero DEF FetchInv, FetchTypeOK, Kinds, CacheRow, Row0, Dates
<1>2. PICK x \in Nat : x = 0
  OBVIOUS
<1>3. x + Interval + 2 * Timeout + l <= Lag /\ x + r + Interval - 1 + 2 * Timeout + l <= Lag
  BY <1>1, <1>2, SumsFromNowOn
<1>4. InsightOnTime(x)'
  BY <1>1, <1>3, InsightBaseline
<1> QED BY <1>2, <1>4, Latencies DEF InsightDebt

LEMMA MakeKeepsArrival == ASSUME FetchInv, InTime, FetchInv', InTime', MakeInsight PROVE InsightDebt'
<1>1. /\ ~insight.made /\ unseen' = unseen /\ Row0' = Row0 /\ Late' = Late
  BY DEF MakeInsight, Row0, Late
<1>2. unseen = 0
  BY <1>1 DEF InTime, ClocksInStep
<1>3. PICK l \in Nat : l = Late' /\ l <= MostLate
  BY <1>1, LateFacts
<1>4. Row0'.left <= CacheTtl["negative"]
  BY <1>1, RowZero
<1> QED BY <1>1, <1>2, <1>3, <1>4, FromNowOn

LEMMA TroubleKeepsArrival == ASSUME FetchInv, InTime, FetchInv', InTime', Trouble PROVE InsightDebt'
<1>1. Row0' = Row0 /\ unseen' = 0 /\ troubles' = troubles + 1
  BY TroubleSteps DEF Row0
<1>2. PICK l \in Nat : l = Late' /\ l + Timeout <= MostLate
  BY <1>1, LateSteps
<1>3. l <= MostLate
  <2>1. Timeout \in Nat /\ MostLate \in Nat /\ l + Timeout <= MostLate
    BY <1>2, Latencies, InsightRoom
  <2> QED BY <2>1
<1>4. Row0'.left <= CacheTtl["insight"] \/ Row0'.left <= CacheTtl["negative"]
  BY <1>1, RowZero
<1> QED BY <1>1, <1>2, <1>3, <1>4, FromNowOn

LEMMA FailKeepsArrival ==
  ASSUME FetchInv, InTime, InsightDebt, NEW t \in Runners, Fail(t) PROVE InsightDebt'
BY FailKeepsTime DEF InsightDebt, Fail

LEMMA InitArrival == FetchInit => InsightDebt
BY Latencies DEF FetchInit, InsightDebt

\* A tick takes from the time that is left, and there was some.
LEMMA TickKeepsInsight ==
  ASSUME FetchInv, InTime, Ticked, Well, NEW x \in Nat, InsightOnTime(x)
  PROVE  InsightOnTime(x + 1)' /\ x + 1 <= Lag
<1>1. /\ since \in 0..Interval /\ since < Interval /\ since' = since + 1 /\ Late' = Late
      /\ Timeout \in Nat /\ Lag \in Nat /\ Interval \in Nat /\ Interval > 0
      /\ x + 1 \in Nat
  BY Latencies DEF Ticked, Well, InTime, ClocksInStep, Late
<1>2. Row0.left \in Int /\ Row0'.left = IF Row0.left = 0 THEN 0 ELSE Row0.left - 1
  BY RowZero, DayZero DEF Ticked, Kinds, Row0
<1>3. PICK l \in Nat : l = Late /\ l = Late'
  BY <1>1, LateFacts
\* No runner waits for a lock that nobody holds, and no call is overdue.
<1>4. ASSUME NEW u \in Runners, tasks[u].pc # "idle", NEW k \in Kinds, k = tasks[u].kind
      PROVE  \E h \in Runners : h = locks[k] /\ locks[k] # Nobody
  <2>1. ~(tasks[u].pc = "queue" /\ LockFree(u)) /\ tasks[u].pc # "start"
    BY <1>4 DEF Ticked, Urgent
  <2>2. tasks[u].pc \in {"queue", "call", "answered"}
    BY <1>4, <2>1 DEF FetchInv, FetchTypeOK, Task
  <2>3. locks[k] # Nobody
    BY <1>4, <2>1, <2>2 DEF LockFree, FetchInv, CallsHoldLocks, Runners, Nobody
  <2> QED BY <2>3 DEF FetchInv, FetchTypeOK
<1>5. ASSUME NEW h \in Runners, NEW k \in Kinds, h = locks[k], locks[k] # Nobody
      PROVE  /\ Asks(h, k) /\ Asks(h, k)' /\ tasks[h].wait \in Nat /\ tasks[h].wait < Timeout
             /\ tasks'[h].wait = tasks[h].wait + 1 /\ (Partial(h)' <=> Partial(h))
  <2>1. Asks(h, k)
    BY <1>5 DEF InTime, LocksAreHeld
  <2>2. /\ tasks[h].wait \in Nat /\ tasks[h].wait <= Timeout /\ tasks[h].wait # Timeout
        /\ tasks'[h].wait = tasks[h].wait + 1
    BY <2>1 DEF Asks, Ticked, Urgent, FetchInv, FetchTypeOK, Task, InTime, TasksInTime, TaskInTime
  <2>3. Asks(h, k)' /\ (Partial(h)' <=> Partial(h))
    BY <2>1 DEF Asks, Ticked, Partial, Dates
  <2> QED BY <1>1, <2>1, <2>2, <2>3
<1>6. ASSUME NEW u \in Runners, Asks(u, "insight"), x + Timeout - tasks[u].wait <= Lag
      PROVE  InsightOnTime(x + 1)' /\ x + 1 <= Lag
  <2>1. u = locks["insight"] /\ locks["insight"] # Nobody /\ "insight" \in Kinds
    BY <1>6 DEF Asks, FetchInv, CallsHoldLocks, Runners, Nobody, Kinds
  <2>2. /\ Asks(u, "insight")' /\ tasks[u].wait \in Nat /\ tasks[u].wait < Timeout
        /\ tasks'[u].wait = tasks[u].wait + 1
    BY <1>5, <2>1
  <2>3. PICK w \in Nat : w = tasks[u].wait
    BY <2>2
  <2>4. x + 1 + Timeout - (w + 1) <= Lag /\ x + 1 <= Lag
    BY <1>1, <1>6, <2>2, <2>3
  <2>5. x + 1 + Timeout - tasks'[u].wait <= Lag
    BY <2>2, <2>3, <2>4
  <2> QED BY <1>1, <2>2, <2>4, <2>5, OnTimeByCall
<1>7. ASSUME x + Timeout <= Lag,
             NEW u \in Runners, tasks[u].kind = "insight", tasks[u].pc \in {"start", "queue"}
      PROVE  InsightOnTime(x + 1)' /\ x + 1 <= Lag
  <2>1. "insight" \in Kinds /\ tasks[u].pc # "idle"
    BY <1>7 DEF Kinds
  <2>2. PICK h \in Runners : h = locks["insight"] /\ locks["insight"] # Nobody
    BY <1>4, <1>7, <2>1
  <2>3. Asks(h, "insight") /\ tasks[h].wait \in Nat
    BY <1>5, <2>1, <2>2
  <2>4. x + Timeout - tasks[h].wait <= Lag
    BY <1>1, <1>7, <2>3
  <2> QED BY <1>6, <2>3, <2>4
<1>8. ASSUME Row0.left <= 0, x + HistoryLasts + Timeout <= Lag,
             NEW u \in Refreshers, tasks[u].kind = "history", tasks[u].pc # "idle"
      PROVE  InsightOnTime(x + 1)' /\ x + 1 <= Lag
  <2>1. "history" \in Kinds /\ u \in Runners
    BY DEF Kinds, Refreshers, Runners
  <2>2. PICK h \in Runners : h = locks["history"] /\ locks["history"] # Nobody
    BY <1>4, <1>8, <2>1
  <2>3. /\ tasks[h].wait \in Nat /\ tasks[h].wait < Timeout /\ tasks'[h].wait = tasks[h].wait + 1
        /\ (Partial(h)' <=> Partial(h)) /\ locks' = locks
    BY <1>5, <2>1, <2>2 DEF Ticked
  <2>4. PICK w \in Nat, p \in {0, Timeout} : w = tasks[h].wait /\ p = IF Partial(h) THEN Timeout ELSE 0
    BY <2>3
  <2>5. HistoryLasts = Timeout - w + p + l /\ HistoryLasts' = Timeout - (w + 1) + p + l
    BY <1>3, <2>2, <2>3, <2>4 DEF HistoryLasts
  <2>6. x + (Timeout - w + p + l) + Timeout <= Lag /\ p \in Nat /\ w < Timeout
    BY <1>1, <1>8, <2>3, <2>4, <2>5
  <2>7. x + 1 + (Timeout - (w + 1) + p + l) + Timeout <= Lag /\ x + 1 <= Lag
    BY <1>1, <2>6
  <2>8. x + 1 + HistoryLasts' + Timeout <= Lag /\ Row0'.left <= 0
    BY <1>2, <1>8, <2>5, <2>7
  <2>9. tasks'[u].kind = "history" /\ tasks'[u].pc # "idle"
    BY <1>8, <2>1 DEF Ticked
  <2> QED BY <1>1, <2>1, <2>7, <2>8, <2>9, OnTimeByRefresh
<1>9. ASSUME \/ Row0.left <= 0 /\ x + Interval - since + 2 * Timeout + Late <= Lag
             \/ Row0.left > 0 /\ x + Row0.left + Interval - 1 + 2 * Timeout + Late <= Lag
      PROVE  InsightOnTime(x + 1)' /\ x + 1 <= Lag
  <2>1. PICK r \in Int, n \in Int : r = Row0.left /\ n = Row0'.left
    BY <1>2
  <2>2. PICK s \in 0..Interval : s = since /\ s < Interval
    BY <1>1
  <2>3. /\ n = IF r = 0 THEN 0 ELSE r - 1
        /\ \/ r <= 0 /\ x + Interval - s + 2 * Timeout + l <= Lag
           \/ r > 0 /\ x + r + Interval - 1 + 2 * Timeout + l <= Lag
    BY <1>2, <1>3, <1>9, <2>1, <2>2
  <2>4. /\ x + 1 <= Lag
        /\ \/ n <= 0 /\ x + 1 + Interval - (s + 1) + 2 * Timeout + l <= Lag
           \/ n > 0 /\ x + 1 + n + Interval - 1 + 2 * Timeout + l <= Lag
    BY <1>1, <2>2, <2>3
  <2>5. since' = s + 1
    BY <1>1, <2>2
  <2>6. \/ Row0'.left <= 0 /\ x + 1 + Interval - since' + 2 * Timeout + Late' <= Lag
        \/ Row0'.left > 0 /\ x + 1 + Row0'.left + Interval - 1 + 2 * Timeout + Late' <= Lag
    BY <1>3, <2>1, <2>4, <2>5
  <2> QED BY <1>1, <2>4, <2>6, OnTimeByInterval
<1> QED BY <1>6, <1>7, <1>8, <1>9 DEF InsightOnTime

LEMMA TickKeepsArrival ==
  ASSUME FetchInv, InTime, InsightDebt, Ticked
  PROVE  InsightDebt'
<1>1. /\ unseen \in Nat /\ unseen' \in Nat /\ unseen' <= unseen + 1 /\ (unseen' > 0 => unseen < Lag)
      /\ UNCHANGED <<auth, cloud, onScreen, insight>> /\ Lag \in Nat
  <2>1. /\ unseen \in Nat /\ unseen' \in Nat /\ unseen' <= unseen + 1 /\ unseen' <= up'
        /\ (up' > 0 => Well) /\ (unseen' > 0 => insight.made /\ ~onScreen)
        /\ UNCHANGED <<auth, cloud, onScreen, insight>> /\ Lag \in Nat /\ up' \in Nat
        /\ Timeout \in Nat /\ Timeout <= Lag
    <3>1. Timeout <= Lag
      BY InsightRoom, Latencies
    <3> QED BY <3>1, Latencies DEF Ticked, InTime, ClocksInStep
  <2>2. ASSUME unseen' > 0 PROVE unseen < Lag
    <3>1. Well /\ insight.made /\ ~Shown
      BY <2>1, <2>2 DEF Shown
    <3>2. CASE \E u \in Runners : Unmade(u)
      <4>1. PICK u \in Runners : Unmade(u)
        BY <3>2
      <4>2. /\ unseen <= tasks[u].wait /\ tasks[u].wait <= Timeout
            /\ tasks[u].wait # Timeout /\ tasks[u].wait \in Nat
        BY <4>1 DEF Unmade, Ticked, Urgent, FetchInv, FetchTypeOK, Task, InTime, TasksInTime, TaskInTime
      <4> QED BY <2>1, <4>2
    <3>3. CASE \A u \in Runners : ~Unmade(u)
      <4>1. PICK x \in Nat : unseen <= x /\ InsightOnTime(x)
        BY <3>1, <3>3 DEF InsightDebt
      <4>2. x + 1 <= Lag
        BY <3>1, <4>1, TickKeepsInsight
      <4> QED BY <2>1, <4>1, <4>2
    <3> QED BY <3>2, <3>3
  <2> QED BY <2>1, <2>2
<1>2. unseen' <= Lag
  BY <1>1
<1> SUFFICES ASSUME Well', insight'.made, \A u \in Runners : ~Unmade(u)'
             PROVE  Shown' \/ \E x \in Nat : unseen' <= x /\ InsightOnTime(x)'
  BY <1>2 DEF InsightDebt
<1>3. Well /\ insight.made
  BY <1>1 DEF Well
<1>4. ASSUME NEW u \in Runners PROVE ~Unmade(u)
  <2>1. ~Unmade(u)'
    OBVIOUS
  <2> QED BY <2>1 DEF Ticked, Unmade
<1>5. Row0'.says = Row0.says
  BY DayZero DEF Ticked, Kinds, Row0
<1>6. CASE Shown
  BY <1>1, <1>5, <1>6 DEF Shown
<1>7. CASE ~Shown
  <2>1. PICK x \in Nat : unseen <= x /\ InsightOnTime(x)
    BY <1>3, <1>4, <1>7 DEF InsightDebt
  <2>2. InsightOnTime(x + 1)'
    BY <1>3, <2>1, TickKeepsInsight
  <2>3. x + 1 \in Nat /\ unseen' <= x + 1
    BY <1>1, <2>1
  <2> QED BY <2>2, <2>3
<1> QED BY <1>6, <1>7

LEMMA NextArrival ==
  FetchInv /\ InTime /\ InsightDebt /\ FetchInv' /\ InTime' /\ [FetchNext]_fetchvars => InsightDebt'
<1> SUFFICES ASSUME FetchInv, InTime, InsightDebt, FetchInv', InTime', [FetchNext]_fetchvars
             PROVE  InsightDebt'
  OBVIOUS
<1>1. ASSUME NEW t \in Runners, Probe(t) \/ Acquire(t) \/ CloudAnswers(t) \/ Arrive(t) \/ Fail(t)
      PROVE  InsightDebt'
  BY <1>1, ProbeSteps, AcquireSteps, CloudAnswersSteps, StepsKeepArrival, ArriveArrives, ArriveKeepsArrival,
     FailKeepsArrival
<1> QED BY <1>1, ScheduleKeepsArrival, ClientAsksKeepsArrival, PollKeepsArrival, MakeKeepsArrival,
           TroubleKeepsArrival, TickTicks, TickKeepsArrival, IdleKeepsArrival DEF FetchNext, Run

\* For any latencies, and any number of requests and of troubles up to a given
\* one: while the cloud answers and the session holds, the insight of the day
\* is never away from the screen for more than Lag ticks, although the poll
\* that claimed it may have lost it, a row that says there is none may be
\* fresh, and a refresh asks for the history first (daily_insight,
\* upsert_negative).
THEOREM InsightStaysInTime == FetchSpec => []InsightArrives
<1>1. FetchInit => FetchInv /\ InTime /\ InsightDebt
  BY InitFetch, InitInTime, InitArrival
<1>2. FetchInv /\ InTime /\ InsightDebt /\ [FetchNext]_fetchvars => (FetchInv /\ InTime /\ InsightDebt)'
  BY NextFetch, NextInTime, NextArrival
<1>3. InsightDebt => InsightArrives
  BY DEF InsightDebt, InsightArrives
<1> QED BY <1>1, <1>2, <1>3, PTL DEF FetchSpec
=============================================================================
