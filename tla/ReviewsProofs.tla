--------------------------- MODULE ReviewsProofs ---------------------------
(***************************************************************************)
(* What a passing review read and what the merge gate read are the same    *)
(* bytes, for any number of references, files, packages and overlapping    *)
(* callers.                                                                *)
(***************************************************************************)
EXTENDS Reviews, SequenceTheorems, TLAPS

Row == [path : Paths, bytes : Bytes]
Package == [head : Heads, refs : SUBSET Refs, artifacts : Content,
            code : {"VALID", "STALE_SHA", "ARTIFACT_ALTERED", "MISSING_EVIDENCE"}]
Collected == [pc : {"idle", "review", "gate"}, package : Nat, head : Heads, read : Content,
              present : SUBSET Refs]
Report == [package : Nat, read : Content, verdict : Verdicts]

Types ==
  /\ MaxHead \in Nat
  /\ head \in Heads
  /\ file \in Content
  /\ evidence \in [Heads \X Refs -> Row \cup {None}]
  /\ packages \in Seq(Package)
  /\ call \in [Calls -> Collected]
  /\ reports \in Seq(Report)
  /\ authorized \subseteq [package : Nat, read : Content]

\* Whoever read `read` for package i of pk had before it, for each reference of `refs`, the bytes
\* of the row that ev has for it.
Witnessed(pk, ev, i, refs, read) ==
  /\ i \in 1..Len(pk)
  /\ \A e \in refs : ev[<<pk[i].head, e>>] # None /\ read[ev[<<pk[i].head, e>>].path] = ev[<<pk[i].head, e>>].bytes

\* Packages keep their head and their references, registered evidence stays.
Extends(pk, ev, pkNext, evNext) ==
  /\ Len(pk) <= Len(pkNext)
  /\ \A i \in 1..Len(pk) : pkNext[i].head = pk[i].head /\ pkNext[i].refs = pk[i].refs
  /\ \A h \in Heads, r \in Refs : ev[<<h, r>>] # None => evNext[<<h, r>>] = ev[<<h, r>>]

CallsKnow ==
  \A c \in Calls : call[c].pc # "idle" =>
    Witnessed(packages, evidence, call[c].package, call[c].present, call[c].read)

Passed(pk, ev, report) ==
  /\ report.package \in 1..Len(pk)
  /\ report.verdict = "PASS" =>
       Witnessed(pk, ev, report.package, pk[report.package].refs, report.read)

ReportsKnow == \A r \in 1..Len(reports) : Passed(packages, evidence, reports[r])

GateKnows ==
  \A a \in authorized :
    /\ a.package \in 1..Len(packages)
    /\ Witnessed(packages, evidence, a.package, packages[a.package].refs, a.read)

IInv == Types /\ CallsKnow /\ ReportsKnow /\ GateKnows

-----------------------------------------------------------------------------
\* What was witnessed stays so while rows and packages are only added.
LEMMA WitnessedStays ==
  ASSUME NEW pk \in Seq(Package), NEW ev, NEW pkNext, NEW evNext, Extends(pk, ev, pkNext, evNext),
         NEW i, NEW refs \in SUBSET Refs, NEW read, Witnessed(pk, ev, i, refs, read),
         Len(pkNext) \in Nat
  PROVE  Witnessed(pkNext, evNext, i, refs, read)
<1>1. i \in 1..Len(pk) /\ pk[i].head \in Heads
  <2>1. i \in 1..Len(pk) /\ pk[i] \in Package
    BY DEF Witnessed
  <2> QED
    BY <2>1 DEF Package
<1>2. i \in 1..Len(pkNext) /\ pkNext[i].head = pk[i].head
  BY <1>1 DEF Extends
<1>3. \A e \in refs : evNext[<<pk[i].head, e>>] = ev[<<pk[i].head, e>>]
  BY <1>1 DEF Extends, Witnessed
<1> QED
  BY <1>2, <1>3 DEF Witnessed

\* The same of the whole invariant, for a step that changes neither the calls nor the verdicts.
LEMMA KnowledgeStays ==
  ASSUME IInv, Types', Extends(packages, evidence, packages', evidence')
  PROVE  /\ \A c \in Calls : call[c].pc # "idle" =>
              Witnessed(packages', evidence', call[c].package, call[c].present, call[c].read)
         /\ \A r \in 1..Len(reports) : Passed(packages', evidence', reports[r])
         /\ \A a \in authorized :
              /\ a.package \in 1..Len(packages')
              /\ Witnessed(packages', evidence', a.package, packages'[a.package].refs, a.read)
<1> USE DEF IInv
<1>0. packages \in Seq(Package) /\ Len(packages') \in Nat /\ Len(packages) \in Nat
  BY DEF Types
<1>1. ASSUME NEW c \in Calls, call[c].pc # "idle"
      PROVE  Witnessed(packages', evidence', call[c].package, call[c].present, call[c].read)
  <2>1. Witnessed(packages, evidence, call[c].package, call[c].present, call[c].read)
    BY <1>1 DEF CallsKnow
  <2>2. call[c].present \in SUBSET Refs
    BY DEF Types, Collected
  <2> QED
    BY <1>0, <2>1, <2>2, WitnessedStays
<1>2. ASSUME NEW i \in 1..Len(packages), NEW read,
             Witnessed(packages, evidence, i, packages[i].refs, read)
      PROVE  Witnessed(packages', evidence', i, packages'[i].refs, read)
  <2>1. packages[i].refs \in SUBSET Refs
    <3>1. packages[i] \in Package
      BY <1>0
    <3> QED
      BY <3>1 DEF Package
  <2>2. packages'[i].refs = packages[i].refs
    BY DEF Extends
  <2> QED
    BY <1>0, <1>2, <2>1, <2>2, WitnessedStays
<1>3. \A i \in 1..Len(packages) : i \in 1..Len(packages')
  BY <1>0 DEF Extends
<1>4. ASSUME NEW r \in 1..Len(reports) PROVE Passed(packages', evidence', reports[r])
  BY <1>2, <1>3 DEF ReportsKnow, Passed
<1>5. ASSUME NEW a \in authorized
      PROVE  /\ a.package \in 1..Len(packages')
             /\ Witnessed(packages', evidence', a.package, packages'[a.package].refs, a.read)
  BY <1>2, <1>3 DEF GateKnows
<1> QED
  BY <1>1, <1>4, <1>5

-----------------------------------------------------------------------------
\* Collecting the facts of a package witnesses every reference it found present.
LEMMA FactsAreWitnessed ==
  ASSUME IInv, NEW i \in 1..Len(packages)
  PROVE  /\ Witnessed(packages, evidence, i, Facts(i).present, Facts(i).read)
         /\ Facts(i).read \in Content /\ Facts(i).present \in SUBSET Refs
<1> DEFINE h == packages[i].head
<1>1. h \in Heads
  <2>1. packages[i] \in Package
    BY DEF IInv, Types
  <2> QED
    BY <2>1 DEF Package
<1>2. file \in Content /\ evidence \in [Heads \X Refs -> Row \cup {None}]
  BY DEF IInv, Types
<1>3. Facts(i).present = {r \in Registered(h) : file[evidence[<<h, r>>].path] = evidence[<<h, r>>].bytes}
  BY DEF Facts
<1>4. Facts(i).read = [p \in Paths |-> IF \E r \in Registered(h) : evidence[<<h, r>>].path = p
                                       THEN file[p] ELSE None]
  BY DEF Facts
<1>5. Facts(i).read \in Content
  BY <1>2, <1>4 DEF Content
<1>6. Facts(i).present \in SUBSET Refs
  BY <1>3 DEF Registered
<1>7. ASSUME NEW e \in Facts(i).present
      PROVE  evidence[<<h, e>>] # None /\ Facts(i).read[evidence[<<h, e>>].path] = evidence[<<h, e>>].bytes
  <2>1. e \in Registered(h) /\ file[evidence[<<h, e>>].path] = evidence[<<h, e>>].bytes
    BY <1>3, <1>7
  <2>2. e \in Refs /\ evidence[<<h, e>>] # None
    BY <2>1 DEF Registered
  <2>3. evidence[<<h, e>>] \in Row
    BY <1>1, <1>2, <2>2
  <2>4. evidence[<<h, e>>].path \in Paths
    BY <2>3 DEF Row
  <2> QED
    BY <1>4, <2>1, <2>2, <2>4
<1> QED
  BY <1>5, <1>6, <1>7 DEF Witnessed

\* A package that is not refused was read in full.
LEMMA ValidIsWitnessed ==
  ASSUME IInv, NEW c \in Calls, call[c].pc # "idle", Refusal(c) = "VALID"
  PROVE  Witnessed(packages, evidence, call[c].package, packages[call[c].package].refs, call[c].read)
<1>1. Witnessed(packages, evidence, call[c].package, call[c].present, call[c].read)
  BY DEF IInv, CallsKnow
<1>2. packages[call[c].package].refs \subseteq call[c].present
  BY DEF Refusal, Present
<1> QED
  BY <1>1, <1>2 DEF Witnessed

\* Writing down why a package is invalid changes neither its head nor its references.
LEMMA ValidatedExtends ==
  ASSUME IInv, NEW c \in Calls, call[c].pc # "idle"
  PROVE  /\ Validated(c) \in Seq(Package)
         /\ Extends(packages, evidence, Validated(c), evidence)
         /\ \A i \in 1..Len(packages) : Validated(c)[i].refs = packages[i].refs
<1> DEFINE i == call[c].package
           code == Refusal(c)
<1>1. packages \in Seq(Package) /\ i \in 1..Len(packages)
  BY DEF IInv, Types, CallsKnow, Witnessed
<1>2. code \in {"VALID", "STALE_SHA", "ARTIFACT_ALTERED", "MISSING_EVIDENCE"}
  BY DEF Refusal
<1>3. CASE code = "VALID"
  <2>1. Validated(c) = packages
    BY <1>3 DEF Validated
  <2>2. Len(packages) \in Nat
    BY <1>1
  <2> QED
    BY <1>1, <2>1, <2>2 DEF Extends
<1>4. CASE code # "VALID"
  <2>1. Validated(c) = [packages EXCEPT ![i].code = code]
    BY <1>4 DEF Validated
  <2>2. [packages[i] EXCEPT !.code = code] \in Package
    <3>1. packages[i] \in Package
      BY <1>1
    <3> QED
      BY <1>2, <3>1 DEF Package
  <2>3. Validated(c) = [packages EXCEPT ![i] = [packages[i] EXCEPT !.code = code]]
    BY <2>1
  <2>4. Validated(c) \in Seq(Package) /\ Len(Validated(c)) = Len(packages)
    BY <1>1, <2>2, <2>3
  <2>5. ASSUME NEW k \in 1..Len(packages)
        PROVE  Validated(c)[k].head = packages[k].head /\ Validated(c)[k].refs = packages[k].refs
    <3>1. packages[k] \in Package
      BY <1>1
    <3>2. k # i => Validated(c)[k] = packages[k]
      BY <1>1, <2>3
    <3>3. k = i => Validated(c)[k] = [packages[i] EXCEPT !.code = code]
      BY <1>1, <2>3
    <3> QED
      BY <3>1, <3>2, <3>3 DEF Package
  <2> QED
    BY <1>1, <2>4, <2>5 DEF Extends
<1> QED
  BY <1>3, <1>4

LEMMA InitIInv ==
  ASSUME MaxHead \in Nat, Init
  PROVE  IInv
<1> USE DEF Init
<1>1. head \in Heads /\ file \in Content /\ evidence \in [Heads \X Refs -> Row \cup {None}]
  BY DEF Heads, Content
<1>2. Idle \in Collected
  BY <1>1 DEF Idle, Collected, Heads, Content
<1>3. Types
  BY <1>1, <1>2 DEF Types
<1>4. CallsKnow
  BY DEF CallsKnow, Idle
<1>5. ReportsKnow /\ GateKnows
  BY DEF ReportsKnow, GateKnows
<1> QED
  BY <1>3, <1>4, <1>5 DEF IInv

-----------------------------------------------------------------------------
\* A caller has collected the facts of a package.
LEMMA CollectKeeps ==
  ASSUME IInv, NEW c \in Calls, NEW i \in 1..Len(packages), NEW for \in {"review", "gate"},
         Collect(c, i, for)
  PROVE  IInv'
<1> DEFINE new == [pc |-> for, package |-> i, head |-> head, read |-> Facts(i).read,
                   present |-> Facts(i).present]
<1>1. call' = [call EXCEPT ![c] = new]
  BY DEF Collect
<1>2. UNCHANGED <<head, file, evidence, packages, reports, authorized>>
  BY DEF Collect, verdicts
<1>3. /\ Witnessed(packages, evidence, i, new.present, new.read)
      /\ new.read \in Content /\ new.present \in SUBSET Refs
  BY FactsAreWitnessed
<1>4. new \in Collected
  BY <1>3 DEF IInv, Types, Collected
<1>5. Types'
  BY <1>1, <1>2, <1>4 DEF IInv, Types, Content
<1>6. CallsKnow'
  BY <1>1, <1>2, <1>3 DEF IInv, Types, CallsKnow
<1>7. ReportsKnow' /\ GateKnows'
  BY <1>2 DEF IInv, ReportsKnow, GateKnows
<1> QED
  BY <1>5, <1>6, <1>7 DEF IInv

\* What a caller who finished keeps.
LEMMA IdleIsTyped == Types => Idle \in Collected
BY DEF Types, Idle, Collected, Content, Heads

\* A step that reads no facts and gives no verdict keeps the invariant as long as evidence and
\* packages are only added.
LEMMA AddingKeeps ==
  ASSUME IInv, Types', Extends(packages, evidence, packages', evidence'),
         UNCHANGED <<call, reports, authorized>>
  PROVE  IInv'
BY KnowledgeStays DEF IInv, CallsKnow, ReportsKnow, GateKnows

LEMMA RegisterKeeps ==
  ASSUME IInv, NEW h \in Heads, NEW r \in Refs, NEW p \in Paths, register_merge_evidence(h, r, p)
  PROVE  IInv'
<1> DEFINE new == [path |-> p, bytes |-> file[p]]
<1>1. /\ evidence[<<h, r>>] = None /\ file[p] # None
      /\ evidence' = [evidence EXCEPT ![<<h, r>>] = new]
      /\ UNCHANGED <<head, file, packages, call, reports, authorized>>
  BY DEF register_merge_evidence, Registers, verdicts
<1>2. new \in Row
  BY <1>1 DEF IInv, Types, Content, Row
<1>3. Types'
  BY <1>1, <1>2 DEF IInv, Types
<1>4. \A k \in Heads, e \in Refs : evidence[<<k, e>>] # None => evidence'[<<k, e>>] = evidence[<<k, e>>]
  BY <1>1 DEF IInv, Types
<1>5. Extends(packages, evidence, packages', evidence')
  BY <1>1, <1>4 DEF IInv, Types, Extends
<1> QED
  BY <1>1, <1>3, <1>5, AddingKeeps

LEMMA BuildKeeps ==
  ASSUME IInv, NEW refs \in SUBSET Refs, NEW listed \in SUBSET Paths,
         build_review_package(refs, listed)
  PROVE  IInv'
<1> DEFINE new == [head |-> head, refs |-> refs,
                   artifacts |-> [p \in Paths |-> IF p \in listed THEN file[p] ELSE None], code |-> "VALID"]
<1>1. packages' = Append(packages, new) /\ UNCHANGED <<head, file, evidence, call, reports, authorized>>
  BY DEF build_review_package, verdicts
<1>2. new \in Package
  <2>1. head \in Heads /\ file \in Content
    BY DEF IInv, Types
  <2>2. new.artifacts \in Content
    BY <2>1 DEF Content
  <2> QED
    BY <2>1, <2>2 DEF Package
<1>3. Types' /\ packages \in Seq(Package)
  <2>1. packages \in Seq(Package)
    BY DEF IInv, Types
  <2>2. packages' \in Seq(Package)
    BY <1>1, <1>2, <2>1, AppendProperties
  <2> QED
    BY <1>1, <2>1, <2>2 DEF IInv, Types
<1>4. Extends(packages, evidence, packages', evidence')
  <2>1. Len(packages') = Len(packages) + 1 /\ \A i \in 1..Len(packages) : packages'[i] = packages[i]
    BY <1>1, <1>2, <1>3, AppendProperties
  <2>2. Len(packages) \in Nat
    BY <1>3
  <2> QED
    BY <1>1, <2>1, <2>2 DEF Extends
<1> QED
  BY <1>1, <1>3, <1>4, AddingKeeps

\* What a review or the gate writes, given what its caller knew.
LEMMA ReviewKeeps ==
  ASSUME IInv, NEW c \in Calls, Review(c)
  PROVE  IInv'
<1>1. call[c].pc # "idle" /\ packages' = Validated(c) /\ UNCHANGED <<head, file, evidence, authorized>>
  BY DEF Review
<1>2. call' = [call EXCEPT ![c] = Idle] /\ Idle \in Collected
  BY IdleIsTyped DEF Review, Finish, IInv
<1>3. PICK new : /\ reports' = Append(reports, new)
                 /\ new.package = call[c].package /\ new.read = call[c].read
                 /\ new \in Report
                 /\ new.verdict = "PASS" => Refusal(c) = "VALID"
  <2>1. PICK seen \in Observations :
          LET valid == Refusal(c) = "VALID"
              codes == IF valid THEN run_firewall(seen) ELSE {Refusal(c)}
          IN reports' = Append(reports, [package |-> call[c].package, read |-> call[c].read,
                                         verdict |-> compute_verdict(codes, valid)])
    BY DEF Review
  <2> DEFINE codes == IF Refusal(c) = "VALID" THEN run_firewall(seen) ELSE {Refusal(c)}
             verdict == compute_verdict(codes, Refusal(c) = "VALID")
  <2>2. verdict \in Verdicts /\ (verdict = "PASS" => Refusal(c) = "VALID")
    BY DEF compute_verdict, Verdicts
  <2>3. call[c].package \in Nat /\ call[c].read \in Content
    BY DEF IInv, Types, Collected
  <2>4. reports' = Append(reports, [package |-> call[c].package, read |-> call[c].read, verdict |-> verdict])
    BY <2>1
  <2>5. [package |-> call[c].package, read |-> call[c].read, verdict |-> verdict] \in Report
    BY <2>2, <2>3 DEF Report
  <2> WITNESS [package |-> call[c].package, read |-> call[c].read, verdict |-> verdict]
  <2> QED
    BY <2>2, <2>4, <2>5
<1>4. /\ Validated(c) \in Seq(Package)
      /\ Extends(packages, evidence, packages', evidence')
      /\ \A i \in 1..Len(packages) : packages'[i].refs = packages[i].refs
  BY <1>1, ValidatedExtends
<1>5. Types'
  <2>1. Types /\ reports \in Seq(Report)
    BY DEF IInv, Types
  <2>2. reports' \in Seq(Report)
    BY <1>3, <2>1, AppendProperties
  <2>3. call' \in [Calls -> Collected]
    BY <1>2, <2>1 DEF Types
  <2> QED
    BY <1>1, <1>4, <2>1, <2>2, <2>3 DEF Types
<1>6. CallsKnow'
  BY <1>2, <1>4, <1>5, KnowledgeStays DEF CallsKnow, Idle, IInv, Types
<1>7. GateKnows'
  BY <1>1, <1>4, <1>5, KnowledgeStays DEF GateKnows
<1>8. Passed(packages, evidence, new)
  <2>1. call[c].package \in 1..Len(packages)
    BY <1>1 DEF IInv, CallsKnow, Witnessed
  <2> QED
    BY <1>1, <1>3, <2>1, ValidIsWitnessed DEF Passed
<1>9. Passed(packages', evidence', new)
  <2>1. new.package \in 1..Len(packages) /\ new.package \in 1..Len(packages')
    BY <1>4, <1>5, <1>8 DEF Passed, Extends, IInv, Types
  <2>2. packages'[new.package].refs = packages[new.package].refs
    BY <1>4, <2>1
  <2>3. packages[new.package].refs \in SUBSET Refs
    <3>1. packages[new.package] \in Package
      BY <2>1 DEF IInv, Types
    <3> QED
      BY <3>1 DEF Package
  <2>4. packages \in Seq(Package) /\ Len(packages') \in Nat
    BY <1>5 DEF IInv, Types
  <2> QED
    BY <1>4, <1>8, <2>1, <2>2, <2>3, <2>4, WitnessedStays DEF Passed
<1>10. ReportsKnow'
  <2>1. reports \in Seq(Report)
    BY DEF IInv, Types
  <2>2. \A r \in 1..Len(reports) : Passed(packages', evidence', reports[r])
    BY <1>4, <1>5, KnowledgeStays
  <2>3. /\ Len(reports') = Len(reports) + 1 /\ Len(reports) \in Nat
        /\ reports'[Len(reports) + 1] = new
        /\ \A r \in 1..Len(reports) : reports'[r] = reports[r]
    <3>1. reports' = Append(reports, new) /\ new \in Report
      BY <1>3
    <3> QED
      BY <2>1, <3>1, AppendProperties
  <2>4. ASSUME NEW r \in 1..Len(reports') PROVE Passed(packages', evidence', reports'[r])
    <3>1. r \in 1..Len(reports) \/ r = Len(reports) + 1
      BY <2>3
    <3> QED
      BY <1>9, <2>2, <2>3, <3>1
  <2> QED
    BY <2>4 DEF ReportsKnow
<1> QED
  BY <1>5, <1>6, <1>7, <1>10 DEF IInv

LEMMA AuthorizeKeeps ==
  ASSUME IInv, NEW c \in Calls, Authorize(c)
  PROVE  IInv'
<1> DEFINE new == [package |-> call[c].package, read |-> call[c].read]
<1>1. call[c].pc # "idle" /\ packages' = Validated(c) /\ UNCHANGED <<head, file, evidence, reports>>
  BY DEF Authorize
<1>2. call' = [call EXCEPT ![c] = Idle] /\ Idle \in Collected
  BY IdleIsTyped DEF Authorize, Finish, IInv
<1>3. authorized' = authorized \/ (Refusal(c) = "VALID" /\ authorized' = authorized \cup {new})
  BY DEF Authorize
<1>4. /\ Validated(c) \in Seq(Package)
      /\ Extends(packages, evidence, packages', evidence')
      /\ \A i \in 1..Len(packages) : packages'[i].refs = packages[i].refs
  BY <1>1, ValidatedExtends
<1>5. new \in [package : Nat, read : Content]
  BY DEF IInv, Types, Collected
<1>6. Types'
  BY <1>1, <1>2, <1>3, <1>4, <1>5 DEF IInv, Types
<1>7. CallsKnow'
  BY <1>2, <1>4, <1>6, KnowledgeStays DEF CallsKnow, Idle, IInv, Types
<1>8. ReportsKnow'
  BY <1>1, <1>4, <1>6, KnowledgeStays DEF ReportsKnow
<1>9. Refusal(c) = "VALID" =>
        /\ call[c].package \in 1..Len(packages')
        /\ Witnessed(packages', evidence', call[c].package, packages'[call[c].package].refs, call[c].read)
  <2>0. packages \in Seq(Package) /\ packages' \in Seq(Package)
    BY <1>6 DEF IInv, Types
  <2> SUFFICES ASSUME Refusal(c) = "VALID"
               PROVE  /\ call[c].package \in 1..Len(packages')
                      /\ Witnessed(packages', evidence', call[c].package, packages'[call[c].package].refs, call[c].read)
    OBVIOUS
  <2>1. Witnessed(packages, evidence, call[c].package, packages[call[c].package].refs, call[c].read)
    BY <1>1, ValidIsWitnessed
  <2>2. call[c].package \in 1..Len(packages)
    BY <2>1 DEF Witnessed
  <2>3. packages'[call[c].package].refs = packages[call[c].package].refs
    BY <1>4, <2>2
  <2>4. packages[call[c].package].refs \in SUBSET Refs
    <3>1. packages[call[c].package] \in Package
      BY <2>0, <2>2
    <3> QED
      BY <3>1 DEF Package
  <2>5. Len(packages') \in Nat
    BY <2>0
  <2>6. Witnessed(packages', evidence', call[c].package, packages[call[c].package].refs, call[c].read)
    BY <1>4, <2>0, <2>1, <2>4, <2>5, WitnessedStays
  <2> QED
    BY <2>3, <2>6 DEF Witnessed
<1>10. ASSUME NEW a \in authorized'
       PROVE  /\ a.package \in 1..Len(packages')
              /\ Witnessed(packages', evidence', a.package, packages'[a.package].refs, a.read)
  <2>1. CASE a \in authorized
    BY <1>4, <1>6, <2>1, KnowledgeStays
  <2>2. CASE a \notin authorized
    <3>1. Refusal(c) = "VALID" /\ a = new
      BY <1>3, <2>2
    <3>2. a.package = call[c].package /\ a.read = call[c].read
      BY <3>1
    <3> QED
      BY <1>9, <3>1, <3>2
  <2> QED
    BY <2>1, <2>2
<1>11. GateKnows'
  BY <1>10 DEF GateKnows
<1> QED
  BY <1>6, <1>7, <1>8, <1>11 DEF IInv

-----------------------------------------------------------------------------
LEMMA Invariance == IInv /\ [Next]_vars => IInv'
<1> SUFFICES ASSUME IInv, [Next]_vars PROVE IInv'
  OBVIOUS
<1>1. CASE Commit
  <2>1. head' \in Heads /\ UNCHANGED <<file, evidence, packages, call, reports, authorized>>
    BY <1>1 DEF Commit, verdicts, IInv, Types, Heads
  <2> QED
    BY <2>1, AddingKeeps DEF IInv, Types, Extends
<1>2. ASSUME NEW p \in Paths, NEW b \in Bytes \cup {None}, Edit(p, b) PROVE IInv'
  <2>1. file' \in Content /\ UNCHANGED <<head, evidence, packages, call, reports, authorized>>
    BY <1>2 DEF Edit, verdicts, IInv, Types, Content
  <2> QED
    BY <2>1, AddingKeeps DEF IInv, Types, Extends
<1>3. ASSUME NEW h \in Heads, NEW r \in Refs, NEW p \in Paths, register_merge_evidence(h, r, p) PROVE IInv'
  BY <1>3, RegisterKeeps
<1>4. ASSUME NEW refs \in SUBSET Refs, NEW listed \in SUBSET Paths, build_review_package(refs, listed)
      PROVE  IInv'
  BY <1>4, BuildKeeps
<1>5. ASSUME NEW c \in Calls, NEW i \in 1..Len(packages), CollectForReview(c, i) \/ CollectForGate(c, i)
      PROVE  IInv'
  BY <1>5, CollectKeeps DEF CollectForReview, CollectForGate
<1>6. ASSUME NEW c \in Calls, Review(c) PROVE IInv'
  BY <1>6, ReviewKeeps
<1>7. ASSUME NEW c \in Calls, Authorize(c) PROVE IInv'
  BY <1>7, AuthorizeKeeps
<1>8. ASSUME UNCHANGED <<head, file, evidence, packages, call, reports, authorized>> PROVE IInv'
  BY <1>8, AddingKeeps DEF IInv, Types, Extends
<1>9. ASSUME NEW r \in 1..Len(reports), NEW n \in 1..2, EvaluateFixLoop(r, n) PROVE IInv'
  BY <1>8, <1>9 DEF EvaluateFixLoop
<1>10. ASSUME NEW f \in findings, Waive(f) PROVE IInv'
  BY <1>8, <1>10 DEF Waive
<1>11. CASE UNCHANGED vars
  BY <1>8, <1>11 DEF vars, verdicts
<1> QED
  BY <1>1, <1>2, <1>3, <1>4, <1>5, <1>6, <1>7, <1>9, <1>10, <1>11 DEF Next

(* The merge gate accepts a package on the very bytes that every passing review of it read,  *)
(* whatever is edited, removed, restored or registered meanwhile (merge_gate.py              *)
(* _authoritative_rp_facts, reviewpkg.py resolve_review_facts): both read the registered     *)
(* bytes, and a row of merge_evidence is never replaced.                                     *)
THEOREM GateReadsWhatWasReviewed ==
  ASSUME MaxHead \in Nat
  PROVE  Spec => []GateSeesReviewedBytes
<1>1. Init => IInv
  BY InitIInv
<1>2. IInv /\ [Next]_vars => IInv'
  BY Invariance
<1>3. IInv => GateSeesReviewedBytes
  BY DEF IInv, ReportsKnow, GateKnows, Passed, Witnessed, GateSeesReviewedBytes
<1> QED
  BY <1>1, <1>2, <1>3, PTL DEF Spec
=============================================================================
