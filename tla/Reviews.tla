------------------------------ MODULE Reviews ------------------------------
(***************************************************************************)
(* Review packages, the evidence they rest on, and verdicts: reviewpkg.py, *)
(* firewall.py, quality.py, impact.py, and the evidence half of the merge  *)
(* gate (merge_gate.py _authoritative_rp_facts).                           *)
(*                                                                         *)
(* Evidence is a file: its bytes are a model value and its sha256 is the   *)
(* bytes.  Files change under the reviewer's hands, so collecting facts    *)
(* and judging them are two steps.                                         *)
(***************************************************************************)
EXTENDS Naturals, Sequences

CONSTANTS
  Refs, Paths, Bytes,  \* evidence references, file names, file contents
  None,
  Observations,        \* sets of observations a firewall run may make
  Calls,               \* overlapping reviews and authorizations
  MaxHead,             \* bound: commits
  MaxPackages,         \* bound: review packages
  MaxReports           \* bound: reports

VARIABLES
  head,       \* the actual head of the branch
  file,       \* the bytes at each path, None when there is no file
  evidence,   \* merge_evidence: the row of (head, ref), None when there is none
  packages,   \* [head, refs, artifacts, code]: code is "VALID" while the package is valid
  call,       \* what each caller has collected
  findings,   \* quality_findings: [package, code, waived]
  reports,    \* quality_reports: [package, verdict, read]
  loops,      \* fix_loops: [package, attempt, verdict, blocked]
  authorized  \* packages whose facts the merge gate accepted: [package, read]

verdicts == <<findings, reports, loops, authorized>>
vars == <<head, file, evidence, packages, call, verdicts>>

Heads == 0..MaxHead
Content == [Paths -> Bytes \cup {None}]
Idle == [pc |-> "idle", package |-> 0, head |-> 0, read |-> [p \in Paths |-> None], present |-> {}]

\* What each gate of the firewall reports.
GATES ==
  [ unmet     |-> "CRITERION_UNMET",        mismatch |-> "REAL_BEHAVIOR_MISMATCH",
    secret    |-> "SECRET_DETECTED",        outdated |-> "FRESHNESS_STALE",
    unused    |-> "NEEDLESS_ABSTRACTION",   stub     |-> "AI_PLACEHOLDER",
    drift     |-> "DOCS_COMMAND_DRIFT",     state    |-> "WEB_STATE_MISSING",
    untested  |-> "SECURITY_TEST_MISSING",  moved    |-> "STALE_REVIEW_HEAD",
    unlicensed |-> "LICENSE_REQUIRED_UNRESOLVED" ]
Major == {"FRESHNESS_STALE", "NEEDLESS_ABSTRACTION", "DOCS_COMMAND_DRIFT", "WEB_STATE_MISSING"}
HardBlock == {"SECRET_DETECTED", "STALE_REVIEW_HEAD"}
OwnerBlock == {"LICENSE_REQUIRED_UNRESOLVED"}
NonWaivable == {"SECRET_DETECTED", "STALE_REVIEW_HEAD"}
Verdicts == {"PASS", "REVISE", "BLOCKED", "OWNER_REQUIRED", "INVALID_EVIDENCE"}

run_firewall(seen) == {GATES[o] : o \in seen}

compute_verdict(codes, valid) ==
  LET blocking == codes \ Major IN
  IF ~valid THEN "INVALID_EVIDENCE"
  ELSE IF blocking = {} THEN "PASS"
  ELSE IF blocking \cap HardBlock # {} THEN "BLOCKED"
  ELSE IF blocking \cap OwnerBlock # {} THEN "OWNER_REQUIRED"
  ELSE "REVISE"

TypeOK ==
  /\ head \in Heads /\ file \in Content
  /\ evidence \in [Heads \X Refs -> [path : Paths, bytes : Bytes] \cup {None}]
  /\ \A i \in 1..Len(packages) :
       packages[i].head \in Heads /\ packages[i].refs \subseteq Refs /\ packages[i].artifacts \in Content
  /\ \A c \in Calls : call[c].pc \in {"idle", "review", "gate"} /\ call[c].read \in Content
  /\ \A r \in 1..Len(reports) : reports[r].verdict \in Verdicts /\ reports[r].package \in 1..Len(packages)
  /\ \A f \in findings : f.waived => f.code \notin NonWaivable

Init ==
  /\ head = 0
  /\ file \in [Paths -> Bytes]
  /\ evidence = [e \in Heads \X Refs |-> None]
  /\ packages = <<>> /\ reports = <<>>
  /\ call = [c \in Calls |-> Idle]
  /\ findings = {} /\ loops = {} /\ authorized = {}

-----------------------------------------------------------------------------
Commit ==
  /\ head < MaxHead /\ head' = head + 1
  /\ UNCHANGED <<file, evidence, packages, call, verdicts>>

\* A check run, a worktree clean-up or an editor rewrites or removes a file.
Edit(p, b) ==
  /\ file[p] # b /\ file' = [file EXCEPT ![p] = b]
  /\ UNCHANGED <<head, evidence, packages, call, verdicts>>

\* The mutant: a second registration replaces the first.
Replaces(row, new) == TRUE

\* Only a (head, ref) without a row gets one; the same again is a no-op, another is a conflict.
Registers(row, new) == row = None

register_merge_evidence(h, r, p) ==
  LET new == [path |-> p, bytes |-> file[p]] IN
  /\ h <= head /\ file[p] # None
  /\ Registers(evidence[<<h, r>>], new)
  /\ evidence' = [evidence EXCEPT ![<<h, r>>] = new]
  /\ UNCHANGED <<head, file, packages, call, verdicts>>

\* The Builder names evidence and, for some of it, the hash it had.
build_review_package(refs, listed) ==
  /\ Len(packages) < MaxPackages
  /\ \A p \in listed : file[p] # None
  /\ packages' = Append(packages, [head |-> head, refs |-> refs,
       artifacts |-> [p \in Paths |-> IF p \in listed THEN file[p] ELSE None], code |-> "VALID"])
  /\ UNCHANGED <<head, file, evidence, call, verdicts>>

-----------------------------------------------------------------------------
Registered(h) == {r \in Refs : evidence[<<h, r>>] # None}

\* resolve_review_facts: every file registered for the package's head is read anew.
Facts(i) ==
  LET h == packages[i].head
      known == Registered(h)
  IN [ read    |-> [p \in Paths |-> IF \E r \in known : evidence[<<h, r>>].path = p THEN file[p] ELSE None],
       present |-> {r \in known : file[evidence[<<h, r>>].path] = evidence[<<h, r>>].bytes} ]

Collect(c, i, for) ==
  /\ call[c].pc = "idle"
  /\ call' = [call EXCEPT ![c] = [pc |-> for, package |-> i, head |-> head,
                                  read |-> Facts(i).read, present |-> Facts(i).present]]
  /\ UNCHANGED <<head, file, evidence, packages, verdicts>>

\* The gate refuses first a package without evidence and what verify_evidence_for_refs refuses.
CollectForReview(c, i) == Collect(c, i, "review")
CollectForGate(c, i) ==
  /\ packages[i].refs # {} /\ packages[i].refs \subseteq Facts(i).present
  /\ Collect(c, i, "gate")

Present(c) == call[c].present

\* validate_review_package.
Refusal(c) ==
  LET p == packages[call[c].package]
      altered == {a \in Paths : /\ p.artifacts[a] # None /\ call[c].read[a] # None
                                /\ p.artifacts[a] # call[c].read[a]}
  IN CASE p.head # call[c].head         -> "STALE_SHA"
       [] p.head = call[c].head /\ altered # {} -> "ARTIFACT_ALTERED"
       [] p.head = call[c].head /\ altered = {} /\ ~(p.refs \subseteq Present(c)) -> "MISSING_EVIDENCE"
       [] OTHER                         -> "VALID"

\* A package found invalid stays so in its row; a valid one is not written.
Validated(c) ==
  IF Refusal(c) = "VALID" THEN packages
  ELSE [packages EXCEPT ![call[c].package].code = Refusal(c)]

Finish(c) == call' = [call EXCEPT ![c] = Idle]

\* QualityService.review, from the facts on.
Review(c) ==
  /\ call[c].pc = "review" /\ Len(reports) < MaxReports
  /\ packages' = Validated(c)
  /\ \E seen \in Observations :
       LET valid == Refusal(c) = "VALID"
           codes == IF valid THEN run_firewall(seen) ELSE {Refusal(c)}
       IN /\ valid \/ seen = {}
          /\ findings' = findings \cup
               {[package |-> call[c].package, code |-> k, waived |-> FALSE] : k \in codes}
          /\ reports' = Append(reports, [package |-> call[c].package, read |-> call[c].read,
                                         verdict |-> compute_verdict(codes, valid)])
  /\ Finish(c)
  /\ UNCHANGED <<head, file, evidence, loops, authorized>>

\* evaluate_fix_loop: the caller counts the attempts; the API's fix order records attempt 1.
EvaluateFixLoop(r, attempt) ==
  /\ loops' = loops \cup {[package |-> reports[r].package, attempt |-> attempt,
       verdict |-> reports[r].verdict,
       blocked |-> reports[r].verdict = "BLOCKED" \/ (reports[r].verdict = "REVISE" /\ attempt >= 2)]}
  /\ UNCHANGED <<head, file, evidence, packages, call, findings, reports, authorized>>

\* waiver: the code is read in one transaction and the finding, whose code is fixed, marked in another.
Waive(f) ==
  /\ f.code \notin NonWaivable
  /\ findings' = (findings \ {f}) \cup {[f EXCEPT !.waived = TRUE]}
  /\ UNCHANGED <<head, file, evidence, packages, call, reports, loops, authorized>>

\* The gate: the package is valid on trusted facts and a report of it passed.
Authorize(c) ==
  /\ call[c].pc = "gate"
  /\ packages' = Validated(c)
  /\ authorized' = IF /\ Refusal(c) = "VALID"
                      /\ \E r \in 1..Len(reports) :
                           reports[r].package = call[c].package /\ reports[r].verdict = "PASS"
                   THEN authorized \cup {[package |-> call[c].package, read |-> call[c].read]}
                   ELSE authorized
  /\ Finish(c)
  /\ UNCHANGED <<head, file, evidence, findings, reports, loops>>

Next ==
  \/ Commit
  \/ \E p \in Paths, b \in Bytes \cup {None} : Edit(p, b)
  \/ \E h \in Heads, r \in Refs, p \in Paths : register_merge_evidence(h, r, p)
  \/ \E refs \in SUBSET Refs, listed \in SUBSET Paths : build_review_package(refs, listed)
  \/ \E c \in Calls :
       \/ \E i \in 1..Len(packages) : CollectForReview(c, i) \/ CollectForGate(c, i)
       \/ Review(c) \/ Authorize(c)
  \/ \E r \in 1..Len(reports), attempt \in 1..2 : EvaluateFixLoop(r, attempt)
  \/ \E f \in findings : Waive(f)

Spec == Init /\ [][Next]_vars

-----------------------------------------------------------------------------
(* The gate accepts a package on the very bytes that every passing review  *)
(* of it read: whatever is edited, removed, restored or registered in between,   *)
(* the evidence named by the package is the same at both.                  *)
GateSeesReviewedBytes ==
  \A a \in authorized, r \in 1..Len(reports) :
    reports[r].package = a.package /\ reports[r].verdict = "PASS" =>
      \A e \in packages[a.package].refs :
         LET row == evidence[<<packages[a.package].head, e>>] IN
         row # None /\ reports[r].read[row.path] = a.read[row.path]
=============================================================================
