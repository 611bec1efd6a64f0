------------------------------ MODULE Rotations ------------------------------
(***************************************************************************)
(* Rotation of one Work Order to a fresh session: governor.py rotate and   *)
(* continue_after_rotation over the checkpoints, HandoffPackages and       *)
(* acknowledgements of vp4handoff.py.  Every step below is one database    *)
(* transaction; the writer lease itself is in WorkOrders.                  *)
(*                                                                         *)
(* A package is abstracted to the HEAD it names, whether its content still *)
(* hashes to content_hash and whether its binding (spec, Brief, Map,       *)
(* approval, capabilities) is that of the order.  The order's content      *)
(* never changes, so only outside edits break the last two.                *)
(***************************************************************************)
EXTENDS Naturals, Sequences

CONSTANTS
  Calls,       \* overlapping rotate and continue calls
  HeadGiven,   \* values of "the consumer passes actual_head"
  MaxHead,     \* bound: commits in the worktree
  MaxPackages, \* bound: packages built
  MaxVersion   \* bound: the order is not moved beyond this version

VARIABLES
  status, version,  \* the order's row
  head,             \* HEAD of its worktree
  connected,        \* projects.status = "connected"
  packages,         \* checkpoint and HandoffPackage pairs, in the order built
  acks,             \* handoff_acks: pairs of package and result
  rotations,        \* rotation_records: [package, status]
  call,             \* what each thread is doing
  spells,           \* history: times the order became active
  began             \* history: how the last continued session began

rows == <<packages, acks, rotations>>
vars == <<status, version, head, connected, packages, acks, rotations, call, spells, began>>

Moves ==
  [ active        |-> {"checkpointed", "handoff_ready", "blocked", "completed"},
    checkpointed  |-> {"active", "handoff_ready", "blocked", "completed"},
    handoff_ready |-> {"active", "completed", "blocked"},
    blocked       |-> {"active"},
    completed     |-> {} ]

Package == [head : 0..MaxHead, status : {"issued", "acknowledged", "rejected"}, sound : BOOLEAN]
Idle == [pc |-> "idle", head |-> 0, base |-> 0, package |-> 0, rotation |-> 0, ok |-> FALSE,
         given |-> FALSE, rest |-> FALSE, spell |-> 0]
Points == {"idle", "checkpoint", "handoff", "ready", "record", "ack", "reread", "activate", "note"}

TypeOK ==
  /\ status \in DOMAIN Moves /\ version \in 1..MaxVersion
  /\ head \in 0..MaxHead /\ connected \in BOOLEAN
  /\ packages \in Seq(Package)
  /\ acks \subseteq (1..MaxPackages) \X {"ACK", "REJECT"}
  /\ \A r \in 1..Len(rotations) : rotations[r].package \in 1..Len(packages)
  /\ \A c \in Calls : call[c].pc \in Points
  /\ spells \in 1..MaxVersion

Init ==
  /\ status = "active" /\ version = 1 /\ spells = 1
  /\ head = 0 /\ connected = TRUE
  /\ packages = <<>> /\ acks = {} /\ rotations = <<>>
  /\ call = [c \in Calls |-> Idle]
  /\ began = [package |-> 0, latest |-> 0, undisturbed |-> FALSE, head |-> 0, actual |-> 0]

-----------------------------------------------------------------------------
Finish(c) == call' = [call EXCEPT ![c] = Idle]

\* WorkOrderService.transition with expected_version: refused, or done on the version read.
Moved(to, expected) == version = expected /\ to \in Moves[status] /\ version < MaxVersion
Move(to) ==
  /\ status' = to /\ version' = version + 1
  /\ spells' = IF to = "active" THEN spells + 1 ELSE spells

\* Any other caller of transition: the session itself, or the owner.
OtherMove ==
  /\ version < MaxVersion
  /\ \E to \in Moves[status] : Move(to)
  /\ UNCHANGED <<head, connected, rows, call, began>>

Commit ==
  /\ status = "active" /\ head < MaxHead /\ head' = head + 1
  /\ UNCHANGED <<status, version, connected, rows, call, spells, began>>

Disconnect ==
  /\ connected /\ connected' = FALSE
  /\ UNCHANGED <<status, version, head, rows, call, spells, began>>

\* Somebody edits the stored content of a package.
Tamper ==
  /\ \E p \in 1..Len(packages) : packages[p].sound /\ packages' = [packages EXCEPT ![p].sound = FALSE]
  /\ UNCHANGED <<status, version, head, connected, acks, rotations, call, spells, began>>

-----------------------------------------------------------------------------
\* rotate: read the order; build its checkpoint, move it to checkpointed; build the handoff, whose
\* verification is noted and not acted on; move to handoff_ready and give up the lease; record.
RotateRead(c) ==
  /\ call[c].pc = "idle" /\ status \in {"active", "checkpointed"} /\ Len(packages) < MaxPackages
  /\ call' = [call EXCEPT ![c] = [Idle EXCEPT !.pc = "checkpoint", !.head = head, !.base = version]]
  /\ UNCHANGED <<status, version, head, connected, rows, spells, began>>

RotateCheckpoint(c) ==
  /\ call[c].pc = "checkpoint"
  /\ IF status = "active" /\ Moved("checkpointed", call[c].base)
     THEN /\ Move("checkpointed")
          /\ call' = [call EXCEPT ![c].pc = "handoff", ![c].base = version + 1]
     ELSE /\ UNCHANGED <<status, version, spells>>
          /\ IF status = "checkpointed" /\ version = call[c].base
             THEN call' = [call EXCEPT ![c].pc = "handoff"]
             ELSE Finish(c)
  /\ UNCHANGED <<head, connected, rows, began>>

BuildHandoff(c) ==
  /\ call[c].pc = "handoff" /\ Len(packages) < MaxPackages
  /\ packages' = Append(packages, [head |-> call[c].head, status |-> "issued", sound |-> TRUE])
  /\ call' = [call EXCEPT ![c].pc = "ready", ![c].package = Len(packages) + 1]
  /\ UNCHANGED <<status, version, head, connected, acks, rotations, spells, began>>

RotateReady(c) ==
  /\ call[c].pc = "ready"
  /\ IF Moved("handoff_ready", call[c].base)
     THEN Move("handoff_ready") /\ call' = [call EXCEPT ![c].pc = "record"]
     ELSE UNCHANGED <<status, version, spells>> /\ Finish(c)
  /\ UNCHANGED <<head, connected, rows, began>>

RotateRecord(c) ==
  /\ call[c].pc = "record"
  /\ rotations' = Append(rotations, [package |-> call[c].package, status |-> "awaiting_ack"])
  /\ Finish(c)
  /\ UNCHANGED <<status, version, head, connected, packages, acks, spells, began>>

-----------------------------------------------------------------------------
\* The mutant: the HEAD of the package is not compared.
FitAnyHead(p, given) == packages[p].sound /\ connected /\ packages[p].status # "rejected"

\* verify_handoff.  A HEAD is compared only when the consumer gives one and the package names one.
Fit(p, given) ==
  /\ packages[p].sound /\ connected /\ packages[p].status # "rejected"
  /\ given => packages[p].head = head

Verify(c, r, given) ==
  LET p == rotations[r].package IN
  /\ call[c].pc = "idle"
  /\ call' = [call EXCEPT ![c] = [Idle EXCEPT
       !.pc = "ack", !.package = p, !.rotation = r, !.ok = Fit(p, given), !.given = given,
       !.rest = (status = "handoff_ready"), !.spell = spells]]
  /\ UNCHANGED <<status, version, head, connected, rows, spells, began>>

Mark(p, s) == packages' = [packages EXCEPT ![p].status = s]

\* The writing half of acknowledge: what verify found is not looked at again.
Acknowledge(c) ==
  /\ call[c].pc = "ack"
  /\ IF call[c].ok
     THEN /\ Mark(call[c].package, "acknowledged")
          /\ acks' = acks \cup {<<call[c].package, "ACK">>}
          /\ call' = [call EXCEPT ![c].pc = "reread"]
     ELSE /\ Mark(call[c].package, "rejected")
          /\ acks' = acks \cup {<<call[c].package, "REJECT">>}
          /\ Finish(c)
  /\ UNCHANGED <<status, version, head, connected, rotations, spells, began>>

Reread(c) ==
  /\ call[c].pc = "reread"
  /\ call' = [call EXCEPT ![c].pc = "activate", ![c].base = version]
  /\ UNCHANGED <<status, version, head, connected, rows, spells, began>>

Activate(c) ==
  /\ call[c].pc = "activate"
  /\ IF Moved("active", call[c].base)
     THEN /\ Move("active")
          /\ began' = [package |-> call[c].package, latest |-> Len(packages),
                       undisturbed |-> call[c].given /\ call[c].rest /\ call[c].spell = spells,
                       head |-> packages[call[c].package].head, actual |-> head]
          /\ call' = [call EXCEPT ![c].pc = "note"]
     ELSE UNCHANGED <<status, version, spells, began>> /\ Finish(c)
  /\ UNCHANGED <<head, connected, rows>>

NoteContinued(c) ==
  /\ call[c].pc = "note"
  /\ rotations' = [rotations EXCEPT ![call[c].rotation].status = "continued"]
  /\ Finish(c)
  /\ UNCHANGED <<status, version, head, connected, packages, acks, spells, began>>

Reject ==
  /\ \E p \in 1..Len(packages) : Mark(p, "rejected") /\ acks' = acks \cup {<<p, "REJECT">>}
  /\ UNCHANGED <<status, version, head, connected, rotations, call, spells, began>>

Crash(c) ==
  /\ call[c].pc # "idle" /\ Finish(c)
  /\ UNCHANGED <<status, version, head, connected, rows, spells, began>>

Next ==
  \/ OtherMove \/ Commit \/ Disconnect \/ Tamper \/ Reject
  \/ \E c \in Calls :
       \/ RotateRead(c) \/ RotateCheckpoint(c) \/ BuildHandoff(c) \/ RotateReady(c) \/ RotateRecord(c)
       \/ \E r \in 1..Len(rotations), given \in HeadGiven : Verify(c, r, given)
       \/ Acknowledge(c) \/ Reread(c) \/ Activate(c) \/ NoteContinued(c) \/ Crash(c)

Spec == Init /\ [][Next]_vars

-----------------------------------------------------------------------------
(* A session that gave the actual HEAD while the order rested in           *)
(* handoff_ready, and began before anybody else made the order active,     *)
(* began on the HEAD its package names: acknowledge writes without looking *)
(* again, and only the rest of the order makes that sound.                 *)
FreshIfUndisturbed == began.undisturbed => began.head = began.actual

(* A package stands for its checkpoint only while no later one replaced it *)
(* ("checkpoint known and not replaced", vp4handoff.py:339).               *)
ContinuesLatest == began.package = began.latest
=============================================================================
