--------------------------- MODULE RunStoreProofs ---------------------------
(***************************************************************************)
(* Proofs about RunStore for any number of Runs, calls, keys and versions. *)
(*                                                                         *)
(* The invariant that carries them is about stale reads.  A call about to  *)
(* write (pc = "update") checked the edge against a state it read earlier; *)
(* Emergency Stop is about to write from a snapshot.  Versions only grow,  *)
(* so if the version a writer expects is still the current one, the state  *)
(* it read is still the current one.                                       *)
(***************************************************************************)
EXTENDS RunStore, FiniteSetTheorems, TLAPS

\* A caller's expected version was read from the row: never ahead of it.
ExpectedNotAhead ==
  \A c \in Calls : call[c].pc \in {"check", "update"} => call[c].expected <= version[call[c].run]

\* A check already made still holds when its version does, and is for an existing Run.
CheckedStillTrue ==
  \A c \in Calls : call[c].pc = "update" =>
    /\ Allowed(call[c].from, call[c].to)
    /\ version[call[c].run] = call[c].expected => state[call[c].run] = call[c].from

\* A Run in Emergency Stop's snapshot with an unchanged version is still interruptible.
SnapshotStillTrue ==
  \A s \in snap :
    /\ Exists(s.run)
    /\ s.version <= version[s.run]
    /\ s.version = version[s.run] => state[s.run] \in Interruptible

\* A Run about to be inserted has no row, and no two calls are creating the same one.
RequestedExist ==
  \A c \in Calls : call[c].pc \in {"check", "update"} => Exists(call[c].run)

InsertedIsNew ==
  \A c \in Calls : call[c].pc \in {"lookup", "insert"} =>
    /\ ~Exists(call[c].run)
    /\ \A d \in Calls : call[d].pc \in {"lookup", "insert"} /\ call[d].run = call[c].run => d = c

IInv ==
  /\ TypeOK
  /\ ExpectedNotAhead
  /\ CheckedStillTrue
  /\ SnapshotStillTrue
  /\ RequestedExist
  /\ InsertedIsNew

LEMMA InitIInv == Init => IInv
<1> SUFFICES ASSUME Init PROVE IInv
  OBVIOUS
<1>1. TypeOK
  BY DEF Init, TypeOK, CallState, Idle
<1>2. QED
  BY <1>1 DEF Init, IInv, ExpectedNotAhead, CheckedStillTrue, SnapshotStillTrue,
     RequestedExist, InsertedIsNew, Idle

\* Every step keeps the types.  A checked call reads the state of a Run that exists.
LEMMA TypeStep == TypeOK /\ RequestedExist /\ [Next]_vars => TypeOK'
<1> SUFFICES ASSUME TypeOK, RequestedExist, [Next]_vars PROVE TypeOK'
  OBVIOUS
<1> USE DEF TypeOK, Goto, rowVars, stopVars, Idle
<1>1. ASSUME NEW c \in Calls, NEW r \in Runs, NEW to \in Targets, NEW e \in 1..MaxVersion[r],
             Request(c, r, to, e)
      PROVE  TypeOK'
  BY <1>1 DEF Request, CallState, Targets
<1>2. ASSUME NEW c \in Calls, NEW r \in Runs, NEW k \in Keys \cup {NoKey}, BeginCreate(c, r, k)
      PROVE  TypeOK'
  BY <1>2 DEF BeginCreate, CallState
<1>3. ASSUME NEW c \in Calls, Check(c) PROVE TypeOK'
  BY <1>3 DEF Check, CallState, RequestedExist, Exists
<1>4. ASSUME NEW c \in Calls, Update(c) PROVE TypeOK'
  BY <1>4 DEF Update, Write, CallState
<1>5. ASSUME NEW c \in Calls, UpdateConflict(c) PROVE TypeOK'
  BY <1>5 DEF UpdateConflict, CallState
<1>6. ASSUME NEW c \in Calls, ReadSeq(c) PROVE TypeOK'
  BY <1>6 DEF ReadSeq, CallState
<1>7. ASSUME NEW c \in Calls, InsertEvent(c) PROVE TypeOK'
  BY <1>7 DEF InsertEvent, CallState
<1>8. ASSUME NEW c \in Calls, EventConflict(c) PROVE TypeOK'
  BY <1>8 DEF EventConflict, CallState
<1>9. ASSUME NEW c \in Calls, Lookup(c) PROVE TypeOK'
  BY <1>9 DEF Lookup, CallState
<1>10. ASSUME NEW c \in Calls, Insert(c) PROVE TypeOK'
  BY <1>10 DEF Insert, InsertAs, CallState, RunStateSet
<1>11. ASSUME NEW c \in Calls, InsertConflict(c) PROVE TypeOK'
  BY <1>11 DEF InsertConflict, CallState
<1>12. ASSUME NEW c \in Calls, Crash(c) PROVE TypeOK'
  BY <1>12 DEF Crash, CallState
<1>13. CASE EngageFlag
  BY <1>13 DEF EngageFlag
<1>14. CASE EngageBarrier
  BY <1>14 DEF EngageBarrier
<1>15. CASE EngageSnapshot
  BY <1>15 DEF EngageSnapshot
<1>16. CASE EngageInterrupt
  BY <1>16 DEF EngageInterrupt, RunStateSet
<1>17. CASE EngageCrash
  BY <1>17 DEF EngageCrash
<1>18. CASE Resume
  BY <1>18 DEF Resume
<1>19. CASE UNCHANGED vars
  BY <1>19 DEF vars
<1>20. QED
  BY <1>1, <1>2, <1>3, <1>4, <1>5, <1>6, <1>7, <1>8, <1>9, <1>10, <1>11, <1>12, <1>13,
     <1>14, <1>15, <1>16, <1>17, <1>18, <1>19 DEF Next, CallStep

\* The fields a call carries at each point.
LEMMA CallFields ==
  ASSUME TypeOK, NEW c \in Calls
  PROVE  /\ call[c].pc \in {"check", "update"} =>
              call[c].run \in Runs /\ call[c].to \in RunStateSet /\ call[c].expected \in Nat
         /\ call[c].pc = "update" => call[c].from \in RunStateSet
         /\ call[c].pc \in {"lookup", "insert"} => call[c].run \in Runs
BY DEF TypeOK, CallState, Idle

\* The four facts about stale reads, step by step.
StaleReads ==
  /\ ExpectedNotAhead
  /\ CheckedStillTrue
  /\ SnapshotStillTrue
  /\ RequestedExist
  /\ InsertedIsNew

\* Whatever a step does to the rows, as long as versions only grow and the state changes only
\* with them, facts about calls that did not move stay true.
RowsGrow ==
  \A r \in Runs : /\ version'[r] \in Nat
                  /\ version'[r] >= version[r]
                  /\ version'[r] = version[r] => state'[r] = state[r]
                  /\ Exists(r) <=> Exists(r)'

\* Call c ends or goes on to one of the points no fact is about; the others stay.
OthersStay(c) ==
  /\ \A d \in Calls \ {c} : call'[d] = call[d]
  /\ call'[c].pc \notin {"check", "update", "lookup", "insert"}

LEMMA RowsGrowFacts ==
  ASSUME IInv, NEW c \in Calls, OthersStay(c), RowsGrow, snap' = snap
  PROVE  StaleReads'
<1> USE CallFields DEF IInv, OthersStay, RowsGrow
<1>0. version \in [Runs -> Nat] /\ snap \subseteq [run : Runs, version : Nat]
  BY DEF TypeOK
<1>1. ExpectedNotAhead'
  BY <1>0 DEF ExpectedNotAhead
<1>2. CheckedStillTrue'
  BY <1>0 DEF CheckedStillTrue, ExpectedNotAhead
<1>3. SnapshotStillTrue'
  BY <1>0 DEF SnapshotStillTrue
<1>4. RequestedExist'
  BY DEF RequestedExist
<1>5. InsertedIsNew'
  BY DEF InsertedIsNew
<1>6. QED
  BY <1>1, <1>2, <1>3, <1>4, <1>5 DEF StaleReads

LEMMA StaleReadsStep == IInv /\ [Next]_vars => StaleReads'
<1> SUFFICES ASSUME IInv, [Next]_vars PROVE StaleReads'
  OBVIOUS
<1> USE DEF Exists, Goto, rowVars, stopVars, Idle
<1>t. TypeOK
  BY DEF IInv
<1>v. version \in [Runs -> Nat] /\ call \in [Calls -> CallState]
  BY <1>t DEF TypeOK
<1>0. ASSUME UNCHANGED <<state, version>> PROVE RowsGrow
  BY <1>v, <1>0 DEF RowsGrow
<1>1. ASSUME NEW c \in Calls, NEW r \in Runs, NEW to \in Targets, NEW e \in 1..MaxVersion[r],
             Request(c, r, to, e)
      PROVE  StaleReads'
  BY <1>1, <1>v DEF Request, IInv, StaleReads, ExpectedNotAhead, CheckedStillTrue,
     SnapshotStillTrue, RequestedExist, InsertedIsNew
<1>2. ASSUME NEW c \in Calls, NEW r \in Runs, NEW k \in Keys \cup {NoKey}, BeginCreate(c, r, k)
      PROVE  StaleReads'
  BY <1>2, <1>v DEF BeginCreate, IInv, StaleReads, ExpectedNotAhead, CheckedStillTrue,
     SnapshotStillTrue, RequestedExist, InsertedIsNew
<1>3. ASSUME NEW c \in Calls, Check(c) PROVE StaleReads'
  <2>1. CASE call'[c] = Idle
    <3>1. OthersStay(c)
      BY <1>3, <2>1, <1>v DEF Check, OthersStay
    <3>2. QED
      BY <1>0, <1>3, <3>1, RowsGrowFacts DEF Check
  <2>2. CASE Allowed(state[call[c].run], call[c].to)
    <3>1. /\ call' = [call EXCEPT ![c] =
                [pc |-> "update", run |-> call[c].run, to |-> call[c].to,
                 expected |-> call[c].expected, from |-> state[call[c].run]]]
          /\ UNCHANGED <<state, version, snap>>
          /\ call[c].pc = "check"
      BY <1>3, <2>2 DEF Check
    <3>2. QED
      BY <1>v, <2>2, <3>1 DEF IInv, StaleReads, ExpectedNotAhead, CheckedStillTrue,
         SnapshotStillTrue, RequestedExist, InsertedIsNew
  <2>3. QED
    BY <1>3, <1>v, <2>1, <2>2 DEF Check
<1>4. ASSUME NEW c \in Calls, Update(c) PROVE StaleReads'
  <2>1. OthersStay(c) /\ snap' = snap
    BY <1>4, <1>v DEF Update, Write, OthersStay
  <2>2. call[c].run \in Runs /\ call[c].to \in RunStateSet /\ Exists(call[c].run)
    BY <1>4, <1>t, CallFields DEF Update, Write, IInv, RequestedExist
  <2>3. RowsGrow
    BY <1>4, <1>t, <2>2 DEF Update, Write, RowsGrow, TypeOK, RunStateSet, Absent
  <2>4. QED
    BY <2>1, <2>3, RowsGrowFacts
<1>5. ASSUME NEW c \in Calls,
             \/ UpdateConflict(c)
             \/ ReadSeq(c)
             \/ InsertEvent(c)
             \/ EventConflict(c)
             \/ InsertConflict(c)
             \/ Crash(c)
      PROVE  StaleReads'
  <2>1. OthersStay(c) /\ UNCHANGED <<state, version, snap>>
    BY <1>5, <1>v DEF OthersStay, UpdateConflict, ReadSeq, InsertEvent, EventConflict,
       InsertConflict, Crash
  <2>2. QED
    BY <1>0, <2>1, RowsGrowFacts
<1>6. ASSUME NEW c \in Calls, Lookup(c) PROVE StaleReads'
  <2>1. CASE call'[c] = Idle
    <3>1. OthersStay(c)
      BY <1>6, <2>1, <1>v DEF Lookup, OthersStay
    <3>2. QED
      BY <1>0, <1>6, <3>1, RowsGrowFacts DEF Lookup
  <2>2. CASE call' = [call EXCEPT ![c].pc = "insert"]
    BY <1>6, <2>2, <1>v DEF Lookup, IInv, StaleReads, ExpectedNotAhead, CheckedStillTrue,
       SnapshotStillTrue, RequestedExist, InsertedIsNew
  <2>3. QED
    BY <1>6, <1>v, <2>1, <2>2 DEF Lookup
<1>7. ASSUME NEW c \in Calls, Insert(c) PROVE StaleReads'
  <2>1. /\ call[c].pc = "insert"
        /\ call[c].run \in Runs
        /\ ~Exists(call[c].run)
        /\ OthersStay(c)
        /\ state' = [state EXCEPT ![call[c].run] = "QUEUED"]
        /\ version' = [version EXCEPT ![call[c].run] = 1]
        /\ snap' = snap
    BY <1>7, <1>v, <1>t, CallFields DEF Insert, InsertAs, OthersStay, IInv, InsertedIsNew
  <2>2. \A r \in Runs \ {call[c].run} : version'[r] = version[r] /\ state'[r] = state[r]
    BY <1>t, <2>1 DEF TypeOK
  <2>3. ExpectedNotAhead' /\ CheckedStillTrue' /\ RequestedExist'
    BY <1>t, <2>1, <2>2, CallFields
       DEF IInv, OthersStay, ExpectedNotAhead, CheckedStillTrue, RequestedExist
  <2>4. SnapshotStillTrue'
    BY <1>t, <2>1, <2>2 DEF IInv, SnapshotStillTrue, TypeOK
  <2>5. InsertedIsNew'
    BY <1>t, <2>1, <2>2, CallFields DEF IInv, OthersStay, InsertedIsNew
  <2>6. QED
    BY <2>3, <2>4, <2>5 DEF StaleReads
<1>8. ASSUME UNCHANGED <<state, version, call>>, snap' = {} \/ snap' = snap PROVE StaleReads'
  BY <1>8 DEF IInv, StaleReads, ExpectedNotAhead, CheckedStillTrue, SnapshotStillTrue,
     RequestedExist, InsertedIsNew
<1>9. CASE EngageFlag \/ EngageBarrier \/ EngageCrash \/ Resume \/ UNCHANGED vars
  BY <1>8, <1>9 DEF EngageFlag, EngageBarrier, EngageCrash, Resume, vars
<1>10. CASE EngageSnapshot
  <2>1. SnapshotStillTrue'
    BY <1>10, <1>v DEF EngageSnapshot, SnapshotStillTrue, Interruptible, Absent
  <2>2. QED
    BY <1>10, <2>1 DEF EngageSnapshot, IInv, StaleReads, ExpectedNotAhead, CheckedStillTrue,
       RequestedExist, InsertedIsNew
<1>11. CASE EngageInterrupt
  <2>1. \A r \in Fresh : r \in Runs /\ Exists(r)
    BY <1>t DEF Fresh, TypeOK, IInv, SnapshotStillTrue
  <2>2. RowsGrow
    BY <1>11, <1>v, <2>1 DEF EngageInterrupt, RowsGrow, Absent
  <2>3. call' = call /\ snap' = {}
    BY <1>11 DEF EngageInterrupt
  <2>4. ExpectedNotAhead' /\ CheckedStillTrue'
    BY <1>v, <1>t, <2>2, <2>3, CallFields
       DEF IInv, RowsGrow, ExpectedNotAhead, CheckedStillTrue
  <2>5. RequestedExist' /\ InsertedIsNew'
    BY <1>t, <2>2, <2>3, CallFields DEF IInv, RowsGrow, RequestedExist, InsertedIsNew
  <2>6. QED
    BY <2>3, <2>4, <2>5 DEF StaleReads, SnapshotStillTrue
<1>12. QED
  BY <1>1, <1>2, <1>3, <1>4, <1>5, <1>6, <1>7, <1>9, <1>10, <1>11 DEF Next, CallStep

\* The invariant holds in every reachable state.
THEOREM Invariance == Spec => []IInv
<1>1. IInv /\ [Next]_vars => IInv'
  BY TypeStep, StaleReadsStep DEF IInv, StaleReads
<1>2. QED
  BY InitIInv, <1>1, PTL DEF Spec

\* Every Run, call and snapshot keeps its type.
THEOREM TypeCorrect == Spec => []TypeOK
<1>1. IInv => TypeOK
  BY DEF IInv
<1>2. QED
  BY Invariance, <1>1, PTL

\* The instance of RunLifecycle speaks of the same states and edges.
LEMMA SameVocabulary ==
  /\ Lifecycle!Absent = Absent
  /\ Lifecycle!RunStateSet = RunStateSet
  /\ Lifecycle!Interruptible = Interruptible
  /\ \A from, to : Lifecycle!Allowed(from, to) = Allowed(from, to)
BY DEF Lifecycle!Absent, Absent, Lifecycle!RunStateSet, RunStateSet, Lifecycle!Interruptible,
   Interruptible, Lifecycle!Allowed, Allowed, Lifecycle!ValidNext, ValidNext

\* A step of RunStore is a step of the atomic lifecycle, or changes no Run.
LEMMA StepRefines == IInv /\ [Next]_vars => [Lifecycle!LNext]_(Lifecycle!lifeVars)
<1> SUFFICES ASSUME IInv, [Next]_vars PROVE [Lifecycle!LNext]_(Lifecycle!lifeVars)
  OBVIOUS
<1> USE SameVocabulary DEF Lifecycle!LNext, Lifecycle!lifeVars, Exists, Goto, rowVars, stopVars
<1>t. TypeOK
  BY DEF IInv
<1>1. ASSUME NEW c \in Calls, Update(c) PROVE \E r \in Runs, to \in Lifecycle!RunStateSet : Lifecycle!LMove(r, to)
  <2>1. call[c].run \in Runs /\ call[c].to \in RunStateSet /\ Exists(call[c].run)
    BY <1>1, <1>t, CallFields DEF Update, Write, IInv, RequestedExist
  <2>2. Allowed(state[call[c].run], call[c].to)
    BY <1>1 DEF Update, Write, IInv, CheckedStillTrue
  <2>3. Lifecycle!LMove(call[c].run, call[c].to)
    BY <1>1, <2>1, <2>2 DEF Update, Write, Lifecycle!LMove
  <2>4. QED
    BY <2>1, <2>3
<1>2. ASSUME NEW c \in Calls, Insert(c) PROVE \E r \in Runs : Lifecycle!LCreate(r)
  <2>1. call[c].run \in Runs /\ ~Exists(call[c].run)
    BY <1>2, <1>t, CallFields DEF Insert, InsertAs, IInv, InsertedIsNew
  <2>2. Lifecycle!LCreate(call[c].run)
    BY <1>2, <2>1 DEF Insert, InsertAs, Lifecycle!LCreate
  <2>3. QED
    BY <2>1, <2>2
<1>3. CASE EngageInterrupt
  <2>1. Fresh \in SUBSET Runs /\ \A r \in Fresh : state[r] \in Interruptible
    BY <1>t DEF Fresh, IInv, SnapshotStillTrue, TypeOK
  <2>2. Lifecycle!LInterrupt(Fresh)
    BY <1>3, <2>1 DEF EngageInterrupt, Lifecycle!LInterrupt
  <2>3. QED
    BY <2>1, <2>2
<1>4. CASE UNCHANGED <<state, version>>
  BY <1>4
<1>5. Next => \/ UNCHANGED <<state, version>>
             \/ EngageInterrupt
             \/ \E c \in Calls : Update(c) \/ Insert(c)
  BY DEF Next, CallStep, Request, BeginCreate, Check, UpdateConflict, ReadSeq, InsertEvent,
     EventConflict, Lookup, InsertConflict, Crash, EngageFlag, EngageBarrier, EngageSnapshot,
     EngageCrash, Resume
<1>6. QED
  BY <1>1, <1>2, <1>3, <1>4, <1>5 DEF vars

\* The stale reads of transition() and of Emergency Stop are harmless: whatever the number of
\* callers, the Run table behaves as one where each change is checked and made at once.
THEOREM RefinesLifecycle == Spec => AtomicLifecycle
<1>1. Init => Lifecycle!LInit
  BY SameVocabulary DEF Init, Lifecycle!LInit
<1>2. QED
  BY <1>1, StepRefines, Invariance, PTL DEF Spec, AtomicLifecycle, Lifecycle!LSpec

\* The table has no edge out of a terminal state.
LEMMA TerminalHasNoSuccessor ==
  ASSUME NEW from \in Terminal, NEW to, Allowed(from, to)
  PROVE  to = from
<1>1. ValidNext[from] = {}
  BY DEF Terminal, ValidNext
<1>2. QED
  BY <1>1 DEF Allowed

\* A finished Run never moves again.
THEOREM TerminalStays == Spec => TerminalIsFinal
<1>1. IInv /\ [Next]_vars => [\A r \in Runs : state[r] \in Terminal => state'[r] = state[r]]_vars
  <2> SUFFICES ASSUME [Lifecycle!LNext]_(Lifecycle!lifeVars), NEW r \in Runs, state[r] \in Terminal,
                      state \in [Runs -> RunStateSet \cup {Absent}]
               PROVE  state'[r] = state[r]
    BY StepRefines DEF IInv, TypeOK
  <2> USE DEF Terminal
  <2>1. ASSUME NEW x \in Runs, Lifecycle!LCreate(x) PROVE state'[r] = state[r]
    BY <2>1, SameVocabulary DEF Lifecycle!LCreate, Absent
  <2>2. ASSUME NEW x \in Runs, NEW to \in Lifecycle!RunStateSet, Lifecycle!LMove(x, to)
        PROVE  state'[r] = state[r]
    BY <2>2, SameVocabulary, TerminalHasNoSuccessor DEF Lifecycle!LMove
  <2>3. ASSUME NEW S \in SUBSET Runs, Lifecycle!LInterrupt(S) PROVE state'[r] = state[r]
    BY <2>3, SameVocabulary DEF Lifecycle!LInterrupt, Interruptible
  <2>4. QED
    BY <2>1, <2>2, <2>3 DEF Lifecycle!LNext, Lifecycle!lifeVars
<1>2. QED
  BY <1>1, Invariance, PTL DEF Spec, TerminalIsFinal

\* A key is on a row only.
AbsentHasNoKey == \A r \in Runs : ~Exists(r) => key[r] = NoKey

\* The unique index alone makes one Run per key; the lookup before it only saves the attempt.
THEOREM KeysAreUnique == Spec => []OneRunPerKey
<1> DEFINE KInv == AbsentHasNoKey /\ OneRunPerKey
<1>1. Init => KInv
  BY DEF Init, AbsentHasNoKey, OneRunPerKey
<1>2. IInv /\ KInv /\ [Next]_vars => KInv'
  <2> SUFFICES ASSUME IInv, KInv, [Next]_vars PROVE KInv'
    OBVIOUS
  <2> USE DEF AbsentHasNoKey, OneRunPerKey, Exists, rowVars
  <2>1. CASE UNCHANGED <<state, key>>
    BY <2>1
  <2>2. ASSUME key' = key, \A r \in Runs : Exists(r) => Exists(r)' PROVE KInv'
    BY <2>2
  <2>3. ASSUME NEW c \in Calls, Insert(c) PROVE KInv'
    <3>1. /\ call[c].run \in Runs
          /\ ~Exists(call[c].run)
          /\ state' = [state EXCEPT ![call[c].run] = "QUEUED"]
          /\ key' = [key EXCEPT ![call[c].run] = call[c].key]
          /\ ~KeyTaken(call[c].key)
      BY <2>3, CallFields DEF Insert, InsertAs, IInv, InsertedIsNew
    <3>2. state \in [Runs -> RunStateSet \cup {Absent}] /\ key \in [Runs -> Keys \cup {NoKey}]
      BY DEF IInv, TypeOK
    <3>3. \A r \in Runs : r # call[c].run /\ key[r] = call[c].key => key[r] = NoKey
      BY <3>1 DEF KeyTaken
    <3>4. QED
      BY <3>1, <3>2, <3>3 DEF Absent
  <2>4. ASSUME NEW c \in Calls, Update(c) PROVE KInv'
    <3>1. call[c].run \in Runs /\ call[c].to \in RunStateSet
      BY <2>4, CallFields DEF Update, Write, IInv
    <3>2. QED
      BY <2>2, <2>4, <3>1 DEF Update, Write, IInv, TypeOK, RunStateSet, Absent
  <2>5. CASE EngageInterrupt
    BY <2>2, <2>5 DEF EngageInterrupt, Absent
  <2>6. QED
    BY <2>1, <2>3, <2>4, <2>5 DEF Next, CallStep, Request, BeginCreate, Check, UpdateConflict,
       ReadSeq, InsertEvent, EventConflict, Lookup, InsertConflict, Crash, EngageFlag,
       EngageBarrier, EngageSnapshot, EngageCrash, Resume, vars
<1>3. KInv => OneRunPerKey
  OBVIOUS
<1>4. QED
  BY <1>1, <1>2, <1>3, Invariance, PTL DEF Spec

-----------------------------------------------------------------------------
(* The events of a Run never outnumber its moves *)

\* A call that committed a change of a Run and has not appended its event.
IsPending(c, r) == call[c].pc \in {"seq", "event"} /\ call[c].run = r
Pending(r) == {c \in Calls : IsPending(c, r)}

\* A Run without a row has made no move.
AbsentAtZero == \A r \in Runs : ~Exists(r) => version[r] = 0

LogInv == AbsentAtZero /\ \A r \in Runs : log[r] + Cardinality(Pending(r)) <= version[r]

LEMMA LogInitially == Init => LogInv
<1> SUFFICES ASSUME Init, NEW r \in Runs PROVE log[r] + Cardinality(Pending(r)) <= version[r]
  BY DEF LogInv, AbsentAtZero, Init
<1>1. Pending(r) = {}
  BY DEF Init, Pending, IsPending, Idle
<1>2. log[r] = 0 /\ version[r] = 0
  BY DEF Init
<1>3. Cardinality(Pending(r)) = 0
  BY <1>1, FS_EmptySet
<1> QED
  BY <1>2, <1>3

\* One call moves: it joins those whose event is pending, leaves them or neither.
LEMMA OneMoves ==
  ASSUME NEW c \in Calls, \A d \in Calls : d # c => call'[d] = call[d], NEW r
  PROVE  /\ Cardinality(Pending(r)) \in Nat /\ Cardinality(Pending(r)') \in Nat
         /\ (IsPending(c, r)' <=> IsPending(c, r)) => Cardinality(Pending(r)') = Cardinality(Pending(r))
         /\ IsPending(c, r) => Cardinality(Pending(r)) > 0
         /\ IsPending(c, r) /\ ~IsPending(c, r)' => Cardinality(Pending(r)') = Cardinality(Pending(r)) - 1
         /\ ~IsPending(c, r) => Cardinality(Pending(r)') <= Cardinality(Pending(r)) + 1
<1>1. PICK S : S = Pending(r)
  OBVIOUS
<1>2. PICK T : T = Pending(r)'
  OBVIOUS
<1>3. IsFiniteSet(Calls) /\ S \in SUBSET Calls /\ T \in SUBSET Calls
  BY <1>1, <1>2, ConstantsAssumption DEF Pending
<1>4. IsFiniteSet(S) /\ IsFiniteSet(T)
  BY <1>3, FS_Subset
<1>5. Cardinality(S) \in Nat /\ Cardinality(T) \in Nat
  BY <1>4, FS_CardinalityType
<1>6. (c \in S <=> IsPending(c, r)) /\ (c \in T <=> IsPending(c, r)')
  BY <1>1, <1>2 DEF Pending
<1>7. \A d \in Calls : d # c => (d \in S <=> d \in T)
  BY <1>1, <1>2 DEF Pending, IsPending
<1>8. (c \in S <=> c \in T) => S = T
  BY <1>3, <1>7
<1>9. c \in S /\ c \notin T => T = S \ {c}
  BY <1>3, <1>7
<1>10. c \notin S /\ c \in T => T = S \cup {c}
  BY <1>3, <1>7
<1>11. c \in S => Cardinality(S \ {c}) = Cardinality(S) - 1
  BY <1>4, FS_RemoveElement
<1>12. c \notin S => Cardinality(S \cup {c}) = Cardinality(S) + 1
  BY <1>4, FS_AddElement
<1>13. c \in S => Cardinality(S) > 0
  <2>1. Cardinality(S) = 0 <=> S = {}
    BY <1>4, FS_EmptySet
  <2> QED
    BY <1>5, <2>1
<1>14. c \notin S => Cardinality(T) <= Cardinality(S) + 1
  BY <1>5, <1>8, <1>10, <1>12
<1> QED
  BY <1>1, <1>2, <1>5, <1>6, <1>8, <1>9, <1>11, <1>13, <1>14

\* A step that writes no event and commits no move adds none that is pending.
LEMMA QuietKeeps ==
  ASSUME IInv, LogInv, NEW c \in Calls, \A d \in Calls : d # c => call'[d] = call[d],
         \A r \in Runs : IsPending(c, r)' => IsPending(c, r), UNCHANGED <<state, version, log>>
  PROVE  LogInv'
<1> SUFFICES ASSUME NEW r \in Runs PROVE log[r] + Cardinality(Pending(r)') <= version[r]
  BY DEF LogInv, AbsentAtZero, Exists
<1>1. log[r] \in Nat /\ version[r] \in Nat /\ log[r] + Cardinality(Pending(r)) <= version[r]
  BY DEF IInv, TypeOK, LogInv
<1>2. /\ Cardinality(Pending(r)) \in Nat /\ Cardinality(Pending(r)') \in Nat
      /\ Cardinality(Pending(r)') <= Cardinality(Pending(r))
  BY OneMoves
<1> QED
  BY <1>1, <1>2

\* A step that commits a move, or creates the Run, owes one event for it.
LEMMA MoveKeeps ==
  ASSUME IInv, LogInv, NEW c \in Calls, \A d \in Calls : d # c => call'[d] = call[d],
         NEW q \in Runs, call'[c].run = q, call[c].pc \notin {"seq", "event"}, UNCHANGED log,
         version' = [version EXCEPT ![q] = version[q] + 1], \A r \in Runs : ~Exists(r)' => ~Exists(r) /\ r # q
  PROVE  LogInv'
<1>1. version \in [Runs -> Nat] /\ log \in [Runs -> Nat]
  BY DEF IInv, TypeOK
<1>2. ASSUME NEW r \in Runs PROVE log[r] + Cardinality(Pending(r)') <= version'[r]
  <2>1. ~IsPending(c, r) /\ (IsPending(c, r)' => r = q)
    BY DEF IsPending
  <2>2. /\ Cardinality(Pending(r)) \in Nat /\ Cardinality(Pending(r)') \in Nat
        /\ Cardinality(Pending(r)') <= Cardinality(Pending(r)) + 1
        /\ r # q => Cardinality(Pending(r)') = Cardinality(Pending(r))
    BY <2>1, OneMoves
  <2>3. version'[r] = IF r = q THEN version[r] + 1 ELSE version[r]
    BY <1>1
  <2>4. log[r] \in Nat /\ version[r] \in Nat /\ log[r] + Cardinality(Pending(r)) <= version[r]
    BY <1>1 DEF LogInv
  <2> QED
    BY <2>2, <2>3, <2>4
<1>3. AbsentAtZero'
  BY <1>1 DEF LogInv, AbsentAtZero
<1> QED
  BY <1>2, <1>3 DEF LogInv

LEMMA LogInductive == IInv /\ LogInv /\ [Next]_vars => LogInv'
<1> SUFFICES ASSUME IInv, LogInv, [Next]_vars PROVE LogInv'
  OBVIOUS
<1> USE DEF Goto, rowVars, stopVars
<1>1. call \in [Calls -> CallState] /\ version \in [Runs -> Nat] /\ log \in [Runs -> Nat]
  BY DEF IInv, TypeOK
<1>2. ASSUME NEW c \in Calls,
             \/ \E r \in Runs, to \in Targets : \E e \in 1..MaxVersion[r] : Request(c, r, to, e)
             \/ \E r \in Runs, k \in Keys \cup {NoKey} : BeginCreate(c, r, k)
             \/ Check(c) \/ UpdateConflict(c) \/ EventConflict(c) \/ InsertConflict(c) \/ Crash(c)
      PROVE  LogInv'
  <2>1. /\ \A d \in Calls : d # c => call'[d] = call[d]
        /\ UNCHANGED <<state, version, log>>
    BY <1>1, <1>2 DEF Request, BeginCreate, Check, UpdateConflict, EventConflict, InsertConflict, Crash
  <2>2. call'[c].pc \notin {"seq", "event"}
    BY <1>1, <1>2 DEF Request, BeginCreate, Check, UpdateConflict, EventConflict, InsertConflict, Crash, Idle
  <2> QED
    BY <2>1, <2>2, QuietKeeps DEF IsPending
<1>3. ASSUME NEW c \in Calls, Lookup(c) PROVE LogInv'
  <2>1. PICK k : k = [call[c] EXCEPT !.pc = "insert"]
    OBVIOUS
  <2>2. k.pc = "insert"
    BY <1>1, <1>3, <2>1 DEF Lookup, CallState, Idle
  <2>3. /\ \A d \in Calls : d # c => call'[d] = call[d]
        /\ UNCHANGED <<state, version, log>>
        /\ call'[c].pc \notin {"seq", "event"}
    BY <1>1, <1>3, <2>1, <2>2 DEF Lookup, Idle
  <2> QED
    BY <2>3, QuietKeeps DEF IsPending
<1>4. ASSUME NEW c \in Calls, ReadSeq(c) PROVE LogInv'
  <2>1. /\ \A d \in Calls : d # c => call'[d] = call[d]
        /\ UNCHANGED <<state, version, log>>
        /\ call'[c].run = call[c].run /\ call[c].pc = "seq"
    BY <1>1, <1>4 DEF ReadSeq
  <2> QED
    BY <2>1, QuietKeeps DEF IsPending
<1>5. ASSUME NEW c \in Calls, Update(c) PROVE LogInv'
  <2>1. PICK q : q = call[c].run
    OBVIOUS
  <2>2. q \in Runs /\ call[c].to \in RunStateSet /\ Exists(q) /\ call[c].pc = "update"
    BY <1>5, <2>1, CallFields DEF Update, Write, IInv, RequestedExist
  <2>3. /\ state' = [state EXCEPT ![q] = call[c].to]
        /\ version' = [version EXCEPT ![q] = version[q] + 1]
        /\ call' = [call EXCEPT ![c] = [pc |-> "seq", run |-> q]]
        /\ UNCHANGED log
    BY <1>5, <2>1 DEF Update, Write
  <2>4. \A d \in Calls : d # c => call'[d] = call[d]
    BY <1>1, <2>3
  <2>5. call'[c].run = q
    BY <1>1, <2>3
  <2>6. \A r \in Runs : ~Exists(r)' => ~Exists(r) /\ r # q
    BY <2>2, <2>3 DEF IInv, TypeOK, Exists, RunStateSet, Absent
  <2> QED
    BY <2>2, <2>3, <2>4, <2>5, <2>6, MoveKeeps
<1>6. ASSUME NEW c \in Calls, Insert(c) PROVE LogInv'
  <2>1. PICK q : q = call[c].run
    OBVIOUS
  <2>2. q \in Runs /\ ~Exists(q) /\ call[c].pc = "insert"
    BY <1>6, <2>1, CallFields DEF Insert, InsertAs, IInv, InsertedIsNew
  <2>3. version[q] = 0
    BY <2>2 DEF LogInv, AbsentAtZero
  <2>4. /\ state' = [state EXCEPT ![q] = "QUEUED"]
        /\ version' = [version EXCEPT ![q] = version[q] + 1]
        /\ call' = [call EXCEPT ![c] = [pc |-> "seq", run |-> q]]
        /\ UNCHANGED log
    BY <1>6, <2>1, <2>3 DEF Insert, InsertAs
  <2>5. \A d \in Calls : d # c => call'[d] = call[d]
    BY <1>1, <2>4
  <2>6. call'[c].run = q
    BY <1>1, <2>4
  <2>7. \A r \in Runs : ~Exists(r)' => ~Exists(r) /\ r # q
    BY <2>2, <2>4 DEF IInv, TypeOK, Exists, Absent
  <2> QED
    BY <2>2, <2>4, <2>5, <2>6, <2>7, MoveKeeps
<1>7. ASSUME NEW c \in Calls, InsertEvent(c) PROVE LogInv'
  <2>1. PICK q : q = call[c].run
    OBVIOUS
  <2>2. /\ call[c].pc = "event" /\ UNCHANGED <<state, version>>
        /\ log' = [log EXCEPT ![q] = log[q] + 1] /\ call' = [call EXCEPT ![c] = Idle]
    BY <1>7, <2>1 DEF InsertEvent
  <2>3. \A d \in Calls : d # c => call'[d] = call[d]
    BY <1>1, <2>2
  <2>4. \A r : ~IsPending(c, r)' /\ (IsPending(c, r) <=> r = q)
    BY <1>1, <2>1, <2>2 DEF IsPending, Idle
  <2>5. ASSUME NEW r \in Runs PROVE log'[r] + Cardinality(Pending(r)') <= version[r]
    <3>1. /\ Cardinality(Pending(r)) \in Nat /\ Cardinality(Pending(r)') \in Nat
          /\ r # q => Cardinality(Pending(r)') = Cardinality(Pending(r))
          /\ r = q => Cardinality(Pending(r)') = Cardinality(Pending(r)) - 1
      BY <2>3, <2>4, OneMoves
    <3>2. log[r] \in Nat /\ version[r] \in Nat /\ log[r] + Cardinality(Pending(r)) <= version[r]
      BY <1>1 DEF LogInv
    <3>3. log'[r] = IF r = q THEN log[r] + 1 ELSE log[r]
      BY <1>1, <2>2
    <3> QED
      BY <3>1, <3>2, <3>3
  <2> QED
    BY <2>2, <2>5 DEF LogInv, AbsentAtZero, Exists
<1>8. CASE EngageInterrupt
  <2>1. \A r \in Fresh : r \in Runs /\ Exists(r)
    BY DEF Fresh, TypeOK, IInv, SnapshotStillTrue
  <2>2. UNCHANGED <<log, call>> /\ \A r \in Runs : version'[r] \in {version[r], version[r] + 1}
    BY <1>8 DEF EngageInterrupt
  <2>3. AbsentAtZero'
    BY <1>8, <2>1 DEF EngageInterrupt, LogInv, AbsentAtZero, Exists, Absent
  <2>4. ASSUME NEW r \in Runs PROVE log'[r] + Cardinality(Pending(r)') <= version'[r]
    <3>1. Pending(r)' = Pending(r)
      BY <2>2 DEF Pending, IsPending
    <3>2. IsFiniteSet(Pending(r))
      BY ConstantsAssumption, FS_Subset DEF Pending
    <3>3. Cardinality(Pending(r)) \in Nat
      BY <3>2, FS_CardinalityType
    <3>4. log[r] \in Nat /\ version[r] \in Nat /\ log[r] + Cardinality(Pending(r)) <= version[r]
      BY <1>1 DEF LogInv
    <3>5. log'[r] = log[r] /\ version'[r] \in {version[r], version[r] + 1}
      BY <2>2
    <3>6. log[r] + Cardinality(Pending(r)) <= version'[r]
      BY <3>3, <3>4, <3>5
    <3> QED
      BY <3>1, <3>5, <3>6
  <2> QED
    BY <2>3, <2>4 DEF LogInv
<1>9. CASE UNCHANGED <<state, version, log, call>>
  BY <1>9 DEF LogInv, AbsentAtZero, Pending, IsPending, Exists
<1>10. CASE EngageFlag \/ EngageBarrier \/ EngageSnapshot \/ EngageCrash \/ Resume \/ UNCHANGED vars
  BY <1>9, <1>10 DEF EngageFlag, EngageBarrier, EngageSnapshot, EngageCrash, Resume, vars
<1> QED
  BY <1>2, <1>3, <1>4, <1>5, <1>6, <1>7, <1>8, <1>10 DEF Next, CallStep

\* The log never reports more than what was committed, whatever calls conflict, fail or die.
THEOREM EventsAreOfMoves == Spec => []LoggedMovesHappened
<1>1. LogInv => LoggedMovesHappened
  BY DEF LogInv, Pending, IsPending, LoggedMovesHappened
<1> QED
  BY <1>1, LogInitially, LogInductive, Invariance, PTL DEF Spec

=============================================================================
