-------------------------- MODULE SupervisionProofs --------------------------
(***************************************************************************)
(* Proofs about Supervision, for every set of processes and every value of *)
(* the waits, the patience and the alarm threshold.                        *)
(***************************************************************************)
EXTENDS Supervision, TLAPS

\* The loop holds no process before it has begun.  Without it the first start
\* could be one beside another.
NothingBeforeBegin == pc = "begin" => child = NoChild

IInv == /\ TypeOK
        /\ OneProcess
        /\ NeverAbandoned
        /\ NoStartBesideAProcess
        /\ AlarmMeansCrashing
        /\ DownIsLowered
        /\ NothingBeforeBegin

\* The type of what the supervision decides, apart from what surrounds it.
DecisionOK == /\ standing \in {"Starting", "Serving", "Down"}
              /\ crashes \in 0..CounterMax
              /\ lowered \in BOOLEAN /\ alarm \in BOOLEAN
              /\ startIn \in Int \cup {None}
              /\ silent \in 0..(Patience - 1)
              /\ claims \in Seq({"Down", "Up"})

SurroundingsOK ==
    /\ pc \in {"begin", "hear", "reap", "question", "due", "sleep", "stopped"}
    /\ child \in Pids \cup {NoChild}
    /\ quiet \in Nat /\ questionIn \in Nat
    /\ proc \in [Pids -> DataPlaneState \cup {"Absent", "Dead"}]
    /\ wire \in [Pids -> Seq(Heard)]
    /\ heard \in Seq(Heard)

\* The type invariant is its two halves.
LEMMA TypeSplit == TypeOK <=> DecisionOK /\ SurroundingsOK
  BY DEF TypeOK, DecisionOK, SurroundingsOK

\* The same after a step.
LEMMA TypeSplitNext == TypeOK' <=> DecisionOK' /\ SurroundingsOK'
  BY DEF TypeOK, DecisionOK, SurroundingsOK

\* The wait before a restart is a number, so a scheduled start is never the
\* absence of one (wait_after, supervise.rs:66-77).
LEMMA WaitAfterIsInt == \A n \in Nat : WaitAfter(n) \in Int
  <1> SUFFICES ASSUME NEW n \in Nat PROVE WaitAfter(n) \in Int
    OBVIOUS
  <1>1. CASE n = 0
    BY <1>1 DEF WaitAfter
  <1>2. CASE n # 0
    <2>1. Least(n - 1, 31) \in 0..31
      BY <1>2 DEF Least
    <2>2. 2^Least(n - 1, 31) \in Int
      BY <2>1
    <2>3. FirstWait * 2^Least(n - 1, 31) \in Int
      BY <2>2, ConstantsAssumption
    <2> QED
      BY <1>2, <2>3, ConstantsAssumption DEF WaitAfter, Least
  <1> QED
    BY <1>1, <1>2

\* Counting a crash keeps the decision's types and its three invariants,
\* whatever it is called from (ended, supervise.rs:241-257).
LEMMA EndedKeeps ==
    ASSUME TypeOK, AlarmMeansCrashing, DownIsLowered, Ended
    PROVE  /\ DecisionOK'
           /\ startIn' # None
           /\ AlarmMeansCrashing' /\ DownIsLowered'
  <1>1. Least(crashes + 1, CounterMax) \in 0..CounterMax
    BY ConstantsAssumption DEF TypeOK, Least
  <1>2. WaitAfter(Least(crashes + 1, CounterMax)) \in Int
    BY <1>1, WaitAfterIsInt
  <1>3. /\ crashes' \in 0..CounterMax
        /\ startIn' \in Int /\ startIn' # None
        /\ standing' = "Down" /\ lowered' = TRUE /\ silent' = 0
    BY <1>1, <1>2, ConstantsAssumption DEF Ended, CountCrash
  <1>4. claims' \in Seq({"Down", "Up"})
    <2>1. claims' = claims \/ claims' = Append(claims, "Down")
      BY Zenon DEF Ended, CountCrash, Send
    <2>2. claims \in Seq({"Down", "Up"})
      BY DEF TypeOK
    <2> QED
      BY <2>1, <2>2
  <1>5. alarm' = (alarm \/ crashes' >= AlarmAfter)
    BY DEF Ended, CountCrash
  <1>6. alarm => crashes' >= AlarmAfter
    BY ConstantsAssumption DEF Ended, CountCrash, Least, AlarmMeansCrashing, TypeOK
  <1>7. alarm' \in BOOLEAN
    BY <1>5
  <1>8. AlarmMeansCrashing' /\ DownIsLowered'
    BY Zenon, <1>3, <1>5, <1>6 DEF AlarmMeansCrashing, DownIsLowered
  <1>9. silent' \in 0..(Patience - 1)
    BY <1>3, ConstantsAssumption
  <1> QED
    BY <1>3, <1>4, <1>7, <1>8, <1>9 DEF DecisionOK

\* The initial state satisfies the inductive invariant.
LEMMA InitInv == Init => IInv
  <1> SUFFICES ASSUME Init PROVE IInv
    OBVIOUS
  <1>1. /\ proc \in [Pids -> DataPlaneState \cup {"Absent", "Dead"}]
        /\ wire \in [Pids -> Seq(Heard)]
        /\ heard \in Seq(Heard) /\ claims \in Seq({"Down", "Up"})
    BY DEF Init
  <1>2. silent \in 0..(Patience - 1) /\ crashes \in 0..CounterMax
    BY ConstantsAssumption DEF Init
  <1>3. TypeOK
    BY Zenon, <1>1, <1>2, ConstantsAssumption DEF Init, TypeOK
  <1> QED
    BY <1>3, ConstantsAssumption
    DEF Init, IInv, OneProcess, NeverAbandoned, NoStartBesideAProcess,
        AlarmMeansCrashing, DownIsLowered, NothingBeforeBegin

\* Every step of the loop keeps the inductive invariant.
LEMMA LoopKeeps == IInv /\ Loop => IInv'
  <1> SUFFICES ASSUME IInv, Loop PROVE IInv'
    OBVIOUS
  <1> USE ConstantsAssumption DEF IInv
  <1>1. CASE Begin
    <2>1. ASSUME NEW p \in Pids, Spawn(p), startIn' = None,
                 UNCHANGED <<standing, crashes, lowered, alarm, silent, claims>>
          PROVE  IInv'
      <3>1. TypeOK'
        BY <1>1, <2>1 DEF Begin, Spawn, TypeOK, DataPlaneState
      <3>2. OneProcess'
        BY <1>1, <2>1 DEF Begin, Spawn, TypeOK, OneProcess, NothingBeforeBegin
      <3> QED
        BY <1>1, <2>1, <3>1, <3>2
        DEF Begin, Spawn, NeverAbandoned, NoStartBesideAProcess,
            AlarmMeansCrashing, DownIsLowered, NothingBeforeBegin
    <2>2. CASE Ended /\ UNCHANGED <<child, proc>>
      <3>1. SurroundingsOK'
        BY <1>1, <2>2, TypeSplit DEF Begin, SurroundingsOK
      <3>2. TypeOK'
        BY <2>2, <3>1, EndedKeeps, TypeSplitNext
      <3> QED
        BY <1>1, <2>2, <3>2, EndedKeeps
        DEF Begin, OneProcess, NeverAbandoned, NoStartBesideAProcess,
            NothingBeforeBegin
    <2> QED
      BY <1>1, <2>1, <2>2 DEF Begin
  <1>2. CASE Hear
    <2>1. IF Serving(Head(heard)) THEN Serves ELSE Answered
      BY <1>2 DEF Hear
    <2>2. heard' \in Seq(Heard)
      BY <1>2 DEF Hear, TypeOK
    <2>3. claims' \in Seq({"Down", "Up"})
      <3>1. claims' = claims \/ claims' = Append(claims, "Up")
        BY <2>1, Zenon DEF Serves, Answered, Send
      <3>2. claims \in Seq({"Down", "Up"})
        BY DEF TypeOK
      <3> QED
        BY <3>1, <3>2
    <2>4. TypeOK'
      <3>1. SurroundingsOK'
        BY <1>2, <2>2, TypeSplit DEF Hear, SurroundingsOK
      <3>2. silent' \in 0..(Patience - 1) /\ crashes' \in 0..CounterMax
        BY <2>1 DEF Serves, Answered, TypeOK
      <3>3. DecisionOK'
        BY Zenon, <2>1, <2>3, <3>2 DEF Serves, Answered, TypeOK, DecisionOK
      <3> QED
        BY <3>1, <3>3, TypeSplitNext
    <2>5. AlarmMeansCrashing' /\ DownIsLowered'
      BY <2>1 DEF Serves, Answered, TypeOK, AlarmMeansCrashing, DownIsLowered
    <2> QED
      BY <1>2, <2>1, <2>4, <2>5
      DEF Hear, Serves, Answered, OneProcess, NeverAbandoned,
          NoStartBesideAProcess, NothingBeforeBegin
  <1>3. CASE HeardAll
    BY <1>3 DEF HeardAll, decisionVars, TypeOK, OneProcess, NeverAbandoned, NoStartBesideAProcess,
        AlarmMeansCrashing, DownIsLowered, NothingBeforeBegin
  <1>4. CASE Reap
    <2>1. CASE child # NoChild /\ ~Running(child)
      <3>1. /\ Ended /\ child' = NoChild
            /\ proc' = [proc EXCEPT ![child] = "Absent"]
            /\ pc' = "question"
            /\ UNCHANGED <<quiet, questionIn, wire, heard>>
        BY <1>4, <2>1 DEF Reap
      <3>2. SurroundingsOK'
        BY <2>1, <3>1, TypeSplit DEF SurroundingsOK
      <3>3. TypeOK'
        BY <3>1, <3>2, EndedKeeps, TypeSplitNext
      <3> QED
        BY <3>1, <3>3, <2>1, EndedKeeps
        DEF TypeOK, OneProcess, NeverAbandoned, NoStartBesideAProcess,
            NothingBeforeBegin
    <2>2. CASE ~(child # NoChild /\ ~Running(child))
      <3>1. UNCHANGED <<decisionVars, child, proc, claims, quiet, questionIn, wire, heard>>
        BY <1>4, <2>2 DEF Reap
      <3> QED
        BY <1>4, <3>1 DEF Reap, decisionVars, TypeOK, OneProcess, NeverAbandoned, NoStartBesideAProcess,
        AlarmMeansCrashing, DownIsLowered, NothingBeforeBegin
    <2> QED
      BY <2>1, <2>2
  <1>5. CASE Question
    <2>1. CASE UNCHANGED <<decisionVars, child, proc, claims>>
      BY <1>5, <2>1 DEF Question, decisionVars, TypeOK, OneProcess, NeverAbandoned, NoStartBesideAProcess,
        AlarmMeansCrashing, DownIsLowered, NothingBeforeBegin
    <2>2. CASE /\ silent + 1 < Patience
               /\ silent' = silent + 1
               /\ UNCHANGED <<standing, crashes, lowered, alarm, startIn, child, proc, claims>>
      BY <1>5, <2>2 DEF Question, TypeOK, OneProcess, NeverAbandoned, NoStartBesideAProcess,
        AlarmMeansCrashing, DownIsLowered, NothingBeforeBegin
    <2>3. CASE /\ Ended /\ child # NoChild /\ child' = NoChild
               /\ proc' = [proc EXCEPT ![child] = "Absent"]
      <3>1. SurroundingsOK'
        BY <1>5, <2>3, TypeSplit DEF Question, SurroundingsOK
      <3>2. TypeOK'
        BY <2>3, <3>1, EndedKeeps, TypeSplitNext
      <3> QED
        BY <1>5, <2>3, <3>2, EndedKeeps
        DEF Question, TypeOK, OneProcess, NeverAbandoned,
            NoStartBesideAProcess, NothingBeforeBegin
    <2> QED
      BY <1>5, <2>1, <2>2, <2>3 DEF Question, Unanswered
  <1>6. CASE Start
    <2>1. child = NoChild
      BY <1>6 DEF Start, NoStartBesideAProcess
    <2>2. ASSUME NEW p \in Pids, Spawn(p), startIn' = None, standing' = "Starting",
                 UNCHANGED <<crashes, lowered, alarm, silent, claims>>
          PROVE  IInv'
      <3>1. TypeOK'
        BY <1>6, <2>2 DEF Start, Spawn, TypeOK, DataPlaneState
      <3>2. OneProcess'
        BY <1>6, <2>1, <2>2 DEF Start, Spawn, TypeOK, OneProcess
      <3> QED
        BY <1>6, <2>2, <3>1, <3>2
        DEF Start, Spawn, NeverAbandoned, NoStartBesideAProcess,
            AlarmMeansCrashing, DownIsLowered, NothingBeforeBegin
    <2>3. CASE Ended /\ UNCHANGED <<child, proc>>
      <3>1. SurroundingsOK'
        BY <1>6, <2>3, TypeSplit DEF Start, SurroundingsOK
      <3>2. TypeOK'
        BY <2>3, <3>1, EndedKeeps, TypeSplitNext
      <3> QED
        BY <1>6, <2>1, <2>3, <3>2, EndedKeeps
        DEF Start, OneProcess, NeverAbandoned, NoStartBesideAProcess,
            NothingBeforeBegin
    <2> QED
      BY <1>6, <2>2, <2>3 DEF Start
  <1>7. CASE NotDue
    BY <1>7 DEF NotDue, decisionVars, TypeOK, OneProcess, NeverAbandoned, NoStartBesideAProcess,
        AlarmMeansCrashing, DownIsLowered, NothingBeforeBegin
  <1>8. CASE Sleep
    BY <1>8 DEF Sleep, Least, TypeOK, OneProcess, NeverAbandoned, NoStartBesideAProcess,
        AlarmMeansCrashing, DownIsLowered, NothingBeforeBegin
  <1> QED
    BY <1>1, <1>2, <1>3, <1>4, <1>5, <1>6, <1>7, <1>8 DEF Loop

\* Neither stopping nor any step of the processes, the reader threads or the
\* router breaks the inductive invariant.
LEMMA OthersKeep == IInv /\ (Stop \/ Others) => IInv'
  <1> SUFFICES ASSUME IInv, Stop \/ Others PROVE IInv'
    OBVIOUS
  <1> USE ConstantsAssumption DEF IInv
  <1> USE DEF OneProcess, NeverAbandoned, NoStartBesideAProcess,
              AlarmMeansCrashing, DownIsLowered, NothingBeforeBegin
  <1>1. CASE Stop
    BY <1>1 DEF Stop, decisionVars, TypeOK
  <1>2. ASSUME NEW p \in Pids, NEW state \in DataPlaneState, Become(p, state)
        PROVE  IInv'
    BY <1>2 DEF Become, Running, DataPlaneState, unheard, decisionVars, TypeOK
  <1>3. ASSUME NEW p \in Pids, Exit(p) PROVE IInv'
    BY <1>3 DEF Exit, Running, DataPlaneState, unheard, decisionVars, TypeOK
  <1>4. ASSUME NEW p \in Pids, Write(p) PROVE IInv'
    <2>1. PICK what \in {"Answered", proc[p]} :
             wire' = [wire EXCEPT ![p] = Append(@, what)]
      BY Zenon, <1>4 DEF Write
    <2>2. what \in Heard
      BY <1>4, <2>1 DEF Write, Running, Heard
    <2>3. wire' \in [Pids -> Seq(Heard)]
      BY <2>1, <2>2 DEF TypeOK
    <2> QED
      BY <1>4, <2>3 DEF Write, unheard, decisionVars, TypeOK
  <1>5. ASSUME NEW p \in Pids, Read(p) PROVE IInv'
    <2>1. wire' \in [Pids -> Seq(Heard)] /\ heard' \in Seq(Heard)
      BY <1>5 DEF Read, TypeOK
    <2> QED
      BY <1>5, <2>1 DEF Read, unheard, decisionVars, TypeOK
  <1>6. CASE Obey
    <2>1. claims' \in Seq({"Down", "Up"})
      BY <1>6 DEF Obey, TypeOK
    <2> QED
      BY <1>6, <2>1 DEF Obey, decisionVars, TypeOK
  <1> QED
    BY <1>1, <1>2, <1>3, <1>4, <1>5, <1>6 DEF Others

\* The supervision keeps its inductive invariant for ever.
THEOREM SupervisionInvariant == Spec => []IInv
  <1>1. IInv /\ UNCHANGED vars => IInv'
    BY DEF IInv, vars, decisionVars, TypeOK, OneProcess, NeverAbandoned,
           NoStartBesideAProcess, AlarmMeansCrashing, DownIsLowered,
           NothingBeforeBegin
  <1>2. IInv /\ [Next]_vars => IInv'
    BY <1>1, LoopKeeps, OthersKeep DEF Next, Finished
  <1> QED
    BY InitInv, <1>2, PTL DEF Spec

\* There is at most one process, a start is scheduled when there is none, and
\* claim, alarm and crash counter agree.
THEOREM AlwaysSupervised == Spec => []Supervised
  BY SupervisionInvariant, PTL DEF IInv, Supervised

\* Type correctness, with the crash counter inside its width.
THEOREM TypeCorrect == Spec => []TypeOK
  BY SupervisionInvariant, PTL DEF IInv

\* No restart ever runs a second data-plane beside the first.
THEOREM AtMostOneProcess == Spec => []OneProcess
  BY SupervisionInvariant, PTL DEF IInv

\* A node without a process always has a start scheduled.
THEOREM AlwaysScheduled == Spec => []NeverAbandoned
  BY SupervisionInvariant, PTL DEF IInv

\* The alarm is on exactly while the crashes in a row have reached its
\* threshold, and never while the claim is up.
THEOREM AlarmCorrect == Spec => []AlarmMeansCrashing
  BY SupervisionInvariant, PTL DEF IInv

\* A process known to be down, or restarted and not reporting yet, has the
\* claim lowered.
THEOREM DownLowersClaim == Spec => []DownIsLowered
  BY SupervisionInvariant, PTL DEF IInv

\* The claim is put back by a report of carrying traffic and by nothing else.
THEOREM RestoreNeedsReport == Spec => RestoredByReportOnly
  <1>1. IInv /\ [Next]_vars =>
          [lowered /\ ~lowered' =>
             /\ heard # << >> /\ Head(heard) \in {"Serving", "Degraded"}
             /\ heard' = Tail(heard)]_vars
    <2> SUFFICES ASSUME IInv, [Next]_vars, lowered, ~lowered'
                 PROVE  /\ heard # << >> /\ Head(heard) \in {"Serving", "Degraded"}
                        /\ heard' = Tail(heard)
      OBVIOUS
    <2>1. ~Ended
      BY DEF Ended, CountCrash
    <2>2. ~(Begin \/ Reap \/ Start)
      BY Zenon, <2>1 DEF Begin, Reap, Start, decisionVars
    <2>3. ~Question
      BY Zenon, <2>1 DEF Question, Unanswered, decisionVars
    <2>4. ~(HeardAll \/ NotDue \/ Sleep \/ Stop \/ Others \/ UNCHANGED vars)
      BY Zenon DEF HeardAll, NotDue, Sleep, Stop, Others, Become, Exit, Write, Read, Obey,
             unheard, vars, decisionVars
    <2>5. Hear
      BY <2>2, <2>3, <2>4 DEF Next, Loop, Finished
    <2> QED
      BY Zenon, <2>5 DEF Hear, Serving, Answered
  <1> QED
    BY <1>1, SupervisionInvariant, PTL DEF Spec, RestoredByReportOnly

\* What the supervision sends is what ClaimSource promises the router: every
\* step of the one is a step of the other or changes nothing it can see.
THEOREM Refinement == Spec => ImplementsSource
  <1> USE DEF Source!SourceInit, Source!SourceNext, Source!Lower, Source!Raise,
              Source!Take, Source!sourceVars
  <1>1. Init => Source!SourceInit
    BY DEF Init
  <1>2. IInv /\ [Next]_vars => [Source!SourceNext]_Source!sourceVars
    <2> SUFFICES ASSUME IInv, [Next]_vars
                 PROVE  [Source!SourceNext]_Source!sourceVars
      BY Zenon
    <2>1. lowered \in BOOLEAN
      BY DEF IInv, TypeOK
    <2>2. CASE Ended
      BY <2>1, <2>2, Zenon DEF Ended, CountCrash, Send
    <2>3. CASE Serves
      BY <2>1, <2>3, Zenon DEF Serves, Send
    <2>4. CASE UNCHANGED <<lowered, claims>>
      BY <2>4
    <2>5. CASE Obey
      BY <2>5 DEF Obey, decisionVars
    <2>6. CASE Begin \/ Reap \/ Start
      BY Zenon, <2>2, <2>4, <2>6 DEF Begin, Reap, Start, decisionVars
    <2>7. CASE Question
      BY Zenon, <2>2, <2>4, <2>7 DEF Question, Unanswered, decisionVars
    <2>8. CASE Hear
      BY Zenon, <2>3, <2>4, <2>8 DEF Hear, Answered
    <2>9. CASE HeardAll \/ NotDue \/ Sleep \/ Stop \/ UNCHANGED vars
      BY <2>4, <2>9 DEF HeardAll, NotDue, Sleep, Stop, vars, decisionVars
    <2>10. ASSUME NEW p \in Pids, \/ \E state \in DataPlaneState : Become(p, state)
                                  \/ Exit(p) \/ Write(p) \/ Read(p)
           PROVE  UNCHANGED <<lowered, claims>>
      BY <2>10 DEF Become, Exit, Write, Read, unheard, decisionVars
    <2> QED
      BY Zenon, <2>4, <2>5, <2>6, <2>7, <2>8, <2>9, <2>10 DEF Next, Loop, Others, Finished
  <1> QED
    BY <1>1, <1>2, SupervisionInvariant, PTL DEF Spec, ImplementsSource, Source!SourceSpec
==============================================================================
