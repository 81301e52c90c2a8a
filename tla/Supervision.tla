----------------------------- MODULE Supervision -----------------------------
(***************************************************************************)
(* The supervision of the data-plane process by node-agent.                *)
(*                                                                         *)
(* Source: ek-ek-agent/src/supervise.rs (the decisions), run.rs (the loop  *)
(* that carries them out), socket.rs (the threads that read the reports)   *)
(* and child.rs (the process).                                             *)
(*                                                                         *)
(* Four parties interleave: the supervision loop, one reader thread per    *)
(* connection, the data-plane processes, and the router thread that takes  *)
(* claims out of the channel.  The loop is one round after another, each   *)
(* in the order of run.rs: drain what was heard, look whether the process  *)
(* ended, count a question, start what is due, sleep.  Every stage is one  *)
(* action, so the other parties move between any two of them.              *)
(*                                                                         *)
(* A duration is a whole number of rounds.  The loop reads the clock once  *)
(* per round (run.rs:227), so a deadline is kept as the rounds left to it. *)
(***************************************************************************)
EXTENDS Integers, Sequences, FiniteSets

CONSTANTS
    Pids,           \* process identifiers the kernel hands out
    NoChild,        \* the supervision holds no process
    None,           \* no start is waiting
    Patience,       \* Plan.patience: questions that may go unanswered
    Asking,         \* Plan.asking, in rounds
    AlarmAfter,     \* ALARM_AFTER
    FirstWait,      \* FIRST_WAIT, in rounds
    LongestWait,    \* LONGEST_WAIT, in rounds
    CounterMax,     \* where the saturating u32 counters stop
    MaxUnread,      \* bound: messages in one connection, and in the channel
    MaxClaims       \* bound: claims the router has not taken yet

ASSUME ConstantsAssumption ==
    /\ NoChild \notin Pids
    /\ None \notin Int
    /\ Patience \in Nat \ {0}
    /\ Asking \in Nat \ {0}
    /\ AlarmAfter \in Nat \ {0}
    /\ FirstWait \in Nat
    /\ LongestWait \in Nat
    /\ CounterMax \in Nat /\ CounterMax >= AlarmAfter

DataPlaneState == {"Starting", "Serving", "Degraded"}

\* A Pong, or a report carrying the state the process says it is in.  A
\* greeting and a refused configuration are only logged, so they are left out.
Heard == DataPlaneState \cup {"Answered"}

VARIABLES
    standing, crashes, lowered, alarm, startIn, silent,  \* Supervision
    pc,             \* where the loop stands
    child,          \* the process the loop holds
    quiet,          \* rounds since answered_at, as far as it is compared
    questionIn,     \* rounds until question_at
    proc,           \* what each process is doing
    wire,           \* written by a process, not read by its reader thread
    heard,          \* the channel into the loop
    claims          \* the channel into the router

decisionVars == <<standing, crashes, lowered, alarm, startIn, silent>>
vars == <<decisionVars, pc, child, quiet, questionIn, proc, wire, heard, claims>>

Least(a, b) == IF a <= b THEN a ELSE b

Running(p) == proc[p] \in DataPlaneState

\* Decision operators ------------------------------------------------------

\* Mutant: every report counts as serving.
ServingAny(state) == state \in DataPlaneState

\* Whether a report says this node can carry traffic.
Serving(state) == state \in {"Serving", "Degraded"}

\* How long to wait before the restart that follows this many crashes.
WaitAfter(n) ==
    IF n = 0 THEN 0 ELSE Least(FirstWait * 2^Least(n - 1, 31), LongestWait)

Send(claim) == claims' = Append(claims, claim)

\* Takes a liveness answer: the process reads what is sent to it, no more.
Answered == /\ silent' = 0
            /\ UNCHANGED <<standing, crashes, lowered, alarm, startIn, claims>>

\* Mutant: the wait for the next start is forgotten with the crashes.
ServesForgetsStart == /\ silent' = 0
                      /\ standing' = "Serving" /\ crashes' = 0
                      /\ lowered' = FALSE /\ alarm' = FALSE
                      /\ IF lowered THEN Send("Up") ELSE UNCHANGED claims
                      /\ startIn' = None

\* Mutant: the claim is put back whether or not it was lowered.
ServesAlwaysRestores == /\ silent' = 0
                        /\ standing' = "Serving" /\ crashes' = 0
                        /\ lowered' = FALSE /\ alarm' = FALSE
                        /\ IF standing = "Serving" THEN UNCHANGED claims
                                                   ELSE Send("Up")
                        /\ UNCHANGED startIn

\* Takes a report that the process carries traffic.  The claim returns here.
Serves == /\ silent' = 0
          /\ IF standing = "Serving"
             THEN UNCHANGED <<standing, crashes, lowered, alarm, claims>>
             ELSE /\ standing' = "Serving"
                  /\ crashes' = 0
                  /\ lowered' = FALSE
                  /\ alarm' = FALSE
                  /\ IF lowered THEN Send("Up") ELSE UNCHANGED claims
          /\ UNCHANGED startIn

\* The crash is counted as number n, and the claim is low from here on or not.
CountCrash(n, low) ==
    /\ silent' = 0
    /\ crashes' = n
    /\ standing' = "Down"
    /\ startIn' = WaitAfter(n)
    /\ lowered' = low
    /\ alarm' = (alarm \/ n >= AlarmAfter)
    /\ IF low = lowered THEN UNCHANGED claims ELSE Send("Down")

\* Takes the process ending, however it ended.
Ended == CountCrash(Least(crashes + 1, CounterMax), TRUE)

\* The loop ----------------------------------------------------------------

\* A fresh process: its number is used again only once nothing of the process
\* that had it before is left on the wire.
Spawn(p) == /\ proc[p] = "Absent" /\ wire[p] = << >>
            /\ proc' = [proc EXCEPT ![p] = "Starting"]
            /\ child' = p

\* Supervision::begin, carried out before the first round.
Begin == /\ pc = "begin"
         /\ pc' = "hear"
         /\ \/ /\ \E p \in Pids : Spawn(p)
               /\ startIn' = None
               /\ UNCHANGED <<standing, crashes, lowered, alarm, silent, claims>>
            \/ /\ Ended
               /\ UNCHANGED <<child, proc>>
         /\ UNCHANGED <<quiet, questionIn, wire, heard>>

\* Everything heard is taken before anything else is looked at.
Hear == /\ pc = "hear" /\ heard # << >>
        /\ quiet' = 0
        /\ IF Serving(Head(heard)) THEN Serves ELSE Answered
        /\ heard' = Tail(heard)
        /\ UNCHANGED <<pc, child, questionIn, proc, wire>>

HeardAll == /\ pc = "hear" /\ heard = << >>
            /\ pc' = "reap"
            /\ UNCHANGED <<decisionVars, child, quiet, questionIn, proc, wire,
                           heard, claims>>

Reap == /\ pc = "reap"
        /\ pc' = "question"
        /\ IF child # NoChild /\ ~Running(child)
           THEN /\ Ended
                /\ child' = NoChild
                /\ proc' = [proc EXCEPT ![child] = "Absent"]
           ELSE UNCHANGED <<decisionVars, child, proc, claims>>
        /\ UNCHANGED <<quiet, questionIn, wire, heard>>

\* Mutant: the process is started again and the one running is kept too.
UnansweredKeepsChild ==
    IF standing = "Down" THEN UNCHANGED <<decisionVars, child, proc, claims>>
    ELSE IF silent + 1 < Patience
    THEN /\ silent' = silent + 1
         /\ UNCHANGED <<standing, crashes, lowered, alarm, startIn, child, proc,
                        claims>>
    ELSE Ended /\ UNCHANGED <<child, proc>>

\* One question's worth of silence, counted while there is a process to be
\* silent.  Running out of patience ends it: signalled, killed when it does
\* not go, and waited for (Child::terminate), then counted as a crash.
Unanswered ==
    IF standing = "Down" THEN UNCHANGED <<decisionVars, child, proc, claims>>
    ELSE IF silent + 1 < Patience
    THEN /\ silent' = silent + 1
         /\ UNCHANGED <<standing, crashes, lowered, alarm, startIn, child, proc,
                        claims>>
    ELSE /\ Ended
         /\ child' = NoChild
         /\ proc' = [proc EXCEPT ![child] = "Absent"]

Question == /\ pc = "question"
            /\ pc' = "due"
            /\ questionIn' = IF questionIn = 0 THEN Asking ELSE questionIn
            /\ IF questionIn = 0 /\ child # NoChild /\ quiet >= Asking
               THEN Unanswered
               ELSE UNCHANGED <<decisionVars, child, proc, claims>>
            /\ UNCHANGED <<quiet, wire, heard>>

\* Starts the process again once its wait is over.
Start == /\ pc = "due" /\ startIn # None /\ startIn <= 0
         /\ pc' = "sleep"
         /\ \/ /\ \E p \in Pids : Spawn(p)
               /\ startIn' = None
               /\ standing' = "Starting"
               /\ UNCHANGED <<crashes, lowered, alarm, silent, claims>>
            \/ /\ Ended
               /\ UNCHANGED <<child, proc>>
         /\ UNCHANGED <<quiet, questionIn, wire, heard>>

NotDue == /\ pc = "due" /\ (startIn # None => startIn > 0)
          /\ pc' = "sleep"
          /\ UNCHANGED <<decisionVars, child, quiet, questionIn, proc, wire,
                         heard, claims>>

\* A round of sleep, after which the clock is read again.
Sleep == /\ pc = "sleep"
         /\ pc' = "hear"
         /\ startIn' = IF startIn = None THEN None ELSE startIn - 1
         /\ questionIn' = IF questionIn > 0 THEN questionIn - 1 ELSE 0
         /\ quiet' = Least(quiet + 1, Patience * Asking)
         /\ UNCHANGED <<standing, crashes, lowered, alarm, silent, child, proc,
                        wire, heard, claims>>

\* Told to stop: the process is ended and waited for before the agent goes.
Stop == /\ pc = "sleep"
        /\ pc' = "stopped"
        /\ child' = NoChild
        /\ proc' = [p \in Pids |-> IF p = child THEN "Absent" ELSE proc[p]]
        /\ UNCHANGED <<decisionVars, quiet, questionIn, wire, heard, claims>>

Loop == Begin \/ Hear \/ HeardAll \/ Reap \/ Question \/ Start \/ NotDue \/ Sleep

\* The other parties -------------------------------------------------------

unheard == <<decisionVars, pc, child, quiet, questionIn, claims>>

\* The process moves between its states: its listeners come up, something
\* starts or stops being wrong.  It never goes back to starting.
Become(p, state) == /\ Running(p) /\ state # "Starting" /\ state # proc[p]
                    /\ proc' = [proc EXCEPT ![p] = state]
                    /\ UNCHANGED <<unheard, wire, heard>>

\* It ends by itself and stays in the process table until it is waited for.
Exit(p) == /\ Running(p) /\ Len(claims) < MaxClaims
           /\ proc' = [proc EXCEPT ![p] = "Dead"]
           /\ UNCHANGED <<unheard, wire, heard>>

\* It answers a question, or reports the state it is in.
Write(p) == /\ Running(p) /\ Len(wire[p]) < MaxUnread /\ Len(claims) < MaxClaims
            /\ \E what \in {"Answered", proc[p]} :
                  wire' = [wire EXCEPT ![p] = Append(@, what)]
            /\ UNCHANGED <<unheard, proc, heard>>

\* The reader thread of the connection passes one message on.  What a process
\* wrote before it ended is still read afterwards.
Read(p) == /\ wire[p] # << >> /\ Len(heard) < MaxUnread
           /\ heard' = Append(heard, Head(wire[p]))
           /\ wire' = [wire EXCEPT ![p] = Tail(@)]
           /\ UNCHANGED <<unheard, proc>>

\* The router thread takes a claim.
Obey == /\ claims # << >>
        /\ claims' = Tail(claims)
        /\ UNCHANGED <<decisionVars, pc, child, quiet, questionIn, proc, wire,
                       heard>>

Others == \/ \E p \in Pids : \/ \E state \in DataPlaneState : Become(p, state)
                             \/ Exit(p) \/ Write(p) \/ Read(p)
          \/ Obey

Init == /\ standing = "Starting" /\ crashes = 0 /\ lowered = FALSE
        /\ alarm = FALSE /\ startIn = None /\ silent = 0
        /\ pc = "begin" /\ child = NoChild
        /\ quiet = 0 /\ questionIn = Asking
        /\ proc = [p \in Pids |-> "Absent"]
        /\ wire = [p \in Pids |-> << >>]
        /\ heard = << >> /\ claims = << >>

Finished == pc = "stopped" /\ UNCHANGED vars

Next == Loop \/ Stop \/ Others \/ Finished

Spec == Init /\ [][Next]_vars

\* The loop and the reader threads are threads the operating system runs, so
\* each of them keeps moving.  A start is refused for a while, not for ever
\* (run.rs:410-413).  Nothing is assumed of the data-plane processes.
Fairness == /\ WF_vars(Loop)
            /\ SF_vars(Start /\ child' # NoChild)
            /\ \A p \in Pids : WF_vars(Read(p))
            /\ WF_vars(Obey)

FairSpec == Spec /\ Fairness

\* Properties --------------------------------------------------------------

\* Every variable stays in its type, and the saturating counter in its range.
TypeOK == /\ standing \in {"Starting", "Serving", "Down"}
          /\ crashes \in 0..CounterMax
          /\ lowered \in BOOLEAN /\ alarm \in BOOLEAN
          /\ startIn \in Int \cup {None}
          /\ silent \in 0..(Patience - 1)
          /\ pc \in {"begin", "hear", "reap", "question", "due", "sleep", "stopped"}
          /\ child \in Pids \cup {NoChild}
          /\ quiet \in Nat /\ questionIn \in Nat
          /\ proc \in [Pids -> DataPlaneState \cup {"Absent", "Dead"}]
          /\ wire \in [Pids -> Seq(Heard)]
          /\ heard \in Seq(Heard)
          /\ claims \in Seq({"Down", "Up"})

\* The only process there is, running or waiting to be reaped, is the one the
\* loop holds: no restart ever leaves a second data-plane beside the first
\* (child.rs terminate waits before ended() schedules the next start).
OneProcess == \A p \in Pids : proc[p] # "Absent" => p = child

\* A node without a process always has a start scheduled, whatever was heard
\* in the meantime: restarting never stops (tests/supervise.rs:193).
NeverAbandoned ==
    (child = NoChild) /\ (pc \notin {"begin", "stopped"}) => startIn # None

\* A start is waiting only while no process is held, so `due` never replaces a
\* process that is still there.
NoStartBesideAProcess == child # NoChild => startIn = None

\* The alarm is on exactly while the crashes in a row have reached ALARM_AFTER,
\* and never on a node whose claim is up.
AlarmMeansCrashing == /\ alarm <=> crashes >= AlarmAfter
                      /\ alarm => lowered

\* A process known to be down, and every restart after a crash until a report,
\* has the claim lowered (supervise.rs:238-240).
DownIsLowered == /\ standing = "Down" => lowered
                 /\ standing = "Serving" => ~lowered
                 /\ crashes > 0 => lowered

\* A node whose process is gone claims nothing: "a node holding an address it
\* cannot serve is the outage this exists to end" (supervise.rs:238-240).  This
\* fails: a report the process wrote before it ended is heard after it.
NoProcessNoClaim ==
    (child = NoChild) /\ (pc \notin {"begin", "stopped"}) => lowered

\* The claim goes back up on a report of carrying traffic and on nothing else:
\* not on a start, not on a Pong, not on a report of starting.
RestoredByReportOnly ==
    [][lowered /\ ~lowered' =>
         /\ heard # << >> /\ Head(heard) \in {"Serving", "Degraded"}
         /\ heard' = Tail(heard)]_vars

\* A process that is running is ended by a question only after it has said
\* nothing for Patience whole question intervals; one answer starts the
\* patience over.
EndedOnlyWhenSilent ==
    [][(pc = "question" /\ child # NoChild /\ child' = NoChild)
         => quiet >= Patience * Asking]_vars

\* The channel of claims is what ClaimSource promises the router.
Source == INSTANCE ClaimSource WITH lowered <- lowered, claims <- claims
ImplementsSource == Source!SourceSpec

\* A process that ended lowers the claim, unless the agent stops first.
DeathLowersClaim ==
    \A p \in Pids : (proc[p] = "Dead") ~> (lowered \/ pc = "stopped")

\* A node without a process gets one again.
Restarted == []<>(child # NoChild \/ pc = "stopped")

\* A process cannot stay up and silent for ever: it answers again and again, or
\* it is ended.
SilenceEnds == []<>(quiet < Asking \/ child = NoChild)

\* In every state of supervise (run.rs:279-458) there is at most one process,
\* a start is scheduled when there is none, and the claim and the alarm agree
\* with the crashes counted so far (supervise.rs ended, serves).
Supervised == /\ TypeOK
              /\ OneProcess /\ NeverAbandoned
              /\ AlarmMeansCrashing /\ DownIsLowered

\* Whatever becomes of the process, the loop of run.rs gets over it: a death
\* lowers the claim, a start follows, a process that goes silent is ended, and
\* one that is not silent is not.
Recovers == /\ DeathLowersClaim /\ Restarted
            /\ SilenceEnds /\ EndedOnlyWhenSilent
==============================================================================
