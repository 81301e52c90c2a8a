------------------------------- MODULE Router --------------------------------
(***************************************************************************)
(* The virtual router thread of one node.                                  *)
(*                                                                         *)
(* Sources: ek-ek-vrrp/src/router.rs (the round and carry_out), gateway.rs *)
(* (the watch), carrier.rs (the addresses and their announcements),        *)
(* ping.rs (the question) and the loop of ek-ek-agent/src/run.rs around    *)
(* them.  The machine is VrrpMachine; the supervision at the other end of  *)
(* the claims channel is ClaimSource, which Supervision implements.        *)
(*                                                                         *)
(* One round is  claims -> receive -> timer -> collect -> ask -> announce, *)
(* and takes one tick.  What the machine asks for goes through `queue`,    *)
(* which carry_out empties before the round goes on.                       *)
(***************************************************************************)
EXTENDS VrrpMachine, ClaimSource

CONSTANTS
    Configured,     \* Settings.priority
    Preempt,        \* Settings.preempt
    Address,        \* this node's address, which settles a tie
    Demoted,        \* Plan.demoted_priority
    Adverts,        \* what peers may send: records [from, priority]
    Carried,        \* how many addresses are carried
    CheckEvery,     \* Plan.check_interval, in ticks
    Threshold,      \* Plan.threshold
    Announcements,  \* 5 in the code
    Gap,            \* between two announcements, in ticks
    MaxClaims,      \* bound: claims waiting in the channel
    MaxInbox,       \* bound: packets waiting in the ICMP socket
    MaxRefusals     \* bound: refusals by the kernel

ASSUME RouterAssumption ==
    /\ Configured \in Priority \ {GivingUp} /\ Demoted \in Priority \ {GivingUp}
    /\ Preempt \in BOOLEAN /\ Address \in Nat
    /\ Adverts \subseteq [from : Nat, priority : Priority]
    /\ Carried \in Nat \ {0} /\ CheckEvery \in Nat \ {0}
    /\ Threshold \in Nat \ {0}
    /\ Announcements \in Nat /\ Announcements > 1 /\ Gap \in Nat \ {0}

VARIABLES
    stage,      \* where in the round the thread is
    mach,       \* Router.machine
    queue,      \* what carry_out still has to do
    held,       \* addresses on the interface
    due,        \* Carrier.due: announcements left, and ticks to the next one
    watch,      \* Check.watch
    waiting,    \* Check.waiting: a question is out
    inbox,      \* the ICMP socket, oldest packet first
    told,       \* the last claim the router obeyed
    stuck,      \* addresses are on the interface that the kernel kept there
    silence,    \* ticks since the gateway last answered, up to QuietEnough
    refusals    \* how much of MaxRefusals is used up

node == <<mach, queue, held, due, stuck>>
uplink == <<watch, waiting, inbox, silence>>
vars == <<lowered, claims, stage, node, uplink, told, refusals>>

All == 1..Carried
QuietEnough == (Threshold - 1) * CheckEvery

\* The gateway check ---------------------------------------------------------

\* lowered is whether this check holds the claim down.
NewWatch == [answered |-> FALSE, missing |-> 0, lowered |-> FALSE, dueIn |-> 0]

Answered(w) == [w EXCEPT !.answered = TRUE, !.missing = 0, !.lowered = FALSE]

\* Nothing is counted before the first answer.  The count saturates; here it
\* stops at the threshold, past which it is only logged.
Missed(w) ==
    IF ~w.answered THEN w
    ELSE LET missing == IF w.missing < Threshold THEN w.missing + 1 ELSE w.missing
         IN  [w EXCEPT !.missing = missing,
                       !.lowered = w.lowered \/ missing >= Threshold]

\* carry_out -----------------------------------------------------------------

Do(kind) == queue # << >> /\ Head(queue).do = kind

\* The machine's answer is carried out before the round goes on to `next`.
Answer(done, next) == /\ mach' = done.machine
                      /\ queue' = done.actions
                      /\ stage' = next
                      /\ UNCHANGED <<held, due, stuck>>

SendAdvertisement == /\ Do("advertise")
                     /\ queue' = Tail(queue)
                     /\ UNCHANGED <<mach, held, due, stuck, refusals>>

TakeAll == /\ Do("take")
           /\ queue' = Tail(queue)
           /\ held' = All /\ stuck' = FALSE
           /\ due' = [left |-> Announcements - 1, in |-> Gap]
           /\ UNCHANGED <<mach, refusals>>

Refuse == refusals < MaxRefusals /\ refusals' = refusals + 1

\* The kernel refuses one of the addresses, or the announcement after the last.
\* Standing down goes to the end of the queue.
TakeRefused ==
    /\ Do("take") /\ Refuse
    /\ \E added \in 0..Carried : held' = held \cup 1..added
    /\ mach' = Renounce(mach).machine
    /\ queue' = Tail(queue) \o Renounce(mach).actions
    /\ UNCHANGED <<due, stuck>>

\* Mutant: the announcements go on.
DropAllKeepsDue == /\ Do("drop")
                   /\ queue' = Tail(queue)
                   /\ held' = {} /\ stuck' = FALSE
                   /\ UNCHANGED <<mach, due, refusals>>

DropAll == /\ Do("drop")
           /\ queue' = Tail(queue)
           /\ held' = {} /\ stuck' = FALSE
           /\ due' = [left |-> 0, in |-> 0]
           /\ UNCHANGED <<mach, refusals>>

\* The first refusal ends the loop: the addresses after it stay as well.
DropRefused == /\ Do("drop") /\ Refuse
               /\ queue' = Tail(queue)
               /\ \E at \in All : held' = held \ 1..(at - 1)
               /\ due' = [left |-> 0, in |-> 0]
               /\ stuck' = TRUE
               /\ UNCHANGED mach

CarryOut == /\ SendAdvertisement \/ TakeAll \/ TakeRefused \/ DropAll \/ DropRefused
            /\ UNCHANGED <<lowered, claims, stage, uplink, told>>

\* The round -----------------------------------------------------------------

At(where) == stage = where /\ queue = << >>

Start == /\ At("start")
         /\ Answer(StartMachine(mach), "top")
         /\ UNCHANGED <<lowered, claims, uplink, told, refusals>>

Begin == /\ At("top")
         /\ stage' = "claims"
         /\ UNCHANGED <<lowered, claims, node, uplink, told, refusals>>

Stop == /\ At("top")
        /\ Answer(StopMachine(mach), "stopped")
        /\ UNCHANGED <<lowered, claims, uplink, told, refusals>>

\* Mutant: the claim to lower is compared with the wrong priority.
ObeyWrongReturn(claim) ==
    IF mach.priority = IF claim = "Down" THEN Configured ELSE Demoted
    THEN Nothing(mach)
    ELSE IF claim = "Down" THEN Demote(mach, Demoted) ELSE Restore(mach)

\* Router::demote and Router::restore, with their early returns.
Obey(claim) ==
    IF mach.priority = IF claim = "Down" THEN Demoted ELSE Configured
    THEN Nothing(mach)
    ELSE IF claim = "Down" THEN Demote(mach, Demoted) ELSE Restore(mach)

ObeyClaim == /\ At("claims")
             /\ Take
             /\ told' = Head(claims)
             /\ Answer(Obey(Head(claims)), "claims")
             /\ UNCHANGED <<uplink, refusals>>

ClaimsDone == /\ At("claims") /\ claims = << >>
              /\ stage' = "receive"
              /\ UNCHANGED <<lowered, claims, node, uplink, told, refusals>>

Receive(p) == /\ At("receive")
              /\ Answer(ReceiveMachine(mach, p.from, p.priority), "receive")
              /\ UNCHANGED <<lowered, claims, uplink, told, refusals>>

ReceivedAll == /\ At("receive")
               /\ stage' = "timer"
               /\ UNCHANGED <<lowered, claims, node, uplink, told, refusals>>

RunTimer == /\ At("timer")
            /\ Answer(TickMachine(mach), "collect")
            /\ UNCHANGED <<lowered, claims, uplink, told, refusals>>

\* Mutant: the answer that ends a lost uplink does not put the claim back.
CollectAnswerKeepsClaim ==
    /\ At("collect") /\ inbox # << >> /\ Head(inbox) = "answer" /\ waiting
    /\ waiting' = FALSE
    /\ watch' = Answered(watch) /\ silence' = 0
    /\ inbox' = Tail(inbox)
    /\ UNCHANGED <<lowered, claims, stage, node, told, refusals>>

\* The answer to the question that is out.
CollectAnswer ==
    /\ At("collect") /\ inbox # << >> /\ Head(inbox) = "answer" /\ waiting
    /\ waiting' = FALSE
    /\ watch' = Answered(watch) /\ silence' = 0
    /\ inbox' = Tail(inbox)
    /\ mach' = IF watch.lowered THEN Restore(mach).machine ELSE mach
    /\ UNCHANGED <<lowered, claims, stage, queue, held, due, stuck, told, refusals>>

\* An answer to an older question, or a second one, is passed over.
CollectLate ==
    /\ At("collect") /\ inbox # << >>
    /\ Head(inbox) = "late" \/ (Head(inbox) = "answer" /\ ~waiting)
    /\ inbox' = Tail(inbox)
    /\ UNCHANGED <<lowered, claims, stage, node, watch, waiting, silence, told,
                   refusals>>

\* A packet that belongs to another asker reads like an empty socket.
CollectOther ==
    /\ At("collect") /\ inbox # << >> /\ Head(inbox) = "other"
    /\ inbox' = Tail(inbox)
    /\ stage' = "ask"
    /\ UNCHANGED <<lowered, claims, node, watch, waiting, silence, told, refusals>>

Collected == /\ At("collect") /\ inbox = << >>
             /\ stage' = "ask"
             /\ UNCHANGED <<lowered, claims, node, uplink, told, refusals>>

NotDue == /\ At("ask") /\ watch.dueIn > 0
          /\ stage' = "announce"
          /\ UNCHANGED <<lowered, claims, node, uplink, told, refusals>>

\* The question before this one, if it was never answered, and the next date.
Overdue == [IF waiting THEN Missed(watch) ELSE watch EXCEPT !.dueIn = CheckEvery]

\* The count w is kept, and acted on when it is the one that lowers the claim.
Count(w) == /\ watch' = w
            /\ Answer(IF w.lowered /\ ~watch.lowered THEN Demote(mach, Demoted)
                                                     ELSE Nothing(mach),
                      "announce")

Ask == /\ At("ask") /\ watch.dueIn = 0
       /\ Count(Overdue)
       /\ waiting' = TRUE
       /\ inbox' = [i \in DOMAIN inbox |->
                      IF inbox[i] = "answer" THEN "late" ELSE inbox[i]]
       /\ UNCHANGED <<lowered, claims, silence, told, refusals>>

\* A question that could not be sent is one without an answer.
AskRefused == /\ At("ask") /\ watch.dueIn = 0 /\ Refuse
              /\ Count(Missed(Overdue))
              /\ waiting' = FALSE
              /\ UNCHANGED <<lowered, claims, inbox, silence, told>>

\* The end of the round: one tick passes while the thread sleeps.
Sleep(announcing) ==
    /\ due' = [announcing EXCEPT !.in = IF @ > 0 THEN @ - 1 ELSE 0]
    /\ mach' = Elapse(mach)
    /\ watch' = [watch EXCEPT !.dueIn = IF @ > 0 THEN @ - 1 ELSE 0]
    /\ silence' = IF silence < QuietEnough THEN silence + 1 ELSE silence
    /\ stage' = "top"
    /\ UNCHANGED <<lowered, claims, queue, held, stuck, waiting, inbox, told>>

Announcing == due.left > 0 /\ due.in = 0

Announce == /\ At("announce")
            /\ Sleep(CASE ~Announcing -> due
                       [] Announcing /\ due.left > 1 ->
                            [left |-> due.left - 1, in |-> Gap]
                       [] OTHER -> [left |-> 0, in |-> 0])
            /\ UNCHANGED refusals

\* An announcement that failed is due again in the next round.
AnnounceRefused == At("announce") /\ Announcing /\ Refuse /\ Sleep(due)

\* The surroundings ----------------------------------------------------------

Decide == /\ Len(claims) < MaxClaims
          /\ Lower \/ Raise
          /\ UNCHANGED <<stage, node, uplink, told, refusals>>

\* The ICMP socket takes everything the machine is sent, before or after it is
\* read: a reading is shorter than the time between two packets.
Arrive == /\ Len(inbox) < MaxInbox /\ stage # "collect"
          /\ \E packet \in {"answer", "late", "other"} :
               /\ packet = "answer" => waiting
               /\ inbox' = Append(inbox, packet)
          /\ UNCHANGED <<lowered, claims, stage, node, watch, waiting, silence,
                         told, refusals>>

Finished == At("stopped") /\ UNCHANGED vars

Init == /\ SourceInit
        /\ stage = "start"
        /\ mach = NewMachine(Configured, Address, Preempt)
        /\ queue = << >>
        /\ held \in SUBSET All /\ stuck = (held # {})
        /\ due = [left |-> 0, in |-> 0]
        /\ watch = NewWatch /\ waiting = FALSE /\ inbox = << >>
        /\ told = "Up" /\ silence = 0 /\ refusals = 0

Round == \/ Start \/ Begin \/ ObeyClaim \/ ClaimsDone \/ ReceivedAll \/ RunTimer
         \/ CollectAnswer \/ CollectLate \/ CollectOther \/ Collected
         \/ NotDue \/ Ask \/ AskRefused \/ Announce \/ AnnounceRefused

Next == \/ CarryOut \/ Round \/ Stop \/ (\E p \in Adverts : Receive(p))
        \/ Decide \/ Arrive \/ Finished

Spec == Init /\ [][Next]_vars

\* The thread runs, and reads advertisements faster than they come.
FairSpec == Spec /\ WF_vars(CarryOut) /\ WF_vars(Round) /\ SF_vars(ReceivedAll)

\* Properties ----------------------------------------------------------------

Standing == queue = << >> /\ stage # "start"

\* Once carry_out is through, a master has every address and any other node
\* none, unless the kernel refused to remove one: also after a refused take, a
\* lowered claim and a stop.
AddressesFollowRole ==
    Standing => IF mach.state = "Master" THEN held = All ELSE stuck \/ held = {}

\* Whether the node has given its addresses up, or is about to.
GivingUpAddresses == \E i \in DOMAIN queue : queue[i].do = "drop"

\* Announcements are pending only for addresses the node holds: giving them up
\* ends the announcing, whatever the kernel says of the removal.
AnnouncesWhatItHolds ==
    due.left > 0 => GivingUpAddresses \/ (mach.state = "Master" /\ held = All)

\* A claim to the role goes out from a node that has every address, or that is
\* already standing down because it could not take them.
ClaimsWithAddresses ==
    [][Do("advertise") /\ queue' = Tail(queue) /\ Head(queue).priority # GivingUp
       => held = All \/ GivingUpAddresses]_vars

\* The claim is the configured one unless somebody has a reason to hold it
\* down: the supervision's last word, or the gateway check.
LoweredForAReason ==
    mach.priority # Configured =>
        mach.priority = Demoted /\ (told = "Down" \/ watch.lowered)

\* The gateway check lowers the claim only after a gateway that did answer has
\* been silent for all but one of the intervals it counts (gateway.rs:39-43,
\* "One lost packet is not a lost uplink").
LostTakesSilence == watch.lowered => watch.answered /\ silence = QuietEnough

\* A Down that waits in the channel is obeyed, unless the supervision takes it
\* back or the router is stopped first: nothing the gateway check or the peers
\* do in the meantime makes the router pass it over.
DownIsObeyed == lowered /\ claims # << >>
                  ~> mach.priority = Demoted \/ ~lowered \/ stage = "stopped"

\* "a node that cannot reach its gateway and a node whose traffic path is gone
\* are equally unable to carry traffic" (router.rs:56-58), so the claim is down
\* while either holds.  This fails: either reason, when it ends, puts back the
\* claim the other still holds down.
LoweredWhileUnable ==
    At("top") /\ (told = "Down" \/ watch.lowered) => mach.priority = Demoted

\* "Before the advertisement, so the address exists by the time a peer hears
\* the claim and stops answering for it" (state.rs:520-521).  This fails: the
\* claim queued behind a refused take is sent all the same.
ClaimOnlyWithAddresses ==
    [][Do("advertise") /\ queue' = Tail(queue) /\ Head(queue).priority # GivingUp
       => held = All]_vars

\* The addresses and the announcements of them are those of the role the node
\* is in, after every refusal and every way of giving the role up
\* (carry_out, router.rs).
HoldsItsRole == AddressesFollowRole /\ AnnouncesWhatItHolds

\* The claim is held down for a reason that still stands, and a lost gateway is
\* one only after a silence that long (router.rs obey, gateway.rs:39-43).
LoweredRightly == LoweredForAReason /\ LostTakesSilence
==============================================================================
