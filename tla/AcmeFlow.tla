------------------------------ MODULE AcmeFlow -------------------------------
(***************************************************************************)
(* The order flow of ek-ek-tls/src/order.rs: what one answer of the         *)
(* certificate authority does to an order, and what is asked next.          *)
(*                                                                         *)
(* Addresses, names and keys are values; a token is the authorization it    *)
(* belongs to, <<order, name>>.  What cannot be read is an answer that      *)
(* failed.                                                                  *)
(***************************************************************************)
EXTENDS Naturals, Sequences

CONSTANTS
    None,
    MostPolls,      \* MOST_POLLS: reads of an order the server still decides on
    Attempts        \* ATTEMPTS: tries of one order, counting the first

\* Flow::new.  The directory, the first nonce and the account are asked for one
\* after the other and change nothing anywhere: the stage "account" stands for
\* the three.
Fresh == [stage |-> "account", order |-> None, resuming |-> FALSE,
          waiting |-> << >>, challenge |-> None, published |-> {},
          chain |-> None, polls |-> 0]

\* Flow::resume: the order is read rather than placed.
Resumed(url) == [Fresh EXCEPT !.order = url, !.resuming = TRUE]

\* What the carrier hands back for one answer: the flow, and why it ended.
Moved(f) == [flow |-> f, failed |-> None]
Ended(f, why) == [flow |-> f, failed |-> why]

\* The next authorization, or the order itself when none is left.
Onward(f) == IF f.waiting = << >> THEN [f EXCEPT !.stage = "poll"]
                                  ELSE [f EXCEPT !.stage = "authorization"]

ReadAccount(f) == Moved([f EXCEPT !.stage = IF f.resuming THEN "resume"
                                                          ELSE "order"])

ReadOrder(f, a) ==
    Moved(Onward([f EXCEPT !.order = a.order, !.waiting = a.waiting]))

\* An order somebody else placed: its own status says where to go on.
ReadResumed(f, a) ==
    LET g == [f EXCEPT !.waiting = a.waiting]
    IN  CASE a.status = "valid"      -> Moved([g EXCEPT !.stage = "download"])
          [] a.status = "ready"      -> Moved([g EXCEPT !.stage = "finalize"])
          [] a.status = "pending"    -> Moved(Onward(g))
          [] a.status = "processing" -> Moved([g EXCEPT !.stage = "poll"])
          [] OTHER                   -> Ended(g, "challenge")     \* invalid

\* Taken off the list first.  One that is proven needs no answer; for another
\* the answer is published and the challenge is the next thing handed over.
ReadAuthorization(f, a) ==
    LET g == [f EXCEPT !.waiting = Tail(@)]
        token == <<f.order, Head(f.waiting)>>
    IN  IF a.status = "valid" THEN Moved(Onward(g))
        ELSE Moved([g EXCEPT !.stage = "accept", !.challenge = token,
                             !.published = @ \cup {token}])

ReadProgress(f, a) ==
    CASE a.status = "valid"   -> Moved([f EXCEPT !.stage = "download"])
      [] a.status = "ready"   -> Moved([f EXCEPT !.stage = "finalize"])
      [] a.status = "invalid" -> Ended(f, "challenge")
      [] OTHER ->                                     \* pending, processing
            IF f.polls + 1 > MostPolls
            THEN Ended([f EXCEPT !.polls = @ + 1], "network")
            ELSE Moved([f EXCEPT !.polls = @ + 1, !.stage = "poll"])

\* Flow::accept for an answer that is neither an error nor a refused nonce.
Accept(f, a) ==
    CASE f.stage = "account"       -> ReadAccount(f)
      [] f.stage = "order"         -> ReadOrder(f, a)
      [] f.stage = "resume"        -> ReadResumed(f, a)
      [] f.stage = "authorization" -> ReadAuthorization(f, a)
      [] f.stage = "accept"        -> Moved(Onward([f EXCEPT !.challenge = None]))
      [] f.stage = "poll"          -> ReadProgress(f, a)
      [] f.stage = "finalize"      -> ReadProgress([f EXCEPT !.polls = 0], a)
      [] OTHER                     -> Moved([f EXCEPT !.chain = a.chain,
                                                      !.published = {},
                                                      !.stage = "done"])

\* Flow::abandon.
Abandoned(f) == [f EXCEPT !.published = {}, !.stage = "done"]

\* Reason::worth_retrying.
WorthRetrying == {"network", "server", "protocol", "no_quorum"}
==============================================================================
