---------------------------- MODULE RequestsProofs ----------------------------
(***************************************************************************)
(* Proofs about Requests, for every number of clients, members, pools,     *)
(* deliveries and verdicts.  How a member is chosen stays closed here: the *)
(* books balance whomever choose_by names.                                 *)
(***************************************************************************)
EXTENDS Requests, FiniteSetTheorems, TLAPS

InFlight(m) == {k \in Clients : member[k] = m /\ pc[k] \in {"chosen", "sent"}}
Coupled(m) == {s \in Streams : member[s] = m /\ pc[s] = "sent"}
Holders(g) == {k \in Clients : Holds(k) /\ slot[k] = g}

\* Where the requests are, and what they refer to there.
Places ==
    /\ member = [k \in Callers |-> member[k]]
    /\ \A s \in Streams : slot[s] = None
    /\ \A k \in Clients : pc[k] \in {"idle", "loaded"} => slot[k] = None
    /\ \A k \in Callers : pc[k] = "loaded" => seen[k] # None

\* The gate in the map is whole as well, referred to or not.
MapMatches ==
    gates # None => free[gates.gate] + Cardinality(Holders(gates.gate)) = gates.size

AccountsIInv == TypeOK /\ Places /\ CountsMatch /\ MapMatches /\ SlotsMatch

(***************************************************************************)
(* Counting.                                                               *)
(***************************************************************************)

\* Sets of clients and of streams are finite.
LEMMA Finite ==
  /\ \A m : IsFiniteSet(InFlight(m)) /\ IsFiniteSet(Coupled(m))
  /\ \A m : Cardinality(InFlight(m)) \in Nat /\ Cardinality(Coupled(m)) \in Nat
  /\ \A g : IsFiniteSet(Holders(g)) /\ Cardinality(Holders(g)) \in Nat
  <1>1. IsFiniteSet(Clients) /\ IsFiniteSet(Streams)
    BY RequestsAssumption
  <1>2. \A S \in SUBSET Clients : IsFiniteSet(S) /\ Cardinality(S) \in Nat
    BY <1>1, FS_Subset, FS_CardinalityType
  <1>3. \A S \in SUBSET Streams : IsFiniteSet(S) /\ Cardinality(S) \in Nat
    BY <1>1, FS_Subset, FS_CardinalityType
  <1>4. \A m : InFlight(m) \in SUBSET Clients /\ Coupled(m) \in SUBSET Streams
    BY DEF InFlight, Coupled
  <1>5. \A g : Holders(g) \in SUBSET Clients
    BY DEF Holders
  <1> QED
    BY <1>2, <1>3, <1>4, <1>5

\* One more.
LEMMA OneMore ==
  ASSUME NEW S, IsFiniteSet(S), NEW x, x \notin S
  PROVE  Cardinality(S \cup {x}) = Cardinality(S) + 1
  BY FS_AddElement

\* One fewer.
LEMMA OneLess ==
  ASSUME NEW S, IsFiniteSet(S), NEW x \in S
  PROVE  Cardinality(S \ {x}) = Cardinality(S) - 1
  BY FS_RemoveElement

\* Somebody who asks for a slot refers to no gate, so one of the identities is
\* free: there is one more than there are clients.
LEMMA AGateIsFree ==
  ASSUME TypeOK, Places, NEW k \in Clients, slot[k] = None
  PROVE  /\ NewGate \in Gates /\ NewGate \notin InUse
         /\ gates # None => NewGate # gates.gate
  <1> DEFINE others == Clients \ {k}
             used == {slot[c] : c \in others}
             f == [c \in others |-> slot[c]]
             last == IF gates = None THEN None ELSE gates.gate
             all == used \cup {last}
             n == Cardinality(Clients)
  <1>1. n \in Nat /\ IsFiniteSet(others) /\ Cardinality(others) = n - 1
    BY RequestsAssumption, FS_CardinalityType, FS_RemoveElement
  <1>2. f \in Surjection(others, used)
    BY DEF Surjection
  <1>3. IsFiniteSet(used) /\ Cardinality(used) <= Cardinality(others)
    BY <1>1, <1>2, FS_Surjection
  <1>4. IsFiniteSet(all) /\ Cardinality(all) <= n
    <2>1. Cardinality(used) \in Nat
      BY <1>3, FS_CardinalityType
    <2> HIDE DEF used, n, last
    <2>2. /\ IsFiniteSet(all)
          /\ Cardinality(all) = IF last \in used THEN Cardinality(used) ELSE Cardinality(used) + 1
      BY <1>3, FS_AddElement
    <2> QED
      BY <1>1, <1>3, <2>1, <2>2
  <1>5. IsFiniteSet(Gates) /\ Cardinality(Gates) = n + 1
    BY SMTT(30), <1>1, FS_Interval DEF Gates
  <1>6. ~(Gates \subseteq all)
    <2> HIDE DEF all, n
    <2>1. IsFiniteSet(all) /\ Gates \in SUBSET all => Cardinality(Gates) <= Cardinality(all)
      BY FS_Subset
    <2>2. Cardinality(all) \in Nat
      BY <1>4, FS_CardinalityType
    <2> QED
      BY <1>1, <1>4, <1>5, <2>1, <2>2
  <1>7. PICK g \in Gates : g \notin all
    BY <1>6
  <1>8. g \notin InUse
    BY <1>7 DEF InUse, Callers, Places
  <1>9. gates # None => g # gates.gate
    BY <1>7
  <1> QED
    BY <1>8, <1>9 DEF NewGate

(***************************************************************************)
(* Types and places.                                                       *)
(***************************************************************************)

\* A table of counts with one of them changed; a member it lacks changes nothing.
LEMMA OneCount ==
  ASSUME NEW f \in [Members -> Nat], NEW m, NEW v, m \in Members => v \in Nat
  PROVE  /\ [f EXCEPT ![m] = v] \in [Members -> Nat]
         /\ \A n \in Members : [f EXCEPT ![m] = v][n] = IF n = m THEN v ELSE f[n]
  BY Zenon

\* Counting a member up touches one count, and none of a member that is
\* not in the table.
LEMMA Opens ==
  ASSUME TypeOK, NEW kind \in {"http", "stream"}, NEW m
  PROVE  /\ opened(kind, m) \in [{"http", "stream"} -> [Members -> Nat]]
         /\ \A i \in {"http", "stream"}, n \in Members :
               opened(kind, m)[i][n] = IF i = kind /\ n = m THEN open[i][n] + 1 ELSE open[i][n]
  <1> DEFINE row == [open[kind] EXCEPT ![m] = @ + 1]
  <1>1. open \in [{"http", "stream"} -> [Members -> Nat]] /\ open[kind] \in [Members -> Nat]
    BY DEF TypeOK
  <1>2. row \in [Members -> Nat] /\ \A n \in Members :
            row[n] = IF n = m THEN open[kind][n] + 1 ELSE open[kind][n]
    <2> DEFINE v == open[kind][m] + 1
    <2>1. m \in Members => v \in Nat
      BY <1>1
    <2> HIDE DEF v
    <2>2. /\ [open[kind] EXCEPT ![m] = v] \in [Members -> Nat]
          /\ \A n \in Members : [open[kind] EXCEPT ![m] = v][n] = IF n = m THEN v ELSE open[kind][n]
      BY <1>1, <2>1, OneCount
    <2> QED
      BY <2>2 DEF v
  <1>3. opened(kind, m) = [open EXCEPT ![kind] = row]
    BY DEF opened
  <1> HIDE DEF row
  <1>4. /\ opened(kind, m) \in [{"http", "stream"} -> [Members -> Nat]]
        /\ \A i \in {"http", "stream"} : opened(kind, m)[i] = IF i = kind THEN row ELSE open[i]
    BY <1>1, <1>2, <1>3
  <1> QED
    BY <1>2, <1>4

\* The same downwards; a count of zero stays.
LEMMA Closes ==
  ASSUME TypeOK, NEW kind \in {"http", "stream"}, NEW m
  PROVE  /\ closed(kind, m) \in [{"http", "stream"} -> [Members -> Nat]]
         /\ \A i \in {"http", "stream"}, n \in Members :
               closed(kind, m)[i][n] = IF i = kind /\ n = m /\ open[i][n] # 0
                                       THEN open[i][n] - 1 ELSE open[i][n]
  <1> DEFINE row == [open[kind] EXCEPT ![m] = IF @ = 0 THEN 0 ELSE @ - 1]
  <1>1. open \in [{"http", "stream"} -> [Members -> Nat]] /\ open[kind] \in [Members -> Nat]
    BY DEF TypeOK
  <1>2. row \in [Members -> Nat] /\ \A n \in Members :
            row[n] = IF n = m /\ open[kind][n] # 0 THEN open[kind][n] - 1 ELSE open[kind][n]
    <2> DEFINE v == IF open[kind][m] = 0 THEN 0 ELSE open[kind][m] - 1
    <2>1. m \in Members => v \in Nat
      BY <1>1
    <2> HIDE DEF v
    <2>2. /\ [open[kind] EXCEPT ![m] = v] \in [Members -> Nat]
          /\ \A n \in Members : [open[kind] EXCEPT ![m] = v][n] = IF n = m THEN v ELSE open[kind][n]
      BY <1>1, <2>1, OneCount
    <2> QED
      BY <2>2 DEF v
  <1>3. closed(kind, m) = [open EXCEPT ![kind] = row]
    BY DEF closed
  <1> HIDE DEF row
  <1>4. /\ closed(kind, m) \in [{"http", "stream"} -> [Members -> Nat]]
        /\ \A i \in {"http", "stream"} : closed(kind, m)[i] = IF i = kind THEN row ELSE open[i]
    BY <1>1, <1>2, <1>3
  <1> QED
    BY <1>2, <1>4

\* The cursor stays below its bound.
LEMMA CursorMoves ==
  ASSUME TypeOK, NEW c
  PROVE  after_choice(c, cursor) \in 0 .. Wrap - 1
  BY BalanceAssumption DEF TypeOK, after_choice

\* Every step keeps the types and the places.
LEMMA PlacesStep == TypeOK /\ Places /\ [Next]_vars => TypeOK' /\ Places'
  <1> SUFFICES ASSUME TypeOK, Places, [Next]_vars
               PROVE  TypeOK' /\ Places'
    OBVIOUS
  <1> USE DEF HttpSteps, StreamSteps, Callers
  <1>0. Clients \cap Streams = {}
    BY RequestsAssumption
  <1>1. CASE Surroundings
    <2>1. BalanceTypeOK'
      <3>1. CASE apply
        <4>1. PICK c \in Configs : live' = [generation |-> live.generation + 1, config |-> c]
          BY <3>1 DEF apply
        <4>2. live.generation + 1 \in 0 .. MaxDeliveries
          BY <3>1, BalanceAssumption DEF apply, TypeOK, BalanceTypeOK
        <4> QED
          BY <3>1, <4>1, <4>2 DEF apply, TypeOK, BalanceTypeOK
      <3>2. CASE Verdict
        BY <3>2, BalanceAssumption DEF Verdict, TypeOK, BalanceTypeOK
      <3> QED
        BY <1>1, <3>1, <3>2 DEF Surroundings
    <2> QED
      BY <1>1, <2>1 DEF Surroundings, TypeOK, Places, requestVars
  <1>2. ASSUME NEW k \in Callers, load(k)
        PROVE  TypeOK' /\ Places'
    <2>1. live # None
      BY RequestsAssumption DEF TypeOK, BalanceTypeOK
    <2> QED
      BY <1>0, <1>2, <2>1 DEF load, TypeOK, BalanceTypeOK, Places, balanceVars
  <1>3. ASSUME NEW k \in Clients, AnswerHere(k) \/ forward(k)
        PROVE  TypeOK' /\ Places'
    BY <1>0, <1>3 DEF AnswerHere, forward, TypeOK, BalanceTypeOK, Places, balanceVars
  <1>4. ASSUME NEW k \in Clients, AskForSlot(k)
        PROVE  TypeOK' /\ Places'
    <2>1. slot[k] = None /\ seen[k] # None
      BY <1>4 DEF AskForSlot, Places
    <2>2. seen[k].config.size \in Nat
      BY <2>1, RequestsAssumption DEF TypeOK
    <2>3. NewGate \in Gates
      BY <2>1, AGateIsFree
    <2>4. gate(seen[k].config.size) \in Gates \cup {None}
      BY <2>3 DEF gate, Replaces, TypeOK
    <2>5. gates' \in {None} \cup [size : Nat \ {0}, gate : Gates]
      BY <1>4, <2>2, <2>3 DEF AskForSlot, Replaces, TypeOK
    <2>6. free' \in [Gates -> Nat]
      BY <1>4, <2>2 DEF AskForSlot, TypeOK
    <2> QED
      BY <1>0, <1>4, <2>4, <2>5, <2>6 DEF AskForSlot, TypeOK, BalanceTypeOK, Places, balanceVars
  <1>5. ASSUME NEW k \in Clients, enter(k)
        PROVE  TypeOK' /\ Places'
    <2>1. free' \in [Gates -> Nat]
      BY <1>5 DEF enter, MayEnter, TypeOK
    <2>2. cursor' \in 0 .. Wrap - 1
      BY <1>5, CursorMoves DEF enter, TypeOK
    <2>3. open' \in [{"http", "stream"} -> [Members -> Nat]]
      <3>1. PICK m : open' = IF m = None THEN open ELSE opened("http", m)
        BY <1>5 DEF enter
      <3> QED
        BY <3>1, Opens DEF TypeOK
    <2>4. PICK p \in {"logged", "chosen"} : pc' = [pc EXCEPT ![k] = p]
      BY <1>5, Zenon DEF enter
    <2>5. PICK m : member' = [member EXCEPT ![k] = m]
      BY <1>5, Zenon DEF enter
    <2>6. UNCHANGED <<balanceVars, seen, slot, cookie, gates>>
      BY <1>5 DEF enter
    <2>7. TypeOK'
      BY <1>0, <2>1, <2>2, <2>3, <2>4, <2>6 DEF TypeOK, BalanceTypeOK, balanceVars
    <2>8. Places'
      BY <1>0, <2>4, <2>5, <2>6, Zenon DEF TypeOK, Places
    <2> QED
      BY <2>7, <2>8
  <1>6. ASSUME NEW k \in Clients, respond(k) \/ logging(k)
        PROVE  TypeOK' /\ Places'
    <2>1. open' \in [{"http", "stream"} -> [Members -> Nat]]
      BY <1>6, Closes DEF respond, logging
    <2> QED
      BY <1>0, <1>6, <2>1 DEF respond, logging, Logged, TypeOK, BalanceTypeOK, Places, balanceVars
  <1>7. ASSUME NEW k \in Clients, drop(k)
        PROVE  TypeOK' /\ Places'
    <2>1. free' \in [Gates -> Nat]
      BY <1>7 DEF drop, TypeOK
    <2> QED
      BY <1>0, <1>7, <2>1, Zenon DEF drop, Forget, TypeOK, BalanceTypeOK, Places, balanceVars
  <1>8. ASSUME NEW s \in Streams, refuse(s) \/ unreachable(s)
        PROVE  TypeOK' /\ Places'
    BY <1>0, <1>8 DEF refuse, unreachable, Forget, TypeOK, BalanceTypeOK, Places, balanceVars
  <1>9. ASSUME NEW s \in Streams, route(s)
        PROVE  TypeOK' /\ Places'
    <2>1. cursor' \in 0 .. Wrap - 1
      BY <1>9, CursorMoves DEF route
    <2>2. /\ pc' = [pc EXCEPT ![s] = "chosen"] /\ seen' = [seen EXCEPT ![s] = None]
          /\ \E m : member' = [member EXCEPT ![s] = m]
          /\ UNCHANGED <<balanceVars, slot, cookie, gates, free, line, open>>
      BY <1>9, Zenon DEF route
    <2> QED
      BY <1>0, <2>1, <2>2, Zenon DEF TypeOK, BalanceTypeOK, Places, balanceVars
  <1>10. ASSUME NEW s \in Streams, couple(s) \/ hangUp(s)
         PROVE  TypeOK' /\ Places'
    <2>1. open' \in [{"http", "stream"} -> [Members -> Nat]]
      BY <1>10, Opens, Closes DEF couple, hangUp
    <2> QED
      BY <1>0, <1>10, <2>1 DEF couple, hangUp, Forget, TypeOK, BalanceTypeOK, Places, balanceVars
  <1>11. CASE UNCHANGED vars
    BY <1>11 DEF vars, requestVars, balanceVars, TypeOK, BalanceTypeOK, Places
  <1> QED
    BY <1>1, <1>2, <1>3, <1>4, <1>5, <1>6, <1>7, <1>8, <1>9, <1>10, <1>11
       DEF Next, Request, Connection

(***************************************************************************)
(* Counts.                                                                 *)
(***************************************************************************)

\* A step that moves at most one caller.
Moves(k, p, m) ==
    \A j \in Callers : /\ pc'[j] = IF j = k THEN p ELSE pc[j]
                       /\ member'[j] = IF j = k THEN m ELSE member[j]

\* Nothing is counted where nobody takes up or gives up a member.
LEMMA CountsKept ==
  ASSUME CountsMatch, open' = open,
         \A m \in Members : InFlight(m)' = InFlight(m) /\ Coupled(m)' = Coupled(m)
  PROVE  CountsMatch'
  BY DEF CountsMatch, InFlight, Coupled

\* A caller moves between places that are not counted.
LEMMA Uncounted ==
  ASSUME CountsMatch, open' = open, NEW k \in Callers, NEW p, NEW m, Moves(k, p, m),
         \/ k \in Clients /\ pc[k] \notin {"chosen", "sent"} /\ p \notin {"chosen", "sent"}
         \/ k \in Clients /\ pc[k] = "chosen" /\ p = "sent" /\ m = member[k]
         \/ k \in Streams /\ pc[k] # "sent" /\ p # "sent"
  PROVE  CountsMatch'
  <1>1. Clients \cap Streams = {}
    BY RequestsAssumption
  <1>2. \A n \in Members : InFlight(n)' = InFlight(n)
    BY <1>1 DEF InFlight, Moves, Callers
  <1>3. \A n \in Members : Coupled(n)' = Coupled(n)
    BY <1>1 DEF Coupled, Moves, Callers
  <1> QED
    BY <1>2, <1>3, CountsKept

\* A request is given a member.
LEMMA CountedUp ==
  ASSUME TypeOK, CountsMatch, NEW k \in Clients, pc[k] \notin {"chosen", "sent"}, NEW m,
         Moves(k, "chosen", m), open' = opened("http", m)
  PROVE  CountsMatch'
  <1>1. Clients \cap Streams = {}
    BY RequestsAssumption
  <1>2. \A n \in Members : Coupled(n)' = Coupled(n)
    BY <1>1 DEF Coupled, Moves, Callers
  <1>3. \A n \in Members : /\ k \notin InFlight(n)
                           /\ InFlight(n)' = IF n = m THEN InFlight(n) \cup {k} ELSE InFlight(n)
    BY DEF InFlight, Moves, Callers
  <1>4. \A n \in Members : Cardinality(InFlight(n)')
                              = Cardinality(InFlight(n)) + (IF n = m THEN 1 ELSE 0)
    BY <1>3, Finite, OneMore
  <1>5. \A n \in Members : /\ open'["http"][n] = open["http"][n] + (IF n = m THEN 1 ELSE 0)
                           /\ open'["stream"][n] = open["stream"][n]
    BY Opens DEF TypeOK
  <1> QED
    BY <1>2, <1>4, <1>5, Zenon DEF CountsMatch, InFlight, Coupled

\* A request gives its member up.
LEMMA CountedDown ==
  ASSUME TypeOK, CountsMatch, NEW k \in Clients, pc[k] \in {"chosen", "sent"},
         Moves(k, "logged", None), open' = closed("http", member[k])
  PROVE  CountsMatch'
  <1>1. Clients \cap Streams = {}
    BY RequestsAssumption
  <1>2. \A n \in Members : Coupled(n)' = Coupled(n)
    BY <1>1 DEF Coupled, Moves, Callers
  <1>3. \A n \in Members : /\ n = member[k] => k \in InFlight(n)
                           /\ InFlight(n)' = IF n = member[k] THEN InFlight(n) \ {k} ELSE InFlight(n)
    BY DEF InFlight, Moves, Callers
  <1>4. \A n \in Members : /\ Cardinality(InFlight(n)) \in Nat
                           /\ Cardinality(InFlight(n)') \in Nat
                           /\ Cardinality(InFlight(n)')
                                = Cardinality(InFlight(n)) - (IF n = member[k] THEN 1 ELSE 0)
    BY <1>3, Finite, OneLess, FS_RemoveElement, FS_CardinalityType
  <1>5. \A n \in Members :
            /\ open'["http"][n] = IF n = member[k] /\ open["http"][n] # 0
                                  THEN open["http"][n] - 1 ELSE open["http"][n]
            /\ open'["stream"][n] = open["stream"][n]
    BY Closes DEF TypeOK
  <1>6. \A n \in Members : open["http"][n] = Cardinality(InFlight(n))
    BY Zenon DEF CountsMatch, InFlight
  <1>7. \A n \in Members : open'["http"][n] = Cardinality(InFlight(n)')
    BY <1>4, <1>5, <1>6
  <1> QED
    BY <1>2, <1>5, <1>7, Zenon DEF CountsMatch, InFlight, Coupled

\* A connection is coupled to its member.
LEMMA CoupledUp ==
  ASSUME TypeOK, CountsMatch, NEW s \in Streams, pc[s] = "chosen",
         Moves(s, "sent", member[s]), open' = opened("stream", member[s])
  PROVE  CountsMatch'
  <1>1. Clients \cap Streams = {}
    BY RequestsAssumption
  <1>2. \A n \in Members : InFlight(n)' = InFlight(n)
    BY <1>1 DEF InFlight, Moves, Callers
  <1>3. \A n \in Members :
            /\ s \notin Coupled(n)
            /\ Coupled(n)' = IF n = member[s] THEN Coupled(n) \cup {s} ELSE Coupled(n)
    BY DEF Coupled, Moves, Callers
  <1>4. \A n \in Members : Cardinality(Coupled(n)')
                              = Cardinality(Coupled(n)) + (IF n = member[s] THEN 1 ELSE 0)
    BY <1>3, Finite, OneMore
  <1>5. \A n \in Members :
            /\ open'["stream"][n] = open["stream"][n] + (IF n = member[s] THEN 1 ELSE 0)
            /\ open'["http"][n] = open["http"][n]
    BY Opens DEF TypeOK
  <1>6. \A n \in Members : open["stream"][n] = Cardinality(Coupled(n))
    BY Zenon DEF CountsMatch, Coupled
  <1>7. \A n \in Members : open'["stream"][n] = Cardinality(Coupled(n)')
    BY <1>4, <1>5, <1>6
  <1>8. \A n \in Members : open["http"][n] = Cardinality(InFlight(n))
    BY Zenon DEF CountsMatch, InFlight
  <1>9. \A n \in Members : open'["http"][n] = Cardinality(InFlight(n)')
    BY <1>2, <1>5, <1>8
  <1> QED
    BY <1>7, <1>9 DEF CountsMatch, InFlight, Coupled

\* A connection ends.
LEMMA CoupledDown ==
  ASSUME TypeOK, CountsMatch, NEW s \in Streams, pc[s] = "sent",
         Moves(s, "idle", None), open' = closed("stream", member[s])
  PROVE  CountsMatch'
  <1>1. Clients \cap Streams = {}
    BY RequestsAssumption
  <1>2. \A n \in Members : InFlight(n)' = InFlight(n)
    BY <1>1 DEF InFlight, Moves, Callers
  <1>3. \A n \in Members : /\ n = member[s] => s \in Coupled(n)
                           /\ Coupled(n)' = IF n = member[s] THEN Coupled(n) \ {s} ELSE Coupled(n)
    BY DEF Coupled, Moves, Callers
  <1>4. \A n \in Members : /\ Cardinality(Coupled(n)) \in Nat
                           /\ Cardinality(Coupled(n)') \in Nat
                           /\ Cardinality(Coupled(n)')
                                = Cardinality(Coupled(n)) - (IF n = member[s] THEN 1 ELSE 0)
    BY <1>3, Finite, OneLess, FS_RemoveElement, FS_CardinalityType
  <1>5. \A n \in Members :
            /\ open'["stream"][n] = IF n = member[s] /\ open["stream"][n] # 0
                                    THEN open["stream"][n] - 1 ELSE open["stream"][n]
            /\ open'["http"][n] = open["http"][n]
    BY Closes DEF TypeOK
  <1>6. \A n \in Members : open["stream"][n] = Cardinality(Coupled(n))
    BY Zenon DEF CountsMatch, Coupled
  <1>7. \A n \in Members : open'["stream"][n] = Cardinality(Coupled(n)')
    BY <1>4, <1>5, <1>6
  <1> QED
    BY <1>2, <1>5, <1>7, Zenon DEF CountsMatch, InFlight, Coupled

\* Every step keeps the counts.
LEMMA CountsStep == TypeOK /\ Places /\ CountsMatch /\ [Next]_vars => CountsMatch'
  <1> SUFFICES ASSUME TypeOK, Places, CountsMatch, [Next]_vars
               PROVE  CountsMatch'
    OBVIOUS
  <1>0. /\ pc = [j \in Callers |-> pc[j]] /\ member = [j \in Callers |-> member[j]]
        /\ Clients \subseteq Callers /\ Streams \subseteq Callers
    BY DEF TypeOK, Places, Callers
  <1>1. CASE Surroundings \/ UNCHANGED vars
    BY <1>1 DEF Surroundings, vars, requestVars, CountsMatch
  <1>2. ASSUME NEW k \in Callers, load(k)
        PROVE  CountsMatch'
    <2>1. Moves(k, "loaded", member[k]) /\ pc[k] = "idle" /\ open' = open
      BY <1>0, <1>2 DEF load, Moves
    <2> QED
      BY <2>1, Uncounted DEF Callers
  <1>3. ASSUME NEW k \in Clients, AnswerHere(k) \/ AskForSlot(k)
        PROVE  CountsMatch'
    <2>1. Moves(k, pc'[k], member[k]) /\ pc[k] = "loaded" /\ pc'[k] \in {"logged", "waiting"}
          /\ open' = open
      BY <1>0, <1>3 DEF AnswerHere, AskForSlot, Moves
    <2> QED
      BY <1>0, <2>1, Uncounted
  <1>4. ASSUME NEW k \in Clients, enter(k)
        PROVE  CountsMatch'
    <2>1. PICK m : /\ member' = [member EXCEPT ![k] = m]
                   /\ pc' = [pc EXCEPT ![k] = IF m = None THEN "logged" ELSE "chosen"]
                   /\ open' = IF m = None THEN open ELSE opened("http", m)
      BY <1>4, Zenon DEF enter
    <2>2. pc[k] = "waiting"
      BY <1>4 DEF enter, Waiting
    <2>3. CASE m = None
      <3>1. Moves(k, "logged", m) /\ open' = open
        BY <1>0, <2>1, <2>3 DEF Moves
      <3> QED
        BY <1>0, <2>2, <3>1, Uncounted
    <2>4. CASE m # None
      <3>1. Moves(k, "chosen", m) /\ open' = opened("http", m)
        BY <1>0, <2>1, <2>4 DEF Moves
      <3> QED
        BY <2>2, <3>1, CountedUp
    <2> QED
      BY <2>3, <2>4
  <1>5. ASSUME NEW k \in Clients, forward(k)
        PROVE  CountsMatch'
    <2>1. Moves(k, "sent", member[k]) /\ pc[k] = "chosen" /\ open' = open
      BY <1>0, <1>5 DEF forward, Moves
    <2> QED
      BY <1>0, <2>1, Uncounted
  <1>6. ASSUME NEW k \in Clients, respond(k) \/ logging(k)
        PROVE  CountsMatch'
    <2>1. /\ Moves(k, "logged", None) /\ pc[k] \in {"chosen", "sent"}
          /\ open' = closed("http", member[k])
      BY <1>0, <1>6 DEF respond, logging, Logged, Moves
    <2> QED
      BY <2>1, CountedDown
  <1>7. ASSUME NEW k \in Clients, drop(k)
        PROVE  CountsMatch'
    <2>1. Moves(k, "idle", None) /\ pc[k] = "logged" /\ open' = open
      BY <1>0, <1>7 DEF drop, Forget, Moves
    <2> QED
      BY <1>0, <2>1, Uncounted
  <1>8. ASSUME NEW s \in Streams, refuse(s) \/ unreachable(s)
        PROVE  CountsMatch'
    <2>1. Moves(s, "idle", None) /\ pc[s] \in {"loaded", "chosen"} /\ open' = open
      BY <1>0, <1>8 DEF refuse, unreachable, Forget, Moves
    <2> QED
      BY <1>0, <2>1, Uncounted
  <1>9. ASSUME NEW s \in Streams, route(s)
        PROVE  CountsMatch'
    <2>1. PICK m : member' = [member EXCEPT ![s] = m]
      BY <1>9, Zenon DEF route
    <2>2. Moves(s, "chosen", m) /\ pc[s] = "loaded" /\ open' = open
      BY <1>0, <1>9, <2>1 DEF route, Moves
    <2> QED
      BY <1>0, <2>2, Uncounted
  <1>10. ASSUME NEW s \in Streams, couple(s)
         PROVE  CountsMatch'
    <2>1. /\ Moves(s, "sent", member[s]) /\ pc[s] = "chosen"
          /\ open' = opened("stream", member[s])
      BY <1>0, <1>10 DEF couple, Moves
    <2> QED
      BY <2>1, CoupledUp
  <1>11. ASSUME NEW s \in Streams, hangUp(s)
         PROVE  CountsMatch'
    <2>1. /\ Moves(s, "idle", None) /\ pc[s] = "sent"
          /\ open' = closed("stream", member[s])
      BY <1>0, <1>11 DEF hangUp, Forget, Moves
    <2> QED
      BY <2>1, CoupledDown
  <1> QED
    BY <1>0, <1>1, <1>2, <1>3, <1>4, <1>5, <1>6, <1>7, <1>8, <1>9, <1>10, <1>11
       DEF Next, Request, Connection

(***************************************************************************)
(* Slots.                                                                  *)
(***************************************************************************)

\* What free and held add up to, gate by gate, is what the map and the snapshots
\* say: read in this state and in the next.
LEMMA SlotsRead ==
  ASSUME TypeOK, MapMatches, SlotsMatch
  PROVE  /\ gates # None => free[gates.gate] + Cardinality(Holders(gates.gate)) = gates.size
         /\ \A k \in Clients : slot[k] # None =>
               free[slot[k]] + Cardinality(Holders(slot[k])) = seen[k].config.size
  BY DEF MapMatches, SlotsMatch, Holders

\* In the next state.
LEMMA SlotsNext ==
  ASSUME TypeOK',
         \A g \in Gates : gates' # None /\ gates'.gate = g =>
             free'[g] + Cardinality(Holders(g)') = gates'.size,
         \A k \in Clients, g \in Gates : slot'[k] = g =>
             free'[g] + Cardinality(Holders(g)') = seen'[k].config.size
  PROVE  MapMatches' /\ SlotsMatch'
  <1>1. MapMatches'
    <2> SUFFICES ASSUME gates' # None
                 PROVE  MapMatches'
      BY DEF MapMatches
    <2>1. PICK g \in Gates : gates'.gate = g
      BY DEF TypeOK
    <2>2. free'[g] + Cardinality(Holders(g)') = gates'.size
      BY <2>1
    <2> QED
      BY <2>1, <2>2 DEF MapMatches, Holders, Holds
  <1>2. ASSUME NEW k \in Clients, slot'[k] # None
        PROVE  free'[slot'[k]] + Cardinality({other \in Clients : Holds(other)' /\ slot'[other] = slot'[k]})
                   = seen'[k].config.size
    <2>1. PICK g \in Gates : slot'[k] = g
      BY <1>2 DEF TypeOK, Callers
    <2>2. free'[g] + Cardinality(Holders(g)') = seen'[k].config.size
      BY <2>1
    <2>3. Holders(g)' = {other \in Clients : Holds(other)' /\ slot'[other] = g}
      BY DEF Holders
    <2> QED
      BY <2>1, <2>2, <2>3
  <1>3. SlotsMatch'
    BY <1>2 DEF SlotsMatch
  <1> QED
    BY <1>1, <1>3

\* What a gate has free and what is held of it add up to what they did.
LEMMA SlotsMove ==
  ASSUME TypeOK, TypeOK', MapMatches, SlotsMatch, gates' = gates,
         \A g \in Gates : free'[g] + Cardinality(Holders(g)') = free[g] + Cardinality(Holders(g)),
         \A k \in Clients : slot'[k] # None => slot'[k] = slot[k] /\ seen'[k] = seen[k]
  PROVE  MapMatches' /\ SlotsMatch'
  <1>1. ASSUME NEW g \in Gates, gates' # None, gates'.gate = g
        PROVE  free'[g] + Cardinality(Holders(g)') = gates'.size
    BY <1>1, SlotsRead
  <1>2. ASSUME NEW k \in Clients, NEW g \in Gates, slot'[k] = g
        PROVE  free'[g] + Cardinality(Holders(g)') = seen'[k].config.size
    <2>1. g # None
      BY RequestsAssumption DEF Gates
    <2> QED
      BY <1>2, <2>1, SlotsRead
  <1> QED
    BY <1>1, <1>2, SlotsNext

\* A request that asks holds nothing yet, and a gate made for it is whole.
LEMMA AskKeepsSlots ==
  ASSUME TypeOK, TypeOK', Places, MapMatches, SlotsMatch, NEW k \in Clients, AskForSlot(k)
  PROVE  MapMatches' /\ SlotsMatch'
  <1> DEFINE size == seen[k].config.size
  <1>1. slot[k] = None /\ seen[k] # None /\ pc[k] = "loaded"
    BY DEF AskForSlot, Places, Callers
  <1>2. size \in Nat
    BY <1>1, RequestsAssumption DEF TypeOK, Callers
  <1>3. NewGate \in Gates /\ NewGate \notin InUse /\ (gates # None => NewGate # gates.gate)
    BY <1>1, AGateIsFree
  <1>4. /\ \A j \in Clients : /\ slot'[j] = IF j = k THEN gate(size) ELSE slot[j]
                             /\ pc'[j] = IF j = k THEN "waiting" ELSE pc[j]
        /\ seen' = seen
    BY DEF AskForSlot, TypeOK, Callers
  <1>5. \A g : Holders(g)' = Holders(g)
    BY <1>1, <1>4 DEF Holders, Holds
  <1>6. \A g \in Gates : g # None
    BY RequestsAssumption DEF Gates
  <1>7. CASE size = 0
    <2>1. UNCHANGED <<gates, free>> /\ gate(size) = None
      BY <1>7 DEF AskForSlot, Replaces, gate
    <2>2. \A j \in Clients : slot'[j] # None => slot'[j] = slot[j] /\ seen'[j] = seen[j]
      BY <1>4, <2>1
    <2> QED
      BY <1>5, <2>1, <2>2, SlotsMove
  <1>8. CASE size # 0 /\ ~Replaces(size)
    <2>1. UNCHANGED <<gates, free>> /\ gates # None /\ gate(size) = gates.gate
          /\ gates.size = size
      BY <1>8 DEF AskForSlot, Replaces, gate
    <2>2. free[gates.gate] + Cardinality(Holders(gates.gate)) = size
      BY <2>1, SlotsRead
    <2>3. ASSUME NEW j \in Clients, NEW g \in Gates, slot'[j] = g
          PROVE  free'[g] + Cardinality(Holders(g)') = seen'[j].config.size
      <3>1. CASE j = k
        BY SMTT(30), <1>4, <1>5, <2>1, <2>2, <2>3, <3>1
      <3>2. CASE j # k
        BY <1>4, <1>5, <1>6, <2>1, <2>3, <3>2, SlotsRead
      <3> QED
        BY <3>1, <3>2
    <2>4. \A g \in Gates : gates' # None /\ gates'.gate = g =>
              free'[g] + Cardinality(Holders(g)') = gates'.size
      BY SMTT(30), <1>5, <2>1, <2>2
    <2> QED
      BY SMTT(30), <2>3, <2>4, SlotsNext
  <1>9. CASE Replaces(size)
    <2>1. /\ size # 0 /\ gate(size) = NewGate /\ gates' = [size |-> size, gate |-> NewGate]
          /\ free' = [g \in Gates |-> IF g = NewGate THEN size
                                      ELSE IF g \in InUse THEN free[g] ELSE 0]
      BY <1>9 DEF AskForSlot, Replaces, gate
    <2>2. \A c \in Clients : slot[c] # NewGate
      BY <1>3, <1>6 DEF InUse, Callers
    <2>3. Holders(NewGate) = {}
      BY <2>2 DEF Holders
    <2>4. free'[NewGate] + Cardinality(Holders(NewGate)) = size
      BY SMTT(30), <1>2, <1>3, <2>1, <2>3, FS_EmptySet
    <2>5. ASSUME NEW j \in Clients, NEW g \in Gates, slot'[j] = g
          PROVE  free'[g] + Cardinality(Holders(g)') = seen'[j].config.size
      <3>1. CASE j = k
        BY SMTT(30), <1>4, <1>5, <2>1, <2>4, <2>5, <3>1
      <3>2. CASE j # k
        <4>1. slot[j] = g /\ g # None /\ g \in InUse
          BY <1>4, <1>6, <2>5, <3>2 DEF InUse, Callers
        <4>2. free'[g] = free[g]
          BY <1>3, <2>1, <4>1
        <4> QED
          BY <1>4, <1>5, <4>1, <4>2, SlotsRead
      <3> QED
        BY <3>1, <3>2
    <2>6. \A g \in Gates : gates' # None /\ gates'.gate = g =>
              free'[g] + Cardinality(Holders(g)') = gates'.size
      BY <1>5, <2>1, <2>4
    <2> QED
      BY <2>5, <2>6, SlotsNext
  <1> QED
    BY <1>7, <1>8, <1>9 DEF Replaces

\* A request that enters takes one of the free permits of its gate.
LEMMA EnterKeepsSlots ==
  ASSUME TypeOK, TypeOK', MapMatches, SlotsMatch, NEW k \in Clients, enter(k)
  PROVE  MapMatches' /\ SlotsMatch'
  <1>0. \A g \in Gates : g # None
    BY SMTT(30), RequestsAssumption DEF Gates
  <1>1. UNCHANGED <<seen, slot, gates>> /\ pc[k] = "waiting"
    BY DEF enter, Waiting
  <1>2. PICK p \in {"logged", "chosen"} : pc' = [pc EXCEPT ![k] = p]
    BY Zenon DEF enter
  <1>3. \A j \in Clients : pc'[j] = IF j = k THEN p ELSE pc[j]
    BY <1>2 DEF TypeOK, Callers
  <1>4. \A g \in Gates : /\ k \notin Holders(g)
                        /\ Holders(g)' = IF slot[k] = g THEN Holders(g) \cup {k} ELSE Holders(g)
    BY SMTT(30), <1>0, <1>1, <1>2, <1>3 DEF Holders, Holds
  <1>5. \A g \in Gates : Cardinality(Holders(g)')
                            = Cardinality(Holders(g)) + (IF slot[k] = g THEN 1 ELSE 0)
    BY <1>4, Finite, OneMore
  <1>6. \A g \in Gates : free'[g] = free[g] - (IF slot[k] = g THEN 1 ELSE 0)
    <2>1. CASE slot[k] = None
      <3>1. free' = free
        BY <2>1, Zenon DEF enter
      <3> QED
        BY <1>0, <2>1, <3>1 DEF TypeOK
    <2>2. CASE slot[k] # None
      <3>1. free' = [free EXCEPT ![slot[k]] = @ - 1]
        BY <2>2 DEF enter
      <3>2. free \in [Gates -> Nat] /\ slot[k] \in Gates
        BY <2>2 DEF TypeOK, Callers
      <3> QED
        BY SMTT(30), <3>1, <3>2
    <2> QED
      BY <2>1, <2>2
  <1>7. \A g \in Gates : free'[g] + Cardinality(Holders(g)') = free[g] + Cardinality(Holders(g))
    <2>1. \A g \in Gates : free[g] \in Nat /\ Cardinality(Holders(g)) \in Nat
      BY Finite DEF TypeOK
    <2> QED
      BY SMTT(30), <1>5, <1>6, <2>1
  <1> QED
    BY <1>1, <1>7, SlotsMove

\* A context that is dropped gives its permit back to the gate it came from.
LEMMA DropKeepsSlots ==
  ASSUME TypeOK, TypeOK', MapMatches, SlotsMatch, NEW k \in Clients, drop(k)
  PROVE  MapMatches' /\ SlotsMatch'
  <1>1. gates' = gates /\ pc[k] = "logged"
    BY Zenon DEF drop
  <1>2. \A j \in Clients : /\ pc'[j] = IF j = k THEN "idle" ELSE pc[j]
                           /\ slot'[j] = IF j = k THEN None ELSE slot[j]
                           /\ j # k => seen'[j] = seen[j]
    BY Zenon DEF drop, Forget, TypeOK, Callers
  <1>3. \A g \in Gates : g # None
    BY RequestsAssumption DEF Gates
  <1>4. \A g \in Gates : /\ slot[k] = g => k \in Holders(g)
                        /\ Holders(g)' = IF slot[k] = g THEN Holders(g) \ {k} ELSE Holders(g)
    BY <1>1, <1>2, <1>3 DEF Holders, Holds
  <1>5. \A g \in Gates : Cardinality(Holders(g)')
                            = Cardinality(Holders(g)) - (IF slot[k] = g THEN 1 ELSE 0)
    BY <1>4, Finite, OneLess
  <1>6. \A g \in Gates : free'[g] = free[g] + (IF slot[k] = g THEN 1 ELSE 0)
    <2>1. CASE slot[k] = None
      <3>1. free' = free
        BY <2>1 DEF drop
      <3> QED
        BY <1>3, <2>1, <3>1 DEF TypeOK
    <2>2. CASE slot[k] # None
      <3>1. free' = [free EXCEPT ![slot[k]] = @ + 1]
        BY <2>2 DEF drop
      <3> QED
        BY <2>2, <3>1 DEF TypeOK
    <2> QED
      BY <2>1, <2>2
  <1>7. \A g \in Gates : free'[g] + Cardinality(Holders(g)') = free[g] + Cardinality(Holders(g))
    <2>1. \A g \in Gates : free[g] \in Nat /\ Cardinality(Holders(g)) \in Nat
      BY Finite DEF TypeOK
    <2> QED
      BY SMTT(30), <1>5, <1>6, <2>1
  <1>8. \A j \in Clients : slot'[j] # None => slot'[j] = slot[j] /\ seen'[j] = seen[j]
    BY <1>2
  <1> QED
    BY <1>1, <1>7, <1>8, SlotsMove, Zenon

\* The other steps leave gates, permits and those who hold them alone.
LEMMA OthersKeepSlots ==
  ASSUME TypeOK, Places, UNCHANGED <<gates, free>>, NEW k \in Callers,
         \/ load(k)
         \/ k \in Clients /\ (AnswerHere(k) \/ forward(k) \/ respond(k) \/ logging(k))
         \/ k \in Streams /\ (refuse(k) \/ route(k) \/ unreachable(k) \/ couple(k) \/ hangUp(k))
  PROVE  /\ \A g \in Gates : Holders(g)' = Holders(g)
         /\ \A j \in Clients : slot'[j] # None => slot'[j] = slot[j] /\ seen'[j] = seen[j]
  <1>0. Clients \cap Streams = {} /\ \A g \in Gates : g # None
    BY RequestsAssumption DEF Gates
  <1>1. CASE load(k)
    <2>1. \A j \in Clients : /\ slot'[j] = slot[j] /\ (j # k => pc'[j] = pc[j] /\ seen'[j] = seen[j])
                             /\ j = k => slot[j] = None
      BY <1>1 DEF load, TypeOK, Places, Callers
    <2> QED
      BY <1>0, <2>1, Zenon DEF Holders, Holds
  <1>2. CASE k \in Clients /\ AnswerHere(k)
    <2>1. \A j \in Clients : /\ slot'[j] = slot[j] /\ seen'[j] = seen[j]
                             /\ j # k => pc'[j] = pc[j]
                             /\ j = k => slot[j] = None
      BY SMTT(30), <1>2 DEF AnswerHere, TypeOK, Places, Callers
    <2> QED
      BY <1>0, <2>1, Zenon DEF Holders, Holds
  <1>3. CASE k \in Clients /\ (forward(k) \/ respond(k) \/ logging(k))
    <2>1. \A j \in Clients : /\ slot'[j] = slot[j] /\ seen'[j] = seen[j]
                             /\ j # k => pc'[j] = pc[j]
                             /\ j = k => /\ pc[j] \in {"chosen", "sent"}
                                        /\ pc'[j] \in {"sent", "logged"}
      BY <1>3, Zenon DEF forward, respond, logging, Logged, TypeOK, Callers
    <2> QED
      BY <2>1 DEF Holders, Holds
  <1>4. CASE k \in Streams /\ (refuse(k) \/ route(k) \/ unreachable(k) \/ couple(k) \/ hangUp(k))
    <2>1. \A j \in Clients : slot'[j] = slot[j] /\ seen'[j] = seen[j] /\ pc'[j] = pc[j]
      <3>1. CASE refuse(k) \/ unreachable(k) \/ hangUp(k)
        BY <1>0, <1>4, <3>1, Zenon DEF refuse, unreachable, hangUp, Forget, TypeOK, Callers
      <3>2. CASE couple(k)
        BY <1>0, <1>4, <3>2, Zenon DEF couple, TypeOK, Callers
      <3>3. CASE route(k)
        <4>1. /\ pc' = [pc EXCEPT ![k] = "chosen"] /\ seen' = [seen EXCEPT ![k] = None]
              /\ slot' = slot
          BY <3>3 DEF route
        <4> QED
          BY <1>0, <1>4, <4>1, Zenon DEF TypeOK, Callers
      <3> QED
        BY <1>4, <3>1, <3>2, <3>3, Zenon
    <2> QED
      BY <2>1, Zenon DEF Holders, Holds
  <1> QED
    BY <1>1, <1>2, <1>3, <1>4, Zenon

\* Every step keeps the slots.
LEMMA SlotsStep ==
  ASSUME TypeOK, TypeOK', Places, MapMatches, SlotsMatch, [Next]_vars
  PROVE  MapMatches' /\ SlotsMatch'
  <1>1. CASE Surroundings \/ UNCHANGED vars
    <2>1. UNCHANGED <<pc, slot, seen, gates, free>>
      BY <1>1 DEF Surroundings, vars, requestVars
    <2>2. \A g \in Gates : Holders(g)' = Holders(g)
      BY <2>1 DEF Holders, Holds
    <2> QED
      BY <2>1, <2>2, SlotsMove
  <1>2. ASSUME NEW k \in Clients, AskForSlot(k) \/ enter(k) \/ drop(k)
        PROVE  MapMatches' /\ SlotsMatch'
    BY <1>2, AskKeepsSlots, EnterKeepsSlots, DropKeepsSlots
  <1>3. ASSUME NEW k \in Callers,
               \/ load(k)
               \/ k \in Clients /\ (AnswerHere(k) \/ forward(k) \/ respond(k) \/ logging(k))
               \/ k \in Streams /\ (refuse(k) \/ route(k) \/ unreachable(k) \/ couple(k) \/ hangUp(k))
        PROVE  MapMatches' /\ SlotsMatch'
    <2>1. UNCHANGED <<gates, free>>
      BY <1>3, Zenon DEF load, AnswerHere, forward, respond, logging, refuse, route, unreachable,
                  couple, hangUp
    <2>2. /\ \A g \in Gates : Holders(g)' = Holders(g)
          /\ \A j \in Clients : slot'[j] # None => slot'[j] = slot[j] /\ seen'[j] = seen[j]
      BY <1>3, <2>1, OthersKeepSlots, Zenon
    <2> QED
      BY <2>1, <2>2, SlotsMove
  <1> QED
    BY SMTT(30), <1>1, <1>2, <1>3 DEF Next, Request, Connection, Callers

(***************************************************************************)
(* The theorem.                                                            *)
(***************************************************************************)

\* It holds at the start.
LEMMA AccountsInit == Init => AccountsIInv
  <1> SUFFICES ASSUME Init
               PROVE  AccountsIInv
    OBVIOUS
  <1> USE DEF Init
  <1>1. BalanceTypeOK
    BY BalanceAssumption DEF BalanceInit, BalanceTypeOK
  <1>2. TypeOK
    BY <1>1, BalanceAssumption DEF TypeOK, Callers, HttpSteps, StreamSteps
  <1>3. Places
    BY DEF Places, Callers
  <1>4. \A m \in Members : InFlight(m) = {} /\ Coupled(m) = {}
    BY DEF InFlight, Coupled, Callers
  <1>5. CountsMatch
    <2>1. \A m \in Members : open["http"][m] = 0 /\ open["stream"][m] = 0
      OBVIOUS
    <2> QED
      BY <1>4, <2>1, FS_EmptySet, Zenon DEF CountsMatch, InFlight, Coupled
  <1>6. MapMatches
    BY DEF MapMatches
  <1>7. SlotsMatch
    BY DEF SlotsMatch, Callers
  <1> QED
    BY <1>2, <1>3, <1>5, <1>6, <1>7 DEF AccountsIInv

\* The books balance for any number of clients, streams, members and pools: the
\* count of a member's connections is the number of requests and connections that
\* have it, and the permits of a gate are free or held by somebody, whichever way a
\* request ends and whatever is delivered in between (balance.rs, pool.rs).
THEOREM BooksBalance == Spec => []Accounted
  <1>1. AccountsIInv /\ [Next]_vars => AccountsIInv'
    BY PlacesStep, CountsStep, SlotsStep DEF AccountsIInv
  <1>2. AccountsIInv => Accounted
    BY DEF AccountsIInv, Accounted
  <1> QED
    BY <1>1, <1>2, AccountsInit, PTL DEF Spec
==============================================================================
