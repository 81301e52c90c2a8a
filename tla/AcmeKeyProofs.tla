---------------------------- MODULE AcmeKeyProofs ----------------------------
(***************************************************************************)
(* One order has one key, whoever drives it, for any number of nodes,      *)
(* certificates, orders, attempts and mishaps.                             *)
(***************************************************************************)
EXTENDS AcmeOrderSteps

(***************************************************************************)
(* Who has an order.                                                       *)
(***************************************************************************)

\* A drive nobody has written behind the back of has the key of the record, and
\* what it downloaded was issued for it.
Right(d, a) == ~d.stale /\ Promised(d.cert)
                  => /\ Begun(d) => a.keys[d.cert] = d.key
                     /\ d.flow.chain # None => d.flow.chain.key = d.key

\* What it found in the record is still there.
Found(d, a) == d.pc = "take_over" /\ ~d.stale => a.orders[d.cert].url = d.url

Holder(m, u) == Begun(drive[m]) /\ u \in Held(drive[m])
Current(m) == ~drive[m].stale /\ Promised(drive[m].cert)

\* Nobody has order u for another certificate than c or with another key than k.
Owned(u, c, k) ==
    /\ \A m \in Nodes : Holder(m, u) => drive[m].cert = c /\ drive[m].key = k
    /\ \A m \in Nodes : drive[m].pc = "take_over" /\ drive[m].url = u => drive[m].cert = c
    /\ \A o \in Certs : agreed.orders[o].url = u => o = c /\ agreed.keys[o] = k
    /\ ca[u].key \in {None, k}

\* It is so of an order that a drive holds nobody has written behind the back
\* of, and of the order of a record.
OwnInv == /\ \A m \in Nodes : Current(m) /\ Begun(drive[m])
                => \A u \in Held(drive[m]) : Owned(u, drive[m].cert, drive[m].key)
          /\ \A c \in Certs : Promised(c) /\ agreed.orders[c].url # None
                => Owned(agreed.orders[c].url, c, agreed.keys[c])

\* The orders there are, and what the authority has signed for.
Orders == DOMAIN ca \cup {None}
OrderFields == {"status", "authz", "key", "account", "usable"}
Signed(o) == /\ o = [x \in OrderFields |-> o[x]]
             /\ o.status \in {"processing", "valid"} => o.key # None

NamedInv == /\ \A m \in Nodes : Held(drive[m]) \subseteq DOMAIN ca /\ drive[m].url \in Orders
            /\ \A c \in Certs : agreed.orders[c].url \in Orders
            /\ \A u \in DOMAIN ca : Signed(ca[u])

KeyInv == /\ \A m \in Nodes : /\ Shape(drive[m]) /\ Right(drive[m], agreed)
                              /\ Found(drive[m], agreed)
          /\ NamedInv /\ OwnInv

\* The same in one: order u is had with key k for certificate c.
Claims(u, c, k) ==
    \/ \E m \in Nodes : Current(m) /\ Holder(m, u) /\ drive[m].cert = c /\ drive[m].key = k
    \/ c \in Certs /\ Promised(c) /\ u # None /\ agreed.orders[c].url = u /\ agreed.keys[c] = k

\* What is had is owned, and the record has the key.
LEMMA ClaimsOwn ==
  ASSUME KeyInv, NEW u, NEW c, NEW k, Claims(u, c, k)
  PROVE  Owned(u, c, k) /\ agreed.keys[c] = k /\ u \in DOMAIN ca /\ Promised(c)
  <1>1. ASSUME NEW m \in Nodes, Current(m), Holder(m, u), drive[m].cert = c, drive[m].key = k
        PROVE  Owned(u, c, k) /\ agreed.keys[c] = k /\ u \in DOMAIN ca /\ Promised(c)
    BY <1>1 DEF KeyInv, OwnInv, NamedInv, Right, Current, Holder
  <1>2. CASE c \in Certs /\ Promised(c) /\ u # None /\ agreed.orders[c].url = u /\ agreed.keys[c] = k
    BY <1>2 DEF KeyInv, OwnInv, NamedInv, Orders
  <1> QED
    BY <1>1, <1>2 DEF Claims

\* So it suffices that what is had is owned.
AllOwned == \A u, c, k : Claims(u, c, k) => Owned(u, c, k)

\* Of every drive, and of every record.
LEMMA OwnedByClaims == AllOwned => OwnInv
  <1> SUFFICES ASSUME AllOwned PROVE OwnInv
    OBVIOUS
  <1>1. ASSUME NEW m \in Nodes, Current(m), Begun(drive[m]), NEW u \in Held(drive[m])
        PROVE  Owned(u, drive[m].cert, drive[m].key)
    BY <1>1 DEF Claims, Holder, AllOwned
  <1>2. ASSUME NEW c \in Certs, Promised(c), agreed.orders[c].url # None
        PROVE  Owned(agreed.orders[c].url, c, agreed.keys[c])
    BY <1>2 DEF Claims, AllOwned
  <1> QED
    BY <1>1, <1>2 DEF OwnInv

\* What a step may make of a drive as far as order u goes: it lets go of it.
ThinsAt(u, d, e) ==
    /\ Begun(e) /\ u \in Held(e) => /\ Begun(d) /\ u \in Held(d)
                                    /\ e.cert = d.cert /\ e.key = d.key
                                    /\ ~e.stale => ~d.stale
    /\ e.pc = "take_over" /\ e.url = u => d.pc = "take_over" /\ d.url = u /\ e.cert = d.cert

\* What a step may make of a record: nothing, none, or one that names an order
\* a drive of it holds.
Renames(o) ==
    \/ agreed'.orders[o].url = agreed.orders[o].url /\ agreed'.keys[o] = agreed.keys[o]
    \/ agreed'.orders[o].url = None
    \/ /\ agreed'.keys[o] = agreed.keys[o]
       /\ \E n \in Nodes : /\ Holder(n, agreed'.orders[o].url) /\ drive[n].cert = o
                           /\ drive[n].stale => o \in overlapped'

\* What a step may make of the keys at the authority: a drive hands its own over.
Hands(u) == \/ ca'[u].key = ca[u].key
            \/ \E n \in Nodes : Holder(n, u) /\ ca'[u].key = drive[n].key

\* Then an order that is had was had, and stays owned.
LEMMA OwnStep ==
  ASSUME KeyInv, NEW u, u # None, u \in DOMAIN ca => Hands(u),
         \A m \in Nodes : ThinsAt(u, drive[m], drive'[m]),
         \A o \in Certs : Renames(o), overlapped \subseteq overlapped',
         NEW c, NEW k, Claims(u, c, k)'
  PROVE  Owned(u, c, k)'
  <1>1. Claims(u, c, k)
    <2>1. ASSUME NEW m \in Nodes, Current(m)', Holder(m, u)', drive'[m].cert = c, drive'[m].key = k
          PROVE  Claims(u, c, k)
      <3>1. ThinsAt(u, drive[m], drive'[m])
        OBVIOUS
      <3> QED
        BY <2>1, <3>1 DEF Claims, ThinsAt, Current, Holder, Promised
    <2>2. CASE c \in Certs /\ c \notin overlapped' /\ agreed'.orders[c].url = u /\ agreed'.keys[c] = k
      <3>1. CASE agreed'.orders[c].url = agreed.orders[c].url /\ agreed'.keys[c] = agreed.keys[c]
        BY <2>2, <3>1 DEF Claims, Promised
      <3>2. ASSUME agreed'.keys[c] = agreed.keys[c], NEW n \in Nodes, Holder(n, u),
                   drive[n].cert = c, drive[n].stale => c \in overlapped'
            PROVE  Claims(u, c, k)
        <4>1. Current(n) /\ Begun(drive[n])
          BY <2>2, <3>2 DEF Current, Promised, Holder
        <4>2. drive[n].key = k
          BY <2>2, <3>2, <4>1 DEF KeyInv, Right, Current
        <4> QED
          BY <3>2, <4>1, <4>2 DEF Claims
      <3> QED
        BY <2>2, <3>1, <3>2 DEF Renames
    <2> QED
      BY <2>1, <2>2 DEF Claims, Promised
  <1>2. Owned(u, c, k) /\ agreed.keys[c] = k /\ u \in DOMAIN ca
    BY <1>1, ClaimsOwn
  <1>3. ASSUME NEW m \in Nodes, Holder(m, u)' PROVE drive'[m].cert = c /\ drive'[m].key = k
    <2>1. ThinsAt(u, drive[m], drive'[m])
      OBVIOUS
    <2> QED
      BY <1>2, <1>3, <2>1 DEF ThinsAt, Holder, Owned
  <1>4. ASSUME NEW m \in Nodes, drive'[m].pc = "take_over", drive'[m].url = u
        PROVE  drive'[m].cert = c
    <2>1. ThinsAt(u, drive[m], drive'[m])
      OBVIOUS
    <2> QED
      BY <1>2, <1>4, <2>1 DEF ThinsAt, Owned
  <1>5. ASSUME NEW o \in Certs, agreed'.orders[o].url = u PROVE o = c /\ agreed'.keys[o] = k
    <2>1. Renames(o)
      OBVIOUS
    <2>2. CASE agreed'.orders[o].url = agreed.orders[o].url /\ agreed'.keys[o] = agreed.keys[o]
      BY <1>2, <1>5, <2>2 DEF Owned
    <2>3. ASSUME agreed'.keys[o] = agreed.keys[o], NEW n \in Nodes, Holder(n, u), drive[n].cert = o
          PROVE  o = c /\ agreed'.keys[o] = k
      BY <1>2, <2>3 DEF Owned
    <2> QED
      BY <1>5, <2>1, <2>2, <2>3 DEF Renames
  <1>6. ca'[u].key \in {None, k}
    BY <1>2 DEF Hands, Owned
  <1> QED
    BY <1>3, <1>4, <1>5, <1>6 DEF Owned

(***************************************************************************)
(* The steps.                                                              *)
(***************************************************************************)

\* What a step may make of a drive when nothing new is named.
Turn(d, e) == /\ Shape(e) /\ e.pc # "take_over" /\ e.url \in {d.url, None}
              /\ Held(e) \subseteq Held(d)
              /\ Begun(e) /\ Held(e) # {} => /\ Begun(d) /\ e.cert = d.cert /\ e.key = d.key
                                             /\ e.stale = d.stale

\* Such a drive lets go of orders.
LEMMA TurnThins ==
  ASSUME NEW d, NEW e, Turn(d, e), NEW u
  PROVE  ThinsAt(u, d, e)
  BY DEF Turn, ThinsAt

\* A drive that changed only in that another node has written lets go of none.
LEMMA SeenThins ==
  ASSUME NEW d, DriveOK(d), NEW late, late \in BOOLEAN, d.stale => late, NEW u
  PROVE  /\ ThinsAt(u, d, [d EXCEPT !.stale = late]) /\ ThinsAt(u, d, d)
         /\ Held([d EXCEPT !.stale = late]) = Held(d)
         /\ Shape(d) => Shape([d EXCEPT !.stale = late])
  <1> DEFINE g == [d EXCEPT !.stale = late]
  <1>1. /\ g.pc = d.pc /\ g.flow = d.flow /\ g.live = d.live /\ g.cert = d.cert /\ g.key = d.key
        /\ g.url = d.url /\ g.attempt = d.attempt /\ g.closing = d.closing /\ g.stale = late
    BY DEF DriveOK, DriveFields
  <1> HIDE DEF g
  <1>2. ThinsAt(u, d, g) /\ ThinsAt(u, d, d) /\ Held(g) = Held(d)
    BY <1>1 DEF ThinsAt, Begun, Held
  <1>3. Shape(d) => Shape(g)
    BY <1>1 DEF Shape, Begun, Keyed
  <1> QED
    BY <1>2, <1>3 DEF g

\* The orders at the authority, when none is named to a drive.
AuthorityMoves == /\ DOMAIN ca \subseteq DOMAIN ca'
                  /\ \A u \in DOMAIN ca' : Signed(ca'[u])
                  /\ \A u \in DOMAIN ca : Hands(u)

\* Holding nothing that is not an order.
LEMMA HeldIs ==
  ASSUME NEW d
  PROVE  None \notin Held(d)
  BY DEF Held

\* A drive that goes on and writes nothing.
LEMMA KeyHere ==
  ASSUME LifeInv, KeyInv, NEW n \in Nodes, NEW e, Turn(drive[n], e), Right(e, agreed),
         Becomes(n, e), UNCHANGED <<agreed, overlapped>>, AuthorityMoves
  PROVE  KeyInv'
  <1>1. drive'[n] = e /\ \A m \in Nodes \ {n} : drive'[m] = drive[m]
    BY DEF LifeInv, Becomes
  <1>2. Shape(e) /\ Found(e, agreed) /\ Held(e) \subseteq DOMAIN ca /\ e.url \in Orders
    BY DEF Turn, Found, KeyInv, NamedInv, Orders
  <1>3. ASSUME NEW m \in Nodes
        PROVE  /\ Shape(drive'[m]) /\ Right(drive'[m], agreed) /\ Found(drive'[m], agreed)
               /\ Held(drive'[m]) \subseteq DOMAIN ca /\ drive'[m].url \in Orders
    BY <1>1, <1>2 DEF KeyInv, NamedInv
  <1>4. \A m \in Nodes : (Shape(drive[m]) /\ Right(drive[m], agreed) /\ Found(drive[m], agreed))'
    BY <1>3 DEF Right, Promised
  <1>5. NamedInv'
    BY <1>3 DEF NamedInv, Orders, AuthorityMoves, KeyInv
  <1>6. ASSUME NEW u, NEW m \in Nodes PROVE ThinsAt(u, drive[m], drive'[m])
    BY <1>1, TurnThins DEF ThinsAt
  <1>7. \A o \in Certs : Renames(o)
    BY DEF Renames
  <1>8. ASSUME NEW u, NEW c, NEW k, Claims(u, c, k)' PROVE Owned(u, c, k)'
    <2>1. u # None
      BY <1>8, HeldIs DEF Claims, Holder
    <2> QED
      BY Zenon, <1>6, <1>7, <1>8, <2>1, OwnStep DEF AuthorityMoves
  <1>9. AllOwned'
    BY <1>8 DEF AllOwned
  <1>10. OwnInv'
    BY <1>9, OwnedByClaims, PTL
  <1> QED
    BY <1>4, <1>5, <1>10 DEF KeyInv

\* A drive whose write lands.
LEMMA KeyLands ==
  ASSUME LifeInv, KeyInv, NEW n \in Nodes, NEW next, Others(drive[n].cert, agreed, next),
         NEW e, Turn(drive[n], e), Right(e, next),
         Land(n, next), drive' = Seen(n, e), ca' = ca, drive[n].cert \in Certs,
         \/ next.orders[drive[n].cert] = agreed.orders[drive[n].cert]
            /\ next.keys[drive[n].cert] = agreed.keys[drive[n].cert]
         \/ next.orders[drive[n].cert].url = None
         \/ /\ next.keys[drive[n].cert] = agreed.keys[drive[n].cert]
            /\ Begun(drive[n]) /\ next.orders[drive[n].cert].url \in Held(drive[n])
  PROVE  KeyInv'
  <1> DEFINE c0 == drive[n].cert
             late(m) == drive[m].stale \/ drive[m].cert = c0
  <1>0. /\ agreed' = next /\ overlapped \subseteq overlapped'
        /\ drive[n].stale => c0 \in overlapped'
    BY DEF Land
  <1>1. drive'[n] = e /\ \A m \in Nodes \ {n} : drive'[m] = [drive[m] EXCEPT !.stale = late(m)]
    BY DEF Seen
  <1>2. Shape(e) /\ Found(e, next) /\ Held(e) \subseteq DOMAIN ca /\ e.url \in Orders
    BY Zenon DEF Turn, Found, KeyInv, NamedInv, Orders
  <1>3. ASSUME NEW m \in Nodes \ {n}
        PROVE  /\ \A u : ThinsAt(u, drive[m], drive'[m])
               /\ Shape(drive'[m]) /\ Right(drive'[m], next) /\ Found(drive'[m], next)
               /\ Held(drive'[m]) \subseteq DOMAIN ca /\ drive'[m].url \in Orders
    <2> DEFINE d == drive[m]
               l == late(m)
               g == [d EXCEPT !.stale = l]
    <2>1. /\ DriveOK(d) /\ Shape(d) /\ Right(d, agreed) /\ Found(d, agreed)
          /\ Held(d) \subseteq DOMAIN ca /\ d.url \in Orders
      BY DEF LifeInv, KeyInv, NamedInv
    <2>2. l \in BOOLEAN /\ (d.stale => l) /\ (~l => ~d.stale /\ d.cert # c0)
      OBVIOUS
    <2>3. drive'[m] = g
      BY <1>1
    <2>4. Others(c0, agreed, next)
      OBVIOUS
    <2> HIDE DEF l, d, c0
    <2>5. /\ g.pc = d.pc /\ g.flow = d.flow /\ g.cert = d.cert /\ g.key = d.key
          /\ g.url = d.url /\ g.stale = l
      BY <2>1 DEF DriveOK, DriveFields
    <2>6. (\A u : ThinsAt(u, d, g)) /\ Shape(g) /\ Held(g) = Held(d)
      BY SMTT(30), <2>1, <2>2, SeenThins
    <2> HIDE DEF g
    <2>7. d.pc \notin {"idle", "next"} => d.cert \in Certs
      BY SMTT(30), <2>1 DEF DriveOK
    <2>8. Right(g, next) /\ Found(g, next)
      BY SMTT(30), <2>1, <2>2, <2>4, <2>5, <2>7 DEF Right, Found, Others, Begun
    <2> QED
      BY Zenon, <2>1, <2>3, <2>5, <2>6, <2>8 DEF d
  <1>4. ASSUME NEW m \in Nodes
        PROVE  /\ \A u : ThinsAt(u, drive[m], drive'[m])
               /\ Shape(drive'[m]) /\ Right(drive'[m], next) /\ Found(drive'[m], next)
               /\ Held(drive'[m]) \subseteq DOMAIN ca /\ drive'[m].url \in Orders
    BY <1>1, <1>2, <1>3, TurnThins
  <1>5. \A m \in Nodes : (Shape(drive[m]) /\ Right(drive[m], agreed) /\ Found(drive[m], agreed))'
    BY Zenon, <1>0, <1>4 DEF Right, Promised
  <1>6. ASSUME NEW o \in Certs PROVE Renames(o) /\ next.orders[o].url \in Orders
    <2>1. CASE o # c0
      BY <1>0, <2>1 DEF Others, Renames, KeyInv, NamedInv
    <2>2. CASE o = c0
      <3>1. next.orders[c0].url \in Held(drive[n]) => next.orders[c0].url \in Orders
        BY SMTT(30) DEF KeyInv, NamedInv, Orders
      <3>2. agreed.orders[c0].url \in Orders /\ None \in Orders
        BY DEF KeyInv, NamedInv, Orders
      <3> QED
        BY Zenon, <1>0, <2>2, <3>1, <3>2 DEF Renames, Holder
    <2> QED
      BY SMTT(30), <2>1, <2>2
  <1>7. NamedInv'
    BY Zenon, <1>0, <1>4, <1>6 DEF NamedInv, Orders, KeyInv
  <1>8. ASSUME NEW u, NEW c, NEW k, Claims(u, c, k)' PROVE Owned(u, c, k)'
    <2>1. u # None
      BY Zenon, <1>8, HeldIs DEF Claims, Holder
    <2>2. Hands(u)
      BY DEF Hands
    <2> QED
      BY Zenon, <1>0, <1>4, <1>6, <1>8, <2>1, <2>2, OwnStep
  <1>9. AllOwned'
    BY Zenon, <1>8 DEF AllOwned
  <1>10. OwnInv'
    BY <1>9, OwnedByClaims, PTL
  <1> QED
    BY SMTT(30), <1>5, <1>7, <1>10 DEF KeyInv

\* A drive that goes on, or leaves the order, is right when it was.
LEMMA OnwardsTurn ==
  ASSUME NEW d, Keyed(d), NEW e, Onwards(d, e), NEW a, Right(d, a)
  PROVE  Turn(d, e) /\ Right(e, a)
  <1>1. CASE Stays(d, e) /\ e.flow.chain \in {None, d.flow.chain}
    <2>1. Turn(d, e)
      BY <1>1 DEF Turn, Onwards, Stays, Begun, Keyed
    <2>2. Right(e, a)
      BY Zenon, <1>1 DEF Right, Stays, Keyed
    <2> QED
      BY <2>1, <2>2
  <1>2. CASE e.pc = "next"
    <2>1. ~Begun(e)
      BY <1>2 DEF Begun
    <2>2. e.flow = Fresh /\ e.live = Nothing /\ e.url = None /\ Shape(e)
      BY <1>2, <2>1 DEF Onwards, Shape
    <2>3. Fresh.order = None /\ Fresh.chain = None /\ Nothing.url = None
      BY DEF Fresh, Nothing
    <2>4. Held(e) = {}
      BY <2>2, <2>3 DEF Held
    <2> QED
      BY <1>2, <2>1, <2>2, <2>3, <2>4 DEF Turn, Right
  <1> QED
    BY <1>1, <1>2 DEF Onwards

\* One that leaves the order is right whatever it was.
LEMMA LeavesTurn ==
  ASSUME NEW d, NEW e, Shape(e), e.pc = "next", NEW a
  PROVE  Turn(d, e) /\ Right(e, a)
  <1>1. ~Begun(e)
    BY DEF Begun
  <1>2. e.flow = Fresh /\ e.live = Nothing /\ e.url = None
    BY <1>1 DEF Shape
  <1>3. Fresh.order = None /\ Fresh.chain = None /\ Nothing.url = None
    BY DEF Fresh, Nothing
  <1>4. Held(e) = {}
    BY <1>2, <1>3 DEF Held
  <1> QED
    BY <1>1, <1>2, <1>3, <1>4 DEF Turn, Right

\* A failure does.
LEMMA FailsLeaves ==
  ASSUME NEW d
  PROVE  Shape(Fails(d)) /\ Fails(d).pc = "next"
  <1>1. Fails(d).pc = "next"
    BY ZenonT(60) DEF Fails, Idle
  <1> QED
    BY <1>1, LeftOnwards DEF Onwards

\* An update, whether it lands, is refused, or lands and is reported refused.
LEMMA KeyUpdate ==
  ASSUME LifeInv, KeyInv, NEW n \in Nodes, NEW next, Others(drive[n].cert, agreed, next),
         NEW ok, Turn(drive[n], ok), Right(ok, next),
         NEW no, Turn(drive[n], no), Right(no, agreed), Right(no, next),
         Update(n, next, ok, no), ca' = ca, drive[n].cert \in Certs,
         \/ next.orders[drive[n].cert] = agreed.orders[drive[n].cert]
            /\ next.keys[drive[n].cert] = agreed.keys[drive[n].cert]
         \/ next.orders[drive[n].cert].url = None
         \/ /\ next.keys[drive[n].cert] = agreed.keys[drive[n].cert]
            /\ Begun(drive[n]) /\ next.orders[drive[n].cert].url \in Held(drive[n])
  PROVE  KeyInv'
  <1>1. \/ Land(n, next) /\ drive' = Seen(n, ok)
        \/ Land(n, next) /\ drive' = Seen(n, no)
        \/ Becomes(n, no) /\ UNCHANGED <<agreed, overlapped>>
    BY Zenon DEF Update, Proceeds
  <1>2. AuthorityMoves
    BY Zenon DEF AuthorityMoves, Hands, KeyInv, NamedInv
  <1>3. CASE Land(n, next) /\ drive' = Seen(n, ok)
    BY Zenon, <1>3, KeyLands
  <1>4. CASE Land(n, next) /\ drive' = Seen(n, no)
    BY Zenon, <1>4, KeyLands
  <1>5. CASE Becomes(n, no) /\ UNCHANGED <<agreed, overlapped>>
    BY <1>2, <1>5, KeyHere
  <1> QED
    BY <1>1, <1>3, <1>4, <1>5

\* A drive that finds an order in the record, or takes up the order it found:
\* only of this order is there anything to show.
LEMMA KeyFinds ==
  ASSUME LifeInv, KeyInv, NEW n \in Nodes, NEW e, NEW w \in Orders, Shape(e), Right(e, agreed),
         Found(e, agreed), Held(e) \subseteq {w}, e.url \in Orders,
         Becomes(n, e), UNCHANGED <<agreed, overlapped, ca>>,
         \A u : u # w => ThinsAt(u, drive[n], e),
         \A c, k : w # None /\ Claims(w, c, k)' => Owned(w, c, k)'
  PROVE  KeyInv'
  <1>1. drive'[n] = e /\ \A m \in Nodes \ {n} : drive'[m] = drive[m]
    BY DEF LifeInv, Becomes
  <1>2. Held(e) \subseteq DOMAIN ca
    BY HeldIs DEF Orders
  <1>3. ASSUME NEW m \in Nodes
        PROVE  /\ Shape(drive'[m]) /\ Right(drive'[m], agreed) /\ Found(drive'[m], agreed)
               /\ Held(drive'[m]) \subseteq DOMAIN ca /\ drive'[m].url \in Orders
    BY ZenonT(40), <1>1, <1>2 DEF KeyInv, NamedInv
  <1>4. \A m \in Nodes : (Shape(drive[m]) /\ Right(drive[m], agreed) /\ Found(drive[m], agreed))'
    BY SMTT(30), <1>3 DEF Right, Promised
  <1>5. NamedInv'
    BY SMTT(30), <1>3 DEF NamedInv, Orders, KeyInv
  <1>6. \A o \in Certs : Renames(o)
    BY DEF Renames
  <1>7. ASSUME NEW u, NEW c, NEW k, Claims(u, c, k)' PROVE Owned(u, c, k)'
    <2>1. u # None
      BY <1>7, HeldIs DEF Claims, Holder
    <2>2. CASE u = w
      BY <1>7, <2>1, <2>2
    <2>3. CASE u # w
      <3>1. \A m \in Nodes : ThinsAt(u, drive[m], drive'[m])
        BY SMTT(30), <1>1, <2>3 DEF ThinsAt
      <3>2. Hands(u)
        BY DEF Hands
      <3> QED
        BY ZenonT(40), <1>6, <1>7, <2>1, <3>1, <3>2, OwnStep
    <2> QED
      BY <2>2, <2>3
  <1>8. AllOwned'
    BY <1>7 DEF AllOwned
  <1>9. OwnInv'
    BY <1>8, OwnedByClaims, PTL
  <1> QED
    BY <1>4, <1>5, <1>9 DEF KeyInv

\* An order is found in the record (acme.rs open_order).
LEMMA FindKeys ==
  ASSUME LifeInv, KeyInv, NEW n \in Nodes, FindOrder(n)
  PROVE  KeyInv'
  <1> DEFINE d == drive[n]
             c == d.cert
             e == [d EXCEPT !.pc = "open_new"]
  <1>0. DriveOK(d) /\ Shape(d) /\ Right(d, agreed) /\ d.pc = "open"
    BY Zenon DEF LifeInv, KeyInv, FindOrder, At
  <1>2. c \in Certs
    BY <1>0 DEF DriveOK
  <1>3. PICK w \in Orders : w = agreed.orders[c].url
    BY <1>2 DEF KeyInv, NamedInv
  <1> DEFINE g == [d EXCEPT !.pc = "take_over", !.url = w]
  <1>1. /\ Becomes(n, e) \/ Becomes(n, g)
        /\ UNCHANGED <<agreed, overlapped, ca>>
    BY <1>3 DEF FindOrder, outside
  <1>4. d.flow = Fresh /\ d.live = Nothing /\ d.url = None
    BY <1>0 DEF Shape, Begun
  <1>5. Fresh.order = None /\ Fresh.chain = None /\ Nothing.url = None
    BY DEF Fresh, Nothing
  <1>6. CASE Becomes(n, e)
    <2>1. e.pc = "open_new" /\ e.flow = Fresh /\ e.live = Nothing /\ e.url = None
      <3> HIDE DEF d
      <3> QED
        BY <1>0, <1>4 DEF DriveOK, DriveFields
    <2> HIDE DEF e
    <2>2. ~Begun(e) /\ Held(e) = {}
      BY <1>5, <2>1 DEF Begun, Held
    <2>3. Turn(d, e) /\ Right(e, agreed)
      BY <1>5, <2>1, <2>2 DEF Turn, Shape, Right
    <2>4. AuthorityMoves
      BY <1>1 DEF AuthorityMoves, Hands, KeyInv, NamedInv
    <2> QED
      BY <1>1, <1>6, <2>3, <2>4, KeyHere
  <1>7. CASE Becomes(n, g)
    <2>1. drive'[n] = g /\ \A m \in Nodes \ {n} : drive'[m] = drive[m]
      BY <1>7 DEF LifeInv, Becomes
    <2>2. /\ g.pc = "take_over" /\ g.flow = Fresh /\ g.live = Nothing /\ g.url = w
          /\ g.cert = c
      <3> HIDE DEF d
      <3> QED
        BY Zenon, <1>0, <1>4 DEF DriveOK, DriveFields, c
    <2> HIDE DEF g
    <2>3. ~Begun(g) /\ Held(g) = {}
      BY SMTT(30), <1>5, <2>2 DEF Begun, Held
    <2>4. Shape(g) /\ Right(g, agreed) /\ Found(g, agreed)
      BY <1>3, <1>5, <2>2, <2>3 DEF Shape, Right, Found
    <2>5. \A u : u # w => ThinsAt(u, d, g)
      BY <2>2, <2>3 DEF ThinsAt
    <2>6. ASSUME NEW o, NEW k, w # None, Claims(w, o, k)' PROVE Owned(w, o, k)'
      <3>1. \A m \in Nodes : Holder(m, w)' => Holder(m, w) /\ drive'[m] = drive[m]
        BY <2>1, <2>3 DEF Holder
      <3>2. Claims(w, o, k)
        BY <1>1, <2>6, <3>1 DEF Claims, Current, Promised
      <3>3. Owned(w, o, k)
        BY SMTT(30), <3>2, ClaimsOwn
      <3>4. c = o
        BY <1>2, <1>3, <3>3 DEF Owned
      <3>5. \A m \in Nodes : drive'[m].pc = "take_over" /\ drive'[m].url = w => drive'[m].cert = o
        BY SMTT(30), <2>1, <2>2, <3>3, <3>4 DEF Owned
      <3> QED
        BY <1>1, <3>1, <3>3, <3>5 DEF Owned
    <2>7. Held(g) \subseteq {w} /\ g.url \in Orders
      BY <1>3, <2>2, <2>3
    <2> QED
      BY Zenon, <1>1, <1>3, <1>7, <2>4, <2>5, <2>6, <2>7, KeyFinds
  <1> QED
    BY <1>1, <1>6, <1>7

\* An order is taken over with the key of the record (acme.rs open_order).
LEMMA TakeKeys ==
  ASSUME LifeInv, KeyInv, NEW n \in Nodes, TakeOver(n)
  PROVE  KeyInv'
  <1> DEFINE d == drive[n]
             c == d.cert
             k == agreed.keys[c]
             h == [d EXCEPT !.key = k]
             e == Attempt(h, 1)
  <1>1. DriveOK(d) /\ Shape(d) /\ Found(d, agreed) /\ d.pc = "take_over"
    BY Zenon DEF LifeInv, KeyInv, TakeOver, At
  <1>2. c \in Certs
    BY <1>1 DEF DriveOK
  <1>3. PICK w \in Orders : w = d.url
    BY DEF KeyInv, NamedInv
  <1>4. /\ Becomes(n, IF k = None THEN Fails(d) ELSE e)
        /\ UNCHANGED <<agreed, overlapped, ca>>
    BY DEF TakeOver, Proceeds, outside
  <1>5. CASE k = None
    <2>1. Turn(d, Fails(d)) /\ Right(Fails(d), agreed)
      BY Zenon, FailsLeaves, LeavesTurn
    <2>2. AuthorityMoves
      BY <1>4 DEF AuthorityMoves, Hands, KeyInv, NamedInv
    <2> QED
      BY <1>4, <1>5, <2>1, <2>2, KeyHere
  <1>6. CASE k # None
    <2>1. k \in Nat /\ Becomes(n, e)
      BY <1>2, <1>4, <1>6 DEF LifeInv, StateOK, Url
    <2> DEFINE f == IF h.url # None THEN Resumed(h.url) ELSE Fresh
               l == Reached(f)
    <2>2. e = [h EXCEPT !.pc = "ask", !.attempt = 1, !.flow = f,
                        !.live = l, !.rejected = 0, !.closing = None]
      BY DEF Attempt
    <2>3. /\ DriveOK(h) /\ h.cert = c /\ h.key = k /\ h.url = w /\ h.stale = d.stale
      <3> HIDE DEF d, k
      <3> QED
        BY <1>1, <1>3, KeyOK DEF DriveOK, DriveFields, c
    <2> HIDE DEF h, e
    <2>4. f.order = w /\ f.chain = None /\ f.stage = "account"
      <3>1. Resumed(w).order = w /\ Resumed(w).chain = None /\ Resumed(w).stage = "account"
        BY Zenon DEF Resumed, Fresh
      <3>2. Fresh.order = None /\ Fresh.chain = None /\ Fresh.stage = "account"
        BY DEF Fresh
      <3> QED
        BY <2>3, <3>1, <3>2
    <2> HIDE DEF f
    <2>5. l.url = w
      BY <2>4 DEF Reached
    <2> HIDE DEF l
    <2>6. /\ e.pc = "ask" /\ e.attempt = 1 /\ e.flow = f /\ e.live = l /\ e.cert = c
          /\ e.key = k /\ e.url = w /\ e.stale = d.stale
      <3> HIDE DEF d, k, c
      <3> QED
        BY Zenon, <2>2, <2>3 DEF DriveOK, DriveFields
    <2>7. Held(e) = {w} \ {None} /\ Begun(e)
      BY <2>4, <2>5, <2>6 DEF Held, Begun
    <2>8. Shape(e) /\ Right(e, agreed) /\ Found(e, agreed)
      <3>1. Shape(e)
        BY <2>1, <2>4, <2>6, <2>7 DEF Shape, Keyed, Stages
      <3>2. Right(e, agreed)
        BY <2>4, <2>6 DEF Right
      <3> QED
        BY SMTT(30), <2>6, <3>1, <3>2 DEF Found
    <2>9. drive'[n] = e /\ \A m \in Nodes \ {n} : drive'[m] = drive[m]
      BY <2>1 DEF LifeInv, Becomes
    <2>10. \A u : u # w => ThinsAt(u, d, e)
      BY <2>6, <2>7 DEF ThinsAt
    <2>11. ASSUME NEW o, NEW j, w # None, Claims(w, o, j)' PROVE Owned(w, o, j)'
      <3>1. ASSUME NEW m \in Nodes, Current(m)', Holder(m, w)', drive'[m].cert = o, drive'[m].key = j
            PROVE  Claims(w, o, j)
        <4>1. CASE m = n
          <5>1. ~d.stale /\ Promised(c) /\ o = c /\ j = k
            BY SMTT(30), <1>4, <2>6, <2>9, <3>1, <4>1 DEF Current, Promised
          <5>2. agreed.orders[c].url = w
            BY SMTT(30), <1>1, <1>3, <5>1 DEF Found
          <5> QED
            BY ZenonT(40), <1>2, <2>11, <5>1, <5>2 DEF Claims
        <4>2. CASE m # n
          BY SMTT(30), <1>4, <2>9, <3>1, <4>2 DEF Claims, Current, Promised, Holder
        <4> QED
          BY <4>1, <4>2
      <3>2. Claims(w, o, j)
        BY <1>4, <2>11, <3>1 DEF Claims, Promised
      <3>3. Owned(w, o, j) /\ agreed.keys[o] = j
        BY SMTT(30), <3>2, ClaimsOwn
      <3>4. c = o
        BY SMTT(30), <1>1, <1>3, <3>3 DEF Owned
      <3>5. \A m \in Nodes : Holder(m, w)' => drive'[m].cert = o /\ drive'[m].key = j
        BY SMTT(30), <2>6, <2>9, <3>3, <3>4 DEF Owned, Holder
      <3>6. \A m \in Nodes : drive'[m].pc = "take_over" /\ drive'[m].url = w => drive'[m].cert = o
        BY SMTT(30), <2>6, <2>9, <3>3 DEF Owned
      <3> QED
        BY <1>4, <3>3, <3>5, <3>6 DEF Owned
    <2>12. Held(e) \subseteq {w} /\ e.url \in Orders
      BY SMTT(30), <1>3, <2>6, <2>7
    <2> QED
      BY Zenon, <1>4, <2>1, <2>8, <2>10, <2>11, <2>12, KeyFinds
  <1> QED
    BY <1>5, <1>6

\* An order is named to the drive that places it.
LEMMA KeyNamed ==
  ASSUME LifeInv, KeyInv, NEW n \in Nodes, NEW e, Shape(e), Right(e, agreed),
         e.pc # "take_over", e.url \in Orders, NEW w, w \notin Orders,
         Held(e) \subseteq Held(drive[n]) \cup {w},
         Begun(e) => /\ Begun(drive[n]) /\ e.cert = drive[n].cert /\ e.key = drive[n].key
                     /\ e.stale = drive[n].stale,
         Becomes(n, e), UNCHANGED <<agreed, overlapped>>,
         DOMAIN ca' = DOMAIN ca \cup {w}, \A u \in DOMAIN ca : ca'[u] = ca[u],
         Signed(ca'[w]), ca'[w].key = None
  PROVE  KeyInv'
  <1>1. drive'[n] = e /\ \A m \in Nodes \ {n} : drive'[m] = drive[m]
    BY SMTT(30) DEF LifeInv, Becomes
  <1>2. ASSUME NEW m \in Nodes
        PROVE  /\ Shape(drive'[m]) /\ Right(drive'[m], agreed) /\ Found(drive'[m], agreed)
               /\ Held(drive'[m]) \subseteq DOMAIN ca \cup {w} /\ drive'[m].url \in Orders
    BY SMTT(30), <1>1 DEF KeyInv, NamedInv, Found
  <1>3. \A m \in Nodes : (Shape(drive[m]) /\ Right(drive[m], agreed) /\ Found(drive[m], agreed))'
    BY <1>2 DEF Right, Promised
  <1>4. NamedInv'
    BY Zenon, <1>2 DEF NamedInv, Orders, KeyInv
  <1>5. \A o \in Certs : Renames(o)
    BY Zenon DEF Renames
  <1>6. ASSUME NEW u, NEW c, NEW k, Claims(u, c, k)' PROVE Owned(u, c, k)'
    <2>1. u # None
      BY Zenon, <1>6, HeldIs DEF Claims, Holder
    <2>2. CASE u # w
      <3>1. \A m \in Nodes : ThinsAt(u, drive[m], drive'[m])
        BY <1>1, <2>2 DEF ThinsAt
      <3>2. u \in DOMAIN ca => Hands(u)
        BY Zenon DEF Hands
      <3> QED
        BY ZenonT(40), <1>5, <1>6, <2>1, <3>1, <3>2, OwnStep
    <2>3. CASE u = w
      <3>1. \A o \in Certs : agreed'.orders[o].url # w
        BY Zenon DEF KeyInv, NamedInv
      <3>2. \A m \in Nodes \ {n} : w \notin Held(drive'[m]) /\ drive'[m].url # w
        BY <1>1 DEF KeyInv, NamedInv, Orders
      <3>3. drive'[n].cert = c /\ drive'[n].key = k
        BY Zenon, <1>6, <2>3, <3>1, <3>2 DEF Claims, Holder
      <3> QED
        BY <1>1, <2>3, <3>1, <3>2, <3>3 DEF Owned, Holder
    <2> QED
      BY <2>2, <2>3
  <1>7. AllOwned'
    BY Zenon, <1>6 DEF AllOwned
  <1>8. OwnInv'
    BY <1>7, OwnedByClaims, PTL
  <1> QED
    BY <1>3, <1>4, <1>8 DEF KeyInv

\* One order at the authority changes.
LEMMA OrderMoves ==
  ASSUME IsSeq(ca), \A u \in DOMAIN ca : Signed(ca[u]), NEW u \in DOMAIN ca, NEW v, Signed(v),
         v.key = ca[u].key \/ \E m \in Nodes : Holder(m, u) /\ v.key = drive[m].key,
         ca' = [ca EXCEPT ![u] = v]
  PROVE  AuthorityMoves /\ DOMAIN ca' = DOMAIN ca
  <1>1. DOMAIN ca = 1..Len(ca)
    BY SeqIs DEF IsSeq
  <1>2. DOMAIN ca' = DOMAIN ca /\ ca'[u] = v /\ \A o \in DOMAIN ca \ {u} : ca'[o] = ca[o]
    BY <1>1
  <1>3. \A o \in DOMAIN ca : Hands(o)
    BY <1>2 DEF Hands
  <1> QED
    BY <1>2, <1>3 DEF AuthorityMoves

\* One order more.
LEMMA OrderPlaced ==
  ASSUME IsSeq(ca), \A u \in DOMAIN ca : Signed(ca[u]), NEW d, NEW reuse,
         ca' = Append(ca, Placed(d, reuse))
  PROVE  /\ AuthorityMoves /\ DOMAIN ca' = DOMAIN ca \cup {Len(ca')}
         /\ Len(ca') \in Nat \ DOMAIN ca /\ \A u \in DOMAIN ca : ca'[u] = ca[u]
         /\ Signed(ca'[Len(ca')]) /\ ca'[Len(ca')].key = None
  <1> DEFINE o == Placed(d, reuse)
             T == {ca[i] : i \in DOMAIN ca} \cup {o}
  <1>1. Signed(o) /\ o.key = None
    <2>1. o = [x \in OrderFields |-> o[x]] /\ o.status \in {"ready", "pending"} /\ o.key = None
      BY Zenon DEF Placed, OrderFields
    <2> HIDE DEF o
    <2> QED
      BY <2>1 DEF Signed
  <1> HIDE DEF o
  <1>2. ca \in Seq(T) /\ o \in T
    <2>1. ca \in Seq({ca[i] : i \in DOMAIN ca})
      BY DEF IsSeq
    <2> QED
      BY <2>1
  <1> HIDE DEF T
  <1>3. /\ Len(ca) \in Nat /\ DOMAIN ca = 1..Len(ca) /\ Len(ca') = Len(ca) + 1
        /\ DOMAIN ca' = 1..(Len(ca) + 1) /\ ca'[Len(ca) + 1] = o
        /\ \A i \in 1..Len(ca) : ca'[i] = ca[i]
    BY <1>2 DEF o
  <1>4. /\ DOMAIN ca' = DOMAIN ca \cup {Len(ca')} /\ Len(ca') \in Nat \ DOMAIN ca
        /\ \A u \in DOMAIN ca : ca'[u] = ca[u]
    BY <1>3
  <1>5. Signed(ca'[Len(ca')]) /\ ca'[Len(ca')].key = None
    BY <1>1, <1>3
  <1>6. \A u \in DOMAIN ca : Hands(u)
    BY <1>4 DEF Hands
  <1>7. AuthorityMoves
    BY SMTT(30), <1>4, <1>5, <1>6 DEF AuthorityMoves
  <1> QED
    BY <1>4, <1>5, <1>7

\* What an ask does at the authority.
LEMMA AskMoves ==
  ASSUME LifeInv, KeyInv, NEW n \in Nodes, drive[n].pc = "ask", NEW reuse,
         ca' = AuthorityAfter(n, reuse)
  PROVE  /\ AuthorityMoves
         /\ drive[n].flow.stage \notin {"order", "accept", "finalize"} => ca' = ca
         /\ drive[n].flow.stage = "order" => ca' = Append(ca, Placed(drive[n], reuse))
  <1> DEFINE d == drive[n]
             u == d.flow.order
             x == d.flow.challenge[2]
             k == d.key
             v == [ca[u] EXCEPT !.authz[x] = IF @ = "pending" THEN "told" ELSE @]
             r == [ca[u] EXCEPT !.status = "processing"]
             s == [r EXCEPT !.key = k]
  <1>0. IsSeq(ca) /\ (\A o \in DOMAIN ca : Signed(ca[o])) /\ FlowOK(d.flow) /\ Keyed(d)
        /\ Held(d) \subseteq DOMAIN ca
    BY Zenon DEF LifeInv, DriveOK, KeyInv, NamedInv, Shape, Begun
  <1>1. d.flow.stage \in {"accept", "finalize"} => Holder(n, u) /\ u \in DOMAIN ca
    BY SMTT(30), <1>0 DEF FlowOK, Holder, Held, Keyed
  <1>2. CASE d.flow.stage = "order"
    <2>1. ca' = Append(ca, Placed(d, reuse))
      BY <1>2 DEF AuthorityAfter
    <2> QED
      BY <1>0, <1>2, <2>1, OrderPlaced
  <1>3. CASE d.flow.stage = "accept"
    <2>1. ca' = [ca EXCEPT ![u] = v]
      BY Zenon, <1>3 DEF AuthorityAfter
    <2>2. Signed(ca[u])
      BY <1>0, <1>1, <1>3
    <2> DEFINE o == ca[u]
               z == [o.authz EXCEPT ![x] = IF @ = "pending" THEN "told" ELSE @]
    <2>3. v = [o EXCEPT !.authz = z]
      OBVIOUS
    <2>4. Signed(v) /\ v.key = ca[u].key
      <3> HIDE DEF v, z, o
      <3>1. v = [y \in OrderFields |-> v[y]] /\ v.status = o.status /\ v.key = o.key
        BY Zenon, <2>2, <2>3 DEF Signed, OrderFields, o
      <3> QED
        BY Zenon, <2>2, <3>1 DEF Signed, o
    <2> HIDE DEF v, u
    <2> QED
      BY Zenon, <1>0, <1>1, <1>3, <2>1, <2>4, OrderMoves
  <1>4. CASE d.flow.stage = "finalize"
    <2>1. ca' = [ca EXCEPT ![u] = s]
      <3> DEFINE b == [ca EXCEPT ![u] = r]
                 t == [b[u] EXCEPT !.key = k]
      <3>1. ca' = [b EXCEPT ![u] = t]
        BY <1>4 DEF AuthorityAfter
      <3>2. DOMAIN ca = 1..Len(ca) /\ u \in DOMAIN ca
        BY SMTT(30), <1>0, <1>1, <1>4, SeqIs DEF IsSeq
      <3>3. b[u] = r
        BY SMTT(30), <3>2
      <3> HIDE DEF r, k, u
      <3> QED
        BY Zenon, <3>1, <3>3
    <2>2. Signed(ca[u])
      BY <1>0, <1>1, <1>4
    <2>3. Signed(s) /\ s.key = k
      <3>1. r = [y \in OrderFields |-> r[y]]
        BY Zenon, <2>2 DEF Signed, OrderFields
      <3>2. k # None
        BY <1>0, AcmeOrderAssumption DEF Keyed
      <3> HIDE DEF r, k
      <3>3. s = [y \in OrderFields |-> s[y]] /\ s.key = k
        BY <3>1 DEF OrderFields
      <3> QED
        BY <3>2, <3>3 DEF Signed
    <2>4. \E m \in Nodes : Holder(m, u) /\ s.key = drive[m].key
      BY SMTT(30), <1>1, <1>4, <2>3
    <2> HIDE DEF s, u
    <2> QED
      BY Zenon, <1>0, <1>1, <1>4, <2>1, <2>3, <2>4, OrderMoves
  <1>5. CASE d.flow.stage \notin {"order", "accept", "finalize"}
    <2>1. ca' = ca
      BY Zenon, <1>5 DEF AuthorityAfter
    <2> QED
      BY <1>0, <1>5, <2>1 DEF AuthorityMoves, Hands
  <1> QED
    BY <1>2, <1>3, <1>4, <1>5

\* A drive that has nothing of an order.
LEMMA BlankTurn ==
  ASSUME NEW d, NEW e, e.pc \notin {"ask", "file", "publish", "store", "close", "take_over"},
         e.flow = Fresh, e.live = Nothing, e.url = None, NEW a
  PROVE  Turn(d, e) /\ Right(e, a) /\ Shape(e) /\ Held(e) = {}
  <1>1. ~Begun(e)
    BY DEF Begun
  <1>2. Fresh.order = None /\ Fresh.chain = None /\ Nothing.url = None
    BY Zenon DEF Fresh, Nothing
  <1>3. Held(e) = {}
    BY <1>2 DEF Held
  <1> QED
    BY <1>1, <1>2, <1>3 DEF Turn, Right, Shape

\* The account and the record are made (acme.rs open_order).
LEMMA OpenKeys ==
  ASSUME LifeInv, KeyInv, NEW n \in Nodes, MakeAccountKey(n) \/ OpenOrder(n)
  PROVE  KeyInv'
  <1> DEFINE d == drive[n]
             c == d.cert
             no == Fails(d)
  <1>0. DriveOK(d) /\ Shape(d) /\ StateOK(agreed)
    BY Zenon DEF LifeInv, KeyInv
  <1>1. d.pc \in {"make_account", "open_new"} /\ ca' = ca
    BY Zenon DEF MakeAccountKey, OpenOrder, At, outside
  <1>2. c \in Certs /\ d.flow = Fresh /\ d.live = Nothing /\ d.url = None
    BY Zenon, <1>0, <1>1 DEF Shape, Begun, DriveOK
  <1>3. \A a : Turn(d, no) /\ Right(no, a)
    BY Zenon, FailsLeaves, LeavesTurn
  <1> HIDE DEF no
  <1>4. CASE MakeAccountKey(n)
    <2> DEFINE next == [agreed EXCEPT !.account = n, !.config = d.config]
               e == [d EXCEPT !.pc = "open", !.account = n]
    <2>1. Update(n, next, e, no)
      BY <1>4 DEF MakeAccountKey, no
    <2>2. Same(agreed, next)
      <3>1. d.config \in SUBSET Certs
        BY Zenon, <1>0 DEF DriveOK
      <3> HIDE DEF d
      <3> QED
        BY Zenon, <1>0, <3>1, ConfigOK
    <2> HIDE DEF next
    <2>3. Others(c, agreed, next) /\ next.orders[c] = agreed.orders[c] /\ next.keys[c] = agreed.keys[c]
      BY Zenon, <1>2, <2>2 DEF Same, Others
    <2>4. e.pc = "open" /\ e.flow = Fresh /\ e.live = Nothing /\ e.url = None
      <3> HIDE DEF d
      <3> QED
        BY Zenon, <1>0, <1>2 DEF DriveOK, DriveFields
    <2> HIDE DEF e
    <2>5. Turn(d, e) /\ Right(e, next)
      BY <2>4, BlankTurn
    <2> QED
      BY Zenon, <1>1, <1>2, <1>3, <2>1, <2>3, <2>5, KeyUpdate
  <1>5. CASE OpenOrder(n)
    <2> DEFINE k == NewKey
               h == [d EXCEPT !.key = k]
               next == Rewritten(agreed, c, k)
               e == Attempt(h, 1)
               l == Reached(Fresh)
    <2>1. Update(n, next, e, no)
      BY <1>5 DEF OpenOrder, Rewritten, no
    <2>2. k \in Url /\ k \in Nat
      BY <1>5, KeyIsDrawn DEF Url
    <2> HIDE DEF k
    <2>3. DriveOK(h) /\ h.cert = c /\ h.key = k /\ h.url = None
      <3> HIDE DEF d
      <3> QED
        BY <1>0, <1>2, KeyOK DEF DriveOK, DriveFields, c
    <2> HIDE DEF h
    <2>4. e = [h EXCEPT !.pc = "ask", !.attempt = 1, !.flow = Fresh,
                        !.live = l, !.rejected = 0, !.closing = None]
      BY <2>3 DEF Attempt
    <2>5. Fresh.order = None /\ Fresh.chain = None /\ Fresh.stage = "account" /\ l.url = None
      BY DEF Fresh, Reached
    <2> HIDE DEF e, l
    <2>6. /\ e.pc = "ask" /\ e.attempt = 1 /\ e.flow = Fresh /\ e.live = l /\ e.cert = c
          /\ e.key = k /\ e.url = None
      BY Zenon, <2>3, <2>4 DEF DriveOK, DriveFields
    <2>7. Others(c, agreed, next) /\ next.keys[c] = k /\ next.orders[c].url = None
      <3> HIDE DEF c
      <3> QED
        BY Zenon, <1>0, <1>2, <2>2, RewrittenOK
    <2> HIDE DEF next
    <2>8. Held(e) = {}
      BY <2>5, <2>6 DEF Held
    <2>9. Shape(e) /\ Right(e, next)
      BY SMTT(30), <2>2, <2>5, <2>6, <2>7 DEF Shape, Keyed, Begun, Stages, Right
    <2>10. Turn(d, e)
      BY <2>6, <2>8, <2>9 DEF Turn
    <2> QED
      BY Zenon, <1>1, <1>2, <1>3, <2>1, <2>7, <2>9, <2>10, KeyUpdate
  <1> QED
    BY <1>4, <1>5

\* What is reached is recorded and published: the record names an order of the
\* drive that writes.
LEMMA RecordKeys ==
  ASSUME LifeInv, KeyInv, NEW n \in Nodes,
         \/ FileReached(n) \/ RecordWentAway(n) \/ Reachable(n) \/ NotReachable(n)
         \/ WriteRecords(n) \/ RecordsNotSeen(n) \/ ProviderFails(n)
  PROVE  KeyInv'
  <1> DEFINE d == drive[n]
             c == d.cert
             v == d.live.up
             e == [d EXCEPT !.up = v]
  <1>0. DriveOK(d) /\ Shape(d) /\ Right(d, agreed) /\ StateOK(agreed)
    BY Zenon DEF LifeInv, KeyInv
  <1>1. d.pc \in {"file", "publish"} /\ ca' = ca
    BY Zenon DEF FileReached, RecordWentAway, Reachable, NotReachable, WriteRecords,
                 RecordsNotSeen, ProviderFails, At, outside
  <1>2. c \in Certs /\ Keyed(d) /\ Begun(d)
    BY Zenon, <1>0, <1>1 DEF Shape, Begun, DriveOK
  <1>3. /\ "no_quorum" # None /\ "configuration" # None /\ "challenge" # None
        /\ "network" # None
    BY AcmeOrderAssumption DEF WorthRetrying
  <1>4. AuthorityMoves
    BY Zenon, <1>1 DEF AuthorityMoves, Hands, KeyInv, NamedInv
  <1>5. CASE FileReached(n)
    <2> DEFINE u == d.live.url
               w == IF kind = "http-01" THEN d.live.up ELSE {}
               next == Filed(agreed, c, u, w)
               no == RecordFailed(d, "no_quorum")
               ok == Publish(d)
    <2>1. Update(n, next, ok, no)
      BY <1>5 DEF FileReached, Filed
    <2>2. d.pc = "file" /\ agreed.keys[c] # None
      BY <1>5 DEF FileReached, At
    <2>3. u \in Nat /\ u \in Held(d)
      BY Zenon, <1>0, <2>2 DEF DriveOK, Url, Held
    <2>4. Onwards(d, no) /\ Onwards(d, ok)
      <3> HIDE DEF d
      <3> QED
        BY Zenon, <1>0, <1>2, <1>3, <2>2, PublishOnwards, RecordFailedOnwards
    <2> HIDE DEF u, w, ok, no
    <2>5. Others(c, agreed, next) /\ next.keys[c] = agreed.keys[c] /\ next.orders[c].url = u
      <3> HIDE DEF c, d, next
      <3>1. StateOK(agreed) /\ agreed.keys[c] # None
        BY Zenon, <1>0, <2>2
      <3>2. /\ Others(c, agreed, Filed(agreed, c, u, w))
            /\ Filed(agreed, c, u, w).keys[c] = agreed.keys[c]
            /\ Filed(agreed, c, u, w).orders[c].url = u
        BY <1>2, <2>3, <3>1, FiledOK
      <3> QED
        BY Zenon, <3>2 DEF next
    <2> HIDE DEF next
    <2>6. Right(d, next)
      BY Zenon, <1>0, <2>5 DEF Right
    <2>7. Turn(d, ok) /\ Right(ok, next) /\ Turn(d, no) /\ Right(no, agreed) /\ Right(no, next)
      BY Zenon, <1>0, <1>2, <2>4, <2>6, OnwardsTurn
    <2> QED
      BY Zenon, <1>1, <1>2, <2>1, <2>3, <2>5, <2>7, KeyUpdate
  <1>6. CASE RecordWentAway(n)
    <2> DEFINE no == RecordFailed(d, "configuration")
    <2>1. Becomes(n, no) /\ UNCHANGED <<agreed, overlapped>>
      BY Zenon, <1>6 DEF RecordWentAway, Proceeds
    <2>2. Onwards(d, no)
      <3> HIDE DEF d
      <3> QED
        BY <1>0, <1>2, <1>3, RecordFailedOnwards
    <2> HIDE DEF no
    <2>3. Turn(d, no) /\ Right(no, agreed)
      BY Zenon, <1>0, <1>2, <2>2, OnwardsTurn
    <2> QED
      BY Zenon, <1>4, <2>1, <2>3, KeyHere
  <1>7. CASE \/ Reachable(n) \/ NotReachable(n) \/ WriteRecords(n) \/ RecordsNotSeen(n)
             \/ ProviderFails(n)
    <2>1. PICK g : /\ Becomes(n, g)
                   /\ \/ g = RecordDone(e)
                      \/ \E why \in {"configuration", "challenge", "network"} :
                            g = RecordFailed(e, why)
      BY Zenon, <1>7 DEF Reachable, NotReachable, WriteRecords, RecordsNotSeen, ProviderFails,
                         Proceeds
    <2>2. d.pc = "publish" /\ UNCHANGED <<agreed, overlapped>>
      BY Zenon, <1>7 DEF Reachable, NotReachable, WriteRecords, RecordsNotSeen, ProviderFails, At
    <2> HIDE DEF v
    <2>3. /\ DriveOK(e) /\ e.cert = d.cert /\ e.key = d.key /\ e.url = d.url
          /\ e.pc = d.pc /\ e.flow = d.flow /\ e.live = d.live /\ e.stale = d.stale
          /\ e.attempt = d.attempt /\ e.closing = d.closing
      <3> HIDE DEF d
      <3> QED
        BY <1>0, UpOK DEF DriveOK, DriveFields
    <2> HIDE DEF e
    <2>4. Shape(e) /\ Keyed(e)
      BY Zenon, <1>0, <1>2, <2>3 DEF Shape, Keyed, Begun
    <2>5. Onwards(e, g)
      BY Zenon, <1>3, <2>1, <2>2, <2>3, <2>4, RecordDoneOnwards, RecordFailedOnwards
    <2>6. Onwards(d, g)
      BY Zenon, <2>3, <2>5, OnwardsSame
    <2>7. Turn(d, g) /\ Right(g, agreed)
      BY Zenon, <1>0, <1>2, <2>6, OnwardsTurn
    <2> QED
      BY Zenon, <1>4, <2>1, <2>2, <2>7, KeyHere
  <1> QED
    BY <1>5, <1>6, <1>7

\* What the order came to (acme.rs store_certificate, close_order).
LEMMA EndKeys ==
  ASSUME LifeInv, KeyInv, NEW n \in Nodes,
         StoreCertificate(n) \/ CloseOrder(n) \/ NothingToClose(n)
  PROVE  KeyInv'
  <1> DEFINE d == drive[n]
             c == d.cert
             b == Rewritten(agreed, c, None)
             ok == Succeeds(d)
             no == Fails(d)
  <1>0. DriveOK(d) /\ Shape(d) /\ Right(d, agreed) /\ StateOK(agreed)
    BY Zenon DEF LifeInv, KeyInv
  <1>1. d.pc \in {"store", "close"} /\ ca' = ca
    BY Zenon DEF StoreCertificate, CloseOrder, NothingToClose, At, outside
  <1>2. c \in Certs
    BY Zenon, <1>0, <1>1 DEF DriveOK
  <1>3. ok.pc = "next" /\ no.pc = "next"
    <2>1. no.pc = "next" /\ no = [x \in DriveFields |-> no[x]]
      BY ZenonT(60) DEF Fails, Idle, DriveFields
    <2> HIDE DEF no
    <2>2. ok = [no EXCEPT !.failed = d.failed \ {d.cert}]
      BY DEF Succeeds, no
    <2> QED
      BY <2>1, <2>2 DEF DriveFields
  <1>4. \A a : Turn(d, no) /\ Right(no, a) /\ Turn(d, ok) /\ Right(ok, a)
    <2>1. Shape(ok) /\ Shape(no)
      BY LeftOnwards DEF Onwards
    <2> HIDE DEF ok, no
    <2> QED
      BY Zenon, <1>3, <2>1, LeavesTurn
  <1>5. StateOK(b) /\ Others(c, agreed, b) /\ b.orders[c].url = None
    <2>1. None \in Url
      BY DEF Url
    <2> HIDE DEF c
    <2> QED
      BY <1>0, <1>2, <2>1, RewrittenOK
  <1>6. CASE StoreCertificate(n)
    <2> DEFINE next == Stored(b, c, d.key)
    <2>1. Update(n, next, ok, no)
      BY <1>6 DEF StoreCertificate, Stored, Rewritten, Without
    <2>2. next.keys = b.keys /\ next.orders = b.orders
      <3> HIDE DEF b, c
      <3> QED
        BY Zenon, <1>2, <1>5, StoredOK
    <2> HIDE DEF next, b, ok, no
    <2>3. Others(c, agreed, next) /\ next.orders[c].url = None
      <3> HIDE DEF c, d
      <3> QED
        BY Zenon, <1>5, <2>2 DEF Others
    <2> QED
      BY Zenon, <1>1, <1>2, <1>4, <2>1, <2>3, KeyUpdate
  <1>7. CASE CloseOrder(n)
    <2>1. Update(n, b, no, no)
      BY <1>7 DEF CloseOrder, Rewritten, Without
    <2> HIDE DEF b, ok, no
    <2> QED
      BY Zenon, <1>1, <1>2, <1>4, <1>5, <2>1, KeyUpdate
  <1>8. CASE NothingToClose(n)
    <2>1. Becomes(n, no) /\ UNCHANGED <<agreed, overlapped>>
      BY ZenonT(40), <1>8 DEF NothingToClose, Proceeds
    <2>2. AuthorityMoves
      BY <1>1 DEF AuthorityMoves, Hands, KeyInv, NamedInv
    <2> HIDE DEF ok, no
    <2> QED
      BY Zenon, <1>4, <2>1, <2>2, KeyHere
  <1> QED
    BY <1>6, <1>7, <1>8

\* An answer of the authority: the order it names is the drive's own, the chain
\* was issued for the key the drive has.
LEMMA AnswerKeys ==
  ASSUME LifeInv, KeyInv, NEW n \in Nodes, Ask(n)
  PROVE  KeyInv'
  <1> DEFINE d == drive[n]
             f == d.flow
  <1>0. d.pc = "ask" /\ Served(n) /\ UNCHANGED <<agreed, overlapped>>
    BY Zenon DEF Ask, At
  <1>1. /\ DriveOK(d) /\ Shape(d) /\ Right(d, agreed) /\ FlowOK(f) /\ IsSeq(ca)
        /\ \A u \in DOMAIN ca : Signed(ca[u])
    BY Zenon DEF LifeInv, KeyInv, DriveOK, NamedInv
  <1>2. Keyed(d) /\ f.stage # "done" /\ f.stage \in Stages /\ Begun(d)
    BY Zenon, <1>0, <1>1 DEF Shape, Keyed, Begun
  <1>3. PICK reuse \in BOOLEAN :
           /\ ca' = AuthorityAfter(n, reuse)
           /\ Becomes(n, Read(d, Accept(f, Document(n, ca'))))
    BY Zenon DEF Ask, Proceeds
  <1>4. /\ AuthorityMoves
        /\ f.stage \notin {"order", "accept", "finalize"} => ca' = ca
        /\ f.stage = "order" => ca' = Append(ca, Placed(d, reuse))
    BY Zenon, <1>0, <1>3, AskMoves
  <1>5. f.stage = "order" => Len(ca') \in Nat
    BY Zenon, <1>1, <1>3, AuthorityOK
  <1>6. PICK a : a = Document(n, ca')
    OBVIOUS
  <1>7. /\ f.stage = "order" => a.order = Len(ca')
        /\ f.stage = "download" => a.chain = [key |-> ca'[f.order].key,
                                              usable |-> ca'[f.order].usable]
    BY Zenon, <1>6 DEF Document
  <1> DEFINE r == Accept(f, a)
  <1>8. PICK e : e = Read(d, r) /\ Becomes(n, e)
    BY SMTT(30), <1>3, <1>6
  <1>9. /\ FlowOK(r.flow) /\ (f.order # None => r.flow.order # None)
        /\ r.flow.stage \in Stages
        /\ r.flow.order = IF f.stage = "order" THEN a.order ELSE f.order
        /\ r.flow.chain = IF f.stage = "download" THEN a.chain ELSE f.chain
    <2>1. f.stage = "order" => a.order \in Nat
      BY <1>5, <1>7
    <2> HIDE DEF d, f
    <2>2. FlowOK(r.flow) /\ (f.order # None => r.flow.order # None)
      BY Zenon, <1>1, <2>1, AcceptOK
    <2>3. Reads(r.flow, Stages, IF f.stage = "order" THEN a.order ELSE f.order,
                                IF f.stage = "download" THEN a.chain ELSE f.chain)
      BY Zenon, <1>1, <1>2, <2>1, AcceptReads
    <2> QED
      BY <2>2, <2>3 DEF Reads
  <1> HIDE DEF r
  <1>10. /\ Shape(e)
         /\ \/ e.pc = "next"
            \/ /\ Begun(e) /\ e.cert = d.cert /\ e.key = d.key /\ e.stale = d.stale
               /\ e.url = d.url /\ Held(e) \subseteq Held(d) \cup ({r.flow.order} \ {None})
               /\ e.flow.chain \in {None, r.flow.chain}
    <2>1. /\ Shape(Read(d, r))
          /\ \/ Read(d, r).pc = "next"
             \/ /\ Begun(Read(d, r)) /\ Read(d, r).cert = d.cert /\ Read(d, r).key = d.key
                /\ Read(d, r).stale = d.stale /\ Read(d, r).url = d.url
                /\ Held(Read(d, r)) \subseteq Held(d) \cup ({r.flow.order} \ {None})
                /\ Read(d, r).flow.chain \in {None, r.flow.chain}
      <3> HIDE DEF d
      <3> QED
        BY Zenon, <1>0, <1>1, <1>2, <1>9, ReadOnwards DEF f
    <2> QED
      BY Zenon, <1>8, <2>1
  <1>11. CASE e.pc = "next"
    <2>1. Turn(d, e) /\ Right(e, agreed)
      BY Zenon, <1>10, <1>11, LeavesTurn
    <2> QED
      BY Zenon, <1>0, <1>4, <1>8, <2>1, KeyHere
  <1>12. CASE e.pc # "next"
    <2>1. /\ Begun(e) /\ e.cert = d.cert /\ e.key = d.key /\ e.stale = d.stale
          /\ e.url = d.url /\ Held(e) \subseteq Held(d) \cup ({r.flow.order} \ {None})
          /\ e.flow.chain \in {None, r.flow.chain}
      BY SMTT(30), <1>10, <1>12
    <2>2. e.pc # "take_over" /\ e.url \in Orders
      BY <2>1 DEF Begun, KeyInv, NamedInv
    <2>3. CASE f.stage = "order"
      <3>1. PICK w : w = Len(ca')
        BY Zenon
      <3>2. /\ DOMAIN ca' = DOMAIN ca \cup {w} /\ w \in Nat \ DOMAIN ca
            /\ \A u \in DOMAIN ca : ca'[u] = ca[u]
            /\ Signed(ca'[w]) /\ ca'[w].key = None
        BY ZenonT(40), <1>1, <1>4, <2>3, <3>1, OrderPlaced
      <3>3. w \notin Orders
        BY SMTT(30), <3>2, AcmeOrderAssumption DEF Orders
      <3>4. Held(e) \subseteq Held(d) \cup {w}
        BY <1>7, <1>9, <2>1, <2>3, <3>1
      <3>5. Right(e, agreed)
        <4>1. e.flow.chain \in {None, f.chain}
          BY <1>9, <2>1, <2>3
        <4> QED
          BY ZenonT(40), <1>1, <1>2, <2>1, <4>1 DEF Right
      <3> QED
        BY Zenon, <1>0, <1>2, <1>8, <1>10, <2>1, <2>2, <3>2, <3>3, <3>4, <3>5, KeyNamed
    <2>4. CASE f.stage # "order"
      <3>1. Held(e) \subseteq Held(d)
        BY <1>9, <2>1, <2>4 DEF Held
      <3>2. Turn(d, e)
        BY Zenon, <1>2, <1>10, <2>1, <2>2, <3>1 DEF Turn
      <3>3. ASSUME ~d.stale, Promised(d.cert), f.stage = "download"
            PROVE  a.chain.key = d.key
        <4> DEFINE u == f.order
        <4>1. ca' = ca
          BY SMTT(30), <1>4, <3>3
        <4>2. u \in Held(d) /\ u \in DOMAIN ca
          <5>1. u # None
            BY <1>1, <3>3 DEF FlowOK
          <5> QED
            BY SMTT(30), <5>1 DEF Held, KeyInv, NamedInv
        <4>3. ca[u].status = "valid"
          BY SMTT(30), <1>0, <3>3 DEF Served, Own
        <4>4. ca[u].key # None
          BY <1>1, <4>2, <4>3 DEF Signed
        <4>5. Owned(u, d.cert, d.key)
          BY ZenonT(40), <1>2, <3>3, <4>2 DEF KeyInv, OwnInv, Current
        <4>6. ca[u].key = d.key
          BY <4>4, <4>5 DEF Owned
        <4>7. a.chain = [key |-> ca[u].key, usable |-> ca[u].usable]
          BY Zenon, <1>7, <3>3, <4>1
        <4> HIDE DEF u
        <4> QED
          BY SMTT(30), <4>6, <4>7
      <3>4. Right(e, agreed)
        <4>1. e.flow.chain \in {None, IF f.stage = "download" THEN a.chain ELSE f.chain}
          BY <1>9, <2>1
        <4> HIDE DEF f
        <4> QED
          BY ZenonT(40), <1>1, <1>2, <2>1, <3>3, <4>1 DEF Right, f
      <3> QED
        BY ZenonT(40), <1>0, <1>4, <1>8, <3>2, <3>4, KeyHere
    <2> QED
      BY SMTT(30), <2>3, <2>4
  <1> QED
    BY <1>11, <1>12

\* No answer, or a refusal.
LEMMA AskKeys ==
  ASSUME LifeInv, KeyInv, NEW n \in Nodes, AskRefused(n) \/ AskLost(n) \/ NonceRefused(n)
  PROVE  KeyInv'
  <1> DEFINE d == drive[n]
  <1>0. d.pc = "ask" /\ UNCHANGED <<agreed, overlapped>>
    BY Zenon DEF AskRefused, AskLost, NonceRefused, At
  <1>1. DriveOK(d) /\ Shape(d) /\ Right(d, agreed)
    BY Zenon DEF LifeInv, KeyInv
  <1>2. Keyed(d)
    BY <1>0, <1>1 DEF Shape, Begun
  <1>3. AuthorityMoves
    <2>1. ca' = ca \/ ca' = AuthorityAfter(n, FALSE)
      BY Zenon DEF AskRefused, AskLost, NonceRefused, outside
    <2>2. CASE ca' = ca
      BY Zenon, <2>2 DEF AuthorityMoves, Hands, KeyInv, NamedInv
    <2>3. CASE ca' = AuthorityAfter(n, FALSE)
      BY ZenonT(40), <1>0, <2>3, AskMoves
    <2> QED
      BY Zenon, <2>1, <2>2, <2>3
  <1>4. "server" # None /\ "network" # None
    BY AcmeOrderAssumption DEF WorthRetrying
  <1> DEFINE v == d.rejected + 1
             g == [d EXCEPT !.rejected = v]
  <1>5. PICK e : /\ Becomes(n, e)
                 /\ \/ e = DriveOver(d, "server") \/ e = DriveOver(d, "network")
                    \/ e = g
    BY ZenonT(40) DEF AskRefused, AskLost, NonceRefused, Proceeds
  <1> HIDE DEF v
  <1>6. Onwards(d, g)
    <2> HIDE DEF d
    <2>1. /\ g.pc = "ask" /\ g.cert = d.cert /\ g.key = d.key /\ g.stale = d.stale
          /\ g.url = d.url /\ g.flow = d.flow /\ g.live = d.live /\ g.attempt = d.attempt
      BY SMTT(30), <1>0, <1>1 DEF DriveOK, DriveFields
    <2> HIDE DEF g
    <2> QED
      BY SMTT(30), <1>0, <1>1, <1>2, <2>1 DEF Onwards, Shape, Stays, Begun, Keyed, Held
  <1> HIDE DEF g
  <1>7. Onwards(d, e)
    <2> HIDE DEF d
    <2> QED
      BY SMTT(30), <1>1, <1>2, <1>4, <1>5, <1>6, DriveOverOnwards
  <1>8. Turn(d, e) /\ Right(e, agreed)
    BY Zenon, <1>1, <1>2, <1>7, OnwardsTurn
  <1> QED
    BY Zenon, <1>0, <1>3, <1>5, <1>8, KeyHere

\* Between two orders there is nothing of either.
LEMMA SweepKeys ==
  ASSUME LifeInv, KeyInv, NEW n \in Nodes, Sweeping(n)
  PROVE  KeyInv'
  <1> DEFINE d == drive[n]
             w == Tail(d.wanted)
             c == Head(d.wanted)
  <1>0. DriveOK(d) /\ Shape(d)
    BY Zenon DEF LifeInv, KeyInv
  <1>1. UNCHANGED <<agreed, overlapped, ca>> /\ d.pc \in {"idle", "next"}
    BY Zenon DEF Sweeping, StartSweep, SkipOrder, UnknownCertificate, BeginOrder, EndSweep,
                 outside, At
  <1>2. d.flow = Fresh /\ d.live = Nothing /\ d.url = None
    BY <1>0, <1>1 DEF Shape, Begun
  <1>3. AuthorityMoves
    BY Zenon, <1>1 DEF AuthorityMoves, Hands, KeyInv, NamedInv
  <1>4. ASSUME NEW e, Becomes(n, e), e.pc \in {"idle", "next", "make_account", "open"},
               e.flow = Fresh, e.live = Nothing, e.url = None
        PROVE  KeyInv'
    <2>1. Turn(d, e) /\ Right(e, agreed)
      BY <1>4, BlankTurn
    <2> QED
      BY Zenon, <1>1, <1>3, <1>4, <2>1, KeyHere
  <1>5. CASE StartSweep(n)
    <2> DEFINE v == Wanted
               r == Certs \ waits[n]
               e == [Idle EXCEPT !.pc = "next", !.wanted = v, !.config = agreed.config, !.ready = r]
    <2>1. Becomes(n, e)
      BY <1>5 DEF StartSweep
    <2> HIDE DEF v, r
    <2>2. e.pc = "next" /\ e.flow = Fresh /\ e.live = Nothing /\ e.url = None
      BY ZenonT(60) DEF Idle
    <2> HIDE DEF e
    <2> QED
      BY <1>4, <2>1, <2>2
  <1>6. CASE SkipOrder(n)
    <2> DEFINE e == [d EXCEPT !.wanted = w]
    <2>1. Becomes(n, e) /\ d.pc = "next"
      BY <1>6 DEF SkipOrder, At
    <2>2. e.pc = d.pc /\ e.flow = Fresh /\ e.live = Nothing /\ e.url = None
      <3> HIDE DEF d, w
      <3> QED
        BY <1>0, <1>2 DEF DriveOK, DriveFields
    <2> HIDE DEF e
    <2> QED
      BY <1>4, <2>1, <2>2
  <1>7. CASE UnknownCertificate(n)
    <2> DEFINE f == d.failed \cup {c}
               e == [d EXCEPT !.wanted = w, !.failed = f]
    <2>1. Becomes(n, e) /\ d.pc = "next"
      BY <1>7 DEF UnknownCertificate, At
    <2>2. e.pc = d.pc /\ e.flow = Fresh /\ e.live = Nothing /\ e.url = None
      <3> HIDE DEF d, w, f
      <3> QED
        BY Zenon, <1>0, <1>2 DEF DriveOK, DriveFields
    <2> HIDE DEF e
    <2> QED
      BY <1>4, <2>1, <2>2
  <1>8. CASE BeginOrder(n)
    <2> DEFINE g == [d EXCEPT !.wanted = w, !.cert = c]
               a == [g EXCEPT !.pc = "make_account"]
               b == [g EXCEPT !.pc = "open", !.account = agreed.account]
    <2>1. Becomes(n, a) \/ Becomes(n, b)
      BY Zenon, <1>8 DEF BeginOrder
    <2>2. /\ g = [x \in DriveFields |-> g[x]]
          /\ g.flow = Fresh /\ g.live = Nothing /\ g.url = None
      <3> HIDE DEF d, w, c
      <3> QED
        BY Zenon, <1>0, <1>2 DEF DriveOK, DriveFields
    <2> HIDE DEF g
    <2>3. a.pc = "make_account" /\ a.flow = Fresh /\ a.live = Nothing /\ a.url = None
      BY <2>2 DEF DriveFields
    <2>4. b.pc = "open" /\ b.flow = Fresh /\ b.live = Nothing /\ b.url = None
      BY Zenon, <2>2 DEF DriveFields
    <2> HIDE DEF a, b
    <2> QED
      BY <1>4, <2>1, <2>3, <2>4
  <1>9. CASE EndSweep(n)
    <2>1. Becomes(n, Idle)
      BY <1>9 DEF EndSweep
    <2>2. Idle.pc = "idle" /\ Idle.flow = Fresh /\ Idle.live = Nothing /\ Idle.url = None
      BY Zenon DEF Idle
    <2> QED
      BY Zenon, <1>4, <2>1, <2>2
  <1> QED
    BY <1>5, <1>6, <1>7, <1>8, <1>9 DEF Sweeping

\* Nothing of the drives and the records.
LEMMA KeyStays ==
  ASSUME KeyInv, UNCHANGED <<drive, overlapped>>, agreed'.keys = agreed.keys,
         agreed'.orders = agreed.orders, AuthorityMoves
  PROVE  KeyInv'
  <1>1. \A m \in Nodes : (Shape(drive[m]) /\ Right(drive[m], agreed) /\ Found(drive[m], agreed))'
    BY Zenon DEF KeyInv, Right, Found, Promised
  <1>2. NamedInv'
    BY Zenon DEF NamedInv, Orders, AuthorityMoves, KeyInv
  <1>3. \A u : \A m \in Nodes : ThinsAt(u, drive[m], drive'[m])
    BY DEF ThinsAt
  <1>4. \A o \in Certs : Renames(o)
    BY DEF Renames
  <1>5. ASSUME NEW u, NEW c, NEW k, Claims(u, c, k)' PROVE Owned(u, c, k)'
    <2>1. u # None
      BY <1>5, HeldIs DEF Claims, Holder
    <2> QED
      BY Zenon, <1>3, <1>4, <1>5, <2>1, OwnStep DEF AuthorityMoves
  <1>6. AllOwned'
    BY <1>5 DEF AllOwned
  <1>7. OwnInv'
    BY <1>6, OwnedByClaims, PTL
  <1> QED
    BY <1>1, <1>2, <1>7 DEF KeyInv

\* The authority decides: it signs for no other key.
LEMMA DecidingMoves ==
  ASSUME LifeInv, KeyInv, Deciding
  PROVE  AuthorityMoves
  <1>0. IsSeq(ca) /\ \A u \in DOMAIN ca : Signed(ca[u])
    BY DEF LifeInv, KeyInv, NamedInv
  <1>1. ASSUME NEW u \in DOMAIN ca, NEW x, NEW n \in Nodes, Check(u, x, n)
        PROVE  AuthorityMoves
    <2> DEFINE o == ca[u]
    <2>1. PICK z, s :
             /\ s \in {"ready", "pending"}
             /\ \/ ca' = [ca EXCEPT ![u] = [o EXCEPT !.status = "invalid"]]
                \/ ca' = [ca EXCEPT ![u] = [o EXCEPT !.authz = z, !.status = s]]
      BY Zenon, <1>1 DEF Check
    <2>2. Signed(o)
      BY <1>0
    <2> HIDE DEF o
    <2> DEFINE v == [o EXCEPT !.status = "invalid"]
               y == [o EXCEPT !.authz = z, !.status = s]
    <2>3. v = [i \in OrderFields |-> v[i]] /\ v.status = "invalid" /\ v.key = o.key
      BY <2>2 DEF Signed, OrderFields
    <2>4. y = [i \in OrderFields |-> y[i]] /\ y.status = s /\ y.key = o.key
      BY Zenon, <2>2 DEF Signed, OrderFields
    <2>5. ca' = [ca EXCEPT ![u] = v] \/ ca' = [ca EXCEPT ![u] = y]
      BY <2>1
    <2> HIDE DEF v, y
    <2>6. Signed(v) /\ Signed(y) /\ v.key = ca[u].key /\ y.key = ca[u].key
      BY <2>1, <2>3, <2>4 DEF Signed, o
    <2> QED
      BY <1>0, <2>5, <2>6, OrderMoves
  <1>2. ASSUME NEW u \in DOMAIN ca, Issue(u)
        PROVE  AuthorityMoves
    <2> DEFINE o == ca[u]
    <2>1. PICK fine \in Issues : ca' = [ca EXCEPT ![u].status = "valid", ![u].usable = fine]
      BY Zenon, <1>2 DEF Issue
    <2>2. o.status = "processing" /\ Signed(o)
      BY <1>0, <1>2 DEF Issue
    <2> DEFINE r == [o EXCEPT !.status = "valid"]
               b == [ca EXCEPT ![u] = r]
               t == [b[u] EXCEPT !.usable = fine]
               s == [r EXCEPT !.usable = fine]
    <2>3. ca' = [ca EXCEPT ![u] = s]
      <3>1. ca' = [b EXCEPT ![u] = t]
        BY <2>1
      <3>2. DOMAIN ca = 1..Len(ca) /\ u \in DOMAIN ca
        BY <1>0, SeqIs DEF IsSeq
      <3>3. b[u] = r
        BY <3>2
      <3> HIDE DEF r
      <3> QED
        BY Zenon, <3>1, <3>3
    <2> HIDE DEF o
    <2>4. r = [y \in OrderFields |-> r[y]] /\ r.key = o.key /\ r.status = "valid"
      BY <2>2 DEF Signed, OrderFields
    <2> HIDE DEF r
    <2>5. s = [y \in OrderFields |-> s[y]] /\ s.key = o.key
      BY <2>4 DEF OrderFields
    <2> HIDE DEF s
    <2>6. Signed(s) /\ s.key = ca[u].key
      BY <2>2, <2>5 DEF Signed, o
    <2> QED
      BY Zenon, <1>0, <2>3, <2>6, OrderMoves
  <1> QED
    BY <1>1, <1>2 DEF Deciding

\* The node processes, the operator, the authority, time.
LEMMA OutsideKeys ==
  ASSUME LifeInv, KeyInv,
         \/ \E n \in Nodes : PublishAnswers(n) \/ Stop(n) \/ Elect(n) \/ WaitOver(n)
         \/ Deciding
         \/ \E S \in SUBSET Certs : Apply(S)
         \/ UNCHANGED vars
  PROVE  KeyInv'
  <1>1. ca' = ca => AuthorityMoves
    BY Zenon DEF AuthorityMoves, Hands, KeyInv, NamedInv
  <1>2. ASSUME NEW n \in Nodes, Stop(n)
        PROVE  KeyInv'
    <2>1. Becomes(n, Idle) /\ UNCHANGED <<agreed, overlapped, ca>>
      BY <1>2 DEF Stop
    <2>2. Idle.pc = "idle" /\ Idle.flow = Fresh /\ Idle.live = Nothing /\ Idle.url = None
      BY Zenon DEF Idle
    <2> HIDE DEF Idle
    <2>3. Turn(drive[n], Idle) /\ Right(Idle, agreed)
      BY <2>2, BlankTurn
    <2> QED
      BY Zenon, <1>1, <2>1, <2>3, KeyHere
  <1>3. CASE \/ \E n \in Nodes : PublishAnswers(n) \/ Elect(n) \/ WaitOver(n)
             \/ UNCHANGED vars
    <2>1. UNCHANGED <<agreed, drive, overlapped, ca>>
      BY Zenon, <1>3 DEF PublishAnswers, Elect, WaitOver, vars, outside
    <2> QED
      BY <1>1, <2>1, KeyStays
  <1>4. CASE Deciding
    <2>1. UNCHANGED <<agreed, drive, overlapped>>
      BY Zenon, <1>4 DEF Deciding, Check, Issue
    <2> QED
      BY <1>4, <2>1, DecidingMoves, KeyStays
  <1>5. ASSUME NEW S \in SUBSET Certs, Apply(S)
        PROVE  KeyInv'
    <2>1. agreed' = [agreed EXCEPT !.config = S] /\ UNCHANGED <<drive, overlapped, ca>>
      BY <1>5 DEF Apply
    <2>2. agreed'.orders = agreed.orders /\ agreed'.keys = agreed.keys
      BY <2>1 DEF LifeInv, StateOK, StateFields
    <2> QED
      BY <1>1, <2>1, <2>2, KeyStays
  <1> QED
    BY <1>2, <1>3, <1>4, <1>5

\* Every step of the cluster keeps who has an order with which key.
LEMMA NextKeys ==
  ASSUME LifeInv, KeyInv, [Next]_vars
  PROVE  KeyInv'
  <1>1. ASSUME NEW n \in Nodes, Ordering(n) PROVE KeyInv'
    BY Zenon, <1>1, OpenKeys, FindKeys, TakeKeys, RecordKeys, AnswerKeys, AskKeys, EndKeys
       DEF Ordering
  <1> QED
    BY Zenon, <1>1, SweepKeys, OutsideKeys DEF Next

\* Nobody has an order at first.
LEMMA InitKeys ==
  ASSUME Init
  PROVE  KeyInv
  <1>1. /\ \A n \in Nodes : drive[n] = Idle
        /\ \A c \in Certs : agreed.orders[c] = NoRecord
        /\ ca = << >>
    BY Zenon DEF Init
  <1>2. Idle.pc = "idle" /\ Idle.flow = Fresh /\ Idle.live = Nothing /\ Idle.url = None
    BY Zenon DEF Idle
  <1> HIDE DEF Idle
  <1>3. Shape(Idle) /\ Right(Idle, agreed) /\ Held(Idle) = {} /\ ~Begun(Idle) /\ Found(Idle, agreed)
    BY <1>2, BlankTurn DEF Begun, Found
  <1>4. NoRecord.url = None /\ DOMAIN ca = {}
    BY <1>1 DEF NoRecord
  <1>5. NamedInv
    BY <1>1, <1>2, <1>3, <1>4 DEF NamedInv, Orders
  <1>6. OwnInv
    BY Zenon, <1>1, <1>3, <1>4 DEF OwnInv
  <1> QED
    BY <1>1, <1>3, <1>5, <1>6 DEF KeyInv

\* What it says of a chain that was downloaded.
LEMMA KeysMean ==
  ASSUME KeyInv
  PROVE  TakenOverFits
  BY DEF KeyInv, Right, TakenOverFits

(***************************************************************************)
(* The theorems.                                                           *)
(***************************************************************************)

\* The invariants of the shapes and of the keys hold together.
LEMMA KeysKept == Spec => [](LifeInv /\ KeyInv)
  <1>1. Init => LifeInv /\ KeyInv
    BY InitLives, InitKeys
  <1>2. (LifeInv /\ KeyInv) /\ [Next]_vars => (LifeInv /\ KeyInv)'
    BY NextLives, NextKeys
  <1> QED
    BY <1>1, <1>2, PTL DEF Spec

\* However often an order changes hands, the certificate that is downloaded for
\* it is one for the key of whoever downloads it (open_order, resume), as long
\* as no two nodes have written about it in turns.
THEOREM OneOrderOneKey == Spec => []TakenOverFits
  <1>1. LifeInv /\ KeyInv => TakenOverFits
    BY KeysMean
  <1> QED
    BY <1>1, KeysKept, PTL
==============================================================================
