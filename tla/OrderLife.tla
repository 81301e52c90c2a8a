------------------------------ MODULE OrderLife ------------------------------
(***************************************************************************)
(* What the record of a certificate order promises to whoever takes the    *)
(* order over (ek-ek-store/src/order.rs, ek-ek/src/acme.rs): it is opened   *)
(* with its signing key before the certificate authority has named          *)
(* anything, keeps that key for as long as it lives, names an order once     *)
(* there is one and never forgets it, and goes whole.                        *)
(***************************************************************************)
CONSTANTS None, Certs, Keys, Urls

VARIABLES
    key,    \* of each certificate: the signing key, None when there is no record
    url     \* the order the certificate authority named, None before

lifeVars == <<key, url>>

OnlyOf(f, c) == f' = [f EXCEPT ![c] = f'[c]]

Open(c) == /\ key[c] = None /\ OnlyOf(key, c) /\ key'[c] \in Keys
           /\ url[c] = None /\ url' = url

\* The order is named, or a new one takes its place.
Name(c) == /\ key[c] # None /\ key' = key
           /\ OnlyOf(url, c) /\ url'[c] \in Urls

Close(c) == /\ key[c] # None
            /\ OnlyOf(key, c) /\ key'[c] = None
            /\ OnlyOf(url, c) /\ url'[c] = None

LifeInit == key = [c \in Certs |-> None] /\ url = [c \in Certs |-> None]

LifeNext == \E c \in Certs : Open(c) \/ Name(c) \/ Close(c)

Life == LifeInit /\ [][LifeNext]_lifeVars
==============================================================================
