----------------------------- MODULE MCRateLimit -----------------------------
(* Two addresses: one of a polite client, one that a polite client shares     *)
(* with an impatient one.                                                     *)
EXTENDS RateLimit
CONSTANTS c1, c2, c3, home, office

ThreeClients == {c1, c2, c3}
TwoAddresses == {home, office}
MCAddressOf == [c \in ThreeClients |-> IF c = c1 THEN home ELSE office]
MCPolite == {c1, c2}
==============================================================================
