-------------------------------- MODULE MCArp --------------------------------
\* Instances of Arp for model checking.
EXTENDS Arp

CONSTANTS c1, c2, c3, h1, h2, our, m1, m2, m3, nomac

MCCallers == {c1, c2, c3}
MCHosts == {h1, h2}
MCMacs == {m1, m2, m3}
\* Two calls want the same host, which changes its hardware address.
MCWants == [c \in Callers |-> IF c = c3 THEN h2 ELSE h1]
MCMacsOf == [h \in MCHosts |-> IF h = h1 THEN {m1, m2} ELSE {m3}]
=============================================================================
