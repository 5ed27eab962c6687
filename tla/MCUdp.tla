-------------------------------- MODULE MCUdp --------------------------------
\* Instances of Udp for model checking.
EXTENDS Udp

CONSTANTS s1, s2, s3, h1, h2, none

MCSockets == {s1, s2, s3}
TwoSockets == {s1, s2}
MCHosts == {h1, h2}
MCRemotePorts == {7}
MCListenPorts == {5}
Short == {1}
\* 1337 is 5 * 256 + 57; a payload of 250 bytes makes the length field 258.
AnyLength == {1, 250}

SocketSymmetry == Permutations(Sockets) \cup Permutations(Hosts)
=============================================================================
