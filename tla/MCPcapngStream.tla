-------------------------- MODULE MCPcapngStream --------------------------
(* Three interfaces of two sources, with the hashes the code computes.      *)
(* Source 1 sends packets of link type 195 and packets without data, for    *)
(* which it is 0; the hash of source 7 with type 192 is that of the first.  *)
EXTENDS PcapngStream, Bitwise, TLC

CONSTANTS i1, i2, i3

MCNumber == i1 :> 1 @@ i2 :> 7 @@ i3 :> 1
MCLinkType == i1 :> 195 @@ i2 :> 192 @@ i3 :> 0
MCIndex == [s \in Interfaces |-> MCNumber[s] ^^ (2 * MCLinkType[s])]
MCSizeOf == [shb |-> 1, idb |-> 1, epb |-> 1]

=============================================================================
