---------------------------- MODULE MCDataplane ----------------------------
(***************************************************************************)
(* Small instances of Dataplane for TLC.                                   *)
(***************************************************************************)
EXTENDS Dataplane, TLC

(* One accepted and one rejected packet for port 0, an accepted packet for *)
(* port 1, a packet that is not IPv4, and one for the address 192.167.0.1, *)
(* whose routing entry is UINT16_MAX.                                      *)
MCHdr ==
    {[ipv4 |-> TRUE, dst |-> KniIp(0), accept |-> TRUE],
     [ipv4 |-> TRUE, dst |-> KniIp(0), accept |-> FALSE],
     [ipv4 |-> TRUE, dst |-> KniIp(1), accept |-> TRUE],
     [ipv4 |-> FALSE, dst |-> KniIp(1), accept |-> TRUE],
     [ipv4 |-> TRUE, dst |-> 1, accept |-> TRUE]}

(* Headers for the liveness run: an accepted packet for port 0 and a       *)
(* rejected one for port 1.                                                *)
MCHdrLive ==
    {[ipv4 |-> TRUE, dst |-> KniIp(0), accept |-> TRUE],
     [ipv4 |-> TRUE, dst |-> KniIp(1), accept |-> FALSE]}

(* The address 192.167.10.200, which no virtual port has.                  *)
MCHdrUnknown == {[ipv4 |-> TRUE, dst |-> 10 * 256 + 200, accept |-> TRUE]}

MCMbufSymmetry == Permutations(Mbuf)

=============================================================================
