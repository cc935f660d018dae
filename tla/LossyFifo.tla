----------------------------- MODULE LossyFifo -----------------------------
(***************************************************************************)
(* What the engine promises about the packets it has accepted for a        *)
(* virtual port: they reach the port in the order in which they were       *)
(* accepted, each at most once; some may be lost on the way.               *)
(***************************************************************************)
EXTENDS Naturals, Sequences

CONSTANTS
    Port,       \* the virtual ports
    Pkt         \* packet descriptors

VARIABLES
    chan,       \* chan[k]: accepted for port k, not yet delivered or lost
    out         \* out[k]: delivered to port k, not yet taken by the container

vars == <<chan, out>>

Init ==
    /\ chan = [k \in Port |-> << >>]
    /\ out = [k \in Port |-> << >>]

Accept(k, m) ==
    /\ chan' = [chan EXCEPT ![k] = Append(chan[k], m)]
    /\ UNCHANGED out

(* Packets i + 1 .. j of the channel are lost; this may be the packet that *)
(* has just been accepted.                                                 *)
Lose(k) ==
    \E s \in {chan[k]} \cup {Append(chan[k], m) : m \in Pkt} :
        \E i \in 0 .. Len(s) : \E j \in i .. Len(s) :
            /\ chan' = [chan EXCEPT
                            ![k] = SubSeq(s, 1, i) \o SubSeq(s, j + 1, Len(s))]
            /\ UNCHANGED out

(* The oldest i packets are delivered and the next j - i ones are lost.    *)
Deliver(k) ==
    \E s \in {chan[k]} \cup {Append(chan[k], m) : m \in Pkt} :
        \E i \in 0 .. Len(s) : \E j \in i .. Len(s) :
            /\ out' = [out EXCEPT ![k] = out[k] \o SubSeq(s, 1, i)]
            /\ chan' = [chan EXCEPT ![k] = SubSeq(s, j + 1, Len(s))]

Receive(k) ==
    /\ out[k] # << >>
    /\ out' = [out EXCEPT ![k] = Tail(out[k])]
    /\ UNCHANGED chan

Next ==
    \E k \in Port : \/ \E m \in Pkt : Accept(k, m)
                    \/ Lose(k)
                    \/ Deliver(k)
                    \/ Receive(k)

Spec == Init /\ [][Next]_vars

=============================================================================
