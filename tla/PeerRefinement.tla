--------------------------- MODULE PeerRefinement ---------------------------
(***************************************************************************)
(* The peers of Peer implement FeedReplication, in any network; and in a   *)
(* star no announcement is ever lost.                                      *)
(***************************************************************************)
EXTENDS Peer, Functions

R == INSTANCE FeedReplication

\* Whatever the handlers of peer.rs do, through duplicates, failed peers and
\* lost connections, blocks and lengths only spread from a node that has them
\* to one it is connected to, and no node loses any (on_request, on_data).
ImplementsReplication == R!Spec

\* A Data that node m sent names what m has.
Backed(d, m) == d.len <= len[m] /\ (d.full => d.index \in has[m])

\* The invariant behind ImplementsReplication, for any network: what is on the
\* way in a Data (on_request) the sender still has when it arrives (on_data),
\* and no node is ahead of the writer.
SpreadInv ==
    /\ has[Writer] = Written
    /\ \A n \in Nodes : len[n] <= len[Writer] /\ has[n] \subseteq 0 .. len[n] - 1
    /\ \A p \in Peers : \A m \in Range(inbox[p]) : m.type = "data" => Backed(m, p[2])

-----------------------------------------------------------------------------
(* Announcements.                                                          *)

\* The Want of peer p is still to be sent or to be answered.
Asking(p) == status[p] = "init" \/ Want \in Range(inbox[Other(p)])

\* Message m announces block i or brings it.
Brings(m, i) ==
    \/ m = Have(i)
    \/ m.type = "bits" /\ i \in m.set
    \/ m.type = "data" /\ m.index = i

OnItsWay(p, i) ==
    \/ Asking(p)
    \/ \E m \in Range(inbox[p]) : Brings(m, i)
    \/ Request(i) \in Range(inbox[Other(p)])
    \/ i = len[Writer] - 1 /\ Appended \in Range(events[Other(p)])

\* At every moment each block a connected reader misses is on its way to it:
\* asked about, announced, requested, sent, or still to be announced (send_wants,
\* on_want, on_have, on_request and the arm Event::Feed).  So when a connection
\* falls silent nothing is missing.  For the blocks below the range of a Want.
MissingOnItsWay ==
    \A p \in Peers : p[2] = Writer /\ status[p] # "closed" =>
        \A i \in Written \ has[p[1]] : i < WantLen => OnItsWay(p, i)

\* What makes MissingOnItsWay inductive: a peer of the writer that has not
\* subscribed to the feed yet will still be asked for all of it.
WayInv ==
    /\ MissingOnItsWay
    /\ \A p \in Peers : p[2] = Writer /\ status[Other(p)] = "init" => Asking(p)

\* The connection of peer p has nothing left to do.
Silent(p) ==
    /\ status[p] = "running"
    /\ inbox[p] = <<>> /\ inbox[Other(p)] = <<>>
    /\ events[Other(p)] = <<>>

\* A reader whose connection to the writer is silent holds all that is written,
\* below the range of a Want (peer.rs, run).
SilentIsComplete ==
    \A p \in Peers : p[2] = Writer /\ Silent(p) =>
        \A i \in Written : i < WantLen => i \in has[p[1]]
=============================================================================
