--------------------------- MODULE FeedReplication ---------------------------
(***************************************************************************)
(* What replication promises of one feed: only the writer makes blocks, a  *)
(* node gets a block or learns a length only from a node it is linked to   *)
(* that has it, and nothing a node has is ever lost.  No messages, no      *)
(* connections and no failures: each step moves one block or one length.   *)
(***************************************************************************)
EXTENDS Naturals

CONSTANTS Nodes, Writer, Links, MaxLen

VARIABLES
    len,  \* node -> the length of the feed it knows
    has   \* node -> the blocks it holds

Init ==
    /\ len \in [Nodes -> 0 .. MaxLen]
    /\ has \in [Nodes -> SUBSET (0 .. MaxLen - 1)]
    /\ has[Writer] = 0 .. len[Writer] - 1
    /\ \A n \in Nodes : len[n] <= len[Writer] /\ has[n] \subseteq 0 .. len[n] - 1

Append ==
    \E l \in len[Writer] + 1 .. MaxLen :
        /\ len' = [len EXCEPT ![Writer] = l]
        /\ has' = [has EXCEPT ![Writer] = 0 .. l - 1]

\* Node n knows of a feed of l blocks.
Learns(n, l) == len' = [len EXCEPT ![n] = IF l > @ THEN l ELSE @]

\* Node n copies a block of node m, with a length that m knows.
Copy(n, m) ==
    \E i \in has[m] : \E l \in i + 1 .. len[m] :
        /\ has' = [has EXCEPT ![n] = @ \cup {i}]
        /\ Learns(n, l)

\* Node n gets no more than the length.
Hear(n, m) ==
    /\ \E l \in 1 .. len[m] : Learns(n, l)
    /\ UNCHANGED has

Next == Append \/ \E k \in Links : Copy(k[1], k[2]) \/ Hear(k[1], k[2])

Spec == Init /\ [][Next]_<<len, has>>
=============================================================================
