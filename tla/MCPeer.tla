------------------------------- MODULE MCPeer -------------------------------
(* Peer on small networks.                                                 *)
EXTENDS PeerRefinement

CONSTANTS A, B, C

Both(pairs) == pairs \cup {<<l[2], l[1]>> : l \in pairs}

Pair == Both({<<A, B>>})

\* Two readers while the writer is away.
Readers == Both({<<B, C>>})
=============================================================================
