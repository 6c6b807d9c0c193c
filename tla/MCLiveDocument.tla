--------------------------- MODULE MCLiveDocument ---------------------------
(* LiveDocument on small instances: two tabs, on one process or on two.     *)
EXTENDS LiveDocument, TLC

CONSTANTS c1, c2, p1, p2

MCApart == (c1 :> p1) @@ (c2 :> p2)
MCTogether == (c1 :> p1) @@ (c2 :> p1)
MCAlone == c1 :> p1

(* A state constraint: nobody types before every tab is live, so that what  *)
(* goes wrong is not the handshake.                                         *)
MCTabsLiveFirst == spent.edits = 0 \/ \A c \in Clients : client[c].phase = "live"
=============================================================================
