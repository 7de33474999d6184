--------------------------- MODULE MCTradingEngine ---------------------------
(* Instances of TradingEngine: one long and one short signal, and a *)
(* console that takes a snapshot or reconciles.  The two signals     *)
(* come in one behaviour, or one with a snapshot; a reconciliation,  *)
(* which waits for the lock, comes by itself.                        *)
EXTENDS TradingEngine, TLC

CONSTANTS s1, s2, c1, c2

MCDirection == s1 :> 1 @@ s2 :> -1
MCCall == c1 :> "snapshot" @@ c2 :> "reconcile"
NoCall == << >>
MCLoads == {{s1, s2}, {s1, c1}, {c2}}
TwoSignals == {{s1, s2}}
=============================================================================
