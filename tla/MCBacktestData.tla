---------------------------- MODULE MCBacktestData ----------------------------
(* Instances of BacktestData: candle jobs c1 and c2 and a universe refresh *)
(* u1; full has every bar of its window, gappy lacks one in the middle.    *)
EXTENDS BacktestData, TLC

CONSTANTS w1, w2, c1, c2, u1, full, gappy, junk

MCPayloads == {full, gappy, junk}
MCBars == full :> {0, 1, 2} @@ gappy :> {0, 2} @@ junk :> {}
MCKind == c1 :> "candles" @@ c2 :> "candles" @@ u1 :> "universe"
MCFetches == c1 :> {gappy} @@ c2 :> {full, gappy, junk} @@ u1 :> {gappy}
MCMaxAttempts == c1 :> 2 @@ c2 :> 1 @@ u1 :> 1

Symmetric == Permutations({w1, w2})

\* Once two writers have raced no invariant promises anything: such states
\* are checked and not expanded.
Unraced == ~raced
=============================================================================
