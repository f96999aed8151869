----------------------------- MODULE MCWebMaker -----------------------------
(* WebMaker for TLC: the requests a run chooses from. *)
EXTENDS WebMaker

Ask(u, a, o, n) == [ulid |-> u, action |-> a, option |-> o, amount |-> n]

\* Two purchases of different amounts of one option type, a request that is skipped
\* and one that is malformed.
RequestsWeb == {Ask("u1", "Buy", "weth", 1), Ask("u2", "Buy", "weth", 2),
                Ask("u3", "Sell", "wbtc", 1), Ask("u4", "Buy", "none", 1)}

TwoPerOption == [o \in {"weth", "wbtc"} |-> 2]
=============================================================================
