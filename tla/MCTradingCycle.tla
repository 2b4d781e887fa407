--------------------------- MODULE MCTradingCycle ---------------------------
(***************************************************************************)
(* Instance of TradingCycle: a market in the middle and a winner;          *)
(* signals whose cap and alert each verdict comes from; an account that    *)
(* never sells by its own rules and one that does.                         *)
(***************************************************************************)
EXTENDS TradingCycle

\* Of the other two, a hosted v1 bot has the take-profit of the first and the
\* edges of the second, and a v2 bot of its owner's has neither.
MCAccounts == {[hosted |-> TRUE, v2 |-> TRUE], [hosted |-> FALSE, v2 |-> FALSE]}
MCBooks == {[mid |-> 50, bid |-> 50], [mid |-> 99, bid |-> 99]}
MCSignals == {[max |-> 60, alert |-> 50], [max |-> 60, alert |-> 58],
              [max |-> 40, alert |-> 0]}
MCSettings == {[tp_mode |-> "ai", tp_value |-> 0, sl_mode |-> "ai", sl_value |-> 0],
               [tp_mode |-> "fixed", tp_value |-> 45, sl_mode |-> "percent", sl_value |-> 50]}
MCHorizons == {[days |-> 0, no |-> FALSE, deadline |-> FALSE, scheduled |-> FALSE],
               [days |-> 100, no |-> FALSE, deadline |-> FALSE, scheduled |-> FALSE]}
=============================================================================
