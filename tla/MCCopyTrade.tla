----------------------------- MODULE MCCopyTrade ------------------------------
\* Signals, profiles and portfolios for the copy-trade entry engine.
EXTENDS CopyTrade

\* With a portfolio of 81 and a limit of 50 cents the orders come to 2 and 4
\* dollars, after the clip to the ceiling and the rounding to shares.
Plain == [kind |-> "adopt", category |-> "OTHER", candle |-> 0, class |-> "sports",
          timed |-> TRUE, left |-> 60, pair |-> FALSE, cost |-> 900, shares |-> 1800,
          peak |-> 1800, avg |-> 1000, bands |-> <<2000, 800, 100>>, anchor |-> 3000,
          median |-> 500, tier |-> 50, his |-> 30, maxEntry |-> 50, who |-> "w",
          whales |-> {[name |-> "w", avg |-> 1000, cost |-> 900]}]

\* In the second tier; a stub of what he sold; a small candle; one without
\* tiers; a match under way; a market that is far off.
MCSignals ==
  { Plain,
    [Plain EXCEPT !.shares = 600],
    [Plain EXCEPT !.candle = 15, !.cost = 450, !.bands = <<2000, 400>>],
    [Plain EXCEPT !.bands = NoBands, !.median = 0, !.anchor = 0],
    [Plain EXCEPT !.category = "SPORTS", !.left = -30],
    [Plain EXCEPT !.left = 500] }

Hosted == [oneshot |-> TRUE, v2 |-> TRUE, ladder |-> TRUE, hc |-> FALSE, candles |-> TRUE,
           tiers |-> FALSE, clock |-> FALSE, minPort |-> 0, unit |-> 20, reserve |-> <<0, 0>>]

\* The switches of a hosted account: the tier ladder, and the one-shot.
MCProfiles == {Hosted, [Hosted EXCEPT !.v2 = FALSE, !.ladder = FALSE]}

\* For an instance by hand (README, section 5): the v2 sizes without the ladder,
\* top-ups from a dollar on, and a whale that grows from his second tier into
\* his first.
MCLadderless == {[Hosted EXCEPT !.ladder = FALSE]}
MCGrowing == {Plain, [Plain EXCEPT !.kind = "new", !.cost = 2500]}
=============================================================================
