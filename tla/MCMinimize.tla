----------------------------- MODULE MCMinimize -----------------------------
EXTENDS Minimize
MCOutcomes == {<<"ok", "magic">>, <<"ok", "other">>, <<"bad", "magic">>}
=============================================================================
