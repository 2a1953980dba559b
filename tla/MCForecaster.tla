---------------------------- MODULE MCForecaster ----------------------------
EXTENDS Forecaster

MCSamples == {[raw |-> 0, cause |-> "none"], [raw |-> 4, cause |-> "none"], [raw |-> 4, cause |-> "llc"]}
MCConns == {1, 17}
MCMus == {5, 7}
MCDropRates == {0, 100}
=============================================================================
