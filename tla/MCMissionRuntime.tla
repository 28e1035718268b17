-------------------------- MODULE MCMissionRuntime --------------------------
EXTENDS MissionRuntime, TLC

TwoServers == 1 .. 2
OneQuestion == {1}
=============================================================================
