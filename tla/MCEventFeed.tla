---------------------------- MODULE MCEventFeed ----------------------------
(* Constants of the models of EventFeed.                                    *)
EXTENDS EventFeed, TLC

CONSTANTS remote, quick, stuck

OneConstellation == {remote}
TwoBrowsers == {quick, stuck}
OneBrowser == {quick}
StuckBrowser == {stuck}
NoBrowser == {}
=============================================================================
