---------------------------- MODULE MCConfluence ----------------------------
(* Three sources, as many as an alert takes to agree.                        *)
EXTENDS Confluence, TLC
CONSTANTS reddit, macro, onchain
MCSources == {reddit, macro, onchain}
\* For and against, strong and weak.
MCSignals == [v : {1, 2}, s : {-1, 1}]
=============================================================================
