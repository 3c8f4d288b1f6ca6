--------------------------- MODULE MCCtiProviders ---------------------------
\* A program, a program nobody has uploaded yet, so the service does not know its hash, and
\* something else.  In the Recover run ThreatFox lists all three, and the limit is reached at
\* the second.
EXTENDS CtiProviders

CONSTANTS prog, late, other

KnownAtFirst == [s \in Shas |-> CASE s = prog -> "pe" [] s = late -> "unknown" [] OTHER -> "other"]
LinkedHashes == {prog}
LikelyHashes == {late}

SharedOrders == {<<"malwarebazaar", "threatfox", "twitter">>, <<"malshare", "otx_pulse_cti">>}
SharedLoops == <<"recent", "recent", "taginfo">>
SharedFeed == [p \in Providers |->
                 CASE p = "malshare" -> <<prog>>
                   [] p \in {"twitter", "otx_pulse_cti"} -> <<late>>
                   [] OTHER -> <<late, prog>>]

RecoverOrders == {<<"malwarebazaar", "threatfox">>, <<"otx_pulse_cti">>}
RecoverLoops == <<"recent">>
RecoverFeed == [p \in Providers |-> IF p = "threatfox" THEN <<late, prog, other>> ELSE <<prog>>]
=============================================================================
