---------------------------- MODULE MCCollection ----------------------------
\* MalwareBazaar and a fallback that lists one of its hashes too; two benign publishers that
\* share a program.
EXTENDS Collection

CONSTANTS m1, m2, m3, g1, g2

Listed == [malwarebazaar |-> {m1}, threatfox |-> {m1}, sysinternals |-> {g1}, github |-> {g1, g2}]
ShortList == [malwarebazaar |-> {m1}, sysinternals |-> {g1}, github |-> {g1, g2}]
LongList == [malwarebazaar |-> {m1, m2}, threatfox |-> {m3}, sysinternals |-> {g1}, github |-> {g1, g2}]
ActiveSources == <<"malwarebazaar">>
Fallbacks == <<"threatfox">>
NoFallbacks == <<>>
Publishers == <<"sysinternals", "github">>
Named == {<<"threatfox">>, <<"github">>}
NamedBenign == {<<"github">>}
=============================================================================
