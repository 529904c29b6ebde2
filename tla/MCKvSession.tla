----------------------------- MODULE MCKvSession -----------------------------
(* Small instances of KvSession: two token values, a handful of prompts that *)
(* extend, shorten and diverge from one another, short appended runs.        *)
EXTENDS KvSession, TLC

CONSTANTS a, b

MCToken == {a, b}

\* Long enough to wrap a ring of four slots; shared prefixes of every length.
WrapPrompts == {<<a, a, a, a, a>>, <<a, a, b>>}
WrapDeltas  == {<<b, b, b>>}

\* The same shapes for a context the ring covers.
LinearPrompts == {<<a, a, a, a>>, <<b, a>>}
LinearDeltas  == {<<b>>}

=============================================================================
