------------------------- MODULE MCNetworkAdapters -------------------------
(* An instance of NetworkAdapters for TLC.                                  *)
EXTENDS NetworkAdapters

CONSTANTS a, b, c

\* No list, an empty one, three adapters (of which a template may have some), and
\* the same one twice.
MCWishes == {Nil, <<>>, <<a, b, c>>, <<a, a>>}
=============================================================================
