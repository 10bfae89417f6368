------------------------- MODULE MCPuttyProviderTest -------------------------
(***************************************************************************)
(* PuttyProviderTest for TLC: environment variables unset, on both sides   *)
(* of each limit the fixture asserts, and a listing of up to three entries.*)
(***************************************************************************)
EXTENDS PuttyProviderTest

MCUserNames == {Unset, 2, 3, 64}
MCHostNames == {Unset, 2, 3, 255}
MCPorts     == {Unset, -1, 22, 65535, 65536}

=============================================================================
