-------------------------- MODULE MCUpdateLifecycle --------------------------
(* Small sets of releases for UpdateLifecycle. *)
EXTENDS UpdateLifecycle

\* Two versions: the second has a rebuild, which has the bytes of the first.
MCRelease == 1..3
MCVersion == <<1, 2, 2>>
MCDigest  == <<"a", "b", "a">>

\* Three releases, each newer than the one before.
MCInOrder == 1..3
MCInOrderVersion == <<1, 2, 3>>
MCInOrderDigest == <<"a", "b", "c">>

\* An active release and one that is newer.
MCPair == 1..2
MCPairVersion == <<1, 2>>
MCPairDigest == <<"a", "b">>

=============================================================================
