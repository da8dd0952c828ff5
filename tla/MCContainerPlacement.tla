------------------------ MODULE MCContainerPlacement ------------------------
(***************************************************************************)
(* ContainerPlacement on small instances: the engines detectFirewall tells  *)
(* apart, and the placements that differ in the calls they make.            *)
(***************************************************************************)
EXTENDS ContainerPlacement

Engine(podman, nftables, rootless, subpath) ==
  [podman |-> podman, nftables |-> nftables, rootless |-> rootless, subpath |-> subpath]
\* An older Docker, a new one on nftables, Podman, and a rootless Docker.
MCEngines == {Engine(FALSE, FALSE, FALSE, FALSE), Engine(FALSE, TRUE, FALSE, TRUE),
              Engine(TRUE, FALSE, FALSE, FALSE), Engine(FALSE, FALSE, TRUE, TRUE)}
\* The API on the jobs network, behind a port of the host and in a denied range at once.
MCPolicies == {[allow |-> {"peer", "gateway", "site"}, metadata |-> FALSE]}
MCAsked == {[custom |-> FALSE, cache |-> "dir"], [custom |-> TRUE, cache |-> "volume"]}

=============================================================================
