---------------------------- MODULE MCDeployment ----------------------------
(***************************************************************************)
(* Instances of Deployment for TLC.                                        *)
(***************************************************************************)
EXTENDS Deployment, TLC

CONSTANTS d1, d2, u1, x1, c1, c2, bad, a1, a2

Bundle(uid, service, unit, contents, archive, options) ==
    [uid |-> uid, service |-> service, unit |-> unit, contents |-> contents,
     archive |-> archive, options |-> options]

Default == {"load_image_archive", "validate_socket", "restart_unit"}

\* Two revisions of one Quadlet, one of them with an image archive and one whose
\* orchestrator does not restart, and one request per reason to refuse.
ContentionRequests ==
    { Bundle(u1, a1, a1, c1, "staged", Default),
      Bundle(u1, a1, a1, c2, "none", Default),
      Bundle(u1, a1, a1, c2, "staged", {"load_image_archive"}) }

RefusedRequests ==
    { Bundle(Root, a1, a1, c1, "none", Default),
      Bundle(x1, a1, a1, c1, "none", Default),
      Bundle(u1, NoUnit, NoUnit, c1, "none", Default),
      Bundle(u1, a1, a2, c1, "none", Default),
      Bundle(u1, a1, a1, bad, "none", Default),
      Bundle(u1, a1, a1, c1, "empty_path", {"restart_unit"}),
      Bundle(u1, a1, a1, c1, "unusable", Default),
      Bundle(u1, a1, a1, c1, "unusable", {"dry_run"}),
      Bundle(u1, a1, a1, c1, "none", {"dry_run"}) }

MixedRequests ==
    RefusedRequests \cup { Bundle(u1, a1, a1, c1, "unusable", {"restart_unit"}),
                           Bundle(u1, a1, a1, c1, "staged", Default),
                           Bundle(u1, a1, a1, c1, "none", {}) }

DeployerSymmetry == Permutations({d1, d2})
=============================================================================
