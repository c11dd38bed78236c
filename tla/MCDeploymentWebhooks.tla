------------------------ MODULE MCDeploymentWebhooks ------------------------
(* A deployment that succeeds at once, and one that is in progress first. *)
EXTENDS DeploymentWebhooks
TwoDeployments ==
  << [deployment |-> 1, success |-> TRUE],
     [deployment |-> 2, success |-> FALSE],
     [deployment |-> 2, success |-> TRUE] >>
=============================================================================
