---------------------------- MODULE MCDeployment ----------------------------
(***************************************************************************)
(* The three directories of the repository.                                *)
(***************************************************************************)
EXTENDS Deployment, DeployScripts

AllDirectories == {deploy, scripts_deploy, scripts_deploy_old}
=============================================================================
