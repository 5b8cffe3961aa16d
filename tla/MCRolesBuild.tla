---------------------------- MODULE MCRolesBuild ----------------------------
(* A role merged from two files and one from a third; services are numbers,  *)
(* which one file may name twice and two files may both name.                *)
EXTENDS RolesBuild

MCCustomRoles == <<"ControllerDeployedServer", "ComputeDeployedServer">>
MCSourcesOf ==
    [ControllerDeployedServer |-> <<"ControllerOpenstack", "Database">>,
     ComputeDeployedServer |-> <<"Compute">>]
MCContents == {[ServicesDefault |-> s, tags |-> <<>>] : s \in {<<2>>, <<3, 1, 3>>}}
MCArguments ==
    [t \in {"ControllerDeployedServer", "ComputeDeployedServer"} |->
        [add |-> [ServicesDefault |-> <<1>>, tags |-> <<>>],
         exclude |-> [ServicesDefault |-> {}, tags |-> {}],
         extra |-> [HostnameFormatDefault |-> "-x"]]]
MCFlags ==
    {[add |-> [ServicesDefault |-> <<>>, tags |-> <<>>],
      exclude |-> [ServicesDefault |-> {3}, tags |-> {}],
      extra |-> [disable_constraints |-> "true", tags |-> "-x"]]}
=============================================================================
