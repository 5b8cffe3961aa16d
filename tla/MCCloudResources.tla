-------------------------- MODULE MCCloudResources --------------------------
(* Up to two people run the playbook with some --tags each, one after the    *)
(* other or at once: roles that ask and create, and roles of modules.        *)
EXTENDS CloudResources, SequencesExt

MCTags == {volume_types, images \o external_networks \o ec2_compat}
(* Whatever roles --tags names, what is selected is in order.                *)
Roles == <<flavors, images, volume_types, external_networks, keystone_federation, ec2_compat>>
ASSUME TagsAreOnRoles ==
    \A S \in (SUBSET DOMAIN Roles) \ {{}} :
        WholeRoles(FlattenSeq([i \in DOMAIN Roles |-> IF i \in S THEN Roles[i] ELSE <<>>]))

MCSymmetry == Permutations(Runs)
=============================================================================
