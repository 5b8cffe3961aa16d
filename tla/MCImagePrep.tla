---------------------------- MODULE MCImagePrep ----------------------------
(* Horizon with two parameters, as in docker_images.yaml, and keystone, of   *)
(* which one parameter keeps the stock image.  Two of the labels differ in   *)
(* what the name of a patched image does not show.                           *)
EXTENDS ImagePrep

MCReleases == {[rev |-> 60, build |-> 1], [rev |-> 60, build |-> 2], [rev |-> NoRev, build |-> 0]}
MCKeys == {"Horizon", "HorizonConfig", "Keystone", "KeystoneConfig"}
MCImageOf ==
    [k \in MCKeys |-> IF k \in {"Horizon", "HorizonConfig"} THEN "horizon" ELSE "keystone"]
MCFrom == [horizon |-> "Horizon", keystone |-> "Keystone"]
MCReplace == [horizon |-> {"Horizon", "HorizonConfig"}, keystone |-> {"Keystone"}]
=============================================================================
