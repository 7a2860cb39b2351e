--------------------- MODULE MCConfigurationControllers ---------------------
(***************************************************************************)
(* Small instances of ConfigurationControllers for TLC.                    *)
(***************************************************************************)
EXTENDS ConfigurationControllers, TLC

CONSTANTS o1, o2, s1

Scenario(kinds, certs, creds, n) ==
    [kinds |-> kinds, caCerts |-> certs, credentials |-> creds, changes |-> n]

(* One object of any kind, with a Secret that has a label or none, or two  *)
(* whose reconciliations are sequential and compete for the Secret.        *)
OneController ==
    {Scenario(o1 :> k, {}, {}, 3) : k \in Kinds}
        \cup {Scenario(o1 :> KongPlugin, {s1}, {}, 3), Scenario(o1 :> KongPlugin, {}, {s1}, 3)}
        \cup {Scenario((o1 :> KongPlugin) @@ (o2 :> KongPlugin), {}, {}, 4)}

=============================================================================
