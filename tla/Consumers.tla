----------------------------- MODULE Consumers -----------------------------
(***************************************************************************)
(* Consumers, their credentials and groups, and vaults                     *)
(* (kongstate/kongstate.go, kongstate/consumer.go,                         *)
(* kongstate/credentials.go), and the copy of them that Konnect and the    *)
(* diagnostics see (SanitizedCopy).                                        *)
(*                                                                         *)
(* A credential Secret has an optional type and data, a function from      *)
(* fields to values; a list of redirect_uris is a sequence.  Credentials   *)
(* of a Kong consumer are a function from the type to the credentials.     *)
(***************************************************************************)
EXTENDS Store

CredentialTypes == {"key-auth", "basic-auth", "hmac-auth", "jwt", "oauth2", "acl", "mtls-auth"}

\* The fields of a credential of each type: others in the Secret are ignored.
CredentialFields(type) ==
    CASE type = "key-auth" -> {"key", "ttl"}
      [] type = "basic-auth" -> {"username", "password"}
      [] type = "hmac-auth" -> {"username", "secret"}
      [] type = "jwt" -> {"algorithm", "rsa_public_key", "key", "secret"}
      [] type = "oauth2" -> {"name", "client_id", "client_secret", "redirect_uris", "hash_secret"}
      [] type = "acl" -> {"group"}
      [] type = "mtls-auth" -> {"subject_name"}

\* The fields without which a credential is refused.
RequiredFields(type) ==
    CASE type \in {"key-auth", "jwt"} -> {"key"}
      [] type \in {"basic-auth", "hmac-auth"} -> {"username"}
      [] type = "oauth2" -> {"client_id", "name"}
      [] type = "acl" -> {"group"}
      [] type = "mtls-auth" -> {"subject_name"}

\* Texts strconv reads as a boolean and as a number.
BooleanTexts == [true |-> TRUE, false |-> FALSE]

NumberTexts == [sixty |-> 60]

\* What the data of a Secret becomes: hash_secret is false when unreadable, an
\* unreadable ttl is left out, and both are reported.
CredentialConfig(data) ==
    LET readable(f) == CASE f = "hash_secret" -> data[f] \in DOMAIN BooleanTexts
                         [] f = "ttl" -> data[f] \in DOMAIN NumberTexts
                         [] OTHER -> TRUE
        value(f) == CASE f = "hash_secret" -> readable(f) /\ BooleanTexts[data[f]]
                      [] f = "ttl" -> NumberTexts[data[f]]
                      [] OTHER -> data[f]
    IN [config |-> [f \in {g \in DOMAIN data : g # "ttl" \/ readable(g)} |-> value(f)],
        ok |-> \A f \in DOMAIN data : readable(f)]

\* A JWT credential without an algorithm gets Kong's default.
NewCredential(type, config) ==
    LET given == [f \in DOMAIN config \cap CredentialFields(type) |-> config[f]]
    IN IF type = "jwt" /\ ("algorithm" \notin DOMAIN given \/ given["algorithm"] = "")
       THEN ("algorithm" :> "HS256") @@ given ELSE given

\* A credential that lacks a required field is an error.
SetCredential(consumer, type, config, tag) ==
    IF RequiredFields(type) \subseteq DOMAIN NewCredential(type, config)
    THEN [ok |-> TRUE, consumer |-> [consumer EXCEPT
            !.credentials[type] = Append(@, [fields |-> NewCredential(type, config), tag |-> tag])]]
    ELSE [ok |-> FALSE, consumer |-> consumer]

\* One credential of a consumer; whatever fails is reported and the others go
\* on.
AddCredential(cluster, acc, key) ==
    LET secret == cluster.secrets[key]
        config == CredentialConfig(secret.data)
        set == SetCredential(acc.consumer, secret.type[1], config.config, secret.uid)
        failed == [acc EXCEPT !.failures = @ \cup {acc.consumer.uid}]
    IN IF key \notin DOMAIN cluster.secrets THEN failed
       ELSE IF secret.type = <<>> \/ secret.type[1] \notin CredentialTypes THEN failed
       ELSE [consumer |-> set.consumer,
             failures |-> IF config.ok /\ set.ok THEN acc.failures ELSE failed.failures]

\* A consumer without any name is left out; names and groups that are empty or
\* missing are too.
FillConsumer(cluster, k) ==
    LET optional(name) == IF name = "" THEN <<>> ELSE <<name>>
        exists(group) == <<k.ns, group>> \in {<<g.ns, g.name>> : g \in ToSet(cluster.consumerGroups)}
        plain == [uid |-> k.uid, ns |-> k.ns, annotations |-> k.annotations,
                  username |-> optional(k.username), customID |-> optional(k.customID),
                  groups |-> SelectSeq(k.groups, exists),
                  credentials |-> [t \in CredentialTypes |-> <<>>]]
        missing == IF \A i \in DOMAIN k.groups : exists(k.groups[i]) THEN {} ELSE {k.uid}
    IN FoldLeft(LAMBDA acc, c : AddCredential(cluster, acc, <<k.ns, c>>),
                [consumer |-> plain, failures |-> missing], k.credentials)

FillConsumersAndCredentials(cluster) ==
    LET named(k) == k.username # "" \/ k.customID # ""
        filled == {FillConsumer(cluster, k) : k \in {x \in ToSet(ListKongConsumers(cluster)) : named(x)}}
    IN [consumers |-> {f.consumer : f \in filled},
        failures |-> UNION {f.failures : f \in filled}
                     \cup {k.uid : k \in {x \in ToSet(ListKongConsumers(cluster)) : ~named(x)}}]

FillConsumerGroups(cluster) ==
    {[name |-> g.name, ns |-> g.ns, annotations |-> g.annotations, uid |-> g.uid] :
       g \in ToSet(ListKongConsumerGroups(cluster))}

----------------------------------------------------------------------------
(* Vaults. *)

\* The older vault goes first, and the smaller name among those of one age.
compareKongVault(v1, v2) == v1.created < v2.created \/ (v1.created = v2.created /\ v1.rank < v2.rank)

\* One vault per prefix; the one that loses is reported.
addVault(acc, vault) ==
    LET existing == acc.chosen[vault.prefix]
    IN IF vault.prefix \notin DOMAIN acc.chosen THEN [acc EXCEPT !.chosen = (vault.prefix :> vault) @@ @]
       ELSE IF compareKongVault(existing, vault) THEN [acc EXCEPT !.failures = @ \cup {vault.uid}]
       ELSE [chosen |-> [acc.chosen EXCEPT ![vault.prefix] = vault], failures |-> acc.failures \cup {existing.uid}]

\* A vault whose configuration is not JSON is reported and left out.
FillVaults(cluster) ==
    LET all == FoldLeft(addVault, [chosen |-> <<>>, failures |-> {}], ListKongVaults(cluster))
        chosen == {all.chosen[p] : p \in DOMAIN all.chosen}
    IN [vaults |-> {v \in chosen : v.json},
        failures |-> all.failures \cup {v.uid : v \in {x \in chosen : ~x.json}}]

----------------------------------------------------------------------------
(* Redacted copies. *)

Redacted == "{vault://redacted-value}"

\* The sensitive fields of a type; the key of a JWT credential is an
\* identifier.
SensitiveFields(type) ==
    CASE type = "key-auth" -> {"key"}
      [] type = "basic-auth" -> {"password"}
      [] type \in {"hmac-auth", "jwt"} -> {"secret"}
      [] type = "oauth2" -> {"client_secret"}
      [] OTHER -> {}

\* The fields a copy keeps.
CopiedFields(type) ==
    CASE type = "key-auth" -> {}
      [] type \in {"basic-auth", "hmac-auth"} -> {"username"}
      [] type = "jwt" -> {"algorithm", "key", "rsa_public_key"}
      [] type = "oauth2" -> {"name", "client_id", "redirect_uris"}
      [] OTHER -> CredentialFields(type)

\* The sensitive field is written whether it was there or not.
SanitizedCredential(type, credential) ==
    LET kept == DOMAIN credential.fields \cap CopiedFields(type)
    IN [credential EXCEPT !.fields = [f \in kept \cup SensitiveFields(type) |->
                                        IF f \in SensitiveFields(type) THEN Redacted ELSE @[f]]]

\* The groups of the consumer are not copied.
SanitizedConsumer(consumer) ==
    [consumer EXCEPT !.groups = <<>>,
                     !.credentials = [t \in CredentialTypes |->
                        [i \in DOMAIN @[t] |-> SanitizedCredential(t, @[t][i])]]]
============================================================================
