---------------------------- MODULE Certificates ----------------------------
(***************************************************************************)
(* Kong certificates from Secrets (translator/translate_certs.go) and CA   *)
(* certificates (translator/translate_secrets.go).                         *)
(*                                                                         *)
(* A Secret has a uid (a number, for the order of identifiers), the time   *)
(* it was created and its key pair, "" when there is no valid one.  A CA   *)
(* Secret has an optional id and says what its certificate is.  Gateways   *)
(* are a sequence: ns, uid, listeners (name, hostname and certificateRefs) *)
(* and programmed, the names of the listeners last reported Programmed for *)
(* the current generation.                                                 *)
(***************************************************************************)
EXTENDS BackendRefs, Store, FiniteSetsExt

\* What is made of one Secret: a Kong certificate before the merge.
certWrapper(secret, hosts) ==
    [identifier |-> secret.pair, id |-> secret.uid, created |-> secret.created, snis |-> hosts,
     tag |-> secret.uid, kongSNIs |-> {}]

getCertFromSecret(secret) == secret.pair # ""

\* The certificates of listeners that are programmed and have one certificate;
\* a missing Secret is only logged.
getGatewayCerts(cluster) ==
    LET ref(g, l) == <<OrElse(l.certificateRefs[1].ns, g.ns), l.certificateRefs[1].name>>
        step(acc, x) ==
            LET g == x[1]
                l == x[2]
            IN CASE l.name \notin g.programmed \/ l.certificateRefs = <<>> -> acc
                 [] l.name \in g.programmed /\ Len(l.certificateRefs) > 1 ->
                      [acc EXCEPT !.failures = @ \cup {g.uid}]
                 [] OTHER ->
                      IF ref(g, l) \notin DOMAIN cluster.secrets THEN acc
                      ELSE IF ~getCertFromSecret(cluster.secrets[ref(g, l)])
                      THEN [acc EXCEPT !.failures = @ \cup {g.uid, cluster.secrets[ref(g, l)].uid}]
                      ELSE [acc EXCEPT !.certs = Append(@, certWrapper(cluster.secrets[ref(g, l)],
                                                                       <<OrElse(l.hostname, <<"*">>)>>))]
        listeners == FlattenSeq([i \in DOMAIN cluster.gatewayList |->
                        [j \in DOMAIN cluster.gatewayList[i].listeners |->
                           <<cluster.gatewayList[i], cluster.gatewayList[i].listeners[j]>>]])
    IN FoldLeft(step, [certs |-> <<>>, failures |-> {}], listeners)

\* The certificates asked for by Ingresses, in the order of a Go map; a failure
\* is reported to all who asked.
getCerts(cluster, snis, order) ==
    LET step(acc, key) ==
            CASE key \notin DOMAIN cluster.secrets -> [acc EXCEPT !.failures = @ \cup snis[key].parents]
              [] key \in DOMAIN cluster.secrets /\ ~getCertFromSecret(cluster.secrets[key]) ->
                   [acc EXCEPT !.failures = @ \cup snis[key].parents \cup {cluster.secrets[key].uid}]
              [] OTHER -> [acc EXCEPT !.certs = Append(@, certWrapper(cluster.secrets[key], snis[key].hosts))]
    IN FoldLeft(step, [certs |-> <<>>, failures |-> {}], order)

\* Mutant: the identifier of the Secret seen last is kept.
LastIdentifier(current, cw) == [current EXCEPT !.id = cw.id, !.created = cw.created]

\* Secrets with one key pair are one certificate, with the identifier of the
\* oldest of them, and of the smallest among those.
collapse(current, cw) ==
    IF \/ current.created > cw.created
       \/ current.created = cw.created /\ current.id > cw.id
    THEN [current EXCEPT !.id = cw.id, !.created = cw.created]
    ELSE current

\* Each SNI goes to the certificate that asks first.
mergeCert(acc, cw) ==
    LET known == cw.identifier \in DOMAIN acc.certs
        current == IF known THEN [collapse(acc.certs[cw.identifier], cw) EXCEPT !.snis = @ \o cw.snis] ELSE cw
        fresh == ToSet(cw.snis) \ acc.snisSeen
    IN [certs |-> (cw.identifier :> [current EXCEPT !.kongSNIs = @ \cup fresh]) @@ acc.certs,
        snisSeen |-> acc.snisSeen \cup fresh,
        ids |-> (cw.id :> cw.identifier) @@ acc.ids]

\* The certificates of the lists one after the other, and the identifier each
\* Secret's certificate ended up with.
mergeCerts(certLists) ==
    LET merged == FoldLeft(mergeCert, [certs |-> <<>>, snisSeen |-> {}, ids |-> <<>>], FlattenSeq(certLists))
    IN [certificates |-> {[id |-> c.id, pair |-> c.identifier, key |-> c.identifier, snis |-> c.kongSNIs, tag |-> c.tag] :
                            c \in {merged.certs[i] : i \in DOMAIN merged.certs}},
        idToMergedID |-> [i \in DOMAIN merged.ids |-> merged.certs[merged.ids[i]].id]]

----------------------------------------------------------------------------
(* CA certificates. *)

\* Every check of the certificate; "ca" says which one fails first.
toKongCACertificate(secret) == secret.ca \notin {"missing", "no PEM", "unparsable", "not a CA", "expired"}

\* The plugins whose configuration lists the CA certificate.
getPluginsAssociatedWithCACertSecret(cluster, id) ==
    {p.uid : p \in {q \in ToSet(cluster.pluginList) \cup ToSet(ListKongClusterPlugins(cluster)) :
                      id \in q.caCertificates}}

invalidCACert(cluster, secret) == {secret.uid} \cup getPluginsAssociatedWithCACertSecret(cluster, secret.id[1])

getCACerts(cluster) ==
    LET secrets == ToSet(ListCACerts(cluster))
        usable == {s \in secrets : s.id # <<>> /\ toKongCACertificate(s)}
    IN [caCertificates |-> {[id |-> s.id[1], cert |-> s.ca, tag |-> s.uid] : s \in usable},
        failures |-> UNION {IF s.id = <<>> THEN {s.uid} ELSE invalidCACert(cluster, s) : s \in secrets \ usable}]
============================================================================
