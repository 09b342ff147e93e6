------------------------- MODULE WebhookProperties --------------------------
(***************************************************************************)
(* What the webhook certificate controller promises.                       *)
(***************************************************************************)
EXTENDS WebhookCerts

\* Type invariant of WebhookCerts.
TypeOK ==
    /\ secret \in Artifacts \union {Absent}
    /\ confs \in [Kinds -> Configuration \union {Absent}]
    /\ issued \in CA
    /\ ending \subseteq aged /\ aged \subseteq 1..issued
    /\ disk \in [Replicas -> Artifacts]
    /\ stuck \in [Replicas -> BOOLEAN]
    /\ pending \in [Replicas -> SUBSET Objects]
    /\ queued \in [Replicas -> BOOLEAN]
    /\ pc \in [Replicas -> {"idle", "read", "create", "reread", "overwrite",
                            "writeDisk", "getMutating", "getValidating",
                            "updateValidating", "updateMutating"}]
    /\ certs \in [Replicas -> Artifacts]
    /\ fresh \in [Replicas -> SUBSET Objects]
    /\ inited \in [Replicas -> BOOLEAN]
    /\ disturbances \in 0..MaxDisturbances

-----------------------------------------------------------------------------

\* Helpers.

\* The configuration has the webhooks of its template and trusts c.
ConfFits(conf, c) == /\ conf.hooks = conf.template
                     /\ c.usable /\ c.ca = conf.ca

\* The Secret has a certificate that who trusts c trusts too.
SecretFits(c) == secret.usable /\ secret.ca = c.ca

\* The configuration trusts the certificates of every replica's directory and
\* those of the Secret, if it is there.
Trusting(conf) ==
    /\ \A r \in Replicas : ConfFits(conf, disk[r])
    /\ ~Host /\ secret # Absent => SecretFits(conf)

Settled == \A r \in Replicas : pending[r] = {} /\ ~queued[r] /\ pc[r] = "idle"

\* Whatever the replicas did to each other, to the Secret and to the two
\* configurations, at rest a configuration that is there trusts the
\* certificates in use (sync ends with Ensure, and every write wakes all).
SettledTrusted ==
    Settled => \A k \in Kinds : confs[k] # Absent => Trusting(confs[k])

\* A Secret that has a CA still good to sign keeps it: no replica replaces it
\* by one of its own, however old the copy is that it decided on (read stores
\* the CA in the generator, overwrite sends the resourceVersion).
KeepsCA ==
    [][/\ ~Host /\ secret # Absent /\ secret' \notin {secret, Absent}
       /\ disturbances' = disturbances
       /\ validCACert(secret.ca)
       => secret'.ca = secret.ca]_vars

-----------------------------------------------------------------------------
\* The inductive invariant behind the theorems.

\* A copy that is current is a copy of the object as it is.
FreshAt(r) ==
    /\ \A k \in fresh[r] \intersect Kinds : confs[k] # Absent
    /\ pc[r] = "overwrite" /\ ~Host /\ "secret" \in fresh[r] =>
         certs[r] = secret

\* Only usable certificates get on disk, and sync knows what it put there.
\* With Host the directory has the certificates before WriteDisk, which then
\* finds nothing to write.
HeldAt(r) ==
    /\ pc[r] = "writeDisk" => certs[r].usable /\ (Host => disk[r] = certs[r])
    /\ pc[r] \in {"getMutating", "getValidating", "updateValidating",
                  "updateMutating"} =>
         certs[r].usable /\ disk[r] = certs[r]

holding == {"writeDisk", "getMutating", "getValidating", "updateValidating",
            "updateMutating"}

\* Without a request in the queue, what a replica did so far is right for
\* every object whose event it is not yet to handle.
PendingAt(r) ==
    ~queued[r] =>
        /\ ~Host /\ secret # Absent /\ "secret" \notin pending[r] =>
             /\ pc[r] = "idle" => SecretFits(disk[r])
             /\ pc[r] \in holding => SecretFits(certs[r])
        /\ \A k \in Kinds : confs[k] # Absent /\ k \notin pending[r] =>
             /\ pc[r] = "idle" => ConfFits(confs[k], disk[r])
             /\ pc[r] = "updateMutating" /\ k = "validating" =>
                  ConfFits(confs[k], certs[r])

WorkAt(r) == FreshAt(r) /\ HeldAt(r) /\ PendingAt(r)

\* All the parts: every step keeps their conjunction.
IInv == TypeOK /\ \A r \in Replicas : WorkAt(r)

-----------------------------------------------------------------------------

\* With both configurations there and no more changes, every replica comes up
\* and every configuration comes to trust the certificates for good.  Left out
\* are the behaviours in which a ..data_tmp stays in a directory: Write never
\* removes it, and whatever it is to write fails (AlwaysWritable of AtomicWriter).
EventuallyTrusted ==
    <>[](/\ \A k \in Kinds : confs[k] # Absent
         /\ \A r \in Replicas : ~stuck[r])
        => <>[](/\ \A r \in Replicas : inited[r]
                /\ \A k \in Kinds :
                      confs[k] # Absent /\ Trusting(confs[k]))
=============================================================================
