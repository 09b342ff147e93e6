---------------------------- MODULE WebhookCerts ----------------------------
(***************************************************************************)
(* The webhook certificate controller (webhook/util/controller with        *)
(* util/writer, util/generator, util/configuration): every replica of the  *)
(* manager runs it, leader election does not cover it.  A sync ensures     *)
(* that certificates exist, in a Secret or with WEBHOOK_HOST on disk,      *)
(* writes them to the replica's certificate directory and puts their CA    *)
(* into the two webhook configurations.                                    *)
(*                                                                         *)
(* A set of certificates is known by its CA: a serving certificate is made *)
(* for ten years by a CA that ends no later, so it is invalid only when    *)
(* its CA is about to end, or when its data are not there.                 *)
(***************************************************************************)
EXTENDS Naturals, FiniteSets

CONSTANTS
    Replicas,
    Host,           \* WEBHOOK_HOST is set: the certificates live on disk
    Hooks,          \* what a configuration's webhooks are, but for the CA
    NoHooks,        \* no template annotation
    Absent,
    MaxDisturbances \* bound: changes by users, faults, crashes, ageing

Kinds == {"validating", "mutating"}
Objects == Kinds \union {"secret"}

\* CAs are numbered in the order they are made.
CA == Nat \ {0}
NoCA == 0

\* "usable": the serving certificate and its key are there and belong to ca.
Artifacts == [ca : CA \union {NoCA}, usable : BOOLEAN]
NoCerts == [ca |-> NoCA, usable |-> FALSE]

Configuration == [hooks : Hooks, template : Hooks \union {NoHooks},
                  ca : CA \union {NoCA}]

ASSUME ReplicasAssumption == IsFiniteSet(Replicas) /\ Replicas # {}
ASSUME HooksAssumption == NoHooks \notin Hooks
ASSUME AbsentAssumption == Absent \notin Artifacts \union Configuration
ASSUME BoundAssumption == Host \in BOOLEAN /\ MaxDisturbances \in Nat

VARIABLES
    secret,     \* the Secret, or Absent
    confs,      \* the two webhook configurations, or Absent
    issued,     \* how many CAs were made
    aged,       \* CAs with less than a year left: they sign nothing more
    ending,     \* CAs with less than half a year left: not valid any more
    \* of each replica:
    disk,       \* the certificates in its directory
    stuck,      \* a write that was cut off left ..data_tmp in its directory
    pending,    \* objects with an event the informer has not handled
    queued,     \* the one key waits in the work queue
    pc,         \* "idle", or the next step of sync
    certs,      \* the certificates this sync works with
    fresh,      \* objects it is about to write whose resourceVersion, as it
                \* read it, is the current one
    inited,     \* Initialize has returned, the manager starts
    disturbances

objects == <<secret, confs, issued, aged, ending>>
directories == <<disk, stuck>>
events == <<pending, queued>>
locals == <<pc, certs, fresh>>
vars == <<secret, confs, issued, aged, ending, disk, stuck, pending, queued,
          pc, certs, fresh, inited, disturbances>>

-----------------------------------------------------------------------------

\* validCert, with the half year it asks for.
validCert(c) == c.usable /\ c.ca \notin ending

\* A CA is there and is not among those that end before the time asked for.
ValidCACert(ca, ended) == ca # NoCA /\ ca \notin ended

\* SelfSignedCertGenerator.validCACert, with the year it asks for.
validCACert(ca) == ValidCACert(ca, aged)

freshCA == issued + 1

NewSignedCert(ca) == [ca |-> ca, usable |-> TRUE]

\* SelfSignedCertGenerator.Generate after SetCA(ca).
Generate(ca) == NewSignedCert(IF validCACert(ca) THEN ca ELSE freshCA)

\* Each sync makes a cert writer, whose generator has no CA until SetCA.
newGenerator == NoCA

\* The number of a new CA is spent when its certificates are stored.
Issue(c) == issued' = IF c.ca = freshCA THEN freshCA ELSE issued

exists(k) == IF k = "secret" THEN secret # Absent ELSE confs[k] # Absent

Init ==
    /\ secret \in {Absent, NoCerts, [ca |-> 1, usable |-> TRUE]}
    /\ \/ \E h \in Hooks : confs = [k \in Kinds |->
              [hooks |-> h, template |-> NoHooks, ca |-> NoCA]]
       \/ confs = [k \in Kinds |-> Absent]
    /\ issued = 1 /\ aged = {} /\ ending = {}
    /\ disk = [r \in Replicas |-> NoCerts]
    /\ stuck = [r \in Replicas |-> FALSE]
    /\ pending = [r \in Replicas |-> {k \in Objects : exists(k)}]
    /\ queued = [r \in Replicas |-> FALSE]
    /\ pc = [r \in Replicas |-> "idle"]
    /\ certs = [r \in Replicas |-> NoCerts]
    /\ fresh = [r \in Replicas |-> {}]
    /\ inited = [r \in Replicas |-> FALSE]
    /\ disturbances = 0

Disturb == /\ disturbances < MaxDisturbances
           /\ disturbances' = disturbances + 1

\* New versions of the objects S: every replica hears of them, and copies
\* that were read are not current any more.
Announce(S) == pending' = [r \in Replicas |-> pending[r] \union S]
Outdate(S) == [r \in Replicas |-> fresh[r] \ S]

-----------------------------------------------------------------------------
(***************************************************************************)
(* The environment.                                                        *)
(***************************************************************************)

\* Users apply an empty Secret, or drop the serving certificate.
BreakSecret ==
    /\ \/ secret' = NoCerts
       \/ secret # Absent /\ secret' = [secret EXCEPT !.usable = FALSE]
    /\ secret' # secret
    /\ Disturb
    /\ Announce({"secret"})
    /\ fresh' = Outdate({"secret"})
    /\ UNCHANGED <<confs, issued, aged, ending, directories, queued, pc,
                   certs, inited>>

\* There is no handler for a deletion.
DeleteSecret ==
    /\ secret # Absent
    /\ Disturb
    /\ secret' = Absent
    /\ fresh' = Outdate({"secret"})
    /\ UNCHANGED <<confs, issued, aged, ending, directories, events, pc,
                   certs, inited>>

\* A manifest without a CA is applied; it leaves the annotation alone.
ApplyConf(k, h) ==
    /\ Disturb
    /\ confs' = [confs EXCEPT ![k] =
         [hooks |-> h, ca |-> NoCA,
          template |-> IF confs[k] = Absent THEN NoHooks ELSE confs[k].template]]
    /\ confs' # confs
    /\ Announce({k})
    /\ fresh' = Outdate({k})
    /\ UNCHANGED <<secret, issued, aged, ending, directories, queued, pc,
                   certs, inited>>

DeleteConf(k) ==
    /\ confs[k] # Absent
    /\ Disturb
    /\ confs' = [confs EXCEPT ![k] = Absent]
    /\ fresh' = Outdate({k})
    /\ UNCHANGED <<secret, issued, aged, ending, directories, events, pc,
                   certs, inited>>

\* Years pass.
Age ==
    /\ \E ca \in 1..issued :
          \/ ca \notin aged /\ aged' = aged \union {ca} /\ UNCHANGED ending
          \/ ca \in aged \ ending /\ ending' = ending \union {ca}
             /\ UNCHANGED aged
    /\ Disturb
    /\ UNCHANGED <<secret, confs, issued, directories, events, locals, inited>>

-----------------------------------------------------------------------------
(***************************************************************************)
(* Informers.  An event says that an object is there or was changed; the   *)
(* handlers queue the key and look no closer.                              *)
(***************************************************************************)

Deliver(r, k) ==
    /\ k \in pending[r]
    /\ pending' = [pending EXCEPT ![r] = @ \ {k}]
    /\ queued' = [queued EXCEPT ![r] = TRUE]
    /\ UNCHANGED <<objects, directories, locals, inited, disturbances>>

\* A broken watch is replaced by a list: events of objects that are gone are
\* gone too.
Relist(r) ==
    /\ \E k \in pending[r] : ~exists(k)
    /\ pending' = [pending EXCEPT ![r] = {k \in @ : exists(k)}]
    /\ UNCHANGED <<objects, directories, queued, locals, inited, disturbances>>

-----------------------------------------------------------------------------
(***************************************************************************)
(* Controller.sync.                                                        *)
(***************************************************************************)

Go(r, next) == pc' = [pc EXCEPT ![r] = next]
Hold(r, c) == certs' = [certs EXCEPT ![r] = c]

\* sync ends after it changed the objects S; its locals are forgotten.
End(r, S) ==
    /\ Go(r, "idle")
    /\ Hold(r, NoCerts)
    /\ fresh' = [Outdate(S) EXCEPT ![r] = {}]

\* A variant with a bug: an error ends the sync like a success.
ForgetError(r, S) == End(r, S) /\ UNCHANGED queued

\* processNextWorkItem adds the key again after an error.
Requeue(r, S) == End(r, S) /\ queued' = [queued EXCEPT ![r] = TRUE]

StartSync(r) ==
    /\ pc[r] = "idle" /\ queued[r]
    /\ queued' = [queued EXCEPT ![r] = FALSE]
    /\ Go(r, "read")
    /\ UNCHANGED <<objects, directories, pending, certs, fresh, inited,
                   disturbances>>

\* fsCertWriter.read: a directory without all the files has no certificates.
readDir(r) == IF disk[r] = NoCerts THEN Absent ELSE disk[r]

\* What the cert writer of this process reads.
stored(r) == IF Host THEN readDir(r) ELSE secret

\* handleCommon: read, and look whether the certificates are valid.
Read(r) ==
    /\ pc[r] \in {"read", "reread"} /\ stored(r) # Absent
    /\ Hold(r, stored(r))
    /\ IF validCert(stored(r))
       THEN Go(r, "writeDisk") /\ UNCHANGED fresh
       ELSE /\ Go(r, "overwrite")
            /\ fresh' = [fresh EXCEPT ![r] = {"secret"}]
    /\ UNCHANGED <<objects, directories, events, inited, disturbances>>

ReadNothing(r) ==
    /\ stored(r) = Absent
    /\ \/ /\ pc[r] = "read" /\ Go(r, "create")
          /\ UNCHANGED <<queued, certs, fresh>>
       \/ pc[r] = "reread" /\ Requeue(r, {})
    /\ UNCHANGED <<objects, directories, pending, inited, disturbances>>

WriteSecret(c) == secret' = c /\ Issue(c) /\ Announce({"secret"})

\* secretCertWriter.write.  Another replica may have been faster.
Create(r) ==
    /\ pc[r] = "create" /\ ~Host
    /\ IF secret = Absent
       THEN /\ WriteSecret(Generate(newGenerator))
            /\ Hold(r, Generate(newGenerator))
            /\ Go(r, "writeDisk")
            /\ fresh' = Outdate({"secret"})
       ELSE /\ Go(r, "reread")
            /\ UNCHANGED <<secret, issued, pending, certs, fresh>>
    /\ UNCHANGED <<confs, aged, ending, directories, queued, inited,
                   disturbances>>

\* The write of overwrite(), and what it returns.
Replace(r) ==
    /\ WriteSecret(Generate(certs[r].ca))
    /\ Hold(r, Generate(certs[r].ca))
    /\ Go(r, "writeDisk")
    /\ fresh' = Outdate({"secret"})
    /\ UNCHANGED queued

\* A variant with a bug: the resourceVersion is not sent.
OverwriteAny(r) ==
    /\ pc[r] = "overwrite" /\ ~Host
    /\ IF secret # Absent
       THEN Replace(r)
       ELSE Requeue(r, {}) /\ UNCHANGED <<secret, issued, pending>>
    /\ UNCHANGED <<confs, aged, ending, directories, inited, disturbances>>

\* overwrite: the generator has the CA that was read, and the resourceVersion
\* goes with the new data.
Overwrite(r) ==
    /\ pc[r] = "overwrite" /\ ~Host
    /\ IF "secret" \in fresh[r]
       THEN Replace(r)
       ELSE Requeue(r, {}) /\ UNCHANGED <<secret, issued, pending>>
    /\ UNCHANGED <<confs, aged, ending, directories, inited, disturbances>>

\* Writer.Write compares bytes and returns early when the directory has them.
\* The places where it may have something to write: with Host the second write
\* of a sync finds what the first one wrote, or what was read.
writing(r) == IF Host THEN pc[r] \in {"create", "overwrite"}
                      ELSE pc[r] = "writeDisk"

\* fsCertWriter.doWrite: read did not give the generator a CA.  Symlink fails
\* on a ..data_tmp that is there.
WriteHost(r) ==
    /\ pc[r] \in {"create", "overwrite"} /\ Host
    /\ IF stuck[r]
       THEN Requeue(r, {}) /\ UNCHANGED <<issued, disk>>
       ELSE /\ Issue(Generate(newGenerator))
            /\ disk' = [disk EXCEPT ![r] = Generate(newGenerator)]
            /\ Hold(r, Generate(newGenerator))
            /\ Go(r, "writeDisk")
            /\ fresh' = [fresh EXCEPT ![r] = {}]
            /\ UNCHANGED queued
    /\ UNCHANGED <<secret, confs, aged, ending, stuck, pending, inited,
                   disturbances>>

\* WriteCertsToDir.  Other bytes than the directory's may be another
\* certificate of the same CA.
WriteDisk(r) ==
    /\ pc[r] = "writeDisk"
    /\ \/ /\ stuck[r] => disk[r] = certs[r]
          /\ disk' = [disk EXCEPT ![r] = certs[r]]
          /\ Go(r, "getMutating")
          /\ UNCHANGED <<queued, certs, fresh>>
       \/ /\ stuck[r] /\ writing(r)
          /\ Requeue(r, {})
          /\ UNCHANGED disk
    /\ UNCHANGED <<objects, stuck, pending, inited, disturbances>>

\* configuration.Ensure: two reads, then two writes.
GetConf(r, k, next) ==
    /\ IF confs[k] = Absent
       THEN Requeue(r, {})
       ELSE /\ Go(r, next)
            /\ fresh' = [fresh EXCEPT ![r] = @ \union {k}]
            /\ UNCHANGED <<queued, certs>>
    /\ UNCHANGED <<objects, directories, pending, inited, disturbances>>

GetMutating(r) ==
    pc[r] = "getMutating" /\ GetConf(r, "mutating", "getValidating")
GetValidating(r) ==
    pc[r] = "getValidating" /\ GetConf(r, "validating", "updateValidating")

\* A variant with a bug: the webhooks in place are kept, not the template's.
ensuredInPlace(conf, ca) ==
    [hooks |-> conf.hooks, ca |-> ca,
     template |-> IF conf.template = NoHooks THEN conf.hooks ELSE conf.template]

\* The template is what the webhooks were when the annotation was not there.
ensured(conf, ca) ==
    LET t == IF conf.template = NoHooks THEN conf.hooks ELSE conf.template
    IN  [hooks |-> t, template |-> t, ca |-> ca]

\* An update that changes nothing makes no version.
changed(r, k) ==
    IF ensured(confs[k], certs[r].ca) = confs[k] THEN {} ELSE {k}

WriteConf(r, k) ==
    /\ confs' = [confs EXCEPT ![k] = ensured(@, certs[r].ca)]
    /\ Announce(changed(r, k))

UpdateValidating(r) ==
    /\ pc[r] = "updateValidating"
    /\ IF "validating" \in fresh[r]
       THEN /\ WriteConf(r, "validating")
            /\ Go(r, "updateMutating")
            /\ fresh' = [Outdate(changed(r, "validating"))
                           EXCEPT ![r] = @ \ {"validating"}]
            /\ UNCHANGED <<queued, certs>>
       ELSE Requeue(r, {}) /\ UNCHANGED <<confs, pending>>
    /\ UNCHANGED <<secret, issued, aged, ending, directories, inited,
                   disturbances>>

\* onceInit: Initialize may return.
Inited(r) == inited' = [inited EXCEPT ![r] = TRUE]

UpdateMutating(r) ==
    /\ pc[r] = "updateMutating"
    /\ IF "mutating" \in fresh[r]
       THEN /\ WriteConf(r, "mutating")
            /\ End(r, changed(r, "mutating"))
            /\ Inited(r)
            /\ UNCHANGED queued
       ELSE Requeue(r, {}) /\ UNCHANGED <<confs, pending, inited>>
    /\ UNCHANGED <<secret, issued, aged, ending, directories, disturbances>>

\* A client call fails, or a write to disk that leaves nothing behind.
FailSync(r) ==
    /\ pc[r] # "idle"
    /\ Disturb
    /\ Requeue(r, {})
    /\ UNCHANGED <<objects, directories, pending, inited>>

\* A write is served and its answer is lost.
LoseReply(r) ==
    /\ Disturb
    /\ \/ /\ \/ pc[r] = "create" /\ ~Host /\ secret = Absent
             \/ pc[r] = "overwrite" /\ ~Host /\ "secret" \in fresh[r]
          /\ WriteSecret(Generate(certs[r].ca))
          /\ Requeue(r, {"secret"})
          /\ UNCHANGED confs
       \/ \E k \in Kinds :
          /\ pc[r] = IF k = "validating" THEN "updateValidating"
                                        ELSE "updateMutating"
          /\ k \in fresh[r]
          /\ WriteConf(r, k)
          /\ Requeue(r, changed(r, k))
          /\ UNCHANGED <<secret, issued>>
    /\ UNCHANGED <<aged, ending, directories, inited>>

\* Write fails and leaves its mark: the rename fails and ..data_tmp cannot be
\* removed, or the new data are in place and the old ones cannot be removed.
FailWrite(r) ==
    /\ writing(r) /\ ~stuck[r]
    /\ Disturb
    /\ \/ /\ stuck' = [stuck EXCEPT ![r] = TRUE]
          /\ UNCHANGED <<issued, disk>>
       \/ /\ disk[r] # NoCerts
          /\ LET payload == IF Host THEN Generate(newGenerator) ELSE certs[r]
             IN  Issue(payload) /\ disk' = [disk EXCEPT ![r] = payload]
          /\ UNCHANGED stuck
    /\ Requeue(r, {})
    /\ UNCHANGED <<secret, confs, aged, ending, pending, inited>>

\* The process starts again: the informers list.  A container's directory is
\* lost; the host's stays, with the ..data_tmp of a write that was cut off.
Restart(r) ==
    /\ End(r, {})
    /\ disk' = [disk EXCEPT ![r] = IF Host THEN @ ELSE NoCerts]
    /\ \/ stuck' = [stuck EXCEPT ![r] = Host /\ @]
       \/ Host /\ writing(r) /\ stuck' = [stuck EXCEPT ![r] = TRUE]
    /\ pending' = [pending EXCEPT ![r] = {k \in Objects : exists(k)}]
    /\ queued' = [queued EXCEPT ![r] = FALSE]
    /\ inited' = [inited EXCEPT ![r] = FALSE]
    /\ UNCHANGED objects

\* Initialize has waited five seconds for the first sync, and main exits.
GiveUp(r) == ~inited[r] /\ Disturb /\ Restart(r)

Crash(r) == inited[r] /\ Disturb /\ Restart(r)

-----------------------------------------------------------------------------

Environment ==
    \/ BreakSecret \/ DeleteSecret \/ Age
    \/ \E k \in Kinds : DeleteConf(k) \/ \E h \in Hooks : ApplyConf(k, h)

Sync(r) ==
    \/ StartSync(r)
    \/ Read(r) \/ ReadNothing(r) \/ Create(r) \/ Overwrite(r) \/ WriteHost(r)
    \/ WriteDisk(r)
    \/ GetMutating(r) \/ GetValidating(r)
    \/ UpdateValidating(r) \/ UpdateMutating(r)

Next ==
    \/ Environment
    \/ \E r \in Replicas :
          \/ \E k \in Objects : Deliver(r, k)
          \/ Relist(r)
          \/ Sync(r)
          \/ FailSync(r) \/ LoseReply(r) \/ FailWrite(r)
          \/ GiveUp(r) \/ Crash(r)

Spec == Init /\ [][Next]_vars

(***************************************************************************)
(* Events are handled and a sync goes on.  Nothing forces a change from    *)
(* outside, a fault or a crash.                                            *)
(***************************************************************************)
FairSpec ==
    /\ Spec
    /\ \A r \in Replicas : /\ \A k \in Objects : WF_vars(Deliver(r, k))
                           /\ WF_vars(Sync(r))
=============================================================================
