------------------------ MODULE WebhookCerts_proofs -------------------------
(***************************************************************************)
(* Proofs about the webhook certificate controller, for any finite set of  *)
(* replicas, any webhooks, either place of the certificates and any bound. *)
(***************************************************************************)
EXTENDS WebhookProperties, TLAPS

-----------------------------------------------------------------------------
(* TypeOK.                                                                 *)

Places == {"idle", "read", "create", "reread", "overwrite", "writeDisk",
           "getMutating", "getValidating", "updateValidating",
           "updateMutating"}

\* TypeOK, by what steps change together.
ObjectsOK == /\ secret \in Artifacts \union {Absent}
             /\ confs \in [Kinds -> Configuration \union {Absent}]
             /\ issued \in CA
             /\ ending \subseteq aged /\ aged \subseteq 1..issued
EventsOK == /\ pending \in [Replicas -> SUBSET Objects]
            /\ queued \in [Replicas -> BOOLEAN]
LocalsOK == /\ pc \in [Replicas -> Places]
            /\ certs \in [Replicas -> Artifacts]
            /\ fresh \in [Replicas -> SUBSET Objects]
RestOK == /\ disk \in [Replicas -> Artifacts]
          /\ stuck \in [Replicas -> BOOLEAN]
          /\ inited \in [Replicas -> BOOLEAN]
          /\ disturbances \in 0..MaxDisturbances

LEMMA TypeParts ==
    /\ TypeOK <=> ObjectsOK /\ EventsOK /\ LocalsOK /\ RestOK
    /\ TypeOK' <=> ObjectsOK' /\ EventsOK' /\ LocalsOK' /\ RestOK'
BY DEF TypeOK, ObjectsOK, EventsOK, LocalsOK, RestOK, Places

LEMMA TypeInit == Init => TypeOK
<1> SUFFICES ASSUME Init PROVE TypeOK
  OBVIOUS
<1>1. ObjectsOK
  <2>1. secret \in Artifacts \union {Absent}
    <3>1. NoCerts \in Artifacts /\ [ca |-> 1, usable |-> TRUE] \in Artifacts
      BY DEF Artifacts, NoCerts, CA, NoCA
    <3> QED
      BY <3>1 DEF Init
  <2>2. confs \in [Kinds -> Configuration \union {Absent}]
    BY DEF Init, Configuration
  <2> QED
    BY <2>1, <2>2 DEF Init, ObjectsOK, CA
<1>2. EventsOK
  <2>1. \A r \in Replicas : pending[r] \in SUBSET Objects
    BY DEF Init
  <2> QED
    BY <2>1 DEF Init, EventsOK
<1>3. LocalsOK
  BY DEF Init, LocalsOK, Artifacts, NoCerts, NoCA, Places
<1>4. RestOK
  BY BoundAssumption DEF Init, RestOK, Artifacts, NoCerts, NoCA
<1> QED
  BY <1>1, <1>2, <1>3, <1>4, TypeParts

LEMMA DisturbType ==
    ASSUME TypeOK, Disturb
    PROVE  disturbances' \in 0..MaxDisturbances
BY BoundAssumption DEF TypeOK, Disturb

\* Events and resourceVersions of objects that were written.
LEMMA AnnounceType ==
    ASSUME TypeOK, NEW S \in SUBSET Objects
    PROVE  /\ Announce(S) => pending' \in [Replicas -> SUBSET Objects]
           /\ Outdate(S) \in [Replicas -> SUBSET Objects]
BY DEF TypeOK, Announce, Outdate

LEMMA EndType ==
    ASSUME TypeOK, NEW r \in Replicas, NEW S \in SUBSET Objects
    PROVE  /\ End(r, S) => LocalsOK'
           /\ Requeue(r, S) => LocalsOK' /\ queued' \in [Replicas -> BOOLEAN]
<1>1. Outdate(S) \in [Replicas -> SUBSET Objects]
  BY AnnounceType
<1>2. End(r, S) => LocalsOK'
  BY <1>1 DEF End, Go, Hold, LocalsOK, TypeOK, Places, Artifacts, NoCerts, NoCA
<1> QED
  BY <1>2 DEF Requeue, TypeOK

LEMMA GenerateType ==
    ASSUME TypeOK, NEW ca \in CA \union {NoCA}
    PROVE  /\ Generate(ca) \in Artifacts /\ Generate(ca).usable
           /\ Issue(Generate(ca)) => issued' \in CA /\ issued <= issued'
BY DEF TypeOK, Generate, NewSignedCert, Artifacts, Issue, freshCA, CA, NoCA

LEMMA WriteSecretType ==
    ASSUME TypeOK, NEW ca \in CA \union {NoCA}, WriteSecret(Generate(ca)),
           UNCHANGED <<confs, aged, ending>>
    PROVE  ObjectsOK' /\ pending' \in [Replicas -> SUBSET Objects]
<1>1. {"secret"} \in SUBSET Objects
  BY DEF Objects
<1>2. pending' \in [Replicas -> SUBSET Objects]
  BY <1>1, AnnounceType DEF WriteSecret
<1>3. 1..issued \subseteq 1..issued'
  BY GenerateType DEF WriteSecret, TypeOK, CA
<1> QED
  BY <1>2, <1>3, GenerateType DEF WriteSecret, ObjectsOK, TypeOK

LEMMA WriteConfType ==
    ASSUME TypeOK, NEW r \in Replicas, NEW k \in Kinds, confs[k] # Absent,
           WriteConf(r, k)
    PROVE  /\ confs' \in [Kinds -> Configuration \union {Absent}]
           /\ pending' \in [Replicas -> SUBSET Objects]
           /\ changed(r, k) \in SUBSET Objects
<1>1. changed(r, k) \in SUBSET Objects
  BY DEF changed, Objects
<1>2. confs[k] \in Configuration /\ certs[r].ca \in CA \union {NoCA}
  BY DEF TypeOK, Artifacts
<1>3. ensured(confs[k], certs[r].ca) \in Configuration
  BY <1>2 DEF ensured, Configuration
<1> QED
  BY <1>1, <1>3, AnnounceType DEF WriteConf, TypeOK

LEMMA EnvironmentType == TypeOK /\ Environment => TypeOK'
<1> SUFFICES ASSUME TypeOK, Environment PROVE TypeOK'
  OBVIOUS
<1> USE DEF objects, directories, events, locals
<1>a. /\ {"secret"} \in SUBSET Objects
      /\ \A k \in Kinds : {k} \in SUBSET Objects
  BY DEF Objects
<1>1. CASE BreakSecret
  <2>1. secret' \in Artifacts
    <3>1. NoCerts \in Artifacts
      BY DEF NoCerts, Artifacts, NoCA
    <3>2. secret # Absent => [secret EXCEPT !.usable = FALSE] \in Artifacts
      BY DEF TypeOK, Artifacts
    <3> QED
      BY <1>1, <3>1, <3>2 DEF BreakSecret
  <2> QED
    BY <1>1, <2>1, <1>a, AnnounceType, DisturbType DEF BreakSecret, TypeOK
<1>2. CASE DeleteSecret
  BY <1>2, <1>a, AnnounceType, DisturbType DEF DeleteSecret, TypeOK
<1>3. ASSUME NEW k \in Kinds, NEW h \in Hooks, ApplyConf(k, h)
      PROVE  TypeOK'
  <2>1. [hooks |-> h, ca |-> NoCA,
         template |-> IF confs[k] = Absent THEN NoHooks
                                           ELSE confs[k].template]
           \in Configuration
    BY DEF TypeOK, Configuration
  <2>2. confs' \in [Kinds -> Configuration \union {Absent}]
    BY <1>3, <2>1 DEF ApplyConf, TypeOK
  <2> QED
    BY <1>3, <2>2, <1>a, AnnounceType, DisturbType DEF ApplyConf, TypeOK
<1>4. ASSUME NEW k \in Kinds, DeleteConf(k) PROVE TypeOK'
  BY <1>4, <1>a, AnnounceType, DisturbType DEF DeleteConf, TypeOK
<1>5. CASE Age
  BY <1>5, DisturbType DEF Age, TypeOK
<1> QED
  BY <1>1, <1>2, <1>3, <1>4, <1>5 DEF Environment

LEMMA InformersType ==
    ASSUME TypeOK, NEW r \in Replicas,
           Relist(r) \/ \E k \in Objects : Deliver(r, k)
    PROVE  TypeOK'
<1> USE DEF objects, directories, locals
<1>1. CASE Relist(r)
  BY <1>1 DEF Relist, TypeOK
<1>2. ASSUME NEW k \in Objects, Deliver(r, k) PROVE TypeOK'
  BY <1>2 DEF Deliver, TypeOK
<1> QED
  BY <1>1, <1>2

LEMMA SyncType ==
    ASSUME TypeOK, NEW r \in Replicas, FreshAt(r), Sync(r)
    PROVE  TypeOK'
<1> USE DEF objects, directories, events, locals, Go, Hold
<1>a. {} \in SUBSET Objects
  OBVIOUS
<1>q. Requeue(r, {}) => LocalsOK' /\ queued' \in [Replicas -> BOOLEAN]
  BY <1>a, EndType
<1>n. /\ newGenerator \in CA \union {NoCA} /\ certs[r].ca \in CA \union {NoCA}
      /\ {"secret"} \in SUBSET Objects
  BY DEF newGenerator, TypeOK, Artifacts, Objects
<1>f. \A k \in fresh[r] : k \in Kinds => confs[k] # Absent
  BY DEF FreshAt
<1>1. CASE StartSync(r)
  BY <1>1 DEF StartSync, TypeOK
<1>2. CASE Read(r)
  <2>1. stored(r) \in Artifacts
    BY <1>2 DEF Read, stored, readDir, TypeOK
  <2>2. LocalsOK'
    <3>1. certs' \in [Replicas -> Artifacts]
      BY <1>2, <2>1 DEF Read, TypeOK
    <3>2. pc' \in [Replicas -> Places]
      BY <1>2 DEF Read, TypeOK, Places
    <3>3. fresh' \in [Replicas -> SUBSET Objects]
      BY <1>2, <1>n DEF Read, TypeOK
    <3> QED
      BY <3>1, <3>2, <3>3 DEF LocalsOK
  <2> QED
    BY <1>2, <2>2, TypeParts DEF Read, ObjectsOK, EventsOK, RestOK
<1>3. CASE ReadNothing(r)
  <2>1. LocalsOK' /\ queued' \in [Replicas -> BOOLEAN]
    <3>1. CASE pc[r] = "reread"
      BY <1>3, <3>1, <1>q DEF ReadNothing
    <3>2. CASE pc[r] # "reread"
      BY <1>3, <3>2 DEF ReadNothing, TypeOK, LocalsOK, Places
    <3> QED
      BY <3>1, <3>2
  <2> QED
    BY <1>3, <2>1, TypeParts
       DEF ReadNothing, ObjectsOK, EventsOK, RestOK
<1>4. CASE Create(r)
  <2>1. CASE secret = Absent
    <3>1. ObjectsOK' /\ pending' \in [Replicas -> SUBSET Objects]
      BY <1>4, <2>1, <1>n, WriteSecretType DEF Create
    <3>2. LocalsOK'
      BY <1>4, <2>1, <1>n, GenerateType, AnnounceType
         DEF Create, TypeOK, LocalsOK, Places
    <3> QED
      BY <1>4, <3>1, <3>2, TypeParts DEF Create, EventsOK, RestOK
  <2>2. CASE secret # Absent
    BY <1>4, <2>2 DEF Create, TypeOK
  <2> QED
    BY <2>1, <2>2
<1>5. CASE Overwrite(r)
  <2>1. CASE "secret" \in fresh[r]
    BY <1>5, <2>1, <1>n, WriteSecretType, GenerateType, AnnounceType
       DEF Overwrite, Replace, TypeOK, ObjectsOK
  <2>2. CASE "secret" \notin fresh[r]
    BY <1>5, <2>2, <1>q DEF Overwrite, TypeOK, LocalsOK, Places
  <2> QED
    BY <2>1, <2>2
<1>6. CASE WriteHost(r)
  <2>1. CASE stuck[r]
    BY <1>6, <2>1, <1>q, TypeParts
       DEF WriteHost, ObjectsOK, EventsOK, RestOK
  <2>2. CASE ~stuck[r]
    <3>1. 1..issued \subseteq 1..issued'
      <4>1. issued' \in CA /\ issued <= issued'
        BY <1>6, <2>2, <1>n, GenerateType DEF WriteHost
      <4> QED
        BY <4>1 DEF TypeOK, CA
    <3> QED
      BY <1>6, <2>2, <3>1, <1>n, GenerateType, TypeParts
         DEF WriteHost, ObjectsOK, EventsOK, LocalsOK, RestOK, Places
  <2> QED
    BY <2>1, <2>2
<1>7. CASE WriteDisk(r)
  <2>1. CASE Requeue(r, {})
    BY <1>7, <2>1, <1>q, TypeParts
       DEF WriteDisk, ObjectsOK, EventsOK, RestOK, TypeOK
  <2>2. CASE ~Requeue(r, {})
    BY <1>7, <2>2 DEF WriteDisk, TypeOK
  <2> QED
    BY <2>1, <2>2
<1>8. CASE GetMutating(r) \/ GetValidating(r)
  <2>1. PICK k \in Kinds :
           \/ Requeue(r, {})
           \/ /\ pc' \in {[pc EXCEPT ![r] = "getValidating"],
                          [pc EXCEPT ![r] = "updateValidating"]}
              /\ fresh' = [fresh EXCEPT ![r] = @ \union {k}]
              /\ UNCHANGED <<queued, certs>>
    BY <1>8 DEF GetMutating, GetValidating, GetConf, Kinds
  <2>2. CASE Requeue(r, {})
    BY <1>8, <2>2, <1>q, TypeParts
       DEF GetMutating, GetValidating, GetConf, ObjectsOK, EventsOK, RestOK
  <2>3. CASE ~Requeue(r, {})
    <3>1. LocalsOK' /\ UNCHANGED queued
      BY <2>1, <2>3 DEF TypeOK, LocalsOK, Places, Objects
    <3> QED
      BY <1>8, <3>1, TypeParts
         DEF GetMutating, GetValidating, GetConf, ObjectsOK, EventsOK, RestOK
  <2> QED
    BY <2>2, <2>3
<1>9. CASE UpdateValidating(r)
  <2>1. CASE "validating" \in fresh[r]
    <3>1. /\ confs' \in [Kinds -> Configuration \union {Absent}]
          /\ pending' \in [Replicas -> SUBSET Objects]
          /\ Outdate(changed(r, "validating")) \in [Replicas -> SUBSET Objects]
      BY <1>9, <2>1, <1>f, WriteConfType, AnnounceType DEF UpdateValidating, Kinds
    <3> QED
      BY <1>9, <2>1, <3>1, TypeParts
         DEF UpdateValidating, ObjectsOK, EventsOK, LocalsOK, RestOK, Places
  <2>2. CASE "validating" \notin fresh[r]
    BY <1>9, <2>2, <1>q, TypeParts
       DEF UpdateValidating, ObjectsOK, EventsOK, RestOK
  <2> QED
    BY <2>1, <2>2
<1>10. CASE UpdateMutating(r)
  <2>1. CASE "mutating" \in fresh[r]
    <3>1. /\ confs' \in [Kinds -> Configuration \union {Absent}]
          /\ pending' \in [Replicas -> SUBSET Objects]
          /\ LocalsOK'
      BY <1>10, <2>1, <1>f, WriteConfType, EndType DEF UpdateMutating, Inited, Kinds
    <3> QED
      BY <1>10, <2>1, <3>1 DEF UpdateMutating, Inited, TypeOK, LocalsOK, Places
  <2>2. CASE "mutating" \notin fresh[r]
    BY <1>10, <2>2, <1>q, TypeParts
       DEF UpdateMutating, Inited, ObjectsOK, EventsOK, RestOK
  <2> QED
    BY <2>1, <2>2
<1> QED
  BY <1>1, <1>2, <1>3, <1>4, <1>5, <1>6, <1>7, <1>8, <1>9, <1>10 DEF Sync

LEMMA FaultsType ==
    ASSUME TypeOK, NEW r \in Replicas, FreshAt(r),
           FailSync(r) \/ LoseReply(r) \/ FailWrite(r) \/ GiveUp(r) \/ Crash(r)
    PROVE  TypeOK'
<1> USE DEF objects, directories
<1>n. /\ {} \in SUBSET Objects /\ {"secret"} \in SUBSET Objects
      /\ certs[r].ca \in CA \union {NoCA}
  BY DEF TypeOK, Artifacts, Objects
<1>1. CASE FailSync(r)
  BY <1>1, <1>n, EndType, DisturbType DEF FailSync, TypeOK, LocalsOK, Places
<1>2. CASE LoseReply(r)
  <2>1. /\ \/ /\ WriteSecret(Generate(certs[r].ca)) /\ Requeue(r, {"secret"})
              /\ UNCHANGED confs
           \/ \E k \in Kinds : /\ k \in fresh[r] /\ WriteConf(r, k)
                               /\ Requeue(r, changed(r, k))
                               /\ UNCHANGED <<secret, issued>>
        /\ UNCHANGED <<aged, ending, disk, stuck, inited>> /\ Disturb
    BY <1>2 DEF LoseReply
  <2>2. /\ disturbances' \in 0..MaxDisturbances
        /\ disk' \in [Replicas -> Artifacts]
        /\ stuck' \in [Replicas -> BOOLEAN]
        /\ inited' \in [Replicas -> BOOLEAN]
    BY <2>1, DisturbType DEF TypeOK
  <2>3. CASE /\ WriteSecret(Generate(certs[r].ca)) /\ Requeue(r, {"secret"})
             /\ UNCHANGED confs
    BY <1>n, <2>1, <2>2, <2>3, WriteSecretType, EndType, TypeParts
       DEF EventsOK, RestOK
  <2>4. ASSUME NEW k \in Kinds, k \in fresh[r], WriteConf(r, k),
               Requeue(r, changed(r, k)), UNCHANGED <<secret, issued>>
        PROVE  TypeOK'
    <3>1. confs[k] # Absent
      BY <2>4 DEF FreshAt
    <3>2. /\ confs' \in [Kinds -> Configuration \union {Absent}]
          /\ pending' \in [Replicas -> SUBSET Objects]
          /\ LocalsOK' /\ queued' \in [Replicas -> BOOLEAN]
      BY <2>4, <3>1, WriteConfType, EndType
    <3>3. ObjectsOK'
      BY <2>1, <2>4, <3>2 DEF ObjectsOK, TypeOK
    <3> QED
      BY <2>2, <3>2, <3>3, TypeParts DEF EventsOK, RestOK
  <2> QED
    BY <2>1, <2>3, <2>4
<1>3. CASE GiveUp(r) \/ Crash(r)
  <2>a. Restart(r) /\ Disturb
    BY <1>3 DEF GiveUp, Crash
  <2>1. LocalsOK'
    BY <2>a, <1>n, EndType DEF Restart
  <2>2. disk' \in [Replicas -> Artifacts]
    BY <2>a DEF Restart, TypeOK, NoCerts, Artifacts, NoCA
  <2>3. stuck' \in [Replicas -> BOOLEAN]
    BY <2>a, BoundAssumption DEF Restart, TypeOK
  <2> QED
    BY <2>a, <2>1, <2>2, <2>3, DisturbType DEF Restart, TypeOK, LocalsOK, Places
<1>4. CASE FailWrite(r)
  <2> DEFINE payload == IF Host THEN Generate(newGenerator) ELSE certs[r]
  <2>1. /\ payload \in Artifacts
        /\ Issue(payload) => issued' \in CA /\ issued <= issued'
    <3>1. newGenerator \in CA \union {NoCA}
      BY DEF newGenerator
    <3> QED
      BY <3>1, GenerateType DEF TypeOK, Issue, freshCA, CA
  <2>2. LocalsOK' /\ queued' \in [Replicas -> BOOLEAN]
    BY <1>4, <1>n, EndType DEF FailWrite
  <2>3. issued' \in CA /\ issued <= issued'
    BY <1>4, <2>1 DEF FailWrite, TypeOK, CA
  <2>4. ObjectsOK'
    <3>1. 1..issued \subseteq 1..issued'
      BY <2>3 DEF TypeOK, CA
    <3> QED
      BY <1>4, <2>3, <3>1 DEF FailWrite, TypeOK, ObjectsOK
  <2>5. RestOK'
    BY <1>4, <2>1, DisturbType DEF FailWrite, TypeOK, RestOK
  <2> QED
    BY <1>4, <2>2, <2>4, <2>5, TypeParts DEF FailWrite, TypeOK, EventsOK
<1> QED
  BY <1>1, <1>2, <1>3, <1>4

-----------------------------------------------------------------------------
(* WorkAt, at a replica that does nothing itself.                          *)

\* What a step may do to replica s without its doing.
Bystander(s) ==
    /\ pc'[s] = pc[s] /\ certs'[s] = certs[s] /\ disk'[s] = disk[s]
    /\ queued'[s] = queued[s]
    /\ fresh'[s] \subseteq fresh[s]
    /\ \/ secret' = secret
       \/ /\ "secret" \notin fresh'[s]
          /\ secret' = Absent \/ "secret" \in pending'[s]
    /\ \A k \in Kinds : \/ confs'[k] = confs[k]
                        \/ /\ k \notin fresh'[s]
                           /\ confs'[k] = Absent \/ k \in pending'[s]
    /\ "secret" \in pending[s] => "secret" \in pending'[s] \/ secret' = Absent
    /\ \A k \in Kinds : k \in pending[s] =>
                             k \in pending'[s] \/ confs'[k] = Absent

LEMMA BystanderKeeps ==
    ASSUME NEW s \in Replicas, WorkAt(s), Bystander(s)
    PROVE  WorkAt(s)'
<1>1. FreshAt(s)'
  BY DEF WorkAt, FreshAt, Bystander
<1>2. HeldAt(s)'
  BY DEF WorkAt, HeldAt, Bystander
<1>3. PendingAt(s)'
  BY DEF WorkAt, PendingAt, Bystander, SecretFits, ConfFits, holding
<1> QED
  BY <1>1, <1>2, <1>3 DEF WorkAt

LEMMA EnvironmentBystander ==
    ASSUME TypeOK, Environment, NEW s \in Replicas
    PROVE  Bystander(s)
<1> USE DEF objects, directories, events, locals, Announce, Outdate, Bystander,
            TypeOK
<1>1. CASE BreakSecret
  BY <1>1 DEF BreakSecret, Kinds
<1>2. CASE DeleteSecret
  BY <1>2 DEF DeleteSecret, Kinds
<1>3. ASSUME NEW k \in Kinds, NEW h \in Hooks, ApplyConf(k, h)
      PROVE  Bystander(s)
  BY <1>3 DEF ApplyConf, Kinds
<1>4. ASSUME NEW k \in Kinds, DeleteConf(k) PROVE Bystander(s)
  BY <1>4 DEF DeleteConf, Kinds
<1>5. CASE Age
  BY <1>5 DEF Age
<1> QED
  BY <1>1, <1>2, <1>3, <1>4, <1>5 DEF Environment

\* A step of replica r.
Step(r) == \/ \E k \in Objects : Deliver(r, k)
           \/ Relist(r) \/ Sync(r)
           \/ FailSync(r) \/ LoseReply(r) \/ FailWrite(r)
           \/ GiveUp(r) \/ Crash(r)

\* What the writes of replica r do to the others.
LEMMA WritesSeen ==
    ASSUME TypeOK, NEW r \in Replicas, NEW s \in Replicas, NEW c, NEW k \in Kinds
    PROVE  /\ WriteSecret(c) => /\ "secret" \in pending'[s]
                                /\ pending[s] \subseteq pending'[s]
           /\ WriteConf(r, k) =>
                /\ pending[s] \subseteq pending'[s]
                /\ \A j \in Kinds : \/ confs'[j] = confs[j]
                                    \/ j \in changed(r, k) /\ j \in pending'[s]
<1>1. WriteSecret(c) => /\ "secret" \in pending'[s]
                        /\ pending[s] \subseteq pending'[s]
  BY DEF WriteSecret, Announce
<1>2. ASSUME WriteConf(r, k)
      PROVE  /\ pending[s] \subseteq pending'[s]
             /\ \A j \in Kinds : \/ confs'[j] = confs[j]
                                 \/ j \in changed(r, k) /\ j \in pending'[s]
  <2>1. pending'[s] = pending[s] \union changed(r, k)
    BY <1>2 DEF WriteConf, Announce
  <2>2. \A j \in Kinds : j # k => confs'[j] = confs[j]
    BY <1>2 DEF WriteConf, TypeOK
  <2>3. confs'[k] = ensured(confs[k], certs[r].ca)
    BY <1>2 DEF WriteConf, TypeOK
  <2> QED
    BY <2>1, <2>2, <2>3 DEF changed
<1> QED
  BY <1>1, <1>2

\* What the end of a sync of replica r does to the others.
LEMMA EndSeen ==
    ASSUME TypeOK, NEW r \in Replicas, NEW s \in Replicas, s # r, NEW S
    PROVE  /\ End(r, S) => /\ pc'[s] = pc[s] /\ certs'[s] = certs[s]
                           /\ fresh'[s] = fresh[s] \ S
           /\ Requeue(r, S) => End(r, S) /\ queued'[s] = queued[s]
BY DEF End, Requeue, Go, Hold, Outdate, TypeOK

LEMMA StepBystander ==
    ASSUME TypeOK, NEW r \in Replicas, NEW s \in Replicas, s # r, Step(r)
    PROVE  Bystander(s)
<1> USE DEF objects, directories, events, locals, Go, Hold
<1>1. ASSUME NEW k \in Objects, Deliver(r, k) PROVE Bystander(s)
  BY <1>1 DEF Deliver, Bystander, TypeOK
<1>2. CASE Relist(r)
  BY <1>2 DEF Relist, Bystander, TypeOK
<1>3. CASE StartSync(r) \/ Read(r)
  BY <1>3 DEF StartSync, Read, Bystander, TypeOK
<1>4. CASE ReadNothing(r) \/ GetMutating(r) \/ GetValidating(r)
  BY <1>4, EndSeen
     DEF ReadNothing, GetMutating, GetValidating, GetConf, Bystander, TypeOK
\* The others' locals, disks and queues.
<1>a. ASSUME NEW S, Requeue(r, S) \/ (End(r, S) /\ UNCHANGED queued)
      PROVE  /\ pc'[s] = pc[s] /\ certs'[s] = certs[s]
             /\ fresh'[s] = fresh[s] \ S /\ queued'[s] = queued[s]
  BY <1>a, EndSeen
<1>b. ASSUME NEW c, WriteSecret(c), UNCHANGED confs,
             pc'[s] = pc[s], certs'[s] = certs[s], disk'[s] = disk[s],
             queued'[s] = queued[s], fresh'[s] = fresh[s] \ {"secret"}
      PROVE  Bystander(s)
  BY <1>b, WritesSeen DEF Bystander, Kinds
<1>c. ASSUME NEW k \in Kinds, WriteConf(r, k), UNCHANGED secret,
             pc'[s] = pc[s], certs'[s] = certs[s], disk'[s] = disk[s],
             queued'[s] = queued[s], fresh'[s] = fresh[s] \ changed(r, k)
      PROVE  Bystander(s)
  BY <1>c, WritesSeen DEF Bystander
<1>d. ASSUME UNCHANGED <<secret, confs, pending>>,
             pc'[s] = pc[s], certs'[s] = certs[s], disk'[s] = disk[s],
             queued'[s] = queued[s], fresh'[s] \subseteq fresh[s]
      PROVE  Bystander(s)
  BY <1>d DEF Bystander
<1>e. \A S : Outdate(S)[s] = fresh[s] \ S
  BY DEF Outdate
<1>5. CASE Create(r)
  <2>1. pc'[s] = pc[s] /\ certs'[s] = certs[s]
    BY <1>5 DEF Create, TypeOK
  <2>2. CASE secret = Absent
    BY <1>5, <1>b, <1>e, <2>1, <2>2 DEF Create
  <2>3. CASE secret # Absent
    BY <1>5, <1>d, <2>1, <2>3 DEF Create
  <2> QED
    BY <2>2, <2>3
<1>6. CASE Overwrite(r)
  <2>1. CASE "secret" \in fresh[r]
    <3>1. pc'[s] = pc[s] /\ certs'[s] = certs[s]
      BY <1>6, <2>1 DEF Overwrite, Replace, TypeOK
    <3> QED
      BY <1>6, <1>b, <1>e, <2>1, <3>1 DEF Overwrite, Replace
  <2>2. CASE "secret" \notin fresh[r]
    BY <1>6, <1>a, <1>d, <2>2 DEF Overwrite
  <2> QED
    BY <2>1, <2>2
<1>7. CASE UpdateValidating(r)
  <2>1. CASE "validating" \in fresh[r]
    <3>1. pc'[s] = pc[s] /\ certs'[s] = certs[s]
      BY <1>7, <2>1 DEF UpdateValidating, TypeOK
    <3>2. fresh'[s] = fresh[s] \ changed(r, "validating")
      BY <1>7, <2>1, <1>e DEF UpdateValidating, Outdate
    <3> QED
      BY <1>7, <1>c, <2>1, <3>1, <3>2 DEF UpdateValidating, Kinds
  <2>2. CASE "validating" \notin fresh[r]
    BY <1>7, <1>a, <1>d, <2>2 DEF UpdateValidating
  <2> QED
    BY <2>1, <2>2
<1>8. CASE UpdateMutating(r)
  <2>1. CASE "mutating" \in fresh[r]
    BY <1>8, <1>a, <1>c, <2>1 DEF UpdateMutating, Inited, Kinds
  <2>2. CASE "mutating" \notin fresh[r]
    BY <1>8, <1>a, <1>d, <2>2 DEF UpdateMutating, Inited
  <2> QED
    BY <2>1, <2>2
<1>9. CASE FailSync(r)
  BY <1>9, EndSeen DEF FailSync, Bystander, TypeOK
<1>10. CASE LoseReply(r)
  <2>1. ASSUME NEW c, WriteSecret(c), Requeue(r, {"secret"}), UNCHANGED confs
        PROVE  Bystander(s)
    BY <1>10, <1>a, <1>b, <2>1 DEF LoseReply
  <2>2. ASSUME NEW k \in Kinds, WriteConf(r, k), Requeue(r, changed(r, k)),
               UNCHANGED secret
        PROVE  Bystander(s)
    BY <1>10, <1>a, <1>c, <2>2 DEF LoseReply
  <2> QED
    BY <1>10, <2>1, <2>2 DEF LoseReply
<1>11. CASE GiveUp(r) \/ Crash(r)
  <2>1. /\ pc'[s] = pc[s] /\ certs'[s] = certs[s] /\ fresh'[s] = fresh[s]
    <3>1. End(r, {})
      BY <1>11 DEF GiveUp, Crash, Restart
    <3>2. fresh'[s] = fresh[s] \ {}
      BY <3>1, EndSeen
    <3> QED
      BY <3>1, <3>2, EndSeen
  <2>2. /\ disk'[s] = disk[s] /\ queued'[s] = queued[s]
        /\ pending'[s] = pending[s]
    BY <1>11 DEF GiveUp, Crash, Restart, TypeOK
  <2> QED
    BY <1>11, <2>1, <2>2 DEF GiveUp, Crash, Restart, Bystander
<1>12. CASE WriteHost(r) \/ WriteDisk(r) \/ FailWrite(r)
  <2>1. disk'[s] = disk[s] /\ UNCHANGED <<secret, confs, pending>>
    BY <1>12 DEF WriteHost, WriteDisk, FailWrite, TypeOK
  <2>2. CASE Requeue(r, {})
    BY <1>a, <1>d, <2>1, <2>2
  <2>3. CASE ~Requeue(r, {})
    <3>1. /\ pc'[s] = pc[s] /\ certs'[s] = certs[s]
          /\ fresh'[s] = fresh[s] /\ queued'[s] = queued[s]
      BY <1>12, <2>3 DEF WriteHost, WriteDisk, FailWrite, TypeOK
    <3> QED
      BY <1>d, <2>1, <3>1
  <2> QED
    BY <2>2, <2>3
<1> QED
  BY <1>1, <1>2, <1>3, <1>4, <1>5, <1>6, <1>7, <1>8, <1>9, <1>10, <1>11, <1>12
     DEF Step, Sync

-----------------------------------------------------------------------------
(* WorkAt, at the replica that makes the step.                             *)

LEMMA RequeueWork ==
    ASSUME TypeOK, NEW r \in Replicas, NEW S, Requeue(r, S)
    PROVE  WorkAt(r)'
<1>1. pc'[r] = "idle" /\ fresh'[r] = {} /\ queued'[r]
  BY DEF Requeue, End, Go, Outdate, TypeOK
<1> QED
  BY <1>1 DEF WorkAt, FreshAt, HeldAt, PendingAt

LEMMA ReadWork ==
    ASSUME TypeOK, NEW r \in Replicas, WorkAt(r), Read(r)
    PROVE  WorkAt(r)'
<1> USE DEF objects, directories, events
<1>1. /\ certs'[r] = stored(r) /\ stored(r) # Absent
      /\ UNCHANGED <<secret, confs, disk, pending, queued>>
  BY DEF Read, Hold, TypeOK
<1>2. (~Host => stored(r) = secret) /\ (Host => stored(r) = disk[r])
  BY <1>1 DEF stored, readDir
<1>3. CASE validCert(stored(r))
  <2>1. pc'[r] = "writeDisk" /\ fresh' = fresh /\ stored(r).usable
    BY <1>3 DEF Read, Go, TypeOK, validCert
  <2> QED
    BY <1>1, <1>2, <2>1
       DEF WorkAt, FreshAt, HeldAt, PendingAt, SecretFits, holding
<1>4. CASE ~validCert(stored(r))
  <2>1. pc'[r] = "overwrite" /\ fresh'[r] = {"secret"}
    BY <1>4 DEF Read, Go, TypeOK
  <2> QED
    BY <1>1, <1>2, <2>1
       DEF WorkAt, FreshAt, HeldAt, PendingAt, holding, Kinds
<1> QED
  BY <1>3, <1>4

\* A sync that made certificates of its own goes on to write them to disk.
LEMMA MadeWork ==
    ASSUME TypeOK, NEW r \in Replicas, WorkAt(r), NEW ca \in CA \union {NoCA},
           pc'[r] = "writeDisk", certs'[r] = Generate(ca),
           fresh'[r] \subseteq fresh[r], UNCHANGED confs,
           \/ Host /\ disk'[r] = certs'[r]
           \/ ~Host /\ "secret" \in pending'[r]
    PROVE  WorkAt(r)'
<1>1. certs'[r].usable
  BY GenerateType
<1> QED
  BY <1>1 DEF WorkAt, FreshAt, HeldAt, PendingAt, holding

LEMMA CertsWork ==
    ASSUME TypeOK, NEW r \in Replicas, WorkAt(r),
           Create(r) \/ Overwrite(r) \/ WriteHost(r)
    PROVE  WorkAt(r)'
<1> USE DEF objects, directories, events, Go, Hold
<1>n. newGenerator \in CA \union {NoCA} /\ certs[r].ca \in CA \union {NoCA}
  BY DEF newGenerator, TypeOK, Artifacts
<1>e. \A S : Outdate(S)[r] = fresh[r] \ S
  BY DEF Outdate
<1>1. CASE Create(r)
  <2>1. CASE secret = Absent
    <3>1. /\ pc'[r] = "writeDisk" /\ certs'[r] = Generate(newGenerator)
          /\ fresh'[r] \subseteq fresh[r] /\ UNCHANGED confs
          /\ WriteSecret(Generate(newGenerator)) /\ ~Host
      BY <1>1, <1>e, <2>1 DEF Create, TypeOK
    <3> QED
      BY <1>n, <3>1, MadeWork, WritesSeen DEF WriteSecret, Announce
  <2>2. CASE secret # Absent
    <3>1. /\ pc'[r] = "reread"
          /\ UNCHANGED <<secret, confs, disk, pending, queued, certs, fresh>>
      BY <1>1, <2>2 DEF Create, TypeOK
    <3> QED
      BY <3>1 DEF WorkAt, FreshAt, HeldAt, PendingAt, holding
  <2> QED
    BY <2>1, <2>2
<1>2. CASE Overwrite(r)
  <2>1. CASE "secret" \in fresh[r]
    <3>1. /\ pc'[r] = "writeDisk" /\ certs'[r] = Generate(certs[r].ca)
          /\ fresh'[r] \subseteq fresh[r] /\ UNCHANGED confs
          /\ WriteSecret(Generate(certs[r].ca)) /\ ~Host
      BY <1>2, <1>e, <2>1 DEF Overwrite, Replace, TypeOK
    <3> QED
      BY <1>n, <3>1, MadeWork DEF WriteSecret, Announce
  <2>2. CASE "secret" \notin fresh[r]
    BY <1>2, <2>2, RequeueWork DEF Overwrite
  <2> QED
    BY <2>1, <2>2
<1>3. CASE WriteHost(r)
  <2>1. CASE stuck[r]
    BY <1>3, <2>1, RequeueWork DEF WriteHost
  <2>2. CASE ~stuck[r]
    <3>1. /\ pc'[r] = "writeDisk" /\ certs'[r] = Generate(newGenerator)
          /\ disk'[r] = Generate(newGenerator)
          /\ fresh'[r] = {} /\ UNCHANGED confs /\ Host
      BY <1>3, <2>2 DEF WriteHost, TypeOK
    <3> QED
      BY <1>n, <3>1, MadeWork
  <2> QED
    BY <2>1, <2>2
<1> QED
  BY <1>1, <1>2, <1>3

LEMMA DiskWork ==
    ASSUME TypeOK, NEW r \in Replicas, WorkAt(r), WriteDisk(r)
    PROVE  WorkAt(r)'
<1>1. CASE Requeue(r, {})
  BY <1>1, RequeueWork
<1>2. CASE ~Requeue(r, {})
  <2>1. /\ pc[r] = "writeDisk" /\ pc'[r] = "getMutating"
        /\ disk'[r] = certs[r]
        /\ UNCHANGED <<secret, confs, pending, queued, certs, fresh>>
    BY <1>2 DEF WriteDisk, objects, Go, TypeOK
  <2> QED
    BY <2>1 DEF WorkAt, FreshAt, HeldAt, PendingAt, SecretFits, holding
<1> QED
  BY <1>1, <1>2

LEMMA GetConfWork ==
    ASSUME TypeOK, NEW r \in Replicas, WorkAt(r), GetMutating(r) \/ GetValidating(r)
    PROVE  WorkAt(r)'
<1> DEFINE k == IF pc[r] = "getMutating" THEN "mutating" ELSE "validating"
<1>1. CASE confs[k] = Absent
  BY <1>1, RequeueWork DEF GetMutating, GetValidating, GetConf
<1>2. CASE confs[k] # Absent
  <2>1. /\ pc[r] \in {"getMutating", "getValidating"}
        /\ pc'[r] \in {"getValidating", "updateValidating"}
        /\ fresh'[r] = fresh[r] \union {k}
        /\ UNCHANGED <<secret, confs, disk, pending, queued, certs>>
    BY <1>2 DEF GetMutating, GetValidating, GetConf, objects, directories, Go,
                TypeOK
  <2> QED
    BY <1>2, <2>1 DEF WorkAt, FreshAt, HeldAt, PendingAt, SecretFits, holding
<1> QED
  BY <1>1, <1>2

\* What a replica writes into a configuration fits its certificates.
LEMMA EnsuredFits ==
    ASSUME TypeOK, NEW r \in Replicas, NEW k \in Kinds, WriteConf(r, k),
           certs[r].usable
    PROVE  ConfFits(confs'[k], certs[r])
BY DEF WriteConf, ensured, ConfFits, TypeOK

LEMMA UpdateValidatingWork ==
    ASSUME TypeOK, NEW r \in Replicas, WorkAt(r), UpdateValidating(r)
    PROVE  WorkAt(r)'
<1>1. CASE "validating" \notin fresh[r]
  BY <1>1, RequeueWork DEF UpdateValidating
<1>2. CASE "validating" \in fresh[r]
  <2>1. /\ pc[r] = "updateValidating" /\ pc'[r] = "updateMutating"
        /\ WriteConf(r, "validating")
        /\ UNCHANGED <<secret, disk, queued, certs>>
    BY <1>2 DEF UpdateValidating, directories, Go, TypeOK
  <2>2. /\ pending[r] \subseteq pending'[r]
        /\ confs'["mutating"] = confs["mutating"]
    BY <2>1, WritesSeen DEF WriteConf, TypeOK, Kinds
  <2>3. certs[r].usable /\ disk[r] = certs[r]
    BY <2>1 DEF WorkAt, HeldAt
  <2>4. ConfFits(confs'["validating"], certs[r])
    BY <2>1, <2>3, EnsuredFits DEF Kinds
  <2>5. fresh'[r] \subseteq fresh[r] \ {"validating"}
    BY <1>2 DEF UpdateValidating, Outdate, TypeOK
  <2>6. FreshAt(r)'
    BY <2>1, <2>2, <2>5 DEF WorkAt, FreshAt, Kinds
  <2>7. HeldAt(r)'
    BY <2>1, <2>3 DEF HeldAt
  <2>8. PendingAt(r)'
    BY <2>1, <2>2, <2>4 DEF WorkAt, PendingAt, SecretFits, holding
  <2> QED
    BY <2>6, <2>7, <2>8 DEF WorkAt
<1> QED
  BY <1>1, <1>2

LEMMA UpdateMutatingWork ==
    ASSUME TypeOK, NEW r \in Replicas, WorkAt(r), UpdateMutating(r)
    PROVE  WorkAt(r)'
<1>1. CASE "mutating" \notin fresh[r]
  BY <1>1, RequeueWork DEF UpdateMutating, Inited
<1>2. CASE "mutating" \in fresh[r]
  <2>1. /\ pc[r] = "updateMutating" /\ pc'[r] = "idle" /\ fresh'[r] = {}
        /\ WriteConf(r, "mutating")
        /\ UNCHANGED <<secret, disk, queued>>
    BY <1>2 DEF UpdateMutating, directories, Inited, End, Go, Outdate, TypeOK
  <2>2. /\ pending[r] \subseteq pending'[r]
        /\ confs'["validating"] = confs["validating"]
    BY <2>1, WritesSeen DEF WriteConf, TypeOK, Kinds
  <2>3. certs[r].usable /\ disk[r] = certs[r]
    BY <2>1 DEF WorkAt, HeldAt
  <2>4. ConfFits(confs'["mutating"], disk[r])
    BY <2>1, <2>3, EnsuredFits DEF Kinds
  <2>5. PendingAt(r)'
    BY <2>1, <2>2, <2>3, <2>4
       DEF WorkAt, PendingAt, SecretFits, ConfFits, holding, Kinds
  <2> QED
    BY <2>1, <2>5 DEF WorkAt, FreshAt, HeldAt
<1> QED
  BY <1>1, <1>2

LEMMA CrashWork ==
    ASSUME TypeOK, NEW r \in Replicas, GiveUp(r) \/ Crash(r)
    PROVE  WorkAt(r)'
<1>1. /\ pc'[r] = "idle" /\ fresh'[r] = {}
      /\ pending'[r] = {k \in Objects : exists(k)}
      /\ UNCHANGED <<secret, confs>>
  BY DEF GiveUp, Crash, Restart, End, Go, Outdate, objects, TypeOK
<1>2. /\ secret # Absent => "secret" \in pending'[r]
      /\ \A k \in Kinds : confs[k] # Absent => k \in pending'[r]
  BY <1>1 DEF exists, Objects, Kinds
<1> QED
  BY <1>1, <1>2 DEF WorkAt, FreshAt, HeldAt, PendingAt

LEMMA OwnWork ==
    ASSUME TypeOK, NEW r \in Replicas, WorkAt(r), Step(r)
    PROVE  WorkAt(r)'
<1> USE DEF objects, directories, events, locals
<1>1. ASSUME NEW k \in Objects, Deliver(r, k) PROVE WorkAt(r)'
  <2>1. queued'[r] /\ UNCHANGED <<secret, confs, disk, pc, certs, fresh>>
    BY <1>1 DEF Deliver, TypeOK
  <2> QED
    BY <2>1 DEF WorkAt, FreshAt, HeldAt, PendingAt
<1>2. CASE Relist(r)
  <2>1. /\ pending'[r] = {k \in pending[r] : exists(k)}
        /\ UNCHANGED <<secret, confs, disk, queued, pc, certs, fresh>>
    BY <1>2 DEF Relist, TypeOK
  <2>2. Bystander(r)
    BY <2>1 DEF Bystander, exists, Kinds
  <2> QED
    BY <2>2, BystanderKeeps
<1>3. CASE StartSync(r)
  <2>1. /\ pc'[r] = "read"
        /\ UNCHANGED <<secret, confs, disk, certs, fresh>>
    BY <1>3 DEF StartSync, Go, TypeOK
  <2> QED
    BY <2>1 DEF WorkAt, FreshAt, HeldAt, PendingAt, holding
<1>4. CASE ReadNothing(r)
  <2>1. CASE Requeue(r, {})
    BY <2>1, RequeueWork
  <2>2. CASE ~Requeue(r, {})
    <3>1. /\ pc'[r] = "create"
          /\ UNCHANGED <<secret, confs, disk, certs, fresh>>
      BY <1>4, <2>2 DEF ReadNothing, Go, TypeOK
    <3> QED
      BY <3>1 DEF WorkAt, FreshAt, HeldAt, PendingAt, holding
  <2> QED
    BY <2>1, <2>2
<1>5. CASE FailSync(r) \/ LoseReply(r) \/ FailWrite(r)
  BY <1>5, RequeueWork DEF FailSync, LoseReply, FailWrite
<1> QED
  BY <1>1, <1>2, <1>3, <1>4, <1>5, ReadWork, CertsWork, DiskWork, GetConfWork,
     UpdateValidatingWork, UpdateMutatingWork, CrashWork DEF Step, Sync

-----------------------------------------------------------------------------
(* The theorems.                                                           *)

LEMMA IInvInit == Init => IInv
<1> SUFFICES ASSUME Init PROVE IInv
  OBVIOUS
<1>1. \A k \in Objects : exists(k) => \A r \in Replicas : k \in pending[r]
  BY DEF Init
<1>2. ASSUME NEW r \in Replicas PROVE WorkAt(r)
  BY <1>1 DEF Init, WorkAt, FreshAt, HeldAt, PendingAt, exists, Objects, Kinds
<1> QED
  BY <1>2, TypeInit DEF IInv

LEMMA IInvNext == IInv /\ [Next]_vars => IInv'
<1> SUFFICES ASSUME IInv, [Next]_vars PROVE IInv'
  OBVIOUS
<1>0. TypeOK /\ \A r \in Replicas : WorkAt(r) /\ FreshAt(r)
  BY DEF IInv, WorkAt
<1>1. CASE UNCHANGED vars
  BY <1>1 DEF vars, IInv, TypeOK, WorkAt, FreshAt, HeldAt, PendingAt, SecretFits
<1>2. CASE Environment
  BY <1>0, <1>2, EnvironmentType, EnvironmentBystander, BystanderKeeps DEF IInv
<1>3. ASSUME NEW r \in Replicas, Step(r) PROVE IInv'
  <2>1. TypeOK'
    BY <1>0, <1>3, InformersType, SyncType, FaultsType DEF Step
  <2>2. \A s \in Replicas : WorkAt(s)'
    BY <1>0, <1>3, StepBystander, BystanderKeeps, OwnWork
  <2> QED
    BY <2>1, <2>2 DEF IInv
<1> QED
  BY <1>1, <1>2, <1>3 DEF Next, Step

\* The inductive invariant of the certificate controller.
THEOREM WebhookInvariant == Spec => []IInv
BY IInvInit, IInvNext, PTL DEF Spec

\* At rest every configuration trusts the certificates in use.
THEOREM TrustedAtRest == Spec => []SettledTrusted
<1>1. IInv => SettledTrusted
  <2> SUFFICES ASSUME IInv, Settled, NEW k \in Kinds, confs[k] # Absent
               PROVE  Trusting(confs[k])
    BY DEF SettledTrusted
  <2>1. \A r \in Replicas :
           /\ ConfFits(confs[k], disk[r])
           /\ ~Host /\ secret # Absent => SecretFits(disk[r])
    BY DEF IInv, WorkAt, PendingAt, Settled
  <2> QED
    BY <2>1, ReplicasAssumption DEF Trusting, ConfFits, SecretFits
<1> QED
  BY <1>1, WebhookInvariant, PTL

\* A CA that is still good stays in the Secret.
THEOREM CAStays == Spec => KeepsCA
<1> DEFINE Kept == /\ ~Host /\ secret # Absent /\ secret' \notin {secret, Absent}
                   /\ disturbances' = disturbances
                   /\ validCACert(secret.ca)
                   => secret'.ca = secret.ca
<1>1. IInv /\ [Next]_vars => [Kept]_vars
  <2> SUFFICES ASSUME IInv, Next, ~Host, secret # Absent,
                      secret' # secret, disturbances' = disturbances,
                      validCACert(secret.ca)
               PROVE  secret'.ca = secret.ca
    OBVIOUS
  <2> USE DEF objects
  <2>1. ~Disturb
    BY DEF Disturb, IInv, TypeOK
  <2>2. ~Environment
    BY <2>1 DEF Environment, BreakSecret, DeleteSecret, Age, DeleteConf,
                ApplyConf
  <2>3. PICK r \in Replicas : Overwrite(r) \/ Create(r)
    BY <2>1, <2>2
       DEF Next, Deliver, Relist, Sync, StartSync, Read, ReadNothing, WriteHost,
           WriteDisk, GetMutating, GetValidating, GetConf, UpdateValidating,
           UpdateMutating, FailSync, LoseReply, FailWrite, GiveUp, Crash, Restart
  <2>4. Overwrite(r) /\ "secret" \in fresh[r]
    BY <2>3 DEF Create, Overwrite
  <2>5. certs[r] = secret
    BY <2>4 DEF IInv, WorkAt, FreshAt, Overwrite
  <2> QED
    BY <2>4, <2>5 DEF Overwrite, Replace, WriteSecret, Generate, NewSignedCert
<1>2. Spec => [][Kept]_vars
  BY <1>1, WebhookInvariant, PTL DEF Spec
<1> QED
  BY <1>2 DEF KeepsCA
=============================================================================
