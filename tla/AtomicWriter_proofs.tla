------------------------ MODULE AtomicWriter_proofs -------------------------
(***************************************************************************)
(* Proofs about the certificate directory, for any file names, any         *)
(* certificates, any directory names and any bound.                        *)
(***************************************************************************)
EXTENDS AtomicWriterProperties, FiniteSetTheorems, TLAPS

-----------------------------------------------------------------------------
(* Contents of directories.                                                *)

LEMMA ContentsFacts ==
    /\ empty \in Contents /\ DOMAIN empty = {}
    /\ \A c \in Certs : /\ certToProjectionMap(c) \in Directory!Payload
                        /\ DOMAIN certToProjectionMap(c) = CertNames
    /\ Directory!Payload \subseteq Contents
    /\ Missing \notin Contents
<1>1. empty \in [{} -> Certs \union {Torn}] /\ DOMAIN empty = {}
  BY DEF empty
<1>2. empty \in Contents
  BY <1>1 DEF Contents
<1>3. ASSUME NEW c \in Certs
      PROVE  /\ certToProjectionMap(c) \in Directory!Payload
             /\ DOMAIN certToProjectionMap(c) = CertNames
  <2>1. certToProjectionMap(c) \in [CertNames -> Certs]
    BY DEF certToProjectionMap
  <2> QED
    BY <2>1, NamesAssumption DEF Directory!Payload
<1>4. Directory!Payload \subseteq Contents
  BY DEF Directory!Payload, Contents
<1> QED
  BY <1>1, <1>2, <1>3, <1>4, ValuesAssumption

\* A file is put into the new directory.
LEMMA PutFacts ==
    ASSUME TypeOK, ts \in Dirs, dirs[ts] # Missing,
           NEW f \in Names, NEW c \in Certs \union {Torn}, Put(f, c)
    PROVE  /\ dirs' \in [Dirs -> Contents \union {Missing}]
           /\ \A d \in Dirs \ {ts} : dirs'[d] = dirs[d]
           /\ dirs'[ts] # Missing
<1> DEFINE new == [g \in DOMAIN dirs[ts] \union {f} |->
                     IF g = f THEN c ELSE dirs[ts][g]]
<1>1. dirs[ts] \in Contents
  BY DEF TypeOK
<1>2. PICK S \in SUBSET Names : dirs[ts] \in [S -> Certs \union {Torn}]
  BY <1>1 DEF Contents
<1>3. new \in [S \union {f} -> Certs \union {Torn}]
  BY <1>2
<1>4. new \in Contents
  BY <1>3 DEF Contents
<1>5. dirs' = [dirs EXCEPT ![ts] = new]
  BY DEF Put
<1> QED
  BY <1>4, <1>5, ValuesAssumption DEF TypeOK

\* A directory is removed, or a part of it.
LEMMA RemoveSomeFacts ==
    ASSUME TypeOK, NEW d \in Dirs, dirs[d] = Missing \/ dirs[d] \in Contents,
           RemoveSome(d), dirs[d] # Missing
    PROVE  /\ dirs' \in [Dirs -> Contents \union {Missing}]
           /\ \A e \in Dirs \ {d} : dirs'[e] = dirs[e]
<1>1. CASE dirs' = [dirs EXCEPT ![d] = Missing]
  BY <1>1 DEF TypeOK
<1>2. ASSUME NEW S \in SUBSET DOMAIN dirs[d],
             dirs' = [dirs EXCEPT ![d] = [f \in S |-> dirs[d][f]]]
      PROVE  /\ dirs' \in [Dirs -> Contents \union {Missing}]
             /\ \A e \in Dirs \ {d} : dirs'[e] = dirs[e]
  <2>1. PICK T \in SUBSET Names : dirs[d] \in [T -> Certs \union {Torn}]
    BY DEF Contents
  <2>2. [f \in S |-> dirs[d][f]] \in [S -> Certs \union {Torn}] /\ S \in SUBSET Names
    BY <1>2, <2>1
  <2>3. [f \in S |-> dirs[d][f]] \in Contents
    BY <2>2 DEF Contents
  <2> QED
    BY <1>2, <2>3 DEF TypeOK
<1> QED
  BY <1>1, <1>2 DEF RemoveSome

-----------------------------------------------------------------------------
(* Directories nobody knows of.                                            *)

LEMMA LeftoversFinite ==
    /\ IsFiniteSet(leftovers) /\ Cardinality(leftovers) \in Nat
<1>1. leftovers \subseteq Dirs
  BY DEF leftovers
<1> QED
  BY <1>1, NamesAssumption, FS_Subset, FS_CardinalityType

LEMMA LeftoversNext ==
    /\ IsFiniteSet(leftovers') /\ Cardinality(leftovers') \in Nat
    /\ leftovers' \subseteq leftovers =>
         Cardinality(leftovers') <= Cardinality(leftovers)
    /\ \A d : leftovers' \subseteq leftovers \union {d} =>
         Cardinality(leftovers') <= Cardinality(leftovers) + 1
<1>1. leftovers' \subseteq Dirs
  BY DEF leftovers
<1>2. IsFiniteSet(leftovers') /\ Cardinality(leftovers') \in Nat
  BY <1>1, NamesAssumption, FS_Subset, FS_CardinalityType
<1>3. leftovers' \subseteq leftovers =>
         Cardinality(leftovers') <= Cardinality(leftovers)
  BY LeftoversFinite, FS_Subset
<1>4. ASSUME NEW d, leftovers' \subseteq leftovers \union {d}
      PROVE  Cardinality(leftovers') <= Cardinality(leftovers) + 1
  <2>1. /\ IsFiniteSet(leftovers \union {d})
        /\ Cardinality(leftovers \union {d}) <= Cardinality(leftovers) + 1
    BY LeftoversFinite, FS_AddElement
  <2>2. Cardinality(leftovers') <= Cardinality(leftovers \union {d})
    BY <1>4, <2>1, FS_Subset
  <2>3. Cardinality(leftovers \union {d}) \in Nat
    BY <2>1, FS_CardinalityType
  <2> QED
    BY <1>2, <2>1, <2>2, <2>3, LeftoversFinite
<1> QED
  BY <1>2, <1>3, <1>4

-----------------------------------------------------------------------------
(* The inductive invariant: the initial states.                            *)

LEMMA InitInv == Init => IInv
<1> SUFFICES ASSUME Init PROVE IInv
  OBVIOUS
<1>a. /\ certs \in Certs /\ tmp = NoDir
      /\ pc = "idle" /\ todo = {} /\ oldTs = NoDir /\ ts = NoDir /\ extra = {}
      /\ refused = {} /\ disturbances = 0
  BY DEF Init
<1>b. done \in BOOLEAN
  BY DEF Init
<1>1. CASE data = NoDir
  <2>1. leftovers = {}
    BY <1>1, ValuesAssumption DEF Init, leftovers
  <2>2. Cardinality(leftovers) = 0
    BY <2>1, FS_EmptySet
  <2>3. LeftoversCounted
    BY <2>2 DEF LeftoversCounted, Leaving, Init
  <2>a. dirs = [d \in Dirs |-> Missing] /\ links = {}
    BY <1>1, ValuesAssumption DEF Init
  <2>b. plain \in [Names -> Certs \union {Missing}]
    BY DEF Init
  <2>4. TypeOK
    BY <1>a, <1>b, <1>1, <2>a, <2>b, BoundAssumption DEF TypeOK
  <2>5. NamesApart /\ DataComplete
    BY <1>1, ValuesAssumption DEF Init, NamesApart, DataComplete, files
  <2> QED
    BY <1>1, <2>3, <2>4, <2>5 DEF Init, IInv, ExtraLinks, MakingDir, Installed
<1>2. CASE data # NoDir
  <2>1. PICK S \in Earlier, d \in Dirs :
          /\ plain = [f \in Names |-> Missing]
          /\ links = S /\ data = d
          /\ dirs = [e \in Dirs |-> IF e = d THEN [f \in S |-> certs] ELSE Missing]
    BY <1>2 DEF Init
  <2>2. [f \in S |-> certs] \in Directory!Payload /\ S \subseteq Names
    BY NamesAssumption DEF Directory!Payload, Init
  <2>3. dirs[data] \in Directory!Payload /\ DOMAIN dirs[data] = S
    BY <2>1, <2>2
  <2>4. leftovers = {}
    BY <2>1 DEF leftovers
  <2>5. LeftoversCounted
    BY <2>4, FS_EmptySet DEF LeftoversCounted, Leaving, Init
  <2>a. dirs \in [Dirs -> Contents \union {Missing}]
    BY <2>1, <2>2, ContentsFacts
  <2>6. TypeOK
    BY <1>a, <1>b, <2>1, <2>2, <2>a, BoundAssumption DEF TypeOK
  <2> QED
    BY <2>1, <2>3, <2>5, <2>6
       DEF Init, IInv, NamesApart, DataComplete, files, ExtraLinks, MakingDir,
           Installed
<1> QED
  BY <1>1, <1>2

-----------------------------------------------------------------------------
(* One lemma per action, or per group of actions with one effect.          *)

LEMMA DisturbType ==
    ASSUME TypeOK, Disturb
    PROVE  /\ disturbances' \in 0..MaxDisturbances
           /\ disturbances' = disturbances + 1
BY BoundAssumption DEF TypeOK, Disturb

LEMMA WriteCertsToDirStep ==
    ASSUME IInv, NEW c \in Certs, WriteCertsToDir(c)
    PROVE  IInv'
<1> USE DEF visible, WriteCertsToDir
<1>1. TypeOK'
  BY DEF IInv, TypeOK, files
<1>2. DataComplete' /\ NamesApart' /\ ExtraLinks'
  BY DEF IInv, DataComplete, NamesApart, ExtraLinks, files, TypeOK
<1>3. MakingDir' /\ Installed'
  BY DEF IInv, MakingDir, Installed
<1>4. LeftoversCounted'
  BY DEF IInv, LeftoversCounted, Leaving, leftovers
<1> QED
  BY <1>1, <1>2, <1>3, <1>4 DEF IInv

LEMMA PrepareStep ==
    ASSUME IInv, NEW f \in CertNames, prepareToWrite(f)
    PROVE  IInv'
<1> USE DEF prepareToWrite
<1>1. TypeOK'
  BY DisturbType, NamesAssumption DEF IInv, TypeOK
<1>2. DataComplete' /\ NamesApart' /\ ExtraLinks'
  BY DEF IInv, DataComplete, NamesApart, ExtraLinks, files, TypeOK
<1>3. MakingDir' /\ Installed'
  BY DEF IInv, MakingDir, Installed
<1>4. LeftoversCounted'
  BY DisturbType, LeftoversFinite
     DEF IInv, LeftoversCounted, Leaving, leftovers, TypeOK
<1> QED
  BY <1>1, <1>2, <1>3, <1>4 DEF IInv

LEMMA DetectStep ==
    ASSUME IInv, Detect
    PROVE  IInv'
<1> DEFINE p == certToProjectionMap(certs)
           old == IF data = NoDir THEN {} ELSE pathsToRemove(p, data)
           same == data # NoDir /\ ~shouldWritePayload(p, data) /\ old = {}
<1> USE DEF visible
<1>a. /\ pc = "prepare" /\ todo = {}
      /\ IF same THEN Return(TRUE)
         ELSE /\ pc' = "mkdir" /\ oldTs' = data /\ extra' = old
              /\ UNCHANGED <<certs, done, todo, ts>>
      /\ UNCHANGED <<visible, dirs, refused, disturbances>>
  BY DEF Detect
<1>b. p = [f \in CertNames |-> certs] /\ DOMAIN p = CertNames
  BY DEF certToProjectionMap
<1>c. DataComplete'
  BY <1>a DEF IInv, DataComplete
<1>1. CASE same
  <2>1. Return(TRUE)
    BY <1>a, <1>1
  <2>2. DOMAIN dirs[data] \subseteq CertNames
    BY <1>1, <1>b DEF pathsToRemove
  <2>3. \A f \in CertNames : f \in DOMAIN dirs[data] /\ dirs[data][f] = certs
    BY <1>1, <1>b DEF shouldWritePayload, shouldWriteFile
  <2>4. CertNames \ refused \subseteq links
    BY <1>1, <2>3 DEF IInv, DataComplete
  <2>5. \A f \in CertNames \ refused : plain[f] = Missing
    BY <2>4, NamesAssumption DEF IInv, NamesApart, files
  <2>6. \A f \in CertNames \ refused : shown(f)' = certs
    BY <1>a, <1>1, <2>3, <2>4, <2>5 DEF shown, current
  <2>7. Installed'
    BY <1>a, <2>1, <2>6 DEF Installed, Return
  <2>8. TypeOK'
    <3>1. done' \in BOOLEAN
      BY <2>1 DEF Return
    <3> QED
      BY <1>a, <2>1, <3>1 DEF IInv, TypeOK, Return
  <2>9. NamesApart' /\ ExtraLinks' /\ MakingDir'
    BY <1>a, <2>1 DEF IInv, NamesApart, files, ExtraLinks, MakingDir, Return
  <2>10. LeftoversCounted'
    BY <1>a, <2>1 DEF IInv, LeftoversCounted, Leaving, leftovers, Return, MakingDir
  <2> QED
    BY <1>c, <2>7, <2>8, <2>9, <2>10 DEF IInv
<1>2. CASE ~same
  <2>1. /\ pc' = "mkdir" /\ oldTs' = data /\ extra' = old
        /\ UNCHANGED <<certs, done, todo, ts, visible, dirs, refused, disturbances>>
    BY <1>a, <1>2
  <2>2. old \subseteq links \ CertNames
    BY <1>b DEF pathsToRemove, IInv, DataComplete, TypeOK
  <2>3. TypeOK'
    BY <2>1, <2>2 DEF IInv, TypeOK
  <2>4. NamesApart' /\ ExtraLinks'
    BY <1>a, <2>1, <2>2 DEF IInv, TypeOK, NamesApart, files, ExtraLinks
  <2>5. MakingDir' /\ Installed'
    BY <1>a, <2>1 DEF IInv, MakingDir, Installed
  <2>6. leftovers' = leftovers
    BY <1>a, <2>1, ValuesAssumption DEF IInv, leftovers, MakingDir
  <2>7. LeftoversCounted'
    BY <1>a, <2>1, <2>6 DEF IInv, LeftoversCounted, Leaving
  <2> QED
    BY <1>c, <2>3, <2>4, <2>5, <2>7 DEF IInv
<1> QED
  BY <1>1, <1>2

LEMMA NewTimestampDirStep ==
    ASSUME IInv, NEW d \in Dirs, newTimestampDir(d)
    PROVE  IInv'
<1> USE DEF visible, newTimestampDir
<1>1. TypeOK' /\ \A e \in Dirs \ {d} : dirs'[e] = dirs[e]
  BY ContentsFacts DEF IInv, TypeOK
<1>2. dirs'[d] # Missing
  BY ContentsFacts DEF IInv, TypeOK
<1>3. DataComplete'
  BY <1>1 DEF IInv, DataComplete, TypeOK
<1>4. NamesApart' /\ ExtraLinks' /\ Installed'
  BY DEF IInv, NamesApart, files, ExtraLinks, Installed
<1>5. MakingDir'
  BY <1>1, <1>2 DEF IInv, MakingDir
<1>6. leftovers' = leftovers
  BY <1>1, ValuesAssumption DEF IInv, leftovers, MakingDir
<1>7. LeftoversCounted'
  BY <1>6 DEF IInv, LeftoversCounted, Leaving
<1> QED
  BY <1>1, <1>3, <1>4, <1>5, <1>7 DEF IInv

\* OpenFile and FillFile.
LEMMA PutStep ==
    ASSUME IInv, NEW f \in Names, NEW c \in Certs \union {Torn},
           pc = "fill", Put(f, c),
           UNCHANGED <<visible, certs, done, locals, refused, disturbances>>
    PROVE  IInv'
<1> USE DEF visible, locals
<1>1. ts \in Dirs \ {data} /\ dirs[ts] # Missing /\ TypeOK
  BY DEF IInv, MakingDir
<1>2. /\ dirs' \in [Dirs -> Contents \union {Missing}]
      /\ \A d \in Dirs \ {ts} : dirs'[d] = dirs[d]
      /\ dirs'[ts] # Missing
  BY <1>1, PutFacts
<1>3. TypeOK'
  BY <1>1, <1>2 DEF TypeOK
<1>4. DataComplete'
  BY <1>1, <1>2 DEF IInv, DataComplete, TypeOK
<1>5. NamesApart' /\ ExtraLinks' /\ Installed'
  BY DEF IInv, NamesApart, files, ExtraLinks, Installed
<1>6. MakingDir'
  BY <1>2 DEF IInv, MakingDir
<1>7. leftovers' = leftovers
  BY <1>1, <1>2 DEF leftovers
<1>8. LeftoversCounted'
  BY <1>7 DEF IInv, LeftoversCounted, Leaving
<1> QED
  BY <1>3, <1>4, <1>5, <1>6, <1>8 DEF IInv

LEMMA FillStep ==
    ASSUME IInv, NEW f \in CertNames, OpenFile(f) \/ FillFile(f)
    PROVE  IInv'
<1>a. f \in Names
  BY NamesAssumption
<1>1. CASE OpenFile(f)
  BY <1>a, <1>1, PutStep DEF OpenFile
<1>2. CASE FillFile(f)
  <2>1. certToProjectionMap(certs)[f] \in Certs
    BY DEF certToProjectionMap, IInv, TypeOK
  <2> QED
    BY <1>a, <1>2, <2>1, PutStep DEF FillFile
<1> QED
  BY <1>1, <1>2

LEMMA FilledStep ==
    ASSUME IInv, Filled
    PROVE  IInv'
<1> USE DEF visible, Filled
<1>1. TypeOK' /\ DataComplete'
  BY NamesAssumption DEF IInv, TypeOK, DataComplete
<1>2. NamesApart' /\ ExtraLinks' /\ Installed'
  BY DEF IInv, NamesApart, files, ExtraLinks, Installed
<1>3. MakingDir'
  BY DEF IInv, MakingDir
<1>4. LeftoversCounted'
  BY DEF IInv, LeftoversCounted, Leaving, leftovers
<1> QED
  BY <1>1, <1>2, <1>3, <1>4 DEF IInv

LEMMA CreateLinkStep ==
    ASSUME IInv, NEW f \in CertNames, CreateLink(f)
    PROVE  IInv'
<1> USE DEF CreateLink
<1>1. TypeOK' /\ DataComplete'
  BY NamesAssumption DEF IInv, TypeOK, DataComplete
<1>2. NamesApart' /\ ExtraLinks' /\ Installed'
  BY DEF IInv, NamesApart, files, ExtraLinks, Installed
<1>3. MakingDir'
  BY DEF IInv, MakingDir
<1>4. LeftoversCounted'
  BY DEF IInv, LeftoversCounted, Leaving, leftovers
<1> QED
  BY <1>1, <1>2, <1>3, <1>4 DEF IInv

LEMMA SymlinkStep ==
    ASSUME IInv, Symlink
    PROVE  IInv'
<1> USE DEF Symlink
<1>1. TypeOK' /\ DataComplete'
  BY DEF IInv, TypeOK, DataComplete
<1>2. NamesApart' /\ ExtraLinks' /\ Installed'
  BY DEF IInv, NamesApart, files, ExtraLinks, Installed
<1>3. MakingDir'
  BY DEF IInv, MakingDir, NamesApart, files
<1>4. LeftoversCounted'
  BY DEF IInv, LeftoversCounted, Leaving, leftovers
<1> QED
  BY <1>1, <1>2, <1>3, <1>4 DEF IInv

LEMMA RenameStep ==
    ASSUME IInv, Rename
    PROVE  IInv'
<1> USE DEF Rename
<1>1. /\ tmp = ts /\ ts \in Dirs \ {data} /\ oldTs = data
      /\ dirs[ts] = certToProjectionMap(certs)
      /\ CertNames \subseteq links \union files /\ files \subseteq refused
  BY DEF IInv, MakingDir, NamesApart
<1>2. TypeOK'
  BY DEF IInv, TypeOK
<1>3. DataComplete'
  BY <1>1, ContentsFacts DEF IInv, TypeOK, DataComplete
<1>4. NamesApart' /\ ExtraLinks' /\ Installed'
  BY DEF IInv, NamesApart, files, ExtraLinks, Installed
<1>5. MakingDir'
  <2>1. oldTs # NoDir => dirs[oldTs] # Missing
    BY <1>1, ContentsFacts DEF IInv, DataComplete
  <2> QED
    BY <1>1, <2>1 DEF MakingDir
<1>6. leftovers' = leftovers
  BY <1>1 DEF leftovers
<1>7. LeftoversCounted'
  BY <1>6 DEF IInv, LeftoversCounted, Leaving
<1> QED
  BY <1>2, <1>3, <1>4, <1>5, <1>7 DEF IInv

LEMMA PruneStep ==
    ASSUME IInv, NEW f \in Names, removeUserVisiblePaths(f)
    PROVE  IInv'
<1> USE DEF removeUserVisiblePaths
<1>1. f \notin CertNames /\ data \in Dirs /\ dirs[data] = certToProjectionMap(certs)
  BY DEF IInv, ExtraLinks, MakingDir
<1>2. TypeOK'
  BY DisturbType DEF IInv, TypeOK
<1>3. DataComplete'
  BY <1>1, ContentsFacts DEF IInv, TypeOK, DataComplete
<1>4. NamesApart' /\ ExtraLinks' /\ Installed'
  BY DEF IInv, NamesApart, files, ExtraLinks, Installed
<1>5. MakingDir'
  BY DEF IInv, MakingDir
<1>6. LeftoversCounted'
  BY DisturbType, LeftoversFinite
     DEF IInv, LeftoversCounted, Leaving, leftovers, TypeOK
<1> QED
  BY <1>2, <1>3, <1>4, <1>5, <1>6 DEF IInv

\* A directory that Write made, or that it replaced, is left when it returns.
LEMMA LeftBehind ==
    ASSUME IInv, Return(FALSE), UNCHANGED data,
           \A d \in Dirs : dirs'[d] # Missing => dirs[d] # Missing
    PROVE  leftovers' \subseteq
             leftovers \union {IF pc \in {"prune", "pruneFailed"} THEN oldTs ELSE ts}
<1>1. pc \in {"prune", "pruneFailed"} => ts = data
  BY DEF IInv, MakingDir
<1>2. pc \notin {"prune", "pruneFailed"} => oldTs \in {NoDir, data}
  BY DEF IInv, MakingDir, TypeOK
<1> QED
  BY <1>1, <1>2, ValuesAssumption DEF leftovers, Return

\* Every return with an error.
LEMMA ErrorStep ==
    ASSUME IInv, Return(FALSE), UNCHANGED <<plain, links, data, refused>>,
           tmp' \in Dirs \union {NoDir},
           dirs' \in [Dirs -> Contents \union {Missing}],
           data # NoDir => dirs'[data] = dirs[data],
           \A d \in Dirs : dirs'[d] # Missing => dirs[d] # Missing,
           \/ Disturb
           \/ pc = "pruneFailed" /\ UNCHANGED disturbances
           \/ leftovers' \subseteq leftovers /\ UNCHANGED disturbances
    PROVE  IInv'
<1>1. TypeOK'
  <2>1. done' \in BOOLEAN
    BY DEF Return
  <2> QED
    BY <2>1, DisturbType DEF IInv, TypeOK, Return
<1>2. DataComplete' /\ NamesApart' /\ ExtraLinks'
  BY DEF IInv, DataComplete, NamesApart, files, ExtraLinks, Return
<1>3. MakingDir'
  BY DEF MakingDir, Return
<1>4. Installed'
  BY DEF Installed, Return
<1>5. LeftoversCounted'
  <2>1. Leaving' = 0 /\ disturbances \in Nat
    BY DEF Leaving, Return, IInv, TypeOK
  <2>2. Cardinality(leftovers') <= Cardinality(leftovers) + 1
    BY LeftBehind, LeftoversNext
  <2>3. CASE Disturb
    BY <2>1, <2>2, <2>3, DisturbType, LeftoversNext, LeftoversFinite
       DEF IInv, LeftoversCounted, Leaving
  <2>4. CASE pc = "pruneFailed" /\ UNCHANGED disturbances
    BY <2>1, <2>2, <2>4, LeftoversNext, LeftoversFinite
       DEF IInv, LeftoversCounted, Leaving
  <2>5. CASE leftovers' \subseteq leftovers /\ UNCHANGED disturbances
    BY <2>1, <2>5, LeftoversNext, LeftoversFinite
       DEF IInv, LeftoversCounted, Leaving
  <2> QED
    BY <2>3, <2>4, <2>5
<1> QED
  BY <1>1, <1>2, <1>3, <1>4, <1>5 DEF IInv

LEMMA FailStep ==
    ASSUME IInv, Fail \/ Crash \/ PruneFailed
    PROVE  IInv'
BY ErrorStep DEF Fail, Crash, PruneFailed, visible, IInv, TypeOK

LEMMA SymlinkExistsStep ==
    ASSUME IInv, SymlinkExists
    PROVE  IInv'
<1> USE DEF SymlinkExists, visible
<1>1. ts \in Dirs \ {data} /\ oldTs = data
  BY DEF IInv, MakingDir
<1>2. leftovers' \subseteq leftovers
  BY <1>1 DEF leftovers, IInv, TypeOK, Return
<1>3. dirs' \in [Dirs -> Contents \union {Missing}]
  BY <1>1 DEF IInv, TypeOK
<1> QED
  BY <1>1, <1>2, <1>3, ErrorStep DEF IInv, TypeOK

LEMMA FailInstallStep ==
    ASSUME IInv, FailInstall
    PROVE  IInv'
<1>1. ts \in Dirs \ {data} /\ dirs[ts] # Missing
  BY DEF FailInstall, IInv, MakingDir
<1>2. /\ dirs' \in [Dirs -> Contents \union {Missing}]
      /\ \A d \in Dirs \ {ts} : dirs'[d] = dirs[d]
  BY <1>1, RemoveSomeFacts DEF FailInstall, IInv, TypeOK
<1>3. tmp' \in Dirs \union {NoDir}
  BY DEF FailInstall, IInv, TypeOK
<1> QED
  BY <1>1, <1>2, <1>3, ErrorStep DEF FailInstall, IInv, TypeOK

LEMMA FailRemoveOldStep ==
    ASSUME IInv, FailRemoveOld
    PROVE  IInv'
<1> USE DEF visible
<1>1. oldTs \in Dirs \ {data} /\ dirs[oldTs] # Missing
  BY DEF FailRemoveOld, IInv, MakingDir, TypeOK
<1>2. /\ dirs' \in [Dirs -> Contents \union {Missing}]
      /\ \A d \in Dirs \ {oldTs} : dirs'[d] = dirs[d]
  BY <1>1, RemoveSomeFacts DEF FailRemoveOld, IInv, TypeOK
<1> QED
  BY <1>1, <1>2, ErrorStep DEF FailRemoveOld, IInv, TypeOK

LEMMA RemoveOldStep ==
    ASSUME IInv, RemoveOld
    PROVE  IInv'
<1> USE DEF visible, RemoveOld
<1>1. /\ data \in Dirs /\ ts = data /\ oldTs # data
      /\ dirs[data] = certToProjectionMap(certs)
  BY DEF IInv, MakingDir
<1>2. TypeOK'
  <2>1. done' \in BOOLEAN
    BY DEF Return
  <2> QED
    BY <2>1 DEF IInv, TypeOK, Return
<1>3. DataComplete' /\ NamesApart' /\ ExtraLinks'
  BY <1>1 DEF IInv, TypeOK, DataComplete, NamesApart, files, ExtraLinks, Return
<1>4. MakingDir'
  BY DEF MakingDir, Return
<1>5. Installed'
  <2>1. dirs'[data] = [f \in CertNames |-> certs]
    BY <1>1 DEF IInv, TypeOK, certToProjectionMap
  <2>2. CertNames \ refused \subseteq links
    <3>1. DOMAIN dirs[data] = CertNames /\ data # NoDir
      BY <1>1, ValuesAssumption DEF certToProjectionMap
    <3> QED
      BY <3>1 DEF IInv, DataComplete
  <2>3. \A f \in CertNames \ refused : plain[f] = Missing
    BY <2>2, NamesAssumption DEF IInv, NamesApart, files
  <2> QED
    BY <1>1, <2>1, <2>2, <2>3, ValuesAssumption
       DEF Installed, shown, current, Return
<1>6. LeftoversCounted'
  <2>1. leftovers' \subseteq leftovers
    BY <1>1 DEF leftovers, Return, IInv, TypeOK
  <2> QED
    BY <2>1, LeftoversNext, LeftoversFinite
       DEF IInv, TypeOK, LeftoversCounted, Leaving, Return
<1> QED
  BY <1>2, <1>3, <1>4, <1>5, <1>6 DEF IInv

-----------------------------------------------------------------------------
(* The theorems.                                                           *)

LEMMA StutterInv == IInv /\ UNCHANGED vars => IInv'
BY DEF vars, IInv, TypeOK, DataComplete, NamesApart, files, ExtraLinks, MakingDir,
       Installed, shown, current, LeftoversCounted, Leaving, leftovers

LEMMA NextInv == IInv /\ [Next]_vars => IInv'
<1> SUFFICES ASSUME IInv, [Next]_vars PROVE IInv'
  OBVIOUS
<1>1. CASE \E c \in Certs : WriteCertsToDir(c)
  BY <1>1, WriteCertsToDirStep
<1>2. CASE \E f \in CertNames : prepareToWrite(f)
  BY <1>2, PrepareStep
<1>3. CASE Write
  <2>1. CASE Detect
    BY <2>1, DetectStep
  <2>2. CASE Filled
    BY <2>2, FilledStep
  <2>3. CASE \E d \in Dirs : newTimestampDir(d)
    BY <2>3, NewTimestampDirStep
  <2>4. CASE \E f \in CertNames : OpenFile(f) \/ FillFile(f) \/ CreateLink(f)
    BY <2>4, FillStep, CreateLinkStep
  <2>5. CASE Symlink \/ SymlinkExists \/ Rename
    BY <2>5, SymlinkStep, SymlinkExistsStep, RenameStep
  <2>6. CASE \E f \in Names : removeUserVisiblePaths(f)
    BY <2>6, PruneStep
  <2>7. CASE PruneFailed \/ RemoveOld
    BY <2>7, FailStep, RemoveOldStep
  <2> QED
    BY <1>3, <2>1, <2>2, <2>3, <2>4, <2>5, <2>6, <2>7 DEF Write
<1>4. CASE Fail \/ FailInstall \/ FailRemoveOld \/ Crash
  BY <1>4, FailStep, FailInstallStep, FailRemoveOldStep
<1>5. CASE UNCHANGED vars
  BY <1>5, StutterInv
<1> QED
  BY <1>1, <1>2, <1>3, <1>4, <1>5 DEF Next, Proceed

\* The invariant of Write: what ..data leads to is complete, the directory that
\* is being filled is another one, and every leftover has its failure.
THEOREM DirectoryInvariant == Spec => []IInv
<1>1. Init => IInv
  BY InitInv
<1>2. IInv /\ [Next]_vars => IInv'
  BY NextInv
<1> QED
  BY <1>1, <1>2, PTL DEF Spec

\* A WriteCertsToDir that returned no error has installed its certificates.
THEOREM WrittenIsInstalled == Spec => []Installed
<1>1. IInv => Installed
  BY DEF IInv
<1> QED
  BY <1>1, DirectoryInvariant, PTL

\* Failures and crashes leave at most one directory each, however often Write
\* is called again.
THEOREM OneLeftoverPerFailure == Spec => []LeftoversBounded
<1>1. IInv => LeftoversBounded
  BY LeftoversFinite DEF IInv, TypeOK, LeftoversCounted, LeftoversBounded, Leaving
<1> QED
  BY <1>1, DirectoryInvariant, PTL

LEMMA RefinesInit == Init => Directory!Init
<1> SUFFICES ASSUME Init PROVE Directory!Init
  OBVIOUS
<1>1. IInv
  BY InitInv
<1>2. current \in Directory!Payload
  <2>1. empty \in Directory!Payload
    <3>1. empty \in [{} -> Certs]
      BY DEF empty
    <3> QED
      BY <3>1 DEF Directory!Payload
  <2> QED
    BY <1>1, <2>1 DEF current, IInv, DataComplete
<1>3. \A f \in links : plain[f] = Missing
  BY <1>1 DEF IInv, NamesApart, files, TypeOK
<1> QED
  BY <1>1, <1>2, <1>3 DEF Directory!Init, Directory!TypeOK, Directory!Apart, IInv, TypeOK

\* Steps that leave alone what ..data leads to, or what it leads to alone.
LEMMA CurrentKept ==
    ASSUME IInv, UNCHANGED data, data # NoDir => dirs'[data] = dirs[data]
    PROVE  UNCHANGED current
BY DEF current

LEMMA RefinesNext ==
    ASSUME IInv, [Next]_vars
    PROVE  [Directory!Next]_<<current, links, plain>>
<1> USE DEF visible, locals
<1> DEFINE Same == UNCHANGED <<current, links, plain>>
<1>1. CASE \E c \in Certs : WriteCertsToDir(c)
  BY <1>1, CurrentKept DEF WriteCertsToDir
<1>2. ASSUME NEW f \in CertNames, prepareToWrite(f)
      PROVE  Directory!Clear(f) \/ Same
  <2>1. plain[f] # Missing
    BY <1>2 DEF IInv, NamesApart, files, prepareToWrite
  <2> QED
    BY <1>2, <2>1, CurrentKept DEF prepareToWrite, Directory!Clear
<1>3. CASE Detect \/ Filled \/ Symlink \/ PruneFailed \/ Fail \/ Crash
  BY <1>3, CurrentKept
     DEF Detect, Filled, Symlink, PruneFailed, Fail, Crash, Return
<1>4. ASSUME NEW d \in Dirs, newTimestampDir(d) PROVE Same
  BY <1>4, CurrentKept DEF newTimestampDir, IInv, TypeOK
<1>5. ASSUME NEW f \in CertNames, OpenFile(f) \/ FillFile(f) PROVE Same
  <2>1. ts # data
    BY <1>5 DEF OpenFile, FillFile, IInv, MakingDir
  <2>2. data # NoDir => dirs'[data] = dirs[data]
    BY <1>5, <2>1 DEF OpenFile, FillFile, Put, IInv, TypeOK
  <2> QED
    BY <1>5, <2>2, CurrentKept DEF OpenFile, FillFile
<1>6. ASSUME NEW f \in CertNames, CreateLink(f) PROVE Directory!Link(f)
  BY <1>6, CurrentKept, NamesAssumption
     DEF CreateLink, Directory!Link, IInv, NamesApart, files
<1>7. CASE Rename
  <2>1. current' = certToProjectionMap(certs)
    BY <1>7, ValuesAssumption DEF Rename, current, IInv, MakingDir
  <2>2. \A f \in CertNames : f \in links \/ plain[f] # Missing
    BY <1>7 DEF Rename, IInv, MakingDir, files
  <2>3. Directory!Install(certToProjectionMap(certs))
    BY <1>7, <2>1, <2>2, ContentsFacts DEF Rename, Directory!Install, IInv, TypeOK
  <2> QED
    BY <2>3, ContentsFacts DEF Directory!Next, IInv, TypeOK
<1>8. ASSUME NEW f \in Names, removeUserVisiblePaths(f)
      PROVE  Directory!Unlink(f) \/ Same
  <2>1. f \in links \ DOMAIN current
    BY <1>8, ContentsFacts, ValuesAssumption
       DEF removeUserVisiblePaths, IInv, TypeOK, ExtraLinks, MakingDir, current
  <2> QED
    BY <1>8, <2>1, CurrentKept DEF removeUserVisiblePaths, Directory!Unlink
<1>9. CASE SymlinkExists \/ FailInstall
  <2>1. ts \in Dirs \ {data} /\ dirs[ts] # Missing
    BY <1>9 DEF SymlinkExists, FailInstall, IInv, MakingDir
  <2>2. data # NoDir => dirs'[data] = dirs[data]
    BY <1>9, <2>1, RemoveSomeFacts DEF SymlinkExists, FailInstall, IInv, TypeOK
  <2> QED
    BY <1>9, <2>2, CurrentKept DEF SymlinkExists, FailInstall
<1>10. CASE RemoveOld \/ FailRemoveOld
  <2>1. data \in Dirs /\ oldTs # data /\ (oldTs # NoDir => dirs[oldTs] # Missing)
    BY <1>10 DEF RemoveOld, FailRemoveOld, IInv, MakingDir
  <2>2. dirs'[data] = dirs[data]
    <3>1. CASE RemoveOld
      BY <2>1, <3>1 DEF RemoveOld
    <3>2. CASE FailRemoveOld
      BY <2>1, <3>2, RemoveSomeFacts DEF FailRemoveOld, IInv, TypeOK
    <3> QED
      BY <1>10, <3>1, <3>2
  <2> QED
    BY <1>10, <2>2, CurrentKept DEF RemoveOld, FailRemoveOld
<1>11. CASE UNCHANGED vars
  BY <1>11, CurrentKept DEF vars
<1>12. CertNames \subseteq Names
  BY NamesAssumption
<1> QED
  BY <1>1, <1>2, <1>3, <1>4, <1>5, <1>6, <1>7, <1>8, <1>9, <1>10, <1>11, <1>12
     DEF Next, Proceed, Write, Directory!Next

\* The directory is what AtomicDirectory says: its readers see one complete
\* payload after another, through every failure and crash.
THEOREM WriterIsAtomic == Spec => ImplementsAtomicDirectory
<1>1. Init => Directory!Init
  BY RefinesInit
<1>2. IInv /\ [Next]_vars => [Directory!Next]_<<current, links, plain>>
  BY RefinesNext
<1> QED
  BY <1>1, <1>2, DirectoryInvariant, PTL DEF Spec, ImplementsAtomicDirectory, Directory!Spec
=============================================================================
