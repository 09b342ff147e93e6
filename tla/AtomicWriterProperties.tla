----------------------- MODULE AtomicWriterProperties -----------------------
(***************************************************************************)
(* What the certificate directory promises to its readers and its writer.  *)
(***************************************************************************)
EXTENDS AtomicWriter

\* Helpers.

\* What the links lead to.
current == IF data = NoDir THEN empty ELSE dirs[data]

\* What is read under a name.
shown(f) == IF plain[f] # Missing THEN plain[f]
            ELSE IF f \in links \intersect DOMAIN current THEN current[f]
            ELSE Missing

\* Directories that are there and that no write in progress knows of.
leftovers == {d \in Dirs : dirs[d] # Missing} \ {data, ts, oldTs}

-----------------------------------------------------------------------------

Directory == INSTANCE AtomicDirectory WITH current <- current,
                                           links <- links, plain <- plain

\* Through every failure and crash, who reads the directory sees one complete
\* payload after another (Write fills a directory nobody looks at, and one
\* rename shows it).
ImplementsAtomicDirectory == Directory!Spec

\* When WriteCertsToDir has returned no error, its certificates can be read
\* under all their names, whatever earlier calls left behind; but for names
\* taken by an ordinary file that could once not be removed.
Installed ==
    pc = "idle" /\ done => \A f \in CertNames \ refused : shown(f) = certs

\* A failure or crash leaves at most one directory behind, however often Write
\* is called again.
LeftoversBounded == Cardinality(leftovers) <= disturbances

\* A call that finds no ..data_tmp in its way brings the certificates in, if
\* it is repeated often enough.
EventuallyWritten ==
    <>[](tmp = NoDir \/ pc = "rename") => []<>(pc = "idle" /\ done)

\* Repeated often enough, WriteCertsToDir brings the certificates in, as
\* prepareToWrite makes the directory fit for the atomic writer.
AlwaysWritable == []<>(pc = "idle" /\ done)

-----------------------------------------------------------------------------
\* The inductive invariant behind the theorems.

TypeOK ==
    /\ plain \in [Names -> Certs \union {Missing}]
    /\ links \subseteq Names
    /\ dirs \in [Dirs -> Contents \union {Missing}]
    /\ data \in Dirs \union {NoDir} /\ tmp \in Dirs \union {NoDir}
    /\ certs \in Certs /\ done \in BOOLEAN
    /\ pc \in {"idle", "prepare", "mkdir", "fill", "link", "rename", "prune",
               "pruneFailed"}
    /\ todo \subseteq Names
    /\ oldTs \in Dirs \union {NoDir} /\ ts \in Dirs \union {NoDir}
    /\ extra \subseteq Names
    /\ refused \subseteq CertNames
    /\ disturbances \in 0..MaxDisturbances

\* ..data leads to a complete payload, and every name of it is there, but for
\* those whose ordinary file came in the way.
DataComplete ==
    data # NoDir => /\ dirs[data] \in Directory!Payload
                    /\ DOMAIN dirs[data] \subseteq links \union refused

\* A name is a link or an ordinary file, and the ordinary files that the loop
\* of prepareToWrite left are known.
NamesApart ==
    /\ files \subseteq CertNames \ links
    /\ pc = "prepare" => todo \subseteq files /\ files \ todo \subseteq refused
    /\ pc \in {"mkdir", "fill", "link", "rename"} => files \subseteq refused
    /\ pc = "link" => todo = CertNames \ (links \union files)

\* What is to be pruned are links of the payload before.
ExtraLinks ==
    /\ extra \subseteq Names \ CertNames
    /\ pc \in {"mkdir", "fill", "link", "rename"} => extra \subseteq links
    /\ pc \in {"prune", "pruneFailed"} => todo \subseteq links \ CertNames

\* The directory that is being made is not the one that is shown.
MakingDir ==
    /\ pc \in {"idle", "prepare"} => oldTs = NoDir
    /\ pc \in {"idle", "prepare", "mkdir"} => ts = NoDir
    /\ pc \in {"mkdir", "fill", "link", "rename"} => oldTs = data
    /\ pc \in {"fill", "link", "rename"} => ts \in Dirs \ {data} /\ dirs[ts] # Missing
    /\ pc \in {"link", "rename"} => dirs[ts] = certToProjectionMap(certs)
    /\ pc = "rename" => tmp = ts /\ CertNames \subseteq links \union files
    /\ pc \in {"prune", "pruneFailed"} =>
         /\ data \in Dirs /\ ts = data /\ oldTs # data
         /\ oldTs # NoDir => dirs[oldTs] # Missing
         /\ dirs[data] = certToProjectionMap(certs)

\* A failed loop of removeUserVisiblePaths is about to leave a directory.
Leaving == IF pc = "pruneFailed" THEN 1 ELSE 0

LeftoversCounted == Cardinality(leftovers) + Leaving <= disturbances

IInv ==
    /\ TypeOK
    /\ DataComplete /\ NamesApart /\ ExtraLinks /\ MakingDir
    /\ Installed /\ LeftoversCounted
=============================================================================
