---------------------------- MODULE AtomicWriter ----------------------------
(***************************************************************************)
(* WriteCertsToDir (webhook/util/writer/fs.go) and Writer.Write            *)
(* (webhook/util/writer/atomic): the certificate files are links into      *)
(* ..data, itself a link to a timestamped directory; a new directory is    *)
(* filled, linked as ..data_tmp and renamed over ..data.  Every call to    *)
(* the file system is a step, may fail, and the process may end after it.  *)
(*                                                                         *)
(* sync is the one caller, and calls again after an error.  A file is      *)
(* known by the certificates it is a part of.                              *)
(***************************************************************************)
EXTENDS Naturals, FiniteSets

CONSTANTS
    Names,          \* file names
    CertNames,      \* those of certToProjectionMap and prepareToWrite
    Certs,          \* certificates
    Missing,        \* no file, no directory
    Torn,           \* a file that is not written to its end
    Earlier,        \* names of a payload another release has written
    Dirs,           \* names of timestamped directories
    NoDir,          \* no link
    MaxDisturbances \* bound: failed calls and crashes

\* What a timestamped directory holds.
Contents == UNION {[S -> Certs \union {Torn}] : S \in SUBSET Names}

ASSUME NamesAssumption == /\ CertNames \subseteq Names
                          /\ Earlier \subseteq SUBSET Names
                          /\ IsFiniteSet(Dirs)
ASSUME ValuesAssumption == /\ Missing \notin Certs \union {Torn} \union Contents
                           /\ Torn \notin Certs
                           /\ NoDir \notin Dirs
ASSUME BoundAssumption == MaxDisturbances \in Nat

VARIABLES
    \* the certificate directory
    plain,      \* ordinary files by name: their contents, or Missing
    links,      \* the names that are links into ..data
    dirs,       \* the timestamped directories: Contents, or Missing
    data,       \* where ..data leads
    tmp,        \* where ..data_tmp leads
    \* the caller
    certs,      \* the certificates last handed to WriteCertsToDir
    done,       \* which returned no error
    \* Write's locals
    pc,
    todo,       \* the names the loop in progress has not come to
    oldTs,      \* oldTsDir
    ts,         \* tsDir
    extra,      \* pathsToRemove
    refused,    \* history: names that are not links because the removal of an
                \* ordinary file has failed
    disturbances

visible == <<plain, links, data, tmp>>
locals == <<pc, todo, oldTs, ts, extra>>
vars == <<plain, links, dirs, data, tmp, certs, done, pc, todo, oldTs, ts, extra,
          refused, disturbances>>

files == {f \in Names : plain[f] # Missing}

\* certToProjectionMap: the payload of Write.
certToProjectionMap(c) == [f \in CertNames |-> c]

empty == [f \in {} |-> Torn]

-----------------------------------------------------------------------------

\* The directory is empty, has certificates that somebody put there, or was
\* written by this release or another.
Init ==
    /\ certs \in Certs /\ done = FALSE
    /\ \/ /\ plain \in [Names -> Certs \union {Missing}] /\ files \subseteq CertNames
          /\ links = {} /\ data = NoDir
          /\ dirs = [d \in Dirs |-> Missing]
       \/ \E S \in Earlier, d \in Dirs :
             /\ plain = [f \in Names |-> Missing]
             /\ links = S /\ data = d
             /\ dirs = [e \in Dirs |-> IF e = d THEN [f \in S |-> certs]
                                       ELSE Missing]
    /\ tmp = NoDir
    /\ pc = "idle" /\ todo = {} /\ oldTs = NoDir /\ ts = NoDir /\ extra = {}
    /\ refused = {}
    /\ disturbances = 0

Disturb == /\ disturbances < MaxDisturbances
           /\ disturbances' = disturbances + 1

\* Write is over.
Return(ok) ==
    /\ pc' = "idle" /\ todo' = {} /\ oldTs' = NoDir /\ ts' = NoDir /\ extra' = {}
    /\ done' = ok
    /\ UNCHANGED certs

-----------------------------------------------------------------------------

\* sync has the same certificates again, or new ones.
WriteCertsToDir(c) ==
    /\ pc = "idle"
    /\ certs' = c /\ done' = FALSE
    /\ pc' = "prepare" /\ todo' = files \intersect CertNames
    /\ UNCHANGED <<visible, dirs, oldTs, ts, extra, refused, disturbances>>

\* An ordinary file is removed.  An error is only logged.
prepareToWrite(f) ==
    /\ pc = "prepare" /\ f \in todo
    /\ todo' = todo \ {f}
    /\ \/ /\ plain' = [plain EXCEPT ![f] = Missing]
          /\ UNCHANGED <<refused, disturbances>>
       \/ /\ Disturb
          /\ refused' = refused \union {f}
          /\ UNCHANGED plain
    /\ UNCHANGED <<links, data, tmp, dirs, certs, done, pc, oldTs, ts, extra>>

\* A variant with a bug: a file that is there is not compared.
shouldWriteNew(d, f, c) == f \notin DOMAIN dirs[d]

shouldWriteFile(d, f, c) == f \notin DOMAIN dirs[d] \/ dirs[d][f] # c

shouldWritePayload(p, d) == \E f \in DOMAIN p : shouldWriteFile(d, f, p[f])

pathsToRemove(p, d) == DOMAIN dirs[d] \ DOMAIN p

\* A variant with a bug: without ..data the error of Readlink is returned.
DetectStrict ==
    /\ pc = "prepare" /\ todo = {}
    /\ LET p == certToProjectionMap(certs)
           old == IF data = NoDir THEN {} ELSE pathsToRemove(p, data)
       IN  IF data = NoDir
           THEN Return(FALSE)
           ELSE IF ~shouldWritePayload(p, data) /\ old = {}
           THEN Return(TRUE)
           ELSE /\ pc' = "mkdir" /\ oldTs' = data /\ extra' = old
                /\ UNCHANGED <<certs, done, todo, ts>>
    /\ UNCHANGED <<visible, dirs, refused, disturbances>>

\* (2) to (4): where ..data leads, and whether there is anything to do.
Detect ==
    /\ pc = "prepare" /\ todo = {}
    /\ LET p == certToProjectionMap(certs)
           old == IF data = NoDir THEN {} ELSE pathsToRemove(p, data)
       IN  IF data # NoDir /\ ~shouldWritePayload(p, data) /\ old = {}
           THEN Return(TRUE)
           ELSE /\ pc' = "mkdir" /\ oldTs' = data /\ extra' = old
                /\ UNCHANGED <<certs, done, todo, ts>>
    /\ UNCHANGED <<visible, dirs, refused, disturbances>>

\* (5)
newTimestampDir(d) ==
    /\ pc = "mkdir"
    /\ dirs[d] = Missing /\ d \notin {data, tmp}
    /\ dirs' = [dirs EXCEPT ![d] = empty]
    /\ ts' = d
    /\ pc' = "fill"
    /\ UNCHANGED <<visible, certs, done, todo, oldTs, extra, refused, disturbances>>

Put(f, c) ==
    dirs' = [dirs EXCEPT ![ts] =
               [g \in DOMAIN @ \union {f} |-> IF g = f THEN c ELSE @[g]]]

\* (6) writePayloadToDir: os.WriteFile creates a file, then fills it.
OpenFile(f) ==
    /\ pc = "fill" /\ f \in CertNames \ DOMAIN dirs[ts]
    /\ \A g \in DOMAIN dirs[ts] : dirs[ts][g] # Torn
    /\ Put(f, Torn)
    /\ UNCHANGED <<visible, certs, done, locals, refused, disturbances>>

FillFile(f) ==
    /\ pc = "fill" /\ f \in DOMAIN dirs[ts] /\ dirs[ts][f] = Torn
    /\ Put(f, certToProjectionMap(certs)[f])
    /\ UNCHANGED <<visible, certs, done, locals, refused, disturbances>>

\* A variant with a bug: the error of a write to a file is only logged.
FilledSomehow ==
    /\ pc = "fill" /\ DOMAIN dirs[ts] = CertNames
    /\ pc' = "link" /\ todo' = CertNames \ (links \union files)
    /\ UNCHANGED <<visible, dirs, certs, done, oldTs, ts, extra, refused,
                   disturbances>>

\* The payload is there.  Names that are there need no link: an ordinary file
\* is left alone.
Filled ==
    /\ pc = "fill" /\ dirs[ts] = certToProjectionMap(certs)
    /\ pc' = "link" /\ todo' = CertNames \ (links \union files)
    /\ UNCHANGED <<visible, dirs, certs, done, oldTs, ts, extra, refused,
                   disturbances>>

\* (7) createUserVisibleFiles
CreateLink(f) ==
    /\ pc = "link" /\ f \in todo
    /\ links' = links \union {f}
    /\ todo' = todo \ {f}
    /\ refused' = refused \ {f}
    /\ UNCHANGED <<plain, data, tmp, dirs, certs, done, pc, oldTs, ts, extra,
                   disturbances>>

\* A variant with a bug: the new payload is shown before its names are there.
SymlinkEarly ==
    /\ pc = "link" /\ tmp = NoDir
    /\ tmp' = ts
    /\ pc' = "rename"
    /\ UNCHANGED <<plain, links, data, dirs, certs, done, todo, oldTs, ts, extra,
                   refused, disturbances>>

\* (8)
Symlink ==
    /\ pc = "link" /\ todo = {} /\ tmp = NoDir
    /\ tmp' = ts
    /\ pc' = "rename"
    /\ UNCHANGED <<plain, links, data, dirs, certs, done, todo, oldTs, ts, extra,
                   refused, disturbances>>

\* A variant with a bug: the new directory is not removed.
SymlinkExistsLeaving ==
    /\ pc = "link" /\ todo = {} /\ tmp # NoDir
    /\ Return(FALSE)
    /\ UNCHANGED <<visible, dirs, refused, disturbances>>

\* There is a ..data_tmp already, which is an error.
SymlinkExists ==
    /\ pc = "link" /\ todo = {} /\ tmp # NoDir
    /\ dirs' = [dirs EXCEPT ![ts] = Missing]
    /\ Return(FALSE)
    /\ UNCHANGED <<visible, refused, disturbances>>

\* (9)
Rename ==
    /\ pc = "rename"
    /\ data' = tmp /\ tmp' = NoDir
    /\ pc' = "prune" /\ todo' = extra
    /\ UNCHANGED <<plain, links, dirs, certs, done, oldTs, ts, extra, refused,
                   disturbances>>

\* (10) removeUserVisiblePaths.  The loop goes on after an error, which is
\* returned at its end.
removeUserVisiblePaths(f) ==
    /\ pc \in {"prune", "pruneFailed"} /\ f \in todo
    /\ todo' = todo \ {f}
    /\ \/ /\ links' = links \ {f}
          /\ UNCHANGED <<pc, disturbances>>
       \/ /\ Disturb
          /\ pc' = "pruneFailed"
          /\ UNCHANGED links
    /\ UNCHANGED <<plain, data, tmp, dirs, certs, done, oldTs, ts, extra, refused>>

PruneFailed ==
    /\ pc = "pruneFailed" /\ todo = {}
    /\ Return(FALSE)
    /\ UNCHANGED <<visible, dirs, refused, disturbances>>

\* (11)
RemoveOld ==
    /\ pc = "prune" /\ todo = {}
    /\ dirs' = [d \in Dirs |-> IF d = oldTs THEN Missing ELSE dirs[d]]
    /\ Return(TRUE)
    /\ UNCHANGED <<visible, refused, disturbances>>

-----------------------------------------------------------------------------

\* A call of prepareToWrite or Write fails, which returns its error; the new
\* directory stays as it is.
Fail ==
    /\ \/ pc \in {"prepare", "mkdir", "fill"}
       \/ pc = "link" /\ todo # {}
    /\ Disturb
    /\ Return(FALSE)
    /\ UNCHANGED <<visible, dirs, refused>>

\* RemoveAll removes a directory, or fails with a part of it.
RemoveSome(d) ==
    \/ dirs' = [dirs EXCEPT ![d] = Missing]
    \/ \E S \in SUBSET DOMAIN dirs[d] :
          dirs' = [dirs EXCEPT ![d] = [f \in S |-> dirs[d][f]]]

\* The symlink or its rename fails.  Errors of the cleanup are ignored.
FailInstall ==
    /\ \/ pc = "link" /\ todo = {} /\ UNCHANGED tmp
       \/ pc = "rename" /\ tmp' \in {tmp, NoDir}
    /\ Disturb
    /\ RemoveSome(ts)
    /\ Return(FALSE)
    /\ UNCHANGED <<plain, links, data, refused>>

\* The last RemoveAll fails, or the process ends in it.
FailRemoveOld ==
    /\ pc = "prune" /\ todo = {} /\ oldTs # NoDir
    /\ Disturb
    /\ RemoveSome(oldTs)
    /\ Return(FALSE)
    /\ UNCHANGED <<visible, refused>>

\* The process ends; the next one starts with a sync.
Crash ==
    /\ pc # "idle"
    /\ Disturb
    /\ Return(FALSE)
    /\ UNCHANGED <<visible, dirs, refused>>

Write ==
    \/ Detect \/ Filled
    \/ \E d \in Dirs : newTimestampDir(d)
    \/ \E f \in CertNames : OpenFile(f) \/ FillFile(f) \/ CreateLink(f)
    \/ Symlink \/ SymlinkExists \/ Rename
    \/ \E f \in Names : removeUserVisiblePaths(f)
    \/ PruneFailed \/ RemoveOld

Proceed == Write \/ \E f \in CertNames : prepareToWrite(f)

Next ==
    \/ \E c \in Certs : WriteCertsToDir(c)
    \/ Proceed
    \/ Fail \/ FailInstall \/ FailRemoveOld \/ Crash

Spec == Init /\ [][Next]_vars

(***************************************************************************)
(* A call goes on to its end, and sync comes again after an error, with    *)
(* whatever certificates it has then.                                      *)
(***************************************************************************)
FairSpec == /\ Spec
            /\ WF_vars(Proceed)
            /\ WF_vars(~done /\ \E c \in Certs : WriteCertsToDir(c))
=============================================================================
