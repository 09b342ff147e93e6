-------------------------- MODULE AtomicDirectory --------------------------
(***************************************************************************)
(* What the atomic writer promises to whoever reads the certificate        *)
(* directory: all the links lead into one payload, which is complete and   *)
(* is replaced at once, when every name of the next one can be seen.       *)
(***************************************************************************)
CONSTANTS
    Names,      \* file names
    Certs,      \* what a file may contain
    Missing     \* there is no such file

Payload == UNION {[S -> Certs] : S \in SUBSET Names}

VARIABLES
    current,    \* the payload the links lead to
    links,      \* the names that are links
    plain       \* ordinary files by name: their contents, or Missing

TypeOK == /\ current \in Payload
          /\ links \subseteq Names
          /\ plain \in [Names -> Certs \union {Missing}]

\* A name is a link or an ordinary file.
Apart == \A f \in links : plain[f] = Missing

Init == TypeOK /\ Apart

\* An ordinary file is removed to make room for a link.
Clear(f) ==
    /\ plain[f] # Missing
    /\ plain' = [plain EXCEPT ![f] = Missing]
    /\ UNCHANGED <<current, links>>

Link(f) ==
    /\ f \notin links /\ plain[f] = Missing
    /\ links' = links \union {f}
    /\ UNCHANGED <<current, plain>>

\* A link that leads nowhere is removed.
Unlink(f) ==
    /\ f \in links \ DOMAIN current
    /\ links' = links \ {f}
    /\ UNCHANGED <<current, plain>>

Install(p) ==
    /\ \A f \in DOMAIN p : f \in links \/ plain[f] # Missing
    /\ current' = p
    /\ UNCHANGED <<links, plain>>

Next == \/ \E f \in Names : Clear(f) \/ Link(f) \/ Unlink(f)
        \/ \E p \in Payload : Install(p)

Spec == Init /\ [][Next]_<<current, links, plain>>
=============================================================================
