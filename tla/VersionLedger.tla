----------------------------- MODULE VersionLedger -----------------------------
(***************************************************************************)
(* What a release promises whoever pulls a version, without workflows,     *)
(* runs or branches: a version stands for one commit, nothing that was     *)
(* claimed, released or published is ever withdrawn or moved, and only the *)
(* claimed commit of a version is published under its name.  Release       *)
(* implements this specification.                                          *)
(***************************************************************************)
CONSTANTS
    Versions,  \* what a commit can be released as
    Commits    \* what can be released

VARIABLES
    claims,    \* which commit has which version
    released,  \* the versions that are announced as releases
    published  \* which commits are published, under which version

vars == <<claims, released, published>>

Claimed(v) == \E claim \in claims : claim.version = v

Init ==
    /\ claims = {}
    /\ released = {}
    /\ published = {}

\* A commit takes a version that no commit has; it has no other.
Claim ==
    /\ claims' \subseteq [version : Versions, commit : Commits]
    /\ \E new \in claims' \ claims :
          /\ \A old \in claims : old.version # new.version /\ old.commit # new.commit
          /\ claims' = claims \cup {new}
    /\ UNCHANGED <<released, published>>

\* A version that a commit has is released once.
Announce ==
    /\ \E v \in released' \ released : Claimed(v) /\ released' = released \cup {v}
    /\ UNCHANGED <<claims, published>>

\* The commit of a version is published under it, any number of times.
Publish ==
    /\ \E claim \in claims : published' = published \cup {claim}
    /\ UNCHANGED <<claims, released>>

Next == Claim \/ Announce \/ Publish

Spec == Init /\ [][Next]_vars
==============================================================================
