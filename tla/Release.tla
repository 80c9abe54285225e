-------------------------------- MODULE Release --------------------------------
(***************************************************************************)
(* Cutting a release: the workflows prepare-release.yml and release.yml    *)
(* and scripts/generate-changelog.sh over one repository.  Prepare runs,   *)
(* merges and release runs interleave freely - no workflow has a           *)
(* concurrency group - and every run may fail after any of its steps.      *)
(*                                                                         *)
(* Git, GitHub and the container registry are external.  A commit is a     *)
(* position of main; a change is what one pull request merges.             *)
(***************************************************************************)
EXTENDS Naturals, Sequences, FiniteSets

CONSTANTS
    Changes,   \* the changes that pull requests merge, each of them once
    Prepares,  \* the runs of prepare-release.yml, each of them once
    Bumps,     \* the bump types they are asked for
    Failures,  \* how many steps of release runs fail: a bound
    None       \* no change: the commit of a release

ASSUME BumpTypes == Bumps \subseteq {"major", "minor", "patch"}

VARIABLES
    main,       \* the commits of main: the VERSION file and the change
    changelog,  \* the sections of CHANGELOG.md on main, oldest first
    branches,   \* the release branches pushed, by version
    prs,        \* the versions with an open release PR
    prepare,    \* where each prepare run is, and what it has computed
    run,        \* where the release run of each commit is, or "none"
    tags,       \* the tags of the remote: a version and a commit
    releases,   \* the versions with a GitHub release
    images,     \* every image pushed under its version: from which commit
    latest,     \* the version whose image :latest is
    failed      \* the number of release steps that failed

prepareVars == <<branches, prs, prepare>>
publishVars == <<tags, releases, images, latest, failed>>
vars == <<main, changelog, run, prepareVars, publishVars>>

First == <<0, 1, 0>>

Init ==
    /\ main = <<[version |-> First, change |-> None]>>
    /\ changelog = <<>>
    /\ branches = {}
    /\ prs = {}
    /\ prepare = [p \in Prepares |-> [step |-> "new"]]
    /\ run = <<"none">>
    /\ tags = {}
    /\ releases = {}
    /\ images = {}
    /\ latest = None
    /\ failed = 0

Version == main[Len(main)].version
Tagged(version) == \E t \in tags : t.version = version

\* A pull request other than a release is merged.
MergeChange(c) ==
    /\ \A i \in DOMAIN main : main[i].change # c
    /\ main' = Append(main, [version |-> Version, change |-> c])
    /\ run' = Append(run, "none")
    /\ UNCHANGED <<changelog, prepareVars, publishVars>>

------------------------------------------------------------------------------
(* prepare-release.yml                                                       *)

Bump(v, bump) ==
    CASE bump = "major" -> <<v[1] + 1, 0, 0>>
      [] bump = "minor" -> <<v[1], v[2] + 1, 0>>
      [] bump = "patch" -> <<v[1], v[2], v[3] + 1>>

\* generate-changelog.sh lists the commits since the tag of the version that
\* is being replaced, or, if there is none, since the first.
Start == IF Tagged(Version) THEN (CHOOSE t \in tags : t.version = Version).commit ELSE 0

\* Mutant of Items: the whole history every time.
AllItems == {main[i].change : i \in 1..Len(main)} \ {None}

Items == {main[i].change : i \in (Start + 1)..Len(main)} \ {None}

\* The run checks out main, with all branches and tags, and computes the next
\* version and its section of the changelog.
PrepareStarts(p, bump) ==
    LET new == Bump(Version, bump) IN
    /\ prepare[p].step = "new"
    /\ prepare' = [prepare EXCEPT ![p] =
          [step |-> "prepared", version |-> new, base |-> Len(main),
           section |-> [version |-> new, items |-> Items, since |-> Start],
           lease |-> {b \in branches : b.version = new}]]
    /\ UNCHANGED <<main, changelog, run, branches, prs, publishVars>>

\* git push --force-with-lease: refused if the branch is not what it was.
PushBranch(p) ==
    /\ prepare[p].step = "prepared"
    /\ prepare[p].lease = {b \in branches : b.version = prepare[p].version}
    /\ branches' = (branches \ prepare[p].lease) \cup
          {[version |-> prepare[p].version, base |-> prepare[p].base,
            section |-> prepare[p].section]}
    /\ prepare' = [prepare EXCEPT ![p].step = "pushed"]
    /\ UNCHANGED <<main, changelog, run, prs, publishVars>>

\* gh pr create fails if the branch has a pull request already.
OpenPr(p) ==
    /\ prepare[p].step = "pushed"
    /\ prepare[p].version \notin prs
    /\ prs' = prs \cup {prepare[p].version}
    /\ prepare' = [prepare EXCEPT ![p].step = "over"]
    /\ UNCHANGED <<main, changelog, run, branches, publishVars>>

PrepareFails(p) ==
    /\ prepare[p].step \in {"prepared", "pushed"}
    /\ prepare' = [prepare EXCEPT ![p].step = "over"]
    /\ UNCHANGED <<main, changelog, run, branches, prs, publishVars>>

\* A release PR can be merged unless another release was since its base: both
\* change VERSION and the head of CHANGELOG.md.  The merge changes VERSION, which
\* queues a run of release.yml.
MergeRelease(b) ==
    /\ b.version \in prs
    /\ main[b.base].version = Version
    /\ prs' = prs \ {b.version}
    /\ main' = Append(main, [version |-> b.version, change |-> None])
    /\ changelog' = Append(changelog, b.section)
    /\ run' = Append(run, "queued")
    /\ UNCHANGED <<branches, prepare, publishVars>>

------------------------------------------------------------------------------
(* release.yml, on the commit that queued it                                 *)

Goes(i, from, to) == run[i] = from /\ run' = [run EXCEPT ![i] = to]

\* Mutant of CommitOf: the tip of main when the step runs.
TipOf(i) == Len(main)

\* The commit that the run works on: the one that was pushed.
CommitOf(i) == i

VersionOf(i) == main[CommitOf(i)].version

\* Mutant of CheckTag: nothing is checked.
CheckNothing(i) ==
    /\ Goes(i, "queued", "absent")
    /\ UNCHANGED <<main, changelog, prepareVars, publishVars>>

\* Checkout, "Read VERSION" and "Check if tag already exists".
CheckTag(i) ==
    /\ Goes(i, "queued", IF Tagged(VersionOf(i)) THEN "present" ELSE "absent")
    /\ UNCHANGED <<main, changelog, prepareVars, publishVars>>

\* "Create tag and release": git push refuses to move a tag ...
PushTag(i) ==
    /\ Goes(i, "absent", "tagged")
    /\ ~Tagged(VersionOf(i))
    /\ tags' = tags \cup {[version |-> VersionOf(i), commit |-> CommitOf(i)]}
    /\ UNCHANGED <<main, changelog, prepareVars, releases, images, latest, failed>>

\* ... and gh release create refuses to create a release twice.
CreateRelease(i) ==
    /\ Goes(i, "tagged", "released")
    /\ VersionOf(i) \notin releases
    /\ releases' = releases \cup {VersionOf(i)}
    /\ UNCHANGED <<main, changelog, prepareVars, tags, images, latest, failed>>

\* Mutants of ImageIsDue: the image does not wait for the tag; it is gated on the tag, as the release is.
ImageBeforeTag(i) == run[i] \in {"absent", "present", "released"}
ImageIfAbsent(i) == run[i] = "released"

\* "Build and push image": not gated on the tag's existence.
ImageIsDue(i) == run[i] \in {"present", "released"}

PushImage(i) ==
    /\ ImageIsDue(i)
    /\ run' = [run EXCEPT ![i] = "done"]
    /\ images' = images \cup {[version |-> VersionOf(i), commit |-> CommitOf(i)]}
    /\ latest' = VersionOf(i)
    /\ UNCHANGED <<main, changelog, prepareVars, tags, releases, failed>>

\* A step fails: the network, a permission, the build.
RunFails(i) ==
    /\ run[i] \in {"queued", "absent", "present", "tagged", "released"}
    /\ failed < Failures /\ failed' = failed + 1
    /\ run' = [run EXCEPT ![i] = "failed"]
    /\ UNCHANGED <<main, changelog, prepareVars, tags, releases, images, latest>>

\* A run that is over can be started again, from its first step.
Rerun(i) ==
    /\ run[i] \in {"failed", "done"}
    /\ run' = [run EXCEPT ![i] = "queued"]
    /\ UNCHANGED <<main, changelog, prepareVars, publishVars>>

------------------------------------------------------------------------------

Next ==
    \/ \E c \in Changes : MergeChange(c)
    \/ \E p \in Prepares, bump \in Bumps : PrepareStarts(p, bump)
    \/ \E p \in Prepares : PushBranch(p) \/ OpenPr(p) \/ PrepareFails(p)
    \/ \E b \in branches : MergeRelease(b)
    \/ \E i \in DOMAIN run :
          \/ CheckTag(i) \/ PushTag(i) \/ CreateRelease(i) \/ PushImage(i)
          \/ RunFails(i) \/ Rerun(i)

Spec == Init /\ [][Next]_vars

\* A run that is queued goes on to its end, and the maintainers start one that
\* failed again.  Nobody has to prepare or merge anything.
Commits == 1..(1 + Cardinality(Changes) + Cardinality(Prepares))

Progress(i) ==
    \/ CheckTag(i) \/ PushTag(i) \/ CreateRelease(i) \/ PushImage(i)
    \/ run[i] = "failed" /\ Rerun(i)

Fairness == \A i \in Commits : WF_vars(i \in DOMAIN run /\ Progress(i))

FairSpec == Spec /\ Fairness

------------------------------------------------------------------------------
(* Properties.                                                               *)

\* An image has the version of the commit it was built from, and that commit is
\* the one its tag names: whatever is merged, prepared or rerun meanwhile, a
\* version is one and the same in git and in the registry (release.yml 26-81).
ImageMatchesTag ==
    \A img \in images : img \in tags /\ main[img.commit].version = img.version

\* What a step has found is still so when a later step relies on it: the check
\* of the tag, its creation and that of the release are apart, no concurrency
\* group keeps other runs away, and yet git push never meets the tag and gh
\* release create never meets the release (release.yml 28-49).
NothingRefused ==
    \A i \in DOMAIN run :
        /\ run[i] = "absent" => ~Tagged(VersionOf(i))
        /\ run[i] = "tagged" => VersionOf(i) \notin releases

\* Tags, releases and images are a ledger of versions: a version has one commit
\* for good, is released once, and is published as nothing else.
Ledger == INSTANCE VersionLedger WITH
    Versions <- Nat \X Nat \X Nat,
    Commits <- Nat,
    claims <- tags,
    released <- releases,
    published <- images

LedgerSpec == Ledger!Spec

\* Versions are compared field by field.
Versions == Nat \X Nat \X Nat
Less(v, w) ==
    \/ v[1] < w[1]
    \/ v[1] = w[1] /\ v[2] < w[2]
    \/ v[1] = w[1] /\ v[2] = w[2] /\ v[3] < w[3]

Commit == [version : Versions, change : Changes \cup {None}]

Steps ==
    {"none", "queued", "absent", "present", "tagged", "released", "done", "failed"}

\* The inductive invariant of a version's way into git and into the registry:
\* versions grow along main, and strictly with a release, so no two releases
\* have the same one; a branch is ahead of the commit it was prepared on; a tag
\* names the release commit of its version; and a run that is past the tag's
\* check or its creation has its own commit tagged.
HistoryTyped ==
    /\ main \in Seq(Commit)
    /\ run \in Seq(Steps) /\ Len(run) = Len(main) /\ Len(main) > 0
    /\ DOMAIN prepare = Prepares

VersionsGrow ==
    \A i, j \in 1..Len(main) : i < j =>
        /\ main[i].version = main[j].version \/ Less(main[i].version, main[j].version)
        /\ run[j] # "none" => Less(main[i].version, main[j].version)

Ahead(r) ==
    /\ r.version \in Versions /\ r.base \in 1..Len(main)
    /\ Less(main[r.base].version, r.version)

BranchesAhead ==
    /\ \A b \in branches : Ahead(b)
    /\ \A p \in Prepares : prepare[p].step = "prepared" => Ahead(prepare[p])

TagsTraced ==
    /\ \A t \in tags :
          /\ t \in [version : Versions, commit : 1..Len(main)]
          /\ t.version = main[t.commit].version /\ run[t.commit] # "none"
    /\ \A i \in 1..Len(main) : run[i] \in {"present", "tagged", "released"} =>
          [version |-> main[i].version, commit |-> i] \in tags
    /\ images \subseteq tags

Traced == HistoryTyped /\ VersionsGrow /\ BranchesAhead /\ TagsTraced

\* A change that is listed since a tag is in no earlier section, whatever is
\* merged between a preparation and its merge (generate-changelog.sh 26-49).
\* A section that was prepared while the tag was still missing lists the whole
\* history once more: the script takes any missing tag for the first release.
SectionsDisjoint ==
    \A j, k \in DOMAIN changelog :
        j < k /\ changelog[k].since > 0 => changelog[j].items \cap changelog[k].items = {}

\* "All notable changes to this project will be documented in this file"
\* (CHANGELOG.md 3), each section's "from the commits since the last tag"
\* (prepare-release.yml 3-4): the section of a release lists the changes that were
\* merged between the previous release and its own.  It is computed from main as
\* it was when the preparation started, and merged later.
SectionsListReleases ==
    \A k \in DOMAIN changelog, i \in DOMAIN run :
        run[i] # "none" /\ main[i].version = changelog[k].version =>
            LET since == {j \in 1..i : \A m \in j..(i - 1) : run[m] = "none"}
            IN  changelog[k].items = {main[j].change : j \in since} \ {None}

\* Whichever steps of its runs fail, and whatever they have done before, reruns
\* publish the version in the end: "intentionally NOT gated on tag existence so a
\* rerun after a partial failure (tag created but push failed) still publishes
\* it" (release.yml 65-66).
EveryVersionPublished ==
    \A i \in Commits :
        i \in DOMAIN run /\ run[i] # "none" ~>
            i \in DOMAIN main /\ \E img \in images : img.version = main[i].version

\* "Creates the git tag and GitHub release, then builds and pushes the Docker
\* image" (release.yml 4-5).  A run that fails between git push and gh release
\* create finds the tag when it is rerun, skips the step, and ends without a
\* release.
ReleasedWhenDone ==
    \A i \in DOMAIN run : run[i] = "done" => VersionOf(i) \in releases
==============================================================================
