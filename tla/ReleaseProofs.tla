---------------------------- MODULE ReleaseProofs ----------------------------
(***************************************************************************)
(* Proofs about Release, for any changes, preparations and failures, and   *)
(* however merges, preparations and release runs interleave.               *)
(***************************************************************************)
EXTENDS Release, TLAPS

\* Versions are ordered.
LEMMA LessTransitive ==
    ASSUME NEW u \in Versions, NEW v \in Versions, NEW w \in Versions,
           u = v \/ Less(u, v), Less(v, w)
    PROVE  Less(u, w)
BY DEF Versions, Less

LEMMA LessIrreflexive ==
    ASSUME NEW v \in Versions
    PROVE  ~Less(v, v)
BY DEF Versions, Less

\* A bump of any type is a later version (prepare-release.yml 32-44).
LEMMA BumpIsLater ==
    ASSUME NEW v \in Versions, NEW bump \in {"major", "minor", "patch"}
    PROVE  Bump(v, bump) \in Versions /\ Less(v, Bump(v, bump))
BY DEF Versions, Less, Bump

\* Every commit has a VERSION file.
LEMMA CommitsAreTyped ==
    ASSUME HistoryTyped, NEW i \in 1..Len(main)
    PROVE  main[i].version \in Versions
<1>1. main[i] \in Commit
    BY DEF HistoryTyped
<1> QED
    BY <1>1 DEF Commit

\* No two releases have the same version.
LEMMA ReleasesDiffer ==
    ASSUME Traced, NEW i \in 1..Len(main), NEW j \in 1..Len(main),
           run[i] # "none", run[j] # "none", main[i].version = main[j].version
    PROVE  i = j
<1>1. main[i].version \in Versions /\ main[j].version \in Versions
    BY CommitsAreTyped DEF Traced
<1>2. ~(i < j) /\ ~(j < i)
    BY <1>1, LessIrreflexive DEF Traced, VersionsGrow
<1> QED
    BY <1>2

\* The repository starts with one commit, which no run was queued for.
LEMMA TracedInit == Init => Traced
<1> SUFFICES ASSUME Init
             PROVE  Traced
    OBVIOUS
<1>1. First \in Versions
    BY DEF First, Versions
<1>2. HistoryTyped
  <2>1. [version |-> First, change |-> None] \in Commit
      BY <1>1 DEF Commit
  <2> QED
      BY <2>1 DEF Init, HistoryTyped, Steps
<1>3. VersionsGrow
    BY DEF Init, VersionsGrow
<1>4. BranchesAhead
    BY DEF Init, BranchesAhead
<1>5. TagsTraced
    BY DEF Init, TagsTraced
<1> QED
    BY <1>2, <1>3, <1>4, <1>5 DEF Traced

\* A commit that is not behind the last version is appended to main, with a run
\* only if it is ahead of it.
LEMMA CommitStep ==
    ASSUME Traced, NEW version \in Versions, NEW change \in Changes \cup {None},
           NEW step \in {"none", "queued"},
           main' = Append(main, [version |-> version, change |-> change]),
           run' = Append(run, step),
           version = Version \/ Less(Version, version),
           step # "none" => Less(Version, version),
           prepare' = prepare, branches' = branches, tags' = tags, images' = images
    PROVE  Traced'
<1> DEFINE n == Len(main)
<1>1. /\ Len(main') = n + 1 /\ Len(run') = n + 1 /\ n \in Nat \ {0}
      /\ main'[n + 1].version = version /\ run'[n + 1] = step
      /\ \A i \in 1..n : main'[i] = main[i] /\ run'[i] = run[i]
    BY DEF Traced, HistoryTyped
<1>2. HistoryTyped'
  <2>1. [version |-> version, change |-> change] \in Commit
      BY DEF Commit
  <2> QED
      BY <2>1 DEF Traced, HistoryTyped, Steps
<1>3. /\ Version \in Versions
      /\ \A i \in 1..n : /\ main[i].version \in Versions
                         /\ main[i].version = Version \/ Less(main[i].version, Version)
  <2>1. \A i \in 1..n : main[i].version \in Versions
      BY CommitsAreTyped DEF Traced
  <2>2. \A i \in 1..n : main[i].version = main[n].version \/ Less(main[i].version, main[n].version)
      BY <1>1 DEF Traced, VersionsGrow
  <2> QED
      BY <1>1, <2>1, <2>2 DEF Version
<1>4. \A i \in 1..n :
         /\ main[i].version = version \/ Less(main[i].version, version)
         /\ step # "none" => Less(main[i].version, version)
    BY <1>3, LessTransitive
<1>5. VersionsGrow'
  <2> SUFFICES ASSUME NEW i \in 1..(n + 1), NEW j \in 1..(n + 1), i < j
               PROVE  /\ \/ main'[i].version = main'[j].version
                         \/ Less(main'[i].version, main'[j].version)
                      /\ run'[j] # "none" => Less(main'[i].version, main'[j].version)
      BY <1>1 DEF VersionsGrow
  <2>1. i \in 1..n
      BY <1>1
  <2>2. CASE j = n + 1
      BY <1>1, <1>4, <2>1, <2>2
  <2>3. CASE j \in 1..n
      BY <1>1, <2>1, <2>3 DEF Traced, VersionsGrow
  <2> QED
      BY <1>1, <2>2, <2>3
<1>6. BranchesAhead'
    BY <1>1 DEF Traced, BranchesAhead, Ahead
<1>7. TagsTraced'
    BY <1>1 DEF Traced, TagsTraced
<1> QED
    BY <1>2, <1>5, <1>6, <1>7 DEF Traced

\* A step of a run that leaves main and the preparations alone.
LEMMA RunStep ==
    ASSUME Traced, NEW i \in DOMAIN run, NEW to \in Steps \ {"none"},
           run[i] # "none", run' = [run EXCEPT ![i] = to],
           main' = main, prepare' = prepare, branches' = branches
    PROVE  /\ HistoryTyped' /\ VersionsGrow' /\ BranchesAhead'
           /\ Len(run') = Len(run) /\ i \in 1..Len(main)
           /\ run'[i] = to
           /\ \A j \in 1..Len(main) : j # i => run'[j] = run[j]
           /\ \A j \in 1..Len(main) : run'[j] # "none" <=> run[j] # "none"
<1>1. /\ run \in Seq(Steps) /\ Len(run) = Len(main) /\ DOMAIN run = 1..Len(main)
      /\ main \in Seq(Commit)
    BY DEF Traced, HistoryTyped
<1>2. run' \in Seq(Steps) /\ Len(run') = Len(main) /\ run'[i] = to
    BY <1>1
<1>3. \A j \in 1..Len(main) : j # i => run'[j] = run[j]
    BY <1>1
<1>4. \A j \in 1..Len(main) : run'[j] # "none" <=> run[j] # "none"
    BY <1>1, <1>2, <1>3
<1>5. HistoryTyped'
    BY <1>1, <1>2 DEF Traced, HistoryTyped
<1>6. VersionsGrow'
    BY <1>4 DEF Traced, VersionsGrow
<1>7. BranchesAhead'
    BY DEF Traced, BranchesAhead, Ahead
<1> QED
    BY <1>1, <1>2, <1>3, <1>4, <1>5, <1>6, <1>7

\* ... and adds no tag and no image: what it reaches needs its commit tagged.
LEMMA QuietRunStep ==
    ASSUME Traced, NEW i \in DOMAIN run, NEW to \in Steps \ {"none"},
           run[i] # "none", run' = [run EXCEPT ![i] = to],
           to \in {"present", "tagged", "released"} =>
               [version |-> main[i].version, commit |-> i] \in tags,
           main' = main, prepare' = prepare, branches' = branches,
           tags' = tags, images' = images
    PROVE  Traced'
<1>1. /\ HistoryTyped' /\ VersionsGrow' /\ BranchesAhead'
      /\ run'[i] = to
      /\ \A j \in 1..Len(main) : j # i => run'[j] = run[j]
      /\ \A j \in 1..Len(main) : run'[j] # "none" <=> run[j] # "none"
    BY RunStep
<1>2. \A t \in tags' :
         /\ t \in [version : Versions, commit : 1..Len(main')]
         /\ t.version = main'[t.commit].version /\ run'[t.commit] # "none"
    BY <1>1 DEF Traced, TagsTraced
<1>3. \A j \in 1..Len(main') : run'[j] \in {"present", "tagged", "released"} =>
          [version |-> main'[j].version, commit |-> j] \in tags'
  <2> TAKE j \in 1..Len(main')
  <2>1. CASE j = i
      BY <1>1, <2>1
  <2>2. CASE j # i
      BY <1>1, <2>2 DEF Traced, TagsTraced
  <2> QED
      BY <2>1, <2>2
<1>4. TagsTraced'
    BY <1>2, <1>3 DEF Traced, TagsTraced
<1> QED
    BY <1>1, <1>4 DEF Traced

\* A step of a preparation changes neither main nor what is published.
LEMMA PrepareStep ==
    ASSUME Traced, UNCHANGED <<main, run, tags, images>>,
           DOMAIN prepare' = Prepares, BranchesAhead'
    PROVE  Traced'
<1>1. HistoryTyped' /\ VersionsGrow' /\ TagsTraced'
    BY DEF Traced, HistoryTyped, VersionsGrow, TagsTraced
<1> QED
    BY <1>1 DEF Traced

\* A merge of anything but a release keeps the version.
LEMMA MergeChangeStep ==
    ASSUME Traced, NEW c \in Changes, MergeChange(c)
    PROVE  Traced'
<1>1. Len(main) \in 1..Len(main)
    BY DEF Traced, HistoryTyped
<1>2. Version \in Versions
    BY <1>1, CommitsAreTyped DEF Traced, Version
<1>3. /\ main' = Append(main, [version |-> Version, change |-> c])
      /\ run' = Append(run, "none")
      /\ prepare' = prepare /\ branches' = branches /\ tags' = tags /\ images' = images
    BY DEF MergeChange, prepareVars, publishVars
<1>4. c \in Changes \cup {None}
    OBVIOUS
<1> QED
    BY <1>2, <1>3, <1>4, CommitStep

\* A release branch is ahead of its base, and is merged only while main still has
\* the version of that base.
LEMMA MergeReleaseStep ==
    ASSUME Traced, NEW b \in branches, MergeRelease(b)
    PROVE  Traced'
<1>1. /\ main' = Append(main, [version |-> b.version, change |-> None])
      /\ run' = Append(run, "queued")
      /\ prepare' = prepare /\ branches' = branches /\ tags' = tags /\ images' = images
    BY DEF MergeRelease, publishVars
<1>2. b.version \in Versions /\ Less(Version, b.version)
    BY DEF MergeRelease, Traced, BranchesAhead, Ahead
<1>3. None \in Changes \cup {None}
    OBVIOUS
<1> QED
    BY <1>1, <1>2, <1>3, CommitStep

\* What is prepared, and pushed, is a bump of the version it was prepared on.
LEMMA PrepareStartsStep ==
    ASSUME Traced, NEW p \in Prepares, NEW bump \in Bumps, PrepareStarts(p, bump)
    PROVE  Traced'
<1>1. bump \in {"major", "minor", "patch"}
    BY BumpTypes
<1>2. Len(main) \in 1..Len(main) /\ DOMAIN prepare = Prepares
    BY DEF Traced, HistoryTyped
<1>3. Version \in Versions
    BY <1>2, CommitsAreTyped DEF Traced, Version
<1>4. Bump(Version, bump) \in Versions /\ Less(Version, Bump(Version, bump))
    BY <1>1, <1>3, BumpIsLater
<1>5. UNCHANGED <<main, run, branches, tags, images>> /\ DOMAIN prepare' = Prepares
    BY <1>2 DEF PrepareStarts, publishVars
<1>6. /\ prepare'[p].version = Bump(Version, bump) /\ prepare'[p].base = Len(main)
      /\ \A q \in Prepares : q # p => prepare'[q] = prepare[q]
    BY <1>2 DEF PrepareStarts
<1>7. BranchesAhead'
  <2>1. \A r \in branches' : Ahead(r)'
      BY <1>5 DEF Traced, BranchesAhead, Ahead
  <2> SUFFICES ASSUME NEW q \in Prepares, prepare'[q].step = "prepared"
               PROVE  Ahead(prepare[q])'
      BY <2>1 DEF BranchesAhead
  <2>2. CASE q = p
      BY <1>2, <1>4, <1>5, <1>6, <2>2 DEF Ahead, Version
  <2>3. CASE q # p
      BY <1>5, <1>6, <2>3 DEF Traced, BranchesAhead, Ahead
  <2> QED
      BY <2>2, <2>3
<1> QED
    BY <1>5, <1>7, PrepareStep

LEMMA PushBranchStep ==
    ASSUME Traced, NEW p \in Prepares, PushBranch(p)
    PROVE  Traced'
<1>1. UNCHANGED <<main, run, tags, images>>
    BY DEF PushBranch, publishVars
<1>2. DOMAIN prepare = Prepares
    BY DEF Traced, HistoryTyped
<1>3. DOMAIN prepare' = Prepares
    BY <1>2 DEF PushBranch
<1>4. /\ prepare'[p].step = "pushed"
      /\ \A q \in Prepares : q # p => prepare'[q] = prepare[q]
    BY <1>2 DEF PushBranch
<1>5. Ahead([version |-> prepare[p].version, base |-> prepare[p].base,
             section |-> prepare[p].section])
    BY DEF PushBranch, Traced, BranchesAhead, Ahead
<1>6. \A r \in branches' : Ahead(r)
    BY <1>5 DEF PushBranch, Traced, BranchesAhead
<1>7. BranchesAhead'
    BY <1>1, <1>4, <1>6 DEF Traced, BranchesAhead, Ahead
<1> QED
    BY <1>1, <1>3, <1>7, PrepareStep

\* A preparation that is over needs nothing.
LEMMA PrepareEndsStep ==
    ASSUME Traced, NEW p \in Prepares, OpenPr(p) \/ PrepareFails(p)
    PROVE  Traced'
<1>1. UNCHANGED <<main, run, branches, tags, images>>
    BY DEF OpenPr, PrepareFails, publishVars
<1>2. DOMAIN prepare = Prepares
    BY DEF Traced, HistoryTyped
<1>3. DOMAIN prepare' = Prepares
    BY <1>2 DEF OpenPr, PrepareFails
<1>4. prepare' = [prepare EXCEPT ![p].step = "over"]
    BY DEF OpenPr, PrepareFails
<1>5. prepare'[p].step = "over"
    BY <1>2, <1>4
<1>6. \A q \in Prepares : q # p => prepare'[q] = prepare[q]
    BY <1>2, <1>4
<1>7. BranchesAhead'
    BY <1>1, <1>5, <1>6 DEF Traced, BranchesAhead, Ahead
<1> QED
    BY <1>1, <1>3, <1>7, PrepareStep

\* A tag that the check finds is the one of the run's own commit: no other release
\* has its version.
LEMMA CheckTagStep ==
    ASSUME Traced, NEW i \in DOMAIN run, CheckTag(i)
    PROVE  Traced'
<1> DEFINE to == IF Tagged(VersionOf(i)) THEN "present" ELSE "absent"
<1>1. /\ run[i] # "none" /\ run' = [run EXCEPT ![i] = to]
      /\ main' = main /\ prepare' = prepare /\ branches' = branches
      /\ tags' = tags /\ images' = images
    BY DEF CheckTag, Goes, prepareVars, publishVars
<1>2. to \in Steps \ {"none"}
    BY DEF Steps
<1>3. i \in 1..Len(main)
    BY DEF Traced, HistoryTyped
<1>4. ASSUME Tagged(VersionOf(i))
      PROVE  [version |-> main[i].version, commit |-> i] \in tags
  <2>1. PICK t \in tags : t.version = main[i].version
      BY <1>4 DEF Tagged, VersionOf, CommitOf
  <2>2. /\ t \in [version : Versions, commit : 1..Len(main)]
        /\ t.version = main[t.commit].version /\ run[t.commit] # "none"
      BY DEF Traced, TagsTraced
  <2>3. t.commit = i
      BY <1>1, <1>3, <2>1, <2>2, ReleasesDiffer
  <2>4. t = [version |-> main[i].version, commit |-> i]
      BY <2>1, <2>2, <2>3
  <2> QED
      BY <2>4
<1>5. to \in {"present", "tagged", "released"} =>
          [version |-> main[i].version, commit |-> i] \in tags
    BY <1>4
<1> HIDE DEF to
<1> QED
    BY <1>1, <1>2, <1>5, QuietRunStep

LEMMA PushTagStep ==
    ASSUME Traced, NEW i \in DOMAIN run, PushTag(i)
    PROVE  Traced'
<1> DEFINE tag == [version |-> main[i].version, commit |-> i]
<1>1. /\ run[i] # "none" /\ run' = [run EXCEPT ![i] = "tagged"]
      /\ main' = main /\ prepare' = prepare /\ branches' = branches
      /\ tags' = tags \cup {tag} /\ images' = images
    BY DEF PushTag, Goes, prepareVars, VersionOf, CommitOf
<1>2. "tagged" \in Steps \ {"none"}
    BY DEF Steps
<1>3. /\ HistoryTyped' /\ VersionsGrow' /\ BranchesAhead' /\ i \in 1..Len(main)
      /\ \A j \in 1..Len(main) : j # i => run'[j] = run[j]
      /\ \A j \in 1..Len(main) : run'[j] # "none" <=> run[j] # "none"
    BY <1>1, <1>2, RunStep
<1>4. main[i].version \in Versions
    BY <1>3, CommitsAreTyped DEF Traced
<1>5. \A t \in tags' :
         /\ t \in [version : Versions, commit : 1..Len(main')]
         /\ t.version = main'[t.commit].version /\ run'[t.commit] # "none"
  <2> TAKE t \in tags'
  <2>1. CASE t \in tags
      BY <1>1, <1>3, <2>1 DEF Traced, TagsTraced
  <2>2. CASE t = tag
      BY <1>1, <1>3, <1>4, <2>2
  <2> QED
      BY <1>1, <2>1, <2>2
<1>6. \A j \in 1..Len(main') : run'[j] \in {"present", "tagged", "released"} =>
          [version |-> main'[j].version, commit |-> j] \in tags'
  <2> TAKE j \in 1..Len(main')
  <2>1. CASE j = i
      BY <1>1, <2>1
  <2>2. CASE j # i
      BY <1>1, <1>3, <2>2 DEF Traced, TagsTraced
  <2> QED
      BY <2>1, <2>2
<1>7. TagsTraced'
    BY <1>1, <1>5, <1>6 DEF Traced, TagsTraced
<1> QED
    BY <1>3, <1>7 DEF Traced

LEMMA CreateReleaseStep ==
    ASSUME Traced, NEW i \in DOMAIN run, CreateRelease(i)
    PROVE  Traced'
<1>1. /\ run[i] = "tagged" /\ run' = [run EXCEPT ![i] = "released"]
      /\ main' = main /\ prepare' = prepare /\ branches' = branches
      /\ tags' = tags /\ images' = images
    BY DEF CreateRelease, Goes, prepareVars
<1>2. "released" \in Steps \ {"none"}
    BY DEF Steps
<1>3. i \in 1..Len(main)
    BY DEF Traced, HistoryTyped
<1>4. [version |-> main[i].version, commit |-> i] \in tags
    BY <1>1, <1>3 DEF Traced, TagsTraced
<1> QED
    BY <1>1, <1>2, <1>4, QuietRunStep

\* The image that is pushed is the tag's: the run has found or made it.
LEMMA PushImageStep ==
    ASSUME Traced, NEW i \in DOMAIN run, PushImage(i)
    PROVE  Traced'
<1> DEFINE tag == [version |-> main[i].version, commit |-> i]
<1>1. /\ run[i] \in {"present", "released"} /\ run' = [run EXCEPT ![i] = "done"]
      /\ main' = main /\ prepare' = prepare /\ branches' = branches
      /\ tags' = tags /\ images' = images \cup {tag}
    BY DEF PushImage, ImageIsDue, prepareVars, VersionOf, CommitOf
<1>2. "done" \in Steps \ {"none"} /\ run[i] # "none"
    BY <1>1 DEF Steps
<1>3. /\ HistoryTyped' /\ VersionsGrow' /\ BranchesAhead' /\ i \in 1..Len(main)
      /\ run'[i] = "done"
      /\ \A j \in 1..Len(main) : j # i => run'[j] = run[j]
      /\ \A j \in 1..Len(main) : run'[j] # "none" <=> run[j] # "none"
    BY <1>1, <1>2, RunStep
<1>4. tag \in tags
    BY <1>1, <1>3 DEF Traced, TagsTraced
<1>5. \A t \in tags' :
         /\ t \in [version : Versions, commit : 1..Len(main')]
         /\ t.version = main'[t.commit].version /\ run'[t.commit] # "none"
    BY <1>1, <1>3 DEF Traced, TagsTraced
<1>6. \A j \in 1..Len(main') : run'[j] \in {"present", "tagged", "released"} =>
          [version |-> main'[j].version, commit |-> j] \in tags'
    BY <1>1, <1>3 DEF Traced, TagsTraced
<1>7. TagsTraced'
    BY <1>1, <1>4, <1>5, <1>6 DEF Traced, TagsTraced
<1> QED
    BY <1>3, <1>7 DEF Traced

\* A run that failed, or starts again, claims nothing.
LEMMA RunEndsStep ==
    ASSUME Traced, NEW i \in DOMAIN run, RunFails(i) \/ Rerun(i)
    PROVE  Traced'
<1>1. PICK to \in {"failed", "queued"} : run' = [run EXCEPT ![i] = to]
    BY DEF RunFails, Rerun
<1>2. /\ run[i] # "none"
      /\ main' = main /\ prepare' = prepare /\ branches' = branches
      /\ tags' = tags /\ images' = images
    BY DEF RunFails, Rerun, prepareVars, publishVars
<1>3. to \in Steps \ {"none"} /\ to \notin {"present", "tagged", "released"}
    BY DEF Steps
<1> QED
    BY <1>1, <1>2, <1>3, QuietRunStep

LEMMA TracedNext == Traced /\ [Next]_vars => Traced'
<1> SUFFICES ASSUME Traced, [Next]_vars
             PROVE  Traced'
    OBVIOUS
<1>1. ASSUME NEW c \in Changes, MergeChange(c) PROVE Traced'
    BY <1>1, MergeChangeStep
<1>2. ASSUME NEW p \in Prepares, NEW bump \in Bumps, PrepareStarts(p, bump) PROVE Traced'
    BY <1>2, PrepareStartsStep
<1>3. ASSUME NEW p \in Prepares, PushBranch(p) PROVE Traced'
    BY <1>3, PushBranchStep
<1>4. ASSUME NEW p \in Prepares, OpenPr(p) \/ PrepareFails(p) PROVE Traced'
    BY <1>4, PrepareEndsStep
<1>5. ASSUME NEW b \in branches, MergeRelease(b) PROVE Traced'
    BY <1>5, MergeReleaseStep
<1>6. ASSUME NEW i \in DOMAIN run, CheckTag(i) PROVE Traced'
    BY <1>6, CheckTagStep
<1>7. ASSUME NEW i \in DOMAIN run, PushTag(i) PROVE Traced'
    BY <1>7, PushTagStep
<1>8. ASSUME NEW i \in DOMAIN run, CreateRelease(i) PROVE Traced'
    BY <1>8, CreateReleaseStep
<1>9. ASSUME NEW i \in DOMAIN run, PushImage(i) PROVE Traced'
    BY <1>9, PushImageStep
<1>10. ASSUME NEW i \in DOMAIN run, RunFails(i) \/ Rerun(i) PROVE Traced'
    BY <1>10, RunEndsStep
<1>11. CASE UNCHANGED vars
  <2>1. UNCHANGED <<main, run, branches, prepare, tags, images>>
      BY <1>11 DEF vars, prepareVars, publishVars
  <2>2. HistoryTyped' /\ VersionsGrow'
      BY <2>1 DEF Traced, HistoryTyped, VersionsGrow
  <2>3. BranchesAhead' /\ TagsTraced'
      BY <2>1 DEF Traced, BranchesAhead, Ahead, TagsTraced
  <2> QED
      BY <2>2, <2>3 DEF Traced
<1> QED
    BY <1>1, <1>2, <1>3, <1>4, <1>5, <1>6, <1>7, <1>8, <1>9, <1>10, <1>11 DEF Next

\* Whatever is merged, prepared, published, failed and rerun, and in whichever
\* order, versions grow along main and every tag names the release commit of its
\* version (prepare-release.yml 32-98, release.yml 26-81).
THEOREM Tracing == Spec => []Traced
    BY TracedInit, TracedNext, PTL DEF Spec

\* An image under a version is built from the very commit its tag names.
THEOREM ImageTag == Spec => []ImageMatchesTag
<1>1. Traced => ImageMatchesTag
    BY DEF Traced, TagsTraced, ImageMatchesTag
<1> QED
    BY <1>1, Tracing, PTL

------------------------------------------------------------------------------
(* The steps of a run that are refused, and the ledger.                      *)

\* What a run has found, and what makes it stay so: a release has a tag.
Unrefused ==
    /\ \A v \in releases : Tagged(v)
    /\ \A i \in 1..Len(main) :
          /\ run[i] = "absent" => ~Tagged(main[i].version)
          /\ run[i] = "tagged" => main[i].version \notin releases

\* A step that tags and releases nothing, and finds no tag missing but one that is.
LEMMA UnrefusedQuiet ==
    ASSUME Unrefused, UNCHANGED <<tags, releases>>,
           \A i \in 1..Len(main') :
              \/ i \in 1..Len(main) /\ main'[i] = main[i] /\ run'[i] = run[i]
              \/ run'[i] \notin {"absent", "tagged"}
              \/ run'[i] = "absent" /\ ~Tagged(main'[i].version)
    PROVE  Unrefused'
BY DEF Unrefused, Tagged

\* A release run that checks, publishes, fails or starts again (release.yml 28-33,
\* 64-81).
LEMMA UnrefusedRun ==
    ASSUME Traced, Unrefused, NEW i \in DOMAIN run,
           CheckTag(i) \/ PushImage(i) \/ RunFails(i) \/ Rerun(i)
    PROVE  Unrefused'
<1>1. run \in Seq(Steps) /\ DOMAIN run = 1..Len(main)
    BY DEF Traced, HistoryTyped
<1>2. UNCHANGED <<main, tags, releases>>
    BY DEF CheckTag, PushImage, RunFails, Rerun, publishVars
<1>3. \/ run' = [run EXCEPT ![i] = "absent"] /\ ~Tagged(main[i].version)
      \/ \E to \in {"present", "done", "failed", "queued"} : run' = [run EXCEPT ![i] = to]
  <2>1. CASE CheckTag(i)
    <3>1. run' = [run EXCEPT ![i] = IF Tagged(main[i].version) THEN "present" ELSE "absent"]
        BY <2>1 DEF CheckTag, Goes, VersionOf, CommitOf
    <3> QED
        BY <3>1
  <2>2. CASE PushImage(i) \/ RunFails(i) \/ Rerun(i)
      BY <2>2 DEF PushImage, RunFails, Rerun
  <2> QED
      BY <2>1, <2>2
<1>4. /\ \/ run'[i] = "absent" /\ ~Tagged(main[i].version)
         \/ run'[i] \notin {"absent", "tagged"}
      /\ \A j \in 1..Len(main) : j # i => run'[j] = run[j]
    BY <1>1, <1>3
<1>5. \A j \in 1..Len(main') :
         \/ j \in 1..Len(main) /\ main'[j] = main[j] /\ run'[j] = run[j]
         \/ run'[j] \notin {"absent", "tagged"}
         \/ run'[j] = "absent" /\ ~Tagged(main'[j].version)
    BY <1>2, <1>4
<1> QED
    BY <1>2, <1>5, UnrefusedQuiet

\* Another run that has found its own tag missing is of another version, so the
\* tag that is pushed is not the one it is about to push; and no release has
\* this version, as it would have had a tag (release.yml 35-43).
LEMMA UnrefusedPushTag ==
    ASSUME Traced, Unrefused, NEW i \in DOMAIN run, PushTag(i)
    PROVE  Unrefused'
<1>1. run \in Seq(Steps) /\ DOMAIN run = 1..Len(main)
    BY DEF Traced, HistoryTyped
<1>2. /\ UNCHANGED <<main, releases>> /\ ~Tagged(main[i].version) /\ run[i] = "absent"
      /\ tags' = tags \cup {[version |-> main[i].version, commit |-> i]}
      /\ run' = [run EXCEPT ![i] = "tagged"]
    BY DEF PushTag, Goes, VersionOf, CommitOf
<1>3. run'[i] = "tagged" /\ \A j \in 1..Len(main) : j # i => run'[j] = run[j]
    BY <1>1, <1>2
<1>4. \A v : Tagged(v)' <=> Tagged(v) \/ v = main[i].version
  <2>1. [version |-> main[i].version, commit |-> i].version = main[i].version
      OBVIOUS
  <2> QED
      BY <1>2, <2>1, Zenon DEF Tagged
<1>5. ASSUME NEW j \in 1..Len(main)
      PROVE  /\ run'[j] = "absent" => ~Tagged(main[j].version)'
             /\ run'[j] = "tagged" => main[j].version \notin releases
  <2>1. CASE j = i
      BY <1>2, <1>3, <2>1 DEF Unrefused
  <2>2. CASE j # i
    <3>1. run[j] = "absent" => main[j].version # main[i].version
        BY <1>1, <1>2, <2>2, ReleasesDiffer
    <3>2. run[j] = "absent" => ~Tagged(main[j].version)
        BY DEF Unrefused
    <3>3. run[j] = "absent" => ~Tagged(main[j].version)'
        BY <1>2, <1>4, <3>1, <3>2
    <3>4. run[j] = "tagged" => main[j].version \notin releases
        BY DEF Unrefused
    <3> QED
        BY <1>3, <2>2, <3>3, <3>4
  <2> QED
      BY <2>1, <2>2
<1>6. \A v \in releases' : Tagged(v)'
    BY <1>2, <1>4 DEF Unrefused
<1> QED
    BY <1>2, <1>5, <1>6 DEF Unrefused

\* Another run that is about to create its release is of another version
\* (release.yml 44-49).
LEMMA UnrefusedCreateRelease ==
    ASSUME Traced, Unrefused, NEW i \in DOMAIN run, CreateRelease(i)
    PROVE  Unrefused'
<1>1. run \in Seq(Steps) /\ DOMAIN run = 1..Len(main)
    BY DEF Traced, HistoryTyped
<1>2. /\ UNCHANGED <<main, tags>> /\ run[i] = "tagged"
      /\ releases' = releases \cup {main[i].version}
      /\ run' = [run EXCEPT ![i] = "released"]
    BY DEF CreateRelease, Goes, VersionOf, CommitOf
<1>3. run'[i] = "released" /\ \A j \in 1..Len(main) : j # i => run'[j] = run[j]
    BY <1>1, <1>2
<1>4. \A v : Tagged(v)' <=> Tagged(v)
    BY <1>2 DEF Tagged
<1>5. [version |-> main[i].version, commit |-> i] \in tags
    BY <1>1, <1>2 DEF Traced, TagsTraced
<1>6. \A v \in releases' : Tagged(v)'
    BY <1>2, <1>4, <1>5 DEF Unrefused, Tagged
<1>7. ASSUME NEW j \in 1..Len(main)
      PROVE  /\ run'[j] = "absent" => ~Tagged(main[j].version)
             /\ run'[j] = "tagged" => main[j].version \notin releases'
  <2>1. CASE j = i
      BY <1>3, <2>1
  <2>2. CASE j # i
    <3>1. run[j] = "tagged" => main[j].version # main[i].version
        BY <1>1, <1>2, <2>2, ReleasesDiffer
    <3> QED
        BY <1>2, <1>3, <2>2, <3>1 DEF Unrefused
  <2> QED
      BY <2>1, <2>2
<1> QED
    BY <1>2, <1>4, <1>6, <1>7 DEF Unrefused, Tagged

\* A commit that is merged has no run that has found anything.
LEMMA UnrefusedMerge ==
    ASSUME Traced, Unrefused,
           (\E c \in Changes : MergeChange(c)) \/ \E b \in branches : MergeRelease(b)
    PROVE  Unrefused'
<1>1. main \in Seq(Commit) /\ run \in Seq(Steps) /\ Len(run) = Len(main)
    BY DEF Traced, HistoryTyped
<1>2. PICK commit, step : /\ main' = Append(main, commit) /\ run' = Append(run, step)
                          /\ step \in {"none", "queued"}
    BY Zenon DEF MergeChange, MergeRelease
<1>3. UNCHANGED <<tags, releases>>
    BY DEF MergeChange, MergeRelease, publishVars
<1>4. \A i \in 1..Len(main') :
         \/ i \in 1..Len(main) /\ main'[i] = main[i] /\ run'[i] = run[i]
         \/ run'[i] \notin {"absent", "tagged"}
    BY <1>1, <1>2
<1> QED
    BY <1>3, <1>4, UnrefusedQuiet

LEMMA UnrefusedNext == Traced /\ Unrefused /\ [Next]_vars => Unrefused'
<1> SUFFICES ASSUME Traced, Unrefused, [Next]_vars
             PROVE  Unrefused'
    OBVIOUS
<1>1. CASE (\E c \in Changes : MergeChange(c)) \/ \E b \in branches : MergeRelease(b)
    BY <1>1, UnrefusedMerge
<1>2. CASE UNCHANGED <<main, run, tags, releases>>
    BY <1>2, UnrefusedQuiet
<1>3. ASSUME \/ \E p \in Prepares, bump \in Bumps : PrepareStarts(p, bump)
             \/ \E p \in Prepares : PushBranch(p) \/ OpenPr(p) \/ PrepareFails(p)
      PROVE  UNCHANGED <<main, run, tags, releases>>
    BY <1>3, Zenon DEF PrepareStarts, PushBranch, OpenPr, PrepareFails, publishVars
<1>4. ASSUME NEW i \in DOMAIN run,
             CheckTag(i) \/ PushImage(i) \/ RunFails(i) \/ Rerun(i)
      PROVE  Unrefused'
    BY <1>4, UnrefusedRun
<1>5. ASSUME NEW i \in DOMAIN run, PushTag(i) PROVE Unrefused'
    BY <1>5, UnrefusedPushTag
<1>6. ASSUME NEW i \in DOMAIN run, CreateRelease(i) PROVE Unrefused'
    BY <1>6, UnrefusedCreateRelease
<1>7. CASE UNCHANGED vars
    BY <1>2, <1>7 DEF vars, publishVars
<1> QED
    BY <1>1, <1>2, <1>3, <1>4, <1>5, <1>6, <1>7 DEF Next

\* Although nothing keeps the release runs of different commits, or the steps of
\* one, together, git push never meets the tag whose absence was checked, and gh
\* release create never meets the release (release.yml 28-49).
THEOREM Unhindered == Spec => []NothingRefused
<1>1. Init => Unrefused
    BY DEF Init, Unrefused
<1>2. Traced /\ Unrefused => NothingRefused
    BY DEF Traced, HistoryTyped, Unrefused, NothingRefused, VersionOf, CommitOf
<1> QED
    BY <1>1, <1>2, UnrefusedNext, Tracing, PTL DEF Spec

\* A step of a release run enters the ledger, or leaves it alone: the commit it
\* tags has no version yet, and its version no commit.
LEMMA LedgerStep == Traced /\ Traced' /\ [Next]_vars => [Ledger!Next]_Ledger!vars
<1> SUFFICES ASSUME Traced, Traced', [Next]_vars
             PROVE  [Ledger!Next]_Ledger!vars
    OBVIOUS
<1>1. run \in Seq(Steps) /\ DOMAIN run = 1..Len(main)
    BY DEF Traced, HistoryTyped
<1>2. ASSUME NEW i \in DOMAIN run, PushTag(i)
      PROVE  Ledger!Claim
  <2> DEFINE new == [version |-> main[i].version, commit |-> i]
  <2>1. /\ tags' = tags \cup {new} /\ ~Tagged(main[i].version)
        /\ UNCHANGED <<releases, images>>
      BY <1>2 DEF PushTag, VersionOf, CommitOf
  <2>2. tags' \subseteq [version : Nat \X Nat \X Nat, commit : Nat]
    <3>1. Len(main') \in Nat
        BY DEF Traced, HistoryTyped
    <3>2. \A t \in tags' : t \in [version : Versions, commit : 1..Len(main')]
        BY DEF Traced, TagsTraced
    <3>3. [version : Versions, commit : 1..Len(main')] \subseteq [version : Versions, commit : Nat]
        BY <3>1
    <3> QED
        BY <3>2, <3>3 DEF Versions
  <2>3. \A old \in tags : old.version # new.version /\ old.commit # new.commit
      BY <2>1 DEF Tagged, Traced, TagsTraced
  <2>4. new \in tags' \ tags
      BY <2>1, <2>3
  <2> QED
      BY <2>1, <2>2, <2>3, <2>4 DEF Ledger!Claim
<1>3. ASSUME NEW i \in DOMAIN run, CreateRelease(i)
      PROVE  Ledger!Announce
  <2>1. /\ main[i].version \notin releases /\ releases' = releases \cup {main[i].version}
        /\ run[i] = "tagged" /\ UNCHANGED <<tags, images>>
      BY <1>3 DEF CreateRelease, Goes, VersionOf, CommitOf
  <2>2. [version |-> main[i].version, commit |-> i] \in tags
      BY <1>1, <2>1 DEF Traced, TagsTraced
  <2>3. Ledger!Claimed(main[i].version)
      BY <2>2 DEF Ledger!Claimed
  <2> QED
      BY <2>1, <2>3 DEF Ledger!Announce
<1>4. ASSUME NEW i \in DOMAIN run, PushImage(i)
      PROVE  Ledger!Publish
  <2>1. /\ images' = images \cup {[version |-> main[i].version, commit |-> i]}
        /\ run[i] \in {"present", "released"} /\ UNCHANGED <<tags, releases>>
      BY <1>4 DEF PushImage, ImageIsDue, VersionOf, CommitOf
  <2>2. [version |-> main[i].version, commit |-> i] \in tags
      BY <1>1, <2>1 DEF Traced, TagsTraced
  <2> QED
      BY <2>1, <2>2 DEF Ledger!Publish
<1>5. ASSUME \/ \E c \in Changes : MergeChange(c)
             \/ \E p \in Prepares, bump \in Bumps : PrepareStarts(p, bump)
             \/ \E p \in Prepares : PushBranch(p) \/ OpenPr(p) \/ PrepareFails(p)
             \/ \E b \in branches : MergeRelease(b)
             \/ \E i \in DOMAIN run : CheckTag(i) \/ RunFails(i) \/ Rerun(i)
             \/ UNCHANGED vars
      PROVE  UNCHANGED Ledger!vars
  <2>1. UNCHANGED <<tags, releases, images>>
      BY <1>5, Zenon DEF MergeChange, PrepareStarts, PushBranch, OpenPr, PrepareFails,
         MergeRelease, CheckTag, RunFails, Rerun, vars, publishVars
  <2> QED
      BY <2>1 DEF Ledger!vars
<1> QED
    BY <1>2, <1>3, <1>4, <1>5 DEF Next, Ledger!Next

\* Tags, releases and images are a ledger of versions: a version stands for one
\* commit for good, is announced once, and nothing else is published under it
\* (release.yml 28-81).
THEOREM KeepsLedger == Spec => LedgerSpec
<1>1. Init => Ledger!Init
    BY DEF Init, Ledger!Init
<1>2. Spec => []Traced
    BY Tracing
<1> QED
    BY <1>1, <1>2, LedgerStep, PTL DEF Spec, LedgerSpec, Ledger!Spec

------------------------------------------------------------------------------
(* The changelog.                                                            *)

\* A change is merged once.
ChangesOnce ==
    \A i, j \in 1..Len(main) :
        main[i].change = main[j].change /\ main[i].change # None => i = j

Section == [version : Versions, items : SUBSET Changes, since : Nat]

\* The items are changes of main between two commits.
Listed(items, from, to) ==
    \A x \in items : x # None /\ \E i \in 1..to : from < i /\ main[i].change = x

\* What is prepared lists changes since the release commit of the version that
\* its base has, up to its base.
Sectioned(r) ==
    /\ r.section \in Section /\ r.base \in 1..Len(main)
    /\ Listed(r.section.items, r.section.since, r.base)
    /\ r.section.since > 0 =>
          /\ r.section.since \in 1..r.base /\ run[r.section.since] # "none"
          /\ main[r.section.since].version = main[r.base].version

\* Every section of the changelog lists changes from before some release.
Merged(section) ==
    \E m \in 1..Len(main) : run[m] # "none" /\ Listed(section.items, 0, m)

SectionsTraced ==
    /\ \A b \in branches : Sectioned(b)
    /\ \A p \in Prepares : prepare[p].step = "prepared" => Sectioned(prepare[p])
    /\ changelog \in Seq(Section)
    /\ \A j \in 1..Len(changelog) : Merged(changelog[j])

\* The inductive invariant: a section that is merged lists changes from after the
\* last release, and all others from before it.
Listing == Traced /\ ChangesOnce /\ SectionsTraced /\ SectionsDisjoint

LEMMA ListingInit == Init => Listing
<1> SUFFICES ASSUME Init
             PROVE  Listing
    OBVIOUS
<1>1. ChangesOnce /\ SectionsTraced /\ SectionsDisjoint
    BY DEF Init, ChangesOnce, SectionsTraced, SectionsDisjoint
<1> QED
    BY <1>1, TracedInit DEF Listing

\* As long as main only grows, and its release commits stay so, what was listed
\* stays listed.
LEMMA StaysListed ==
    ASSUME Traced, Len(main) \in Nat, Len(main') \in Nat, Len(main) <= Len(main'),
           \A i \in 1..Len(main) : main'[i] = main[i] /\ (run[i] # "none" => run'[i] # "none")
    PROVE  /\ \A r : Sectioned(r) => Sectioned(r)'
           /\ \A section : Merged(section) => Merged(section)'
<1>1. ASSUME NEW items, NEW from, NEW to \in 1..Len(main), Listed(items, from, to)
      PROVE  Listed(items, from, to)'
    BY <1>1 DEF Listed
<1>2. ASSUME NEW r, Sectioned(r)
      PROVE  Sectioned(r)'
  <2>1. Listed(r.section.items, r.section.since, r.base)'
      BY <1>1, <1>2 DEF Sectioned
  <2>2. r.section.since > 0 => r.section.since \in 1..Len(main)
      BY <1>2 DEF Sectioned
  <2> QED
      BY <1>2, <2>1, <2>2 DEF Sectioned
<1>3. ASSUME NEW section, Merged(section)
      PROVE  Merged(section)'
    BY <1>1, <1>3 DEF Merged
<1> QED
    BY <1>2, <1>3

\* The steps of the runs, and of a preparation that ends: no section is new.
LEMMA ListingQuiet ==
    ASSUME Listing, Traced', UNCHANGED <<main, changelog, branches>>,
           \A i \in 1..Len(main) : run[i] # "none" => run'[i] # "none",
           \A p \in Prepares : prepare'[p].step = "prepared" => prepare'[p] = prepare[p]
    PROVE  Listing'
<1>1. \A r : Sectioned(r) => Sectioned(r)'
    BY DEF Listing, Sectioned, Listed
<1>2. \A section : Merged(section) => Merged(section)'
    BY DEF Listing, Merged, Listed
<1>3. SectionsTraced'
    BY <1>1, <1>2 DEF Listing, SectionsTraced
<1> QED
    BY <1>3 DEF Listing, ChangesOnce, SectionsDisjoint

\* A change that is merged is a new one.
LEMMA ListingMergeChange ==
    ASSUME Listing, NEW c \in Changes, MergeChange(c)
    PROVE  Listing'
<1> DEFINE n == Len(main)
<1>1. /\ main \in Seq(Commit) /\ run \in Seq(Steps) /\ Len(run) = n /\ n \in Nat
    BY DEF Listing, Traced, HistoryTyped
<1>2. /\ main' = Append(main, [version |-> Version, change |-> c])
      /\ run' = Append(run, "none")
      /\ UNCHANGED <<changelog, branches, prepare>>
    BY DEF MergeChange, prepareVars
<1>3. /\ Len(main') = n + 1 /\ main'[n + 1].change = c
      /\ \A i \in 1..n : main'[i] = main[i] /\ run'[i] = run[i]
    BY <1>1, <1>2
<1>4. ChangesOnce'
  <2>1. \A i \in 1..n : main[i].change # c
      BY <1>1 DEF MergeChange
  <2> QED
      BY <1>1, <1>3, <2>1 DEF Listing, ChangesOnce
<1>5. /\ \A r : Sectioned(r) => Sectioned(r)'
      /\ \A section : Merged(section) => Merged(section)'
    BY <1>1, <1>3, StaysListed DEF Listing
<1>6. SectionsTraced' /\ SectionsDisjoint'
    BY <1>2, <1>5 DEF Listing, SectionsTraced, SectionsDisjoint
<1>7. Traced'
    BY MergeChangeStep DEF Listing
<1> QED
    BY <1>4, <1>6, <1>7 DEF Listing

\* A section that is merged lists what came after the release commit of the last
\* version; every earlier one lists what came before a release, and no release
\* came after that commit.
LEMMA SectionIsNew ==
    ASSUME Listing, NEW b \in branches, MergeRelease(b), b.section.since > 0,
           NEW j \in 1..Len(changelog)
    PROVE  changelog[j].items \cap b.section.items = {}
<1> DEFINE since == b.section.since
           n == Len(main)
<1>1. /\ Listed(b.section.items, since, b.base) /\ b.base \in 1..n /\ since \in 1..b.base
      /\ run[since] # "none" /\ main[since].version = Version
    BY DEF Listing, SectionsTraced, Sectioned, MergeRelease
<1>2. PICK m \in 1..n : run[m] # "none" /\ Listed(changelog[j].items, 0, m)
    BY DEF Listing, SectionsTraced, Merged
<1>3. n \in 1..n /\ n \in Nat
    BY DEF Listing, Traced, HistoryTyped
<1>4. ~(since < m)
  <2>1. /\ main[since].version \in Versions /\ main[m].version \in Versions
        /\ main[n].version \in Versions
      BY <1>1, <1>2, <1>3, CommitsAreTyped DEF Listing, Traced
  <2>2. ASSUME since < m
        PROVE  Less(main[since].version, main[m].version)
      BY <1>1, <1>2, <1>3, <2>2 DEF Listing, Traced, VersionsGrow
  <2>3. m = n \/ main[m].version = main[n].version \/ Less(main[m].version, main[n].version)
      BY <1>2, <1>3 DEF Listing, Traced, VersionsGrow
  <2>4. main[since].version = main[n].version
      BY <1>1 DEF Version
  <2> QED
      BY <2>1, <2>2, <2>3, <2>4, LessTransitive, LessIrreflexive
<1> SUFFICES ASSUME NEW x \in changelog[j].items, x \in b.section.items
             PROVE  FALSE
    OBVIOUS
<1>5. PICK i \in 1..m : main[i].change = x
    BY <1>2 DEF Listed
<1>6. PICK k \in 1..b.base : since < k /\ main[k].change = x /\ x # None
    BY <1>1 DEF Listed
<1>7. i \in 1..n /\ k \in 1..n /\ i # k
    BY <1>1, <1>2, <1>3, <1>4, <1>5, <1>6
<1> QED
    BY <1>5, <1>6, <1>7 DEF Listing, ChangesOnce

LEMMA ListingMergeRelease ==
    ASSUME Listing, NEW b \in branches, MergeRelease(b)
    PROVE  Listing'
<1> DEFINE n == Len(main)
           h == Len(changelog)
<1>1. /\ main \in Seq(Commit) /\ run \in Seq(Steps) /\ Len(run) = n /\ n \in Nat
      /\ changelog \in Seq(Section) /\ h \in Nat /\ Sectioned(b)
    BY DEF Listing, Traced, HistoryTyped, SectionsTraced
<1>2. /\ main' = Append(main, [version |-> b.version, change |-> None])
      /\ run' = Append(run, "queued") /\ changelog' = Append(changelog, b.section)
      /\ UNCHANGED <<branches, prepare>>
    BY DEF MergeRelease
<1>3. /\ Len(main') = n + 1 /\ main'[n + 1].change = None /\ run'[n + 1] = "queued"
      /\ \A i \in 1..n : main'[i] = main[i] /\ run'[i] = run[i]
    BY <1>1, <1>2
<1>4. /\ changelog' \in Seq(Section) /\ Len(changelog') = h + 1
      /\ changelog'[h + 1] = b.section
      /\ \A j \in 1..h : changelog'[j] = changelog[j]
    BY <1>1, <1>2 DEF Sectioned
<1>5. ChangesOnce'
    BY <1>1, <1>3 DEF Listing, ChangesOnce
<1>6. /\ \A r : Sectioned(r) => Sectioned(r)'
      /\ \A section : Merged(section) => Merged(section)'
    BY <1>1, <1>3, StaysListed DEF Listing
<1>7. Merged(b.section)'
  <2>1. Listed(b.section.items, b.section.since, b.base) /\ b.base \in 1..n
        /\ b.section.since \in Nat
      BY <1>1 DEF Sectioned, Section
  <2>2. PICK m \in Nat : m = n + 1
      BY <1>1
  <2>3. Listed(b.section.items, 0, m)'
    <3> SUFFICES ASSUME NEW x \in b.section.items
                 PROVE  x # None /\ \E i \in 1..m : 0 < i /\ main'[i].change = x
        BY DEF Listed
    <3>1. x # None
        BY <2>1 DEF Listed
    <3>2. PICK i \in 1..b.base : main[i].change = x
        BY <2>1 DEF Listed
    <3>3. i \in 1..n /\ i \in 1..m /\ 0 < i
        BY <1>1, <2>1, <2>2
    <3>4. main'[i].change = x
        BY <1>3, <3>2, <3>3
    <3> QED
        BY <3>1, <3>3, <3>4
  <2> QED
      BY <1>1, <1>3, <2>2, <2>3 DEF Merged
<1>8. SectionsTraced'
  <2>1. \A j \in 1..Len(changelog') : Merged(changelog[j])'
      BY <1>1, <1>4, <1>6, <1>7 DEF Listing, SectionsTraced
  <2> QED
      BY <1>2, <1>4, <1>6, <2>1 DEF Listing, SectionsTraced
<1>9. SectionsDisjoint'
  <2> SUFFICES ASSUME NEW j \in 1..(h + 1), NEW k \in 1..(h + 1), j < k,
                      changelog'[k].since > 0
               PROVE  changelog'[j].items \cap changelog'[k].items = {}
      BY <1>4 DEF SectionsDisjoint
  <2>1. j \in 1..h
      BY <1>1
  <2>2. CASE k \in 1..h
    <3>1. changelog'[j] = changelog[j] /\ changelog'[k] = changelog[k]
        BY <1>4, <2>1, <2>2
    <3>2. j \in DOMAIN changelog /\ k \in DOMAIN changelog
        BY <1>1, <2>1, <2>2
    <3> QED
        BY <3>1, <3>2 DEF Listing, SectionsDisjoint
  <2>3. CASE k = h + 1
      BY <1>4, <2>1, <2>3, SectionIsNew
  <2> QED
      BY <1>1, <2>2, <2>3
<1>10. Traced'
    BY MergeReleaseStep DEF Listing
<1> QED
    BY <1>5, <1>8, <1>9, <1>10 DEF Listing

\* A section is computed since the tag of the version it replaces.
LEMMA ListingPrepareStarts ==
    ASSUME Listing, NEW p \in Prepares, NEW bump \in Bumps, PrepareStarts(p, bump)
    PROVE  Listing'
<1> DEFINE n == Len(main)
<1>0. PICK r : r = prepare'[p]
    OBVIOUS
<1>1. /\ main \in Seq(Commit) /\ n \in 1..n /\ n \in Nat /\ DOMAIN prepare = Prepares
    BY DEF Listing, Traced, HistoryTyped
<1>2. /\ UNCHANGED <<main, changelog, run, branches>>
      /\ r.base = n
      /\ r.section = [version |-> Bump(Version, bump), items |-> Items, since |-> Start]
      /\ \A q \in Prepares \ {p} : prepare'[q] = prepare[q]
    BY <1>0, <1>1 DEF PrepareStarts
<1>3. /\ Start \in 0..n
      /\ Start > 0 => run[Start] # "none" /\ main[Start].version = main[n].version
  <2>1. CASE Tagged(Version)
    <3>1. PICK t \in tags : t.version = Version /\ Start = t.commit
        BY <2>1 DEF Tagged, Start
    <3>2. t.commit \in 1..n /\ t.version = main[t.commit].version /\ run[t.commit] # "none"
        BY DEF Listing, Traced, TagsTraced
    <3> QED
        BY <1>1, <3>1, <3>2 DEF Version
  <2>2. CASE ~Tagged(Version)
      BY <1>1, <2>2 DEF Start
  <2> QED
      BY <2>1, <2>2
<1>4. Items \subseteq Changes /\ Listed(Items, Start, n)
  <2>1. \A i \in 1..n : main[i].change \in Changes \cup {None}
    <3>1. \A i \in 1..n : main[i] \in Commit
        BY <1>1
    <3> QED
        BY <3>1 DEF Commit
  <2>2. (Start + 1)..n \subseteq 1..n /\ \A i \in (Start + 1)..n : Start < i
      BY <1>1, <1>3
  <2> QED
      BY <2>1, <2>2 DEF Items, Listed
<1>5. Bump(Version, bump) \in Versions
  <2>1. Version \in Versions
      BY <1>1, CommitsAreTyped DEF Listing, Traced, Version
  <2> QED
      BY <2>1, BumpIsLater, BumpTypes
<1>6. Sectioned(prepare[p])'
  <2>1. r.section \in Section
      BY <1>1, <1>2, <1>3, <1>4, <1>5 DEF Section
  <2>2. r.section.items = Items /\ r.section.since = Start
      BY <1>2
  <2>3. Listed(r.section.items, r.section.since, r.base)
      BY <1>2, <1>4, <2>2
  <2>4. Sectioned(r)'
      BY <1>1, <1>2, <1>3, <2>1, <2>2, <2>3 DEF Sectioned, Listed
  <2> QED
      BY <1>0, <2>4 DEF Sectioned
<1>7. \A q : Sectioned(q) => Sectioned(q)'
    BY <1>2 DEF Sectioned, Listed
<1>8. \A section : Merged(section) => Merged(section)'
    BY <1>2 DEF Merged, Listed
<1>9. SectionsTraced'
  <2>1. \A q \in Prepares : prepare'[q].step = "prepared" => Sectioned(prepare[q])'
    <3> SUFFICES ASSUME NEW q \in Prepares, prepare'[q].step = "prepared"
                 PROVE  Sectioned(prepare[q])'
        OBVIOUS
    <3>1. CASE q = p
        BY <1>6, <3>1
    <3>2. CASE q # p
        BY <1>2, <1>7, <3>2 DEF Listing, SectionsTraced
    <3> QED
        BY <3>1, <3>2
  <2> QED
      BY <1>2, <1>7, <1>8, <2>1 DEF Listing, SectionsTraced
<1>10. Traced'
    BY PrepareStartsStep DEF Listing
<1> QED
    BY <1>2, <1>9, <1>10 DEF Listing, ChangesOnce, SectionsDisjoint

LEMMA ListingPushBranch ==
    ASSUME Listing, NEW p \in Prepares, PushBranch(p)
    PROVE  Listing'
<1> DEFINE r == [version |-> prepare[p].version, base |-> prepare[p].base,
                 section |-> prepare[p].section]
<1>1. UNCHANGED <<main, changelog, run>> /\ DOMAIN prepare = Prepares
    BY DEF PushBranch, Listing, Traced, HistoryTyped
<1>2. /\ prepare'[p].step = "pushed"
      /\ \A q \in Prepares \ {p} : prepare'[q] = prepare[q]
    BY <1>1 DEF PushBranch
<1>3. Sectioned(r)
  <2>1. Sectioned(prepare[p])
      BY DEF PushBranch, Listing, SectionsTraced
  <2>2. r.base = prepare[p].base /\ r.section = prepare[p].section
      OBVIOUS
  <2> HIDE DEF r
  <2> QED
      BY <2>1, <2>2 DEF Sectioned
<1>4. \A b \in branches' : Sectioned(b)
    BY <1>3 DEF PushBranch, Listing, SectionsTraced
<1>5. \A q : Sectioned(q) => Sectioned(q)'
    BY <1>1 DEF Sectioned, Listed
<1>6. \A section : Merged(section) => Merged(section)'
    BY <1>1 DEF Merged, Listed
<1>7. SectionsTraced'
  <2>1. \A q \in Prepares : prepare'[q].step = "prepared" => Sectioned(prepare[q])'
      BY <1>2, <1>5 DEF Listing, SectionsTraced
  <2> QED
      BY <1>1, <1>4, <1>5, <1>6, <2>1 DEF Listing, SectionsTraced
<1>8. Traced'
    BY PushBranchStep DEF Listing
<1> QED
    BY <1>1, <1>7, <1>8 DEF Listing, ChangesOnce, SectionsDisjoint

LEMMA ListingPrepareEnds ==
    ASSUME Listing, NEW p \in Prepares, OpenPr(p) \/ PrepareFails(p)
    PROVE  Listing'
<1>1. UNCHANGED <<main, changelog, run, branches>> /\ DOMAIN prepare = Prepares
    BY DEF OpenPr, PrepareFails, Listing, Traced, HistoryTyped
<1>2. prepare' = [prepare EXCEPT ![p].step = "over"]
    BY DEF OpenPr, PrepareFails
<1>3. prepare'[p].step = "over"
    BY <1>1, <1>2
<1>4. \A q \in Prepares \ {p} : prepare'[q] = prepare[q]
    BY <1>1, <1>2
<1>5. \A q \in Prepares : prepare'[q].step = "prepared" => prepare'[q] = prepare[q]
    BY <1>3, <1>4
<1>6. Traced'
    BY PrepareEndsStep DEF Listing
<1> QED
    BY <1>1, <1>5, <1>6, ListingQuiet

\* A release run writes nothing but its own progress and what it publishes.
LEMMA ListingRun ==
    ASSUME Listing, NEW i \in DOMAIN run,
           \/ CheckTag(i) \/ PushTag(i) \/ CreateRelease(i) \/ PushImage(i)
           \/ RunFails(i) \/ Rerun(i)
    PROVE  Listing'
<1>1. UNCHANGED <<main, changelog, branches, prepare>>
    BY DEF CheckTag, PushTag, CreateRelease, PushImage, RunFails, Rerun, prepareVars
<1>2. PICK to : run' = [run EXCEPT ![i] = to] /\ to # "none"
    BY DEF CheckTag, PushTag, CreateRelease, PushImage, RunFails, Rerun, Goes
<1>3. \A j \in 1..Len(main) : run[j] # "none" => run'[j] # "none"
    BY <1>2 DEF Listing, Traced, HistoryTyped
<1>4. Traced'
    BY CheckTagStep, PushTagStep, CreateReleaseStep, PushImageStep, RunEndsStep DEF Listing
<1> QED
    BY <1>1, <1>3, <1>4, ListingQuiet

LEMMA ListingNext == Listing /\ [Next]_vars => Listing'
<1> SUFFICES ASSUME Listing, [Next]_vars
             PROVE  Listing'
    OBVIOUS
<1>1. ASSUME NEW c \in Changes, MergeChange(c) PROVE Listing'
    BY <1>1, ListingMergeChange
<1>2. ASSUME NEW p \in Prepares, NEW bump \in Bumps, PrepareStarts(p, bump) PROVE Listing'
    BY <1>2, ListingPrepareStarts
<1>3. ASSUME NEW p \in Prepares, PushBranch(p) PROVE Listing'
    BY <1>3, ListingPushBranch
<1>4. ASSUME NEW p \in Prepares, OpenPr(p) \/ PrepareFails(p) PROVE Listing'
    BY <1>4, ListingPrepareEnds
<1>5. ASSUME NEW b \in branches, MergeRelease(b) PROVE Listing'
    BY <1>5, ListingMergeRelease
<1>6. ASSUME NEW i \in DOMAIN run,
             \/ CheckTag(i) \/ PushTag(i) \/ CreateRelease(i) \/ PushImage(i)
             \/ RunFails(i) \/ Rerun(i)
      PROVE  Listing'
    BY <1>6, ListingRun
<1>7. CASE UNCHANGED vars
  <2>1. UNCHANGED <<main, changelog, branches, run, prepare>>
      BY <1>7 DEF vars, prepareVars
  <2>2. Traced'
      BY <1>7, TracedNext DEF Listing
  <2> QED
      BY <2>1, <2>2, ListingQuiet
<1> QED
    BY <1>1, <1>2, <1>3, <1>4, <1>5, <1>6, <1>7 DEF Next

\* A section since a tag repeats nothing of an earlier section, whatever is merged
\* between a preparation and its merge (generate-changelog.sh 26-49).
THEOREM Changelog == Spec => []SectionsDisjoint
<1>1. Listing => SectionsDisjoint
    BY DEF Listing
<1> QED
    BY <1>1, ListingInit, ListingNext, PTL DEF Spec

==============================================================================
