---------------------------- MODULE RegistryProofs ----------------------------
(***************************************************************************)
(* Proofs about Registry, for any configuration files and any pool.        *)
(***************************************************************************)
EXTENDS Registry, FiniteSetTheorems, TLAPS

\* The inductive invariant: a session is confirmed exactly when its resume found
\* a session, and requests are served when every resume is over.
Settled ==
    /\ TypeOK
    /\ phase \in {"loading", "down"} <=> config = Null
    /\ \A i \in Instances : state[i] = "confirmed" <=> resumed[i] = "valid"
    /\ phase = "serving" => Over = Instances

\* A configuration that was loaded is told from none.
LEMMA LoadedIsNotNull == \A f : FromFile(f) # Null
<1> SUFFICES ASSUME NEW f, FromFile(f) = Null
             PROVE  FALSE
    OBVIOUS
<1>1. DOMAIN FromFile(f) = {"api_key", "names", "tfa_timeout"}
    BY DEF FromFile
<1>2. DOMAIN Null = {"type"}
    BY DEF Null
<1> QED
    BY <1>1, <1>2

\* The registry starts with idle sessions that nobody has resumed.
LEMMA SettledInit == Init => Settled
BY DEF Init, Settled, TypeOK, Outcomes, Over, Instances

\* Every step of the startup keeps Settled: resumes end one by one, and gather
\* ends after all of them.
LEMMA SettledStep == Settled /\ [Next]_registryVars => Settled'
<1> SUFFICES ASSUME Settled, [Next]_registryVars
             PROVE  Settled'
    OBVIOUS
<1> USE DEF Settled, TypeOK, Outcomes, Over, Instances
<1>1. CASE UNCHANGED registryVars
    BY <1>1 DEF registryVars
<1>2. CASE Load \/ LoadRaises
    BY <1>2, LoadedIsNotNull DEF Load, LoadRaises
<1>3. ASSUME NEW i \in Instances, ResumeStarts(i)
      PROVE  Settled'
    BY <1>3 DEF ResumeStarts
<1>4. ASSUME NEW i \in Instances, NEW o \in Outcomes, ResumeEnds(i, o)
      PROVE  Settled'
    BY <1>4 DEF ResumeEnds
<1>5. CASE GatherEnds
    BY <1>5 DEF GatherEnds
<1> QED
    BY <1>1, <1>2, <1>3, <1>4, <1>5 DEF Next

\* No request meets a resume of the startup, however many instances share the
\* pool and whichever of them fail (instance_registry.py 65-101, main.py 54-62).
THEOREM Startup == Spec => []ServedWhenSettled
<1>1. Settled => ServedWhenSettled
    BY DEF Settled, TypeOK, Over, ServedWhenSettled
<1> QED
    BY <1>1, SettledInit, SettledStep, PTL DEF Spec

\* An accepted file has as many names as entries: no name is met twice.
LEMMA NamesCount ==
    ASSUME NEW f \in Files, Loads(f)
    PROVE  Cardinality(InstanceNames(FromFile(f))) = Len(f.of["instances"].items)
<1> DEFINE items == f.of["instances"].items
           names == ParsedNames(items)
           T == {names[i] : i \in 1..Len(items)}
<1>1. DOMAIN items = 1..Len(items) /\ Len(items) \in Nat
    BY ListsAreFinite
<1>2. DOMAIN names = 1..Len(items)
    BY <1>1 DEF ParsedNames
<1>3. InstanceNames(FromFile(f)) = T
    BY <1>2 DEF InstanceNames, FromFile
<1>4. \A i, j \in 1..Len(items) : names[i] = names[j] => i = j
    <2>1. AreDistinct(items)
        <3>1. "instances" \in DOMAIN f.of
            BY DEF Loads, HasInstances, Get, Null
        <3> QED
            BY <3>1 DEF Loads, HasInstances, Get
    <2> HIDE DEF items
    <2> QED
        BY <1>2, <2>1 DEF AreDistinct
<1> HIDE DEF items
<1>5. names \in Bijection(1..Len(items), T)
    <2>1. names \in [1..Len(items) -> T]
        BY <1>2 DEF ParsedNames
    <2> HIDE DEF names
    <2> QED
        BY <1>4, <2>1 DEF Bijection, Injection, Surjection, IsInjective
<1>6. ExistsBijection(1..Len(items), T)
    BY <1>5 DEF ExistsBijection
<1> HIDE DEF T
<1>7. Cardinality(T) = Len(items)
    BY <1>1, <1>6, FS_CountingElements
<1> QED
    BY <1>3, <1>7 DEF items

\* Every entry of an accepted file has a session to itself, however many there
\* are and however they are written (config.py 148-167, instance_registry.py
\* 42-52).
THEOREM Entries == Spec => []EntriesApart
<1>1. Settled => EntriesApart
    BY NamesCount DEF Settled, TypeOK, Instances, EntriesApart
<1> QED
    BY <1>1, SettledInit, SettledStep, PTL DEF Spec

\* The startup's variables keep their types: the configuration is what its file
\* parses to, and every instance has a resume and a session (main.py 54-62).
THEOREM StartupTyping == Spec => []TypeOK
<1>1. Settled => TypeOK
    BY DEF Settled
<1> QED
    BY <1>1, SettledInit, SettledStep, PTL DEF Spec

\* The inductive invariant holds throughout the startup (instance_registry.py
\* 65-101).
LEMMA Settlement == Spec => []Settled
BY SettledInit, SettledStep, PTL DEF Spec
------------------------------------------------------------------------------
(* The sessions at startup.                                                  *)

\* A registry that has not been built has idle sessions, not served yet.
LEMMA SessionsInit == Init => \A i \in Slugs : SessionOf(i)!Init
BY DEF Init, Over, Instances, SessionOf!Init

\* A step of the startup ends the resume() of one session, as Session has it, and
\* touches no other (instance_registry.py 65-101, session.py 70-80).
LEMMA SessionsStep ==
    Settled /\ [Next]_registryVars =>
        \A i \in Slugs : SessionOf(i)!Next \/ UNCHANGED SessionOf(i)!vars
<1> SUFFICES ASSUME Settled, [Next]_registryVars, NEW i \in Slugs
             PROVE  SessionOf(i)!Next \/ UNCHANGED SessionOf(i)!vars
    OBVIOUS
<1> DEFINE sessionState == IF i \in Instances THEN state[i] ELSE "idle"
<1>1. ASSUME (i \in Over)' <=> i \in Over, sessionState' = sessionState
      PROVE  UNCHANGED SessionOf(i)!vars
  <2>1. (i \in Over)' = (i \in Over)
    <3>1. CASE i \in Over
        BY <1>1, <3>1
    <3>2. CASE i \notin Over
        BY <1>1, <3>2
    <3> QED
        BY <3>1, <3>2
  <2> QED
      BY <1>1, <2>1 DEF SessionOf!vars, SessionOf!sessionVars, SessionOf!lockVars,
         SessionOf!requestVars, SessionOf!historyVars
<1>2. CASE UNCHANGED <<config, resumed, state>>
    BY <1>1, <1>2 DEF Over, Instances
<1>3. CASE Load
  <2>1. config = Null /\ config' # Null
      BY <1>3, LoadedIsNotNull DEF Settled, Load
  <2>2. /\ i \notin Over /\ sessionState = "idle"
        /\ \A k \in Instances' : resumed'[k] = "waiting" /\ state'[k] = "idle"
      BY <1>3, <2>1 DEF Load, Over, Instances
  <2>3. i \notin Over' /\ sessionState' = "idle"
      BY <2>2 DEF Over, Outcomes
  <2> QED
      BY <1>1, <2>2, <2>3
<1>4. ASSUME NEW k \in Instances, ResumeStarts(k)
      PROVE  UNCHANGED SessionOf(i)!vars
  <2>1. /\ UNCHANGED <<config, state>> /\ resumed[k] = "waiting"
        /\ resumed' = [resumed EXCEPT ![k] = "running"]
      BY <1>4 DEF ResumeStarts
  <2>2. (i \in Over)' <=> i \in Over
      BY <2>1 DEF Settled, TypeOK, Over, Instances, Outcomes
  <2> QED
      BY <1>1, <2>1, <2>2 DEF Instances
<1>5. ASSUME NEW k \in Instances, NEW o \in Outcomes, ResumeEnds(k, o)
      PROVE  SessionOf(i)!Next \/ UNCHANGED SessionOf(i)!vars
  <2>1. /\ Instances' = Instances
        /\ resumed[k] = "running" /\ resumed' = [resumed EXCEPT ![k] = o]
        /\ state' = [state EXCEPT ![k] = IF o = "valid" THEN "confirmed" ELSE @]
      BY <1>5 DEF ResumeEnds, Instances
  <2>2. DOMAIN resumed = Instances /\ DOMAIN state = Instances
      BY DEF Settled, TypeOK
  <2>3. CASE i # k
      BY <1>1, <2>1, <2>2, <2>3 DEF Over
  <2>4. CASE i = k
    <3> DEFINE outcome == IF o = "valid" THEN "valid" ELSE "upstream"
    <3>1. i \notin Over /\ i \in Over'
        BY <2>1, <2>2, <2>4 DEF Over, Outcomes
    <3>2. sessionState' = IF outcome = "valid" THEN "confirmed" ELSE sessionState
        BY <2>1, <2>2, <2>4
    <3>3. SessionOf(i)!Resume(outcome)
        BY <3>1, <3>2, Zenon DEF SessionOf!Resume, SessionOf!lockVars, SessionOf!requestVars,
           SessionOf!historyVars
    <3>4. outcome \in SessionOf(i)!ResumeOutcomes
        BY DEF SessionOf!ResumeOutcomes
    <3> QED
        BY <3>3, <3>4, Zenon DEF SessionOf!Next
  <2> QED
      BY <2>3, <2>4
<1> QED
    BY <1>2, <1>3, <1>4, <1>5 DEF Next, LoadRaises, GatherEnds, registryVars

\* The sessions that the registry builds start as Session says, each on its own:
\* no instance's failure, and no wait for a thread, shows in another's session
\* (instance_registry.py 65-101).
THEOREM Sessions == Spec => SessionsStart
<1>1. Settled /\ [Next]_registryVars =>
          [\A i \in Slugs : SessionOf(i)!Next \/ UNCHANGED SessionOf(i)!vars]_registryVars
    BY SessionsStep
<1>2. Spec => []Settled
    BY Settlement
<1> QED
    BY <1>1, <1>2, SessionsInit, PTL DEF Spec, SessionsStart
==============================================================================
