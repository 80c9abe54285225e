------------------------------- MODULE Registry -------------------------------
(***************************************************************************)
(* Service startup: the lifespan of main.py loads the configuration,       *)
(* builds the InstanceRegistry of instance_registry.py and awaits          *)
(* resume_all(), which resumes every instance concurrently on the bounded  *)
(* thread pool; requests are served afterwards.  What they do to a session *)
(* is in Session and Bridge.                                               *)
(***************************************************************************)
EXTENDS Config, FiniteSets

CONSTANTS
    Files,   \* what may be at the configuration's path
    Threads  \* size of the default executor's thread pool

ASSUME PoolAssumption == Threads \in Nat \ {0}

\* A list of a YAML document has an end.
ASSUME ListsAreFinite ==
    \A f \in Files : Loads(f) =>
        LET items == f.of["instances"].items IN items \in Seq({items[i] : i \in DOMAIN items})

VARIABLES
    file,     \* what is at the configuration's path
    config,   \* app.state.config, Null until it is loaded
    phase,    \* "loading", "resuming", "serving", or "down" when startup failed
    resumed,  \* how far _resume_safe() is for each instance
    state     \* the state of each instance's session

registryVars == <<file, config, phase, resumed, state>>

\* How session.resume() ends: it finds a session, finds none, or raises.
Outcomes == {"valid", "none", "raised"}

\* The keys of the registry's _sessions.
Instances == IF config = Null THEN {} ELSE InstanceNames(config)

Running == {i \in Instances : resumed[i] = "running"}
Over == {i \in Instances : resumed[i] \in Outcomes}

TypeOK ==
    /\ file \in Files
    /\ config # Null => Loads(file) /\ config = FromFile(file)
    /\ phase \in {"loading", "resuming", "serving", "down"}
    /\ resumed \in [Instances -> Outcomes \cup {"waiting", "running"}]
    /\ state \in [Instances -> {"idle", "confirmed"}]

Init ==
    /\ file \in Files
    /\ config = Null
    /\ phase = "loading"
    /\ resumed = [i \in {} |-> "waiting"]
    /\ state = [i \in {} |-> "idle"]

\* Config.load() raises, which ends the startup ...
LoadRaises ==
    /\ phase = "loading"
    /\ ~Loads(file)
    /\ phase' = "down"
    /\ UNCHANGED <<file, config, resumed, state>>

\* ... or returns, and the registry gets an idle session for every instance.
Load ==
    /\ phase = "loading"
    /\ Loads(file)
    /\ phase' = "resuming"
    /\ config' = FromFile(file)
    /\ resumed' = [i \in InstanceNames(config') |-> "waiting"]
    /\ state' = [i \in InstanceNames(config') |-> "idle"]
    /\ UNCHANGED file

\* A thread of the pool takes up the resume of an instance.
ResumeStarts(i) ==
    /\ phase = "resuming"
    /\ resumed[i] = "waiting"
    /\ Cardinality(Running) < Threads
    /\ resumed' = [resumed EXCEPT ![i] = "running"]
    /\ UNCHANGED <<file, config, phase, state>>

\* Mutants of ResumeEnds: the outcome is stored for the state; an exception is
\* taken for an upstream error of a login.
ResumeStoresOutcome(i, outcome) ==
    /\ resumed[i] = "running"
    /\ resumed' = [resumed EXCEPT ![i] = outcome]
    /\ state' = [state EXCEPT ![i] = outcome]
    /\ UNCHANGED <<file, config, phase>>

ResumeFails(i, outcome) ==
    /\ resumed[i] = "running"
    /\ resumed' = [resumed EXCEPT ![i] = outcome]
    /\ state' = [state EXCEPT ![i] =
          CASE outcome = "valid" -> "confirmed" [] outcome = "raised" -> "failed" [] OTHER -> @]
    /\ UNCHANGED <<file, config, phase>>

\* session.resume() in _resume_safe(): an exception is logged and re-raised.
ResumeEnds(i, outcome) ==
    /\ resumed[i] = "running"
    /\ resumed' = [resumed EXCEPT ![i] = outcome]
    /\ state' = [state EXCEPT ![i] = IF outcome = "valid" THEN "confirmed" ELSE @]
    /\ UNCHANGED <<file, config, phase>>

\* Mutants of GatherEnds: gather without return_exceptions raises the first
\* exception; the lifespan does not await resume_all().
GatherRaises ==
    /\ phase = "resuming"
    /\ \/ Over = Instances /\ phase' = "serving"
       \/ \E i \in Instances : resumed[i] = "raised" /\ phase' = "down"
    /\ UNCHANGED <<file, config, resumed, state>>

NoGather ==
    /\ phase = "resuming"
    /\ phase' = "serving"
    /\ UNCHANGED <<file, config, resumed, state>>

\* gather(..., return_exceptions=True) ends when every resume has, and the
\* lifespan yields.
GatherEnds ==
    /\ phase = "resuming"
    /\ Over = Instances
    /\ phase' = "serving"
    /\ UNCHANGED <<file, config, resumed, state>>

Next ==
    \/ LoadRaises \/ Load
    \/ \E i \in Instances : ResumeStarts(i)
    \/ \E i \in Instances, o \in Outcomes : ResumeEnds(i, o)
    \/ GatherEnds

\* The pool's threads start what waits, and resume_websession() ends.
Fairness ==
    /\ WF_registryVars(GatherEnds)
    /\ \A i \in Slugs :
          /\ WF_registryVars(i \in Instances /\ ResumeStarts(i))
          /\ WF_registryVars(i \in Instances /\ \E o \in Outcomes : ResumeEnds(i, o))

Spec == Init /\ [][Next]_registryVars /\ Fairness

------------------------------------------------------------------------------
(* Properties.                                                               *)

\* Every entry of an accepted file has a session, a name and a session
\* directory to itself: the registry is a dictionary, and a second entry of a
\* name would silently replace the first and log in on its cookies
\* (config.py 160-167, instance_registry.py 42-52).
EntriesApart ==
    config # Null => Cardinality(DOMAIN state) = Len(file.of["instances"].items)

\* No request meets a resume of the startup: when requests are served, every
\* instance whose cookies were good is confirmed and every other one idle, so
\* the startup's late write never overwrites what a login has done
\* (session.py 76-77 does not take the lock).
ServedWhenSettled ==
    phase = "serving" =>
        \A i \in Instances :
            /\ resumed[i] \in Outcomes
            /\ state[i] = "confirmed" <=> resumed[i] = "valid"

\* Every instance's session starts as Session says, and is done with its
\* resume() exactly when it is over here: a resume that raises, is slow or waits
\* for a thread disturbs no other session (instance_registry.py 65-101).
SessionOf(i) == INSTANCE Session WITH
    Logins <- {}, Submits <- {}, None <- Null,
    serving <- i \in Over,
    state <- IF i \in Instances THEN state[i] ELSE "idle",
    lockHolder <- Null, lockQueue <- <<>>,
    timeoutTask <- Null, sleeping <- {}, pushTask <- Null, polling <- {},
    login <- [l \in {} |-> "new"], submit <- [s \in {} |-> "new"],
    attempt <- Null, submittedFor <- [s \in {} |-> Null]

SessionsStart ==
    /\ \A i \in Slugs : SessionOf(i)!Init
    /\ [][\A i \in Slugs : SessionOf(i)!Next \/ UNCHANGED SessionOf(i)!vars]_registryVars

\* "a failure on one instance is logged and does not prevent the others from
\* resuming or the service from starting" (instance_registry.py 68-70).
StartsDespiteFailures == phase = "resuming" ~> phase = "serving"
==============================================================================
