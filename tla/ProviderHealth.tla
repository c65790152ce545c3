--------------------------- MODULE ProviderHealth ---------------------------
(***************************************************************************)
(* Provider qualification (provider_health.py).  Every selection of the    *)
(* pinned configuration (a role and a profile) is qualified in turn by at  *)
(* most three read-only probes, or from the process's cache; the report    *)
(* authorizes a dispatch only while the observation of that selection is   *)
(* ready and fresh.  The caller's clock reading is taken once, before the  *)
(* first probe, and probing takes time.                                    *)
(***************************************************************************)
EXTENDS Naturals, Sequences

CONSTANTS Configurations,   \* pinned runtime bindings
          Selections,       \* number of selections of a configuration
          MaxAttempts,      \* probes per selection (at most 3)
          Freshness,        \* freshness_seconds
          Horizon,          \* bound: the clock
          Missing

ASSUME HealthAssumption ==
    /\ Selections \in Nat \ {0} /\ Freshness \in Nat \ {0}
    /\ Missing \notin Nat

VARIABLES healthClock,
          pinned,       \* the configuration in force
          cache,        \* ProviderHealthCache, by profile
          doing,        \* the qualify_configuration call in progress
          report,       \* the last ProviderQualificationReport
          probed,       \* (history) when a profile last answered a probe
          dispatched    \* (history) the age of that answer at the last dispatch

healthVars == <<healthClock, pinned, cache, doing, report, probed, dispatched>>

Profile(c, n) == <<c, n>>   \* role and profile of the n-th selection
Profiles == Configurations \X (1..Selections)

(* ProviderHealthObservation: fresh_until is observed_at + freshness_seconds. *)
Observation(ready, at) == [ready |-> ready, at |-> at]

\* Mutant: the last second of an observation is one too many.
FreshAtExpiry(o, now) == o.at <= now /\ now <= o.at + Freshness

Fresh(o, now) == o.at <= now /\ now < o.at + Freshness

HealthInit ==
    /\ healthClock = 0 /\ pinned \in Configurations
    /\ cache = [p \in Profiles |-> Missing]
    /\ doing = Missing /\ report = Missing
    /\ probed = [p \in Profiles |-> Missing]
    /\ dispatched = 0

Working == doing # Missing
Current == Profile(doing.config, Len(doing.seen) + 1)

(* qualify_configuration: the pin and the clock are read once. *)
StartQualification(force) ==
    /\ ~Working
    /\ doing' = [config |-> pinned, now |-> healthClock, force |-> force, tried |-> 0, seen |-> <<>>]
    /\ UNCHANGED <<healthClock, pinned, cache, report, probed, dispatched>>

(* The selection is observed; the last one completes the report. *)
Observe(o) ==
    IF Len(doing.seen) + 1 = Selections
    THEN /\ report' = [config |-> doing.config, seen |-> Append(doing.seen, o)]
         /\ doing' = Missing
    ELSE /\ doing' = [doing EXCEPT !.seen = Append(@, o), !.tried = 0]
         /\ UNCHANGED report

(* _record: whatever was found goes to the cache, failures too. *)
Record(ready) ==
    LET o == Observation(ready, doing.now) IN
    /\ cache' = [cache EXCEPT ![Current] = o]
    /\ Observe(o)

(* ProviderHealthCache.get, for a selection not probed yet *)
Cached ==
    /\ doing.tried = 0 /\ ~doing.force
    /\ cache[Current] # Missing
    /\ Fresh(cache[Current], doing.now)

(* qualify: fresh evidence of this profile answers without a probe. *)
UseCache ==
    /\ Working /\ Cached
    /\ Observe(cache[Current])
    /\ UNCHANGED <<healthClock, pinned, cache, probed, dispatched>>

MayProbe == Working /\ ~Cached

(* credential_isolation, before the cache is read: its refusal is recorded over what the
   cache holds. *)
IsolationFails ==
    /\ Working /\ doing.tried = 0
    /\ Record(FALSE)
    /\ UNCHANGED <<healthClock, pinned, probed, dispatched>>

(* The channel, the runtime audit or the capability is not what the contract accepts: one
   attempt, no probe. *)
AuditFails ==
    /\ MayProbe /\ doing.tried = 0
    /\ Record(FALSE)
    /\ UNCHANGED <<healthClock, pinned, probed, dispatched>>

(* qualify_read_only answers. *)
ProbeSucceeds ==
    /\ MayProbe
    /\ probed' = [probed EXCEPT ![Current] = healthClock]
    /\ Record(TRUE)
    /\ UNCHANGED <<healthClock, pinned, dispatched>>

(* Only a limit or an outage is tried again. *)
ProbeFails(transient) ==
    /\ MayProbe
    /\ IF transient /\ doing.tried + 1 < MaxAttempts
       THEN /\ doing' = [doing EXCEPT !.tried = @ + 1]
            /\ UNCHANGED <<cache, report>>
       ELSE Record(FALSE)
    /\ UNCHANGED <<healthClock, pinned, probed, dispatched>>

(* The dependency control, asked before every step, refuses: the whole call raises,
   what was cached stays. *)
QualificationRefused ==
    /\ Working
    /\ doing' = Missing
    /\ UNCHANGED <<healthClock, pinned, cache, report, probed, dispatched>>

(* ProviderHealthReceipt.authorize *)
Authorizes(n) ==
    /\ report # Missing
    /\ report.config = pinned
    /\ report.seen[n].ready
    /\ Fresh(report.seen[n], healthClock)

Dispatch(n) ==
    /\ ~Working
    /\ Authorizes(n)
    /\ dispatched' = LET answered == probed[Profile(pinned, n)] IN
                     IF answered = Missing THEN Freshness ELSE healthClock - answered
    /\ UNCHANGED <<healthClock, pinned, cache, doing, report, probed>>

Elapse ==
    /\ healthClock < Horizon
    /\ healthClock' = healthClock + 1
    /\ UNCHANGED <<pinned, cache, doing, report, probed, dispatched>>

Repin(c) ==
    /\ pinned' = c
    /\ UNCHANGED <<healthClock, cache, doing, report, probed, dispatched>>

HealthRestart ==
    /\ cache' = [p \in Profiles |-> Missing]
    /\ doing' = Missing /\ report' = Missing
    /\ UNCHANGED <<healthClock, pinned, probed, dispatched>>

HealthNext ==
    \/ \E force \in BOOLEAN : StartQualification(force)
    \/ UseCache \/ IsolationFails \/ AuditFails \/ ProbeSucceeds \/ QualificationRefused
    \/ \E transient \in BOOLEAN : ProbeFails(transient)
    \/ \E n \in 1..Selections : Dispatch(n)
    \/ Elapse \/ HealthRestart
    \/ \E c \in Configurations \ {pinned} : Repin(c)

HealthSpec == HealthInit /\ [][HealthNext]_healthVars

(* Nothing is dispatched to a profile that has not answered a probe within the
   freshness window before the dispatch, whether the observation came from a probe
   or, through the cache, from an earlier report, and however slow the probes were. *)
DispatchedOnFreshHealth == dispatched < Freshness
=============================================================================
