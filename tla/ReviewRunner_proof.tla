------------------------ MODULE ReviewRunner_proof ------------------------
(***************************************************************************)
(* For any number of runners, any sequence of entries and any number of    *)
(* crashes, stops and lease changes: an attempt has at most one native     *)
(* effect, which stays paid for, entries wait for their predecessors, and  *)
(* a spent route is not reissued.  Of a runner that is alone, no crash     *)
(* between the two databases leaves a debit without an owner, or prepared  *)
(* work that cannot be resumed.                                            *)
(***************************************************************************)
EXTENDS MCReviewRunner, TLAPS

Outcomes == {"failed", "malformed"}

\* What a runner that has the claim knows: its attempt is claimed, and before the dispatch
\* it had no effect.
ClaimsAreHeld ==
    \A p \in Runners :
       /\ run[p].step \in {"dispatch", "observe"} => attempts[run[p].pos] = "claimed"
       /\ run[p].step = "dispatch" => effects[run[p].pos] = 0

\* Two runners do not have the same claim.
ClaimsAreApart ==
    \A p, q \in Runners :
       /\ run[p].step \in {"dispatch", "observe"}
       /\ run[q].step \in {"dispatch", "observe"}
       /\ run[p].pos = run[q].pos
       => p = q

\* An effect has a claim before it.
EffectsAreClaimed ==
    \A e \in Entries : effects[e] > 0 => attempts[e] \notin {"absent", "prepared"}

\* A runner is at an entry only when every earlier one has its outcome.
RunnersWait ==
    \A p \in Runners : \A d \in Entries : d < run[p].pos => attempts[d] \in Outcomes

RunnerInv ==
    /\ RunnerTypeOK
    /\ OneEffectPerAttempt
    /\ EffectsArePaid
    /\ SuccessorsWait
    /\ ClaimsAreHeld
    /\ ClaimsAreApart
    /\ EffectsAreClaimed
    /\ RunnersWait

-----------------------------------------------------------------------------
\* The first entry exists.
LEMMA FirstEntry == 1 \in Entries /\ Entries \subseteq Nat /\ \A e \in Entries : e >= 1
  BY RunnerAssumption DEF Entries

\* The invariant holds at first.
LEMMA InitialRunners == Init => RunnerInv
  <1> SUFFICES ASSUME Init PROVE RunnerInv
    OBVIOUS
  <1> USE FirstEntry DEF Init
  <1>1. Idle \in [step : Steps, pos : Entries, existing : BOOLEAN, acquired : BOOLEAN,
                  created : BOOLEAN, refund : BOOLEAN]
    BY DEF Idle, Locals, Steps
  <1>2. Idle.step = "idle" /\ Idle.pos = 1
    BY DEF Idle, Locals
  <1>3. RunnerTypeOK
    <2>1. run \in [Runners -> [step : Steps, pos : Entries, existing : BOOLEAN,
                               acquired : BOOLEAN, created : BOOLEAN, refund : BOOLEAN]]
      BY <1>1
    <2>2. /\ attempts \in [Entries -> {"absent", "prepared", "claimed", "accepted", "failed",
                                       "malformed", "blocked"}]
          /\ route \in [Entries -> {"none", "issued", "reserving", "consumed"}]
          /\ intent \in [Entries -> BOOLEAN]
          /\ debit \in [Entries -> BOOLEAN]
      OBVIOUS
    <2>3. stopped \in BOOLEAN
      OBVIOUS
    <2>4. current \subseteq Runners /\ effects \in [Entries -> Nat]
      OBVIOUS
    <2>5. {crashes, stops, releases} \subseteq Nat
      OBVIOUS
    <2> QED
      BY <2>1, <2>2, <2>3, <2>4, <2>5 DEF RunnerTypeOK, AttemptStates
  <1>4. OneEffectPerAttempt /\ EffectsArePaid /\ SuccessorsWait /\ EffectsAreClaimed
    BY DEF OneEffectPerAttempt, EffectsArePaid, SuccessorsWait, EffectsAreClaimed
  <1>5. ClaimsAreHeld /\ ClaimsAreApart /\ RunnersWait
    BY <1>2 DEF ClaimsAreHeld, ClaimsAreApart, RunnersWait
  <1> QED
    BY <1>3, <1>4, <1>5 DEF RunnerInv

-----------------------------------------------------------------------------
Open == {"dispatch", "observe"}

\* A step of runner p that concerns entry e: it prepares, claims, dispatches or settles
\* that entry, or leaves it alone; it is at no entry whose predecessors are open; and it
\* refunds only what has no attempt.
Lawful(p, e) ==
    /\ e \in Entries
    /\ \A d \in Entries : d < e => attempts[d] \in Outcomes
    /\ attempts' = [attempts EXCEPT ![e] = attempts'[e]]
    /\ effects' = [effects EXCEPT ![e] = effects'[e]]
    /\ run' = [run EXCEPT ![p] = run'[p]]
    /\ \/ /\ attempts'[e] = attempts[e]
          /\ effects'[e] = effects[e]
          /\ run'[p].step \notin Open
       \/ /\ attempts[e] \in {"absent", "prepared"}
          /\ attempts'[e] = "prepared"
          /\ effects'[e] = effects[e]
          /\ run'[p].step \notin Open
       \/ /\ attempts[e] = "prepared"
          /\ attempts'[e] = "claimed"
          /\ effects'[e] = effects[e]
          /\ run'[p].step = "dispatch"
          /\ run'[p].pos = e
       \/ /\ run[p].step = "dispatch" /\ run[p].pos = e
          /\ attempts'[e] = attempts[e]
          /\ effects'[e] = effects[e] + 1
          /\ debit[e]
          /\ run'[p].step = "observe"
          /\ run'[p].pos = e
       \/ /\ run[p].step \in Open /\ run[p].pos = e
          /\ attempts'[e] \notin {"absent", "prepared"}
          /\ effects'[e] = effects[e]
          /\ run'[p].step \notin Open
    /\ \A d \in Entries : d < run'[p].pos => attempts'[d] \in Outcomes
    /\ \A d \in Entries : debit[d] => debit'[d] \/ attempts[d] = "absent"

\* A lawful step preserves the invariant.
LEMMA LawfulStep ==
    ASSUME NEW p \in Runners, NEW e \in Entries, RunnerInv, Lawful(p, e), RunnerTypeOK'
    PROVE  RunnerInv'
  <1> USE FirstEntry DEF RunnerInv
  <1>t. /\ \A d \in Entries : attempts'[d] = IF d = e THEN attempts'[e] ELSE attempts[d]
        /\ \A d \in Entries : effects'[d] = IF d = e THEN effects'[e] ELSE effects[d]
        /\ \A q \in Runners : q # p => run'[q] = run[q]
        /\ \A d \in Entries : effects[d] \in Nat
        /\ \A q \in Runners : run[q].pos \in Entries /\ run'[q].pos \in Entries
    BY DEF Lawful, RunnerTypeOK, AttemptStates
  <1>1. OneEffectPerAttempt'
    BY <1>t DEF Lawful, OneEffectPerAttempt, ClaimsAreHeld
  <1>2. EffectsAreClaimed'
    BY <1>t DEF Lawful, EffectsAreClaimed, ClaimsAreHeld, Open
  <1>3. EffectsArePaid'
    BY <1>t DEF Lawful, EffectsArePaid, EffectsAreClaimed, ClaimsAreHeld
  <1>4. ClaimsAreHeld'
    <2> SUFFICES ASSUME NEW q \in Runners
                 PROVE  /\ run'[q].step \in Open => attempts'[run'[q].pos] = "claimed"
                        /\ run'[q].step = "dispatch" => effects'[run'[q].pos] = 0
      BY DEF ClaimsAreHeld, Open
    <2>1. CASE q = p
      BY <2>1, <1>t DEF Lawful, ClaimsAreHeld, EffectsAreClaimed, Open
    <2>2. CASE q # p
      <3>1. /\ run'[q] = run[q]
            /\ run[q].step \in Open => attempts[run[q].pos] = "claimed"
            /\ run[q].step = "dispatch" => effects[run[q].pos] = 0
        BY <2>2, <1>t DEF ClaimsAreHeld, Open
      <3>2. CASE run[q].pos # e
        BY <3>1, <3>2, <1>t
      <3>3. CASE run[q].pos = e /\ run[q].step \in Open
        BY <3>1, <3>3, <2>2, <1>t DEF Lawful, ClaimsAreApart, Open
      <3> QED
        BY <3>1, <3>2, <3>3 DEF Open
    <2> QED
      BY <2>1, <2>2
  <1>5. ClaimsAreApart'
    BY <1>t DEF Lawful, ClaimsAreHeld, ClaimsAreApart, Open
  <1>6. SuccessorsWait'
    BY <1>t DEF Lawful, SuccessorsWait, ClaimsAreHeld, Open, Outcomes
  <1>7. RunnersWait'
    BY <1>t DEF Lawful, RunnersWait, ClaimsAreHeld, Open, Outcomes
  <1> QED
    BY <1>1, <1>2, <1>3, <1>4, <1>5, <1>6, <1>7

-----------------------------------------------------------------------------
\* The rows of run.
RunRow == [step : Steps, pos : Entries, existing : BOOLEAN, acquired : BOOLEAN,
           created : BOOLEAN, refund : BOOLEAN]

\* What a runner does when it moves on, raises or advances.
LEMMA Moves ==
    ASSUME NEW p \in Runners, RunnerInv
    PROVE  /\ run[p] \in RunRow /\ Pos(p) \in Entries
           /\ \A d \in Entries : d < Pos(p) => attempts[d] \in Outcomes
           /\ \A step \in Steps \ Open :
                 GoTo(p, step) => /\ run' = [run EXCEPT ![p] = run'[p]]
                                  /\ run'[p] \in RunRow
                                  /\ run'[p].pos = Pos(p)
                                  /\ run'[p].step = step
           /\ Raise(p) => /\ run' = [run EXCEPT ![p] = run'[p]]
                          /\ run'[p] \in RunRow
                          /\ run'[p].pos = 1
                          /\ run'[p].step = "idle"
           /\ \A state : Advance(p, state) =>
                 /\ run' = [run EXCEPT ![p] = run'[p]]
                 /\ run'[p] \in RunRow
                 /\ run'[p].step \notin Open
                 /\ \/ run'[p].pos = 1
                    \/ run'[p].pos = Pos(p) + 1 /\ state \in Outcomes
  <1>1. run \in [Runners -> RunRow]
    BY DEF RunnerInv, RunnerTypeOK, AttemptStates, RunRow
  <1>2. run[p] \in RunRow /\ Pos(p) \in Entries
    BY <1>1 DEF RunRow, Pos
  <1>3. \A d \in Entries : d < Pos(p) => attempts[d] \in Outcomes
    BY DEF RunnerInv, RunnersWait, Pos
  <1>4. ASSUME NEW step \in Steps \ Open, GoTo(p, step)
        PROVE  /\ run' = [run EXCEPT ![p] = run'[p]]
               /\ run'[p] \in RunRow
               /\ run'[p].pos = Pos(p)
               /\ run'[p].step = step
    BY <1>1, <1>4 DEF GoTo, RunRow, Pos
  <1>5. Idle \in RunRow /\ Idle.pos = 1 /\ Idle.step = "idle"
    BY FirstEntry DEF Idle, Locals, RunRow, Steps
  <1>6. ASSUME Raise(p)
        PROVE  /\ run' = [run EXCEPT ![p] = run'[p]]
               /\ run'[p] \in RunRow
               /\ run'[p].pos = 1
               /\ run'[p].step = "idle"
    BY <1>1, <1>5, <1>6 DEF Raise
  <1>7. ASSUME NEW state, Advance(p, state)
        PROVE  /\ run' = [run EXCEPT ![p] = run'[p]]
               /\ run'[p] \in RunRow
               /\ run'[p].step \notin Open
               /\ \/ run'[p].pos = 1
                  \/ run'[p].pos = Pos(p) + 1 /\ state \in Outcomes
    <2>1. CASE Follows(Pos(p), state)
      <3>1. LET r == Locals("authorize", Pos(p) + 1)
            IN r \in RunRow /\ r.step = "authorize" /\ r.pos = Pos(p) + 1
        BY <2>1, <1>2 DEF Follows, Locals, RunRow, Steps
      <3>2. run' = [run EXCEPT ![p] = Locals("authorize", Pos(p) + 1)]
        BY <1>7, <2>1 DEF Advance
      <3>3. state \in Outcomes
        BY <2>1 DEF Follows, Outcomes
      <3> QED
        BY <3>1, <3>2, <3>3, <1>1 DEF Open
    <2>2. CASE ~Follows(Pos(p), state)
      BY <1>6, <1>7, <2>2 DEF Advance, Open
    <2> QED
      BY <2>1, <2>2
  <1> QED
    BY <1>2, <1>3, <1>4, <1>6, <1>7

\* A step that notes something in a runner's locals and moves it on.
LEMMA Notes ==
    ASSUME NEW p \in Runners, RunnerTypeOK, NEW step \in Steps \ Open,
           \/ run' = [run EXCEPT ![p].existing = TRUE, ![p].step = step]
           \/ run' = [run EXCEPT ![p].created = TRUE, ![p].step = step]
           \/ run' = [run EXCEPT ![p].created = FALSE, ![p].step = step]
           \/ run' = [run EXCEPT ![p].acquired = TRUE, ![p].step = step]
           \/ run' = [run EXCEPT ![p].refund = TRUE, ![p].step = step]
           \/ run' = [run EXCEPT ![p].refund = FALSE, ![p].step = step]
    PROVE  /\ run' = [run EXCEPT ![p] = run'[p]] /\ run'[p] \in RunRow
           /\ run'[p].step \notin Open /\ run'[p].pos = Pos(p)
  <1>1. run \in [Runners -> RunRow] /\ run[p] \in RunRow
    BY DEF RunnerTypeOK, AttemptStates, RunRow
  <1>2. ASSUME NEW r \in RunRow, run' = [run EXCEPT ![p] = r], r.step = step,
               r.pos = run[p].pos
        PROVE  /\ run' = [run EXCEPT ![p] = run'[p]] /\ run'[p] \in RunRow
               /\ run'[p].step \notin Open /\ run'[p].pos = Pos(p)
    BY <1>1, <1>2 DEF Pos
  <1>3. CASE run' = [run EXCEPT ![p].existing = TRUE, ![p].step = step]
    <2> DEFINE r == [run[p] EXCEPT !.existing = TRUE, !.step = step]
    <2>1. r \in RunRow /\ r.step = step /\ r.pos = run[p].pos
      BY <1>1 DEF RunRow
    <2>2. run' = [run EXCEPT ![p] = r]
      BY <1>3, <1>1
    <2> HIDE DEF r
    <2> QED
      BY <2>1, <2>2, <1>2
  <1>4. CASE run' = [run EXCEPT ![p].created = TRUE, ![p].step = step]
    <2> DEFINE r == [run[p] EXCEPT !.created = TRUE, !.step = step]
    <2>1. r \in RunRow /\ r.step = step /\ r.pos = run[p].pos
      BY <1>1 DEF RunRow
    <2>2. run' = [run EXCEPT ![p] = r]
      BY <1>4, <1>1
    <2> HIDE DEF r
    <2> QED
      BY <2>1, <2>2, <1>2
  <1>5. CASE run' = [run EXCEPT ![p].created = FALSE, ![p].step = step]
    <2> DEFINE r == [run[p] EXCEPT !.created = FALSE, !.step = step]
    <2>1. r \in RunRow /\ r.step = step /\ r.pos = run[p].pos
      BY <1>1 DEF RunRow
    <2>2. run' = [run EXCEPT ![p] = r]
      BY <1>5, <1>1
    <2> HIDE DEF r
    <2> QED
      BY <2>1, <2>2, <1>2
  <1>6. CASE run' = [run EXCEPT ![p].acquired = TRUE, ![p].step = step]
    <2> DEFINE r == [run[p] EXCEPT !.acquired = TRUE, !.step = step]
    <2>1. r \in RunRow /\ r.step = step /\ r.pos = run[p].pos
      BY <1>1 DEF RunRow
    <2>2. run' = [run EXCEPT ![p] = r]
      BY <1>6, <1>1
    <2> HIDE DEF r
    <2> QED
      BY <2>1, <2>2, <1>2
  <1>7. CASE run' = [run EXCEPT ![p].refund = TRUE, ![p].step = step]
    <2> DEFINE r == [run[p] EXCEPT !.refund = TRUE, !.step = step]
    <2>1. r \in RunRow /\ r.step = step /\ r.pos = run[p].pos
      BY <1>1 DEF RunRow
    <2>2. run' = [run EXCEPT ![p] = r]
      BY <1>7, <1>1
    <2> HIDE DEF r
    <2> QED
      BY <2>1, <2>2, <1>2
  <1>8. CASE run' = [run EXCEPT ![p].refund = FALSE, ![p].step = step]
    <2> DEFINE r == [run[p] EXCEPT !.refund = FALSE, !.step = step]
    <2>1. r \in RunRow /\ r.step = step /\ r.pos = run[p].pos
      BY <1>1 DEF RunRow
    <2>2. run' = [run EXCEPT ![p] = r]
      BY <1>8, <1>1
    <2> HIDE DEF r
    <2> QED
      BY <2>1, <2>2, <1>2
  <1> QED
    BY <1>3, <1>4, <1>5, <1>6, <1>7, <1>8

\* A step that touches neither the attempts nor the effects.
LEMMA QuietStep ==
    ASSUME NEW p \in Runners, RunnerInv,
           attempts' = attempts, effects' = effects,
           run' = [run EXCEPT ![p] = run'[p]], run'[p] \in RunRow, run'[p].step \notin Open,
           \/ run'[p].pos \in {1, Pos(p)}
           \/ run'[p].pos = Pos(p) + 1 /\ attempts[Pos(p)] \in Outcomes,
           \A d \in Entries : debit[d] => debit'[d] \/ attempts[d] = "absent"
    PROVE  Lawful(p, Pos(p))
  <1>1. Pos(p) \in Entries /\ \A d \in Entries : d < Pos(p) => attempts[d] \in Outcomes
    BY Moves
  <1>2. attempts' = [attempts EXCEPT ![Pos(p)] = attempts'[Pos(p)]]
    BY <1>1 DEF RunnerInv, RunnerTypeOK, AttemptStates
  <1>3. effects' = [effects EXCEPT ![Pos(p)] = effects'[Pos(p)]]
    BY <1>1 DEF RunnerInv, RunnerTypeOK, AttemptStates
  <1>4. \A d \in Entries : d < run'[p].pos => attempts'[d] \in Outcomes
    <2>1. CASE run'[p].pos = 1
      BY <2>1, FirstEntry
    <2>2. CASE run'[p].pos = Pos(p)
      BY <2>2, <1>1
    <2>3. CASE run'[p].pos = Pos(p) + 1 /\ attempts[Pos(p)] \in Outcomes
      <3>a. \A m, n \in Nat : m < n + 1 => m < n \/ m = n
        OBVIOUS
      <3>1. \A d \in Entries : d < Pos(p) + 1 => d < Pos(p) \/ d = Pos(p)
        BY <1>1, <3>a, FirstEntry
      <3> QED
        BY <2>3, <3>1, <1>1
    <2> QED
      BY <2>1, <2>2, <2>3
  <1> QED
    BY <1>1, <1>2, <1>3, <1>4 DEF Lawful

\* A step that writes the attempt of the runner's entry.
LEMMA WriteStep ==
    ASSUME NEW p \in Runners, RunnerInv,
           NEW v \in {"prepared", "claimed", "accepted", "failed", "malformed", "blocked"},
           attempts' = [attempts EXCEPT ![Pos(p)] = v],
           \/ run'[p].pos \in {1, Pos(p)}
           \/ run'[p].pos = Pos(p) + 1 /\ v \in Outcomes
    PROVE  /\ attempts' \in [Entries -> {"absent", "prepared", "claimed", "accepted",
                                         "failed", "malformed", "blocked"}]
           /\ attempts' = [attempts EXCEPT ![Pos(p)] = attempts'[Pos(p)]]
           /\ attempts'[Pos(p)] = v
           /\ \A d \in Entries : d < run'[p].pos => attempts'[d] \in Outcomes
  <1>1. Pos(p) \in Entries /\ \A d \in Entries : d < Pos(p) => attempts[d] \in Outcomes
    BY Moves
  <1>2. /\ attempts' \in [Entries -> {"absent", "prepared", "claimed", "accepted",
                                      "failed", "malformed", "blocked"}]
        /\ attempts' = [attempts EXCEPT ![Pos(p)] = attempts'[Pos(p)]]
        /\ attempts'[Pos(p)] = v
        /\ \A d \in Entries : d # Pos(p) => attempts'[d] = attempts[d]
    BY <1>1 DEF RunnerInv, RunnerTypeOK, AttemptStates
  <1>a. \A m, n \in Nat : m < n + 1 => m < n \/ m = n
    OBVIOUS
  <1>3. \A d \in Entries : d < run'[p].pos => attempts'[d] \in Outcomes
    <2>1. CASE run'[p].pos = 1
      BY <2>1, FirstEntry
    <2>2. CASE run'[p].pos = Pos(p)
      <3>1. \A d \in Entries : d < Pos(p) => d # Pos(p)
        BY <1>1, FirstEntry
      <3> QED
        BY <2>2, <3>1, <1>1, <1>2
    <2>3. CASE run'[p].pos = Pos(p) + 1 /\ v \in Outcomes
      <3>1. \A d \in Entries : d < Pos(p) + 1 => d < Pos(p) \/ d = Pos(p)
        BY <1>1, <1>a, FirstEntry
      <3> QED
        BY <2>3, <3>1, <1>1, <1>2
    <2> QED
      BY <2>1, <2>2, <2>3
  <1> QED
    BY <1>2, <1>3

\* The types that no runner's step changes, and those it keeps.
LEMMA TypeStep ==
    ASSUME NEW p \in Runners, RunnerInv,
           run' = [run EXCEPT ![p] = run'[p]], run'[p] \in RunRow,
           attempts' \in [Entries -> {"absent", "prepared", "claimed", "accepted", "failed",
                                      "malformed", "blocked"}],
           effects' \in [Entries -> Nat],
           route' \in [Entries -> {"none", "issued", "reserving", "consumed"}],
           intent' \in [Entries -> BOOLEAN],
           debit' \in [Entries -> BOOLEAN],
           stopped' \in BOOLEAN, current' \subseteq Runners,
           {crashes', stops', releases'} \subseteq Nat
    PROVE  RunnerTypeOK'
  <1>1. run' \in [Runners -> RunRow]
    BY DEF RunnerInv, RunnerTypeOK, AttemptStates, RunRow
  <1> QED
    BY <1>1 DEF RunnerTypeOK, AttemptStates, RunRow

\* Refunds concern entries without an attempt; other steps keep every debit.
LEMMA Refunds ==
    ASSUME NEW p \in Runners, RunnerInv
    PROVE  /\ MayAbandon(Pos(p)) /\ Reissue(p) =>
                 /\ \A d \in Entries : debit[d] => debit'[d] \/ attempts[d] = "absent"
                 /\ debit' \in [Entries -> BOOLEAN]
                 /\ route' \in [Entries -> {"none", "issued", "reserving", "consumed"}]
           /\ attempts[Pos(p)] = "absent" /\ debit' = [debit EXCEPT ![Pos(p)] = FALSE] =>
                 /\ \A d \in Entries : debit[d] => debit'[d] \/ attempts[d] = "absent"
                 /\ debit' \in [Entries -> BOOLEAN]
  <1>1. Pos(p) \in Entries
    BY Moves
  <1> QED
    BY <1>1 DEF RunnerInv, RunnerTypeOK, AttemptStates, MayAbandon, Reissue

\* Each step of a runner is lawful at the entry where the runner is.
LEMMA StepIsLawful ==
    ASSUME NEW p \in Runners, RunnerInv, Step(p)
    PROVE  Lawful(p, Pos(p)) /\ RunnerTypeOK'
  <1> DEFINE e == Pos(p)
  <1>t. RunnerTypeOK /\ e \in Entries
    BY Moves DEF RunnerInv
  <1>m. /\ \A step \in Steps \ Open :
              GoTo(p, step) => /\ run' = [run EXCEPT ![p] = run'[p]]
                               /\ run'[p] \in RunRow
                               /\ run'[p].pos = e
                               /\ run'[p].step = step
        /\ Raise(p) => /\ run' = [run EXCEPT ![p] = run'[p]]
                       /\ run'[p] \in RunRow
                       /\ run'[p].pos = 1
                       /\ run'[p].step = "idle"
    BY Moves
  <1>s. /\ {"authorize", "enter", "begin", "reconcile", "abandon", "rebegin", "reserve",
            "prepare", "unwind", "release", "commit", "claim"} \subseteq Steps \ Open
        /\ "idle" \notin Open
    BY DEF Steps, Open
  <1> HIDE DEF e
  <1>1. CASE Authorize(p)
    <2>1. /\ attempts' = attempts /\ effects' = effects
          /\ run' = [run EXCEPT ![p] = run'[p]] /\ run'[p] \in RunRow
          /\ run'[p].step \notin Open /\ run'[p].pos \in {1, e}
      BY <1>1, <1>m, <1>s DEF Authorize, e
    <2>2. \A d \in Entries : debit[d] => debit'[d] \/ attempts[d] = "absent"
      BY <1>1 DEF Authorize
    <2>3. route' \in [Entries -> {"none", "issued", "reserving", "consumed"}]
      BY <1>1, <1>t DEF Authorize, RunnerTypeOK, AttemptStates, e
    <2>4. Lawful(p, Pos(p))
      BY <2>1, <2>2, QuietStep DEF e
    <2>5. RunnerTypeOK'
      BY <2>1, <2>3, <1>1, <1>t, TypeStep DEF Authorize, RunnerTypeOK, AttemptStates, counts
    <2> QED
      BY <2>4, <2>5
  <1>2. CASE Enter(p)
    <2>1. /\ attempts' = attempts /\ effects' = effects
          /\ debit' = debit /\ route' = route /\ intent' = intent
      BY <1>2 DEF Enter, ledgers
    <2>2. CASE Raise(p) \/ GoTo(p, "begin")
      BY <2>2, <2>1, <1>2, <1>m, <1>s, <1>t, QuietStep, TypeStep
         DEF Enter, RunnerTypeOK, AttemptStates, counts, e
    <2>3. CASE run' = [run EXCEPT ![p].existing = TRUE,
                                  ![p].step = IF debit[e] THEN "prepare" ELSE "reserve"]
      <3>1. /\ run' = [run EXCEPT ![p] = run'[p]] /\ run'[p] \in RunRow
            /\ run'[p].step \notin Open /\ run'[p].pos = e
        <4>1. CASE debit[e]
          <5>1. run' = [run EXCEPT ![p].existing = TRUE, ![p].step = "prepare"]
            BY <2>3, <4>1
          <5> QED
            BY <5>1, <1>t, <1>s, Notes DEF e
        <4>2. CASE ~debit[e]
          <5>1. run' = [run EXCEPT ![p].existing = TRUE, ![p].step = "reserve"]
            BY <2>3, <4>2
          <5> QED
            BY <5>1, <1>t, <1>s, Notes DEF e
        <4> QED
          BY <4>1, <4>2
      <3> QED
        BY <3>1, <2>1, <1>2, <1>t, QuietStep, TypeStep DEF Enter, RunnerTypeOK, AttemptStates, counts, e
    <2>4. CASE attempts[e] \in {"failed", "malformed"} /\ Advance(p, attempts[e])
      <3>1. /\ run' = [run EXCEPT ![p] = run'[p]] /\ run'[p] \in RunRow
            /\ run'[p].step \notin Open
            /\ run'[p].pos \in {1, e} \/ (run'[p].pos = e + 1 /\ attempts[e] \in Outcomes)
        BY <2>4, Moves DEF e
      <3> QED
        BY <3>1, <2>1, <1>2, <1>t, QuietStep, TypeStep DEF Enter, RunnerTypeOK, AttemptStates, counts, e
    <2> QED
      BY <1>2, <2>2, <2>3, <2>4 DEF Enter, e
  <1>3. CASE BeginIntent(p)
    <2>1. /\ run' = [run EXCEPT ![p] = run'[p]] /\ run'[p] \in RunRow
          /\ run'[p].step \notin Open /\ run'[p].pos \in {1, e}
      <3>1. CASE Raise(p)
        BY <3>1, <1>m, <1>s
      <3>2. CASE run' = [run EXCEPT ![p].created = ~intent[e], ![p].step = "reserve"]
        <4>1. CASE run' = [run EXCEPT ![p].created = TRUE, ![p].step = "reserve"]
          BY <4>1, <1>t, <1>s, Notes DEF e
        <4>2. CASE run' = [run EXCEPT ![p].created = FALSE, ![p].step = "reserve"]
          BY <4>2, <1>t, <1>s, Notes DEF e
        <4>3. (~intent[e]) = TRUE \/ (~intent[e]) = FALSE
          BY Zenon
        <4> QED
          BY <3>2, <4>1, <4>2, <4>3
      <3> QED
        BY <1>3, <3>1, <3>2 DEF BeginIntent, e
    <2>2. intent' \in [Entries -> BOOLEAN]
      BY <1>3, <1>t DEF BeginIntent, RunnerTypeOK, AttemptStates, e
    <2> QED
      BY <2>1, <2>2, <1>3, <1>t, QuietStep, TypeStep
         DEF BeginIntent, RunnerTypeOK, AttemptStates, counts, e
  <1>4. CASE BeginRoute(p)
    <2>1. /\ run' = [run EXCEPT ![p] = run'[p]] /\ run'[p] \in RunRow
          /\ run'[p].step \notin Open /\ run'[p].pos \in {1, e}
      <3>1. CASE Raise(p) \/ GoTo(p, "reconcile") \/ GoTo(p, "reserve")
        BY <3>1, <1>m, <1>s
      <3>2. CASE run' = [run EXCEPT ![p].acquired = TRUE, ![p].step = "reserve"]
        BY <3>2, <1>t, <1>s, Notes DEF e
      <3> QED
        BY <1>4, <3>1, <3>2 DEF BeginRoute, e
    <2>2. route' \in [Entries -> {"none", "issued", "reserving", "consumed"}]
      BY <1>4, <1>t DEF BeginRoute, RunnerTypeOK, AttemptStates, e
    <2> QED
      BY <2>1, <2>2, <1>4, <1>t, QuietStep, TypeStep DEF BeginRoute, RunnerTypeOK, AttemptStates, counts, e
  <1>5. CASE Reconcile(p)
    <2>1. /\ run' = [run EXCEPT ![p] = run'[p]] /\ run'[p] \in RunRow
          /\ run'[p].step \notin Open /\ run'[p].pos = e
      <3>1. CASE run' = [run EXCEPT ![p].refund = TRUE, ![p].step = "abandon"]
        BY <3>1, <1>t, <1>s, Notes DEF e
      <3>2. CASE run' = [run EXCEPT ![p].refund = FALSE, ![p].step = "abandon"]
        BY <3>2, <1>t, <1>s, Notes DEF e
      <3>3. debit[e] = TRUE \/ debit[e] = FALSE
        BY <1>t DEF RunnerTypeOK, AttemptStates
      <3> QED
        BY <1>5, <3>1, <3>2, <3>3 DEF Reconcile, e
    <2> QED
      BY <2>1, <1>5, <1>t, QuietStep, TypeStep
         DEF Reconcile, RunnerTypeOK, AttemptStates, ledgers, counts, e
  <1>6. CASE Abandon(p)
    <2>1. /\ run' = [run EXCEPT ![p] = run'[p]] /\ run'[p] \in RunRow
          /\ run'[p].step \notin Open /\ run'[p].pos \in {1, e}
      <3>1. CASE Raise(p) \/ GoTo(p, "rebegin")
        BY <3>1, <1>m, <1>s
      <3>2. CASE At(p, "abandon") /\ run' = [run EXCEPT ![p].refund = FALSE]
        <4>1. run[p] \in RunRow /\ run \in [Runners -> RunRow]
          BY <1>t DEF RunnerTypeOK, AttemptStates, RunRow
        <4>2. run' = [run EXCEPT ![p].refund = FALSE, ![p].step = "abandon"]
          BY <3>2, <4>1 DEF At, RunRow
        <4> QED
          BY <4>2, <1>t, <1>s, Notes DEF e
      <3> QED
        BY <1>6, <3>1, <3>2 DEF Abandon
    <2>2. /\ \A d \in Entries : debit[d] => debit'[d] \/ attempts[d] = "absent"
          /\ debit' \in [Entries -> BOOLEAN]
          /\ route' \in [Entries -> {"none", "issued", "reserving", "consumed"}]
      <3>1. CASE UNCHANGED <<route, debit>>
        BY <3>1, <1>t DEF RunnerTypeOK, AttemptStates
      <3>2. CASE MayAbandon(e) /\ Reissue(p)
        BY <3>2, Refunds DEF e
      <3> QED
        BY <1>6, <3>1, <3>2 DEF Abandon, e
    <2> QED
      BY <2>1, <2>2, <1>6, <1>t, QuietStep, TypeStep DEF Abandon, RunnerTypeOK, AttemptStates, counts, e
  <1>7. CASE Reserve(p)
    <2>1. /\ run' = [run EXCEPT ![p] = run'[p]] /\ run'[p] \in RunRow
          /\ run'[p].step \notin Open /\ run'[p].pos \in {1, e}
      <3>1. CASE Raise(p)
        BY <3>1, <1>m, <1>s
      <3>2. CASE run' = [run EXCEPT ![p].refund = TRUE, ![p].step = "prepare"]
        BY <3>2, <1>t, <1>s, Notes DEF e
      <3>3. CASE run' = [run EXCEPT ![p].refund = FALSE, ![p].step = "unwind"]
        BY <3>3, <1>t, <1>s, Notes DEF e
      <3> QED
        BY <1>7, <3>1, <3>2, <3>3 DEF Reserve
    <2>2. /\ \A d \in Entries : debit[d] => debit'[d] \/ attempts[d] = "absent"
          /\ debit' \in [Entries -> BOOLEAN]
      <3>1. debit' = debit \/ debit' = [debit EXCEPT ![e] = TRUE]
        BY <1>7 DEF Reserve, e
      <3> QED
        BY <3>1, <1>t DEF RunnerTypeOK, AttemptStates
    <2> QED
      BY <2>1, <2>2, <1>7, <1>t, QuietStep, TypeStep DEF Reserve, RunnerTypeOK, AttemptStates, counts, e
  <1>8. CASE Prepare(p)
    <2>1. /\ run' = [run EXCEPT ![p] = run'[p]] /\ run'[p] \in RunRow
          /\ run'[p].step \notin Open /\ run'[p].pos \in {1, e}
      BY <1>8, <1>m, <1>s DEF Prepare
    <2>2. CASE UNCHANGED attempts
      BY <2>1, <2>2, <1>8, <1>t, QuietStep, TypeStep DEF Prepare, RunnerTypeOK, AttemptStates, counts, e
    <2>3. CASE /\ attempts[e] \in {"absent", "prepared"}
               /\ attempts' = [attempts EXCEPT ![e] = "prepared"]
      <3>1. /\ attempts' \in [Entries -> {"absent", "prepared", "claimed", "accepted",
                                          "failed", "malformed", "blocked"}]
            /\ attempts' = [attempts EXCEPT ![e] = attempts'[e]]
            /\ attempts'[e] = "prepared"
            /\ \A d \in Entries : d < run'[p].pos => attempts'[d] \in Outcomes
        BY <2>1, <2>3, WriteStep DEF e
      <3>2. RunnerTypeOK'
        BY <3>1, <2>1, <1>8, <1>t, TypeStep DEF Prepare, RunnerTypeOK, AttemptStates, counts
      <3>3. /\ effects' = [effects EXCEPT ![e] = effects'[e]]
            /\ effects'[e] = effects[e]
            /\ debit' = debit
        BY <1>8, <1>t DEF Prepare, RunnerTypeOK, AttemptStates
      <3> QED
        BY <3>1, <3>2, <3>3, <2>1, <2>3, Moves DEF Lawful, e
    <2> QED
      BY <1>8, <2>2, <2>3 DEF Prepare, e
  <1>9. CASE Unwind(p)
    <2>1. /\ run' = [run EXCEPT ![p] = run'[p]] /\ run'[p] \in RunRow
          /\ run'[p].step \notin Open /\ run'[p].pos = 1
      BY <1>9, <1>m, <1>s DEF Unwind
    <2>2. /\ \A d \in Entries : debit[d] => debit'[d] \/ attempts[d] = "absent"
          /\ debit' \in [Entries -> BOOLEAN]
          /\ route' \in [Entries -> {"none", "issued", "reserving", "consumed"}]
      <3>1. CASE UNCHANGED <<route, debit>>
        BY <3>1, <1>t DEF RunnerTypeOK, AttemptStates
      <3>2. CASE MayAbandon(e) /\ Reissue(p)
        BY <3>2, Refunds DEF e
      <3> QED
        BY <1>9, <3>1, <3>2 DEF Unwind, e
    <2> QED
      BY <2>1, <2>2, <1>9, <1>t, QuietStep, TypeStep DEF Unwind, RunnerTypeOK, AttemptStates, counts, e
  <1>10. CASE Release(p)
    <2>1. /\ run' = [run EXCEPT ![p] = run'[p]] /\ run'[p] \in RunRow
          /\ run'[p].step \notin Open /\ run'[p].pos = 1
      BY <1>10, <1>m, <1>s DEF Release
    <2>2. /\ \A d \in Entries : debit[d] => debit'[d] \/ attempts[d] = "absent"
          /\ debit' \in [Entries -> BOOLEAN]
          /\ intent' \in [Entries -> BOOLEAN]
      <3>1. CASE UNCHANGED <<intent, debit>>
        BY <3>1, <1>t DEF RunnerTypeOK, AttemptStates
      <3>2. CASE /\ attempts[e] = "absent"
                 /\ intent' = [intent EXCEPT ![e] = FALSE]
                 /\ debit' = [debit EXCEPT ![e] = FALSE]
        BY <3>2, <1>t, Refunds DEF RunnerTypeOK, AttemptStates, e
      <3> QED
        BY <1>10, <3>1, <3>2 DEF Release, MayRelease, e
    <2> QED
      BY <2>1, <2>2, <1>10, <1>t, QuietStep, TypeStep DEF Release, RunnerTypeOK, AttemptStates, counts, e
  <1>11. CASE Commit(p)
    <2>1. /\ run' = [run EXCEPT ![p] = run'[p]] /\ run'[p] \in RunRow
          /\ run'[p].step \notin Open /\ run'[p].pos \in {1, e}
      BY <1>11, <1>m, <1>s DEF Commit
    <2>2. /\ intent' \in [Entries -> BOOLEAN]
          /\ route' \in [Entries -> {"none", "issued", "reserving", "consumed"}]
      BY <1>11, <1>t DEF Commit, RunnerTypeOK, AttemptStates, e
    <2> QED
      BY <2>1, <2>2, <1>11, <1>t, QuietStep, TypeStep DEF Commit, RunnerTypeOK, AttemptStates, counts, e
  <1>12. CASE Claim(p)
    <2>1. CASE Raise(p) /\ UNCHANGED attempts
      BY <2>1, <1>12, <1>m, <1>s, <1>t, QuietStep, TypeStep
         DEF Claim, RunnerTypeOK, AttemptStates, counts, e
    <2>2. CASE /\ attempts[e] = "prepared"
               /\ attempts' = [attempts EXCEPT ![e] = "claimed"]
               /\ GoTo(p, "dispatch")
      <3>1. /\ run' = [run EXCEPT ![p] = run'[p]] /\ run'[p] \in RunRow
            /\ run'[p].step = "dispatch" /\ run'[p].pos = e
        BY <2>2, <1>t DEF GoTo, RunnerTypeOK, AttemptStates, RunRow, Steps, e, Pos
      <3>2. /\ attempts' \in [Entries -> {"absent", "prepared", "claimed", "accepted",
                                          "failed", "malformed", "blocked"}]
            /\ attempts' = [attempts EXCEPT ![e] = attempts'[e]]
            /\ attempts'[e] = "claimed"
            /\ \A d \in Entries : d < run'[p].pos => attempts'[d] \in Outcomes
        BY <2>2, <3>1, WriteStep DEF e
      <3>3. RunnerTypeOK'
        BY <3>1, <3>2, <1>12, <1>t, TypeStep DEF Claim, RunnerTypeOK, AttemptStates, counts
      <3>4. /\ effects' = [effects EXCEPT ![e] = effects'[e]]
            /\ effects'[e] = effects[e]
            /\ debit' = debit
        BY <1>12, <1>t DEF Claim, RunnerTypeOK, AttemptStates
      <3> QED
        BY <3>1, <3>2, <3>3, <3>4, <2>2, Moves DEF Lawful, e
    <2> QED
      BY <1>12, <2>1, <2>2 DEF Claim, e
  <1>13. CASE Dispatch(p)
    <2>1. CASE Raise(p) /\ UNCHANGED <<attempts, effects>>
      BY <2>1, <1>13, <1>m, <1>s, <1>t, QuietStep, TypeStep
         DEF Dispatch, RunnerTypeOK, AttemptStates, counts, e
    <2>2. CASE /\ attempts' = [attempts EXCEPT ![e] = "blocked"]
               /\ Raise(p)
               /\ UNCHANGED effects
      <3>1. /\ run' = [run EXCEPT ![p] = run'[p]] /\ run'[p] \in RunRow
            /\ run'[p].step \notin Open /\ run'[p].pos = 1
        BY <2>2, <1>m, <1>s
      <3>2. /\ attempts' \in [Entries -> {"absent", "prepared", "claimed", "accepted",
                                          "failed", "malformed", "blocked"}]
            /\ attempts' = [attempts EXCEPT ![e] = attempts'[e]]
            /\ attempts'[e] = "blocked"
            /\ \A d \in Entries : d < run'[p].pos => attempts'[d] \in Outcomes
        BY <2>2, <3>1, WriteStep DEF e
      <3>3. RunnerTypeOK'
        BY <2>2, <3>1, <3>2, <1>13, <1>t, TypeStep DEF Dispatch, RunnerTypeOK, AttemptStates, counts
      <3>4. /\ effects' = [effects EXCEPT ![e] = effects'[e]]
            /\ effects'[e] = effects[e]
            /\ debit' = debit
        BY <2>2, <1>13, <1>t DEF Dispatch, RunnerTypeOK, AttemptStates
      <3>5. run[p].step \in Open /\ run[p].pos = e
        BY <1>13 DEF Dispatch, At, Open, e, Pos
      <3> QED
        BY <3>1, <3>2, <3>3, <3>4, <3>5, Moves DEF Lawful, e
    <2>3. CASE /\ debit[e]
               /\ effects' = [effects EXCEPT ![e] = @ + 1]
               /\ GoTo(p, "observe")
               /\ UNCHANGED attempts
      <3>1. /\ run' = [run EXCEPT ![p] = run'[p]] /\ run'[p] \in RunRow
            /\ run'[p].step = "observe" /\ run'[p].pos = e
        BY <2>3, <1>t DEF GoTo, RunnerTypeOK, AttemptStates, RunRow, Steps, e, Pos
      <3>2. /\ effects' \in [Entries -> Nat]
            /\ effects' = [effects EXCEPT ![e] = effects'[e]]
            /\ effects'[e] = effects[e] + 1
        BY <2>3, <1>t DEF RunnerTypeOK, AttemptStates
      <3>3. RunnerTypeOK'
        BY <2>3, <3>1, <3>2, <1>13, <1>t, TypeStep DEF Dispatch, RunnerTypeOK, AttemptStates, counts
      <3>4. /\ attempts' = [attempts EXCEPT ![e] = attempts'[e]]
            /\ attempts'[e] = attempts[e]
            /\ debit' = debit
        BY <2>3, <1>13, <1>t DEF Dispatch, RunnerTypeOK, AttemptStates
      <3>5. run[p].step = "dispatch" /\ run[p].pos = e
        BY <1>13 DEF Dispatch, At, e, Pos
      <3>6. /\ \A d \in Entries : d < run'[p].pos => attempts'[d] \in Outcomes
            /\ \A d \in Entries : d < e => attempts[d] \in Outcomes
        BY <3>1, <2>3, Moves DEF e
      <3> QED
        BY <2>3, <3>1, <3>2, <3>3, <3>4, <3>5, <3>6, <1>t DEF Lawful, e
    <2> QED
      BY <1>13, <2>1, <2>2, <2>3 DEF Dispatch, e
  <1>14. ASSUME NEW result \in {"accepted", "failed", "malformed", "blocked"},
                Observe(p, result)
         PROVE  Lawful(p, Pos(p)) /\ RunnerTypeOK'
    <2>1. /\ run' = [run EXCEPT ![p] = run'[p]] /\ run'[p] \in RunRow
          /\ run'[p].step \notin Open
          /\ run'[p].pos \in {1, e} \/ (run'[p].pos = e + 1 /\ result \in Outcomes)
      BY <1>14, Moves DEF Observe, e
    <2>2. /\ attempts' \in [Entries -> {"absent", "prepared", "claimed", "accepted",
                                        "failed", "malformed", "blocked"}]
          /\ attempts' = [attempts EXCEPT ![e] = attempts'[e]]
          /\ attempts'[e] = result
          /\ \A d \in Entries : d < run'[p].pos => attempts'[d] \in Outcomes
      <3>1. /\ attempts' = [attempts EXCEPT ![Pos(p)] = result]
            /\ result \in {"prepared", "claimed", "accepted", "failed", "malformed", "blocked"}
        BY <1>14 DEF Observe
      <3>2. \/ run'[p].pos \in {1, Pos(p)}
            \/ run'[p].pos = Pos(p) + 1 /\ result \in Outcomes
        BY <2>1 DEF e
      <3> HIDE DEF Outcomes
      <3> QED
        BY <3>1, <3>2, WriteStep DEF e
    <2>3. RunnerTypeOK'
      BY <2>1, <2>2, <1>14, <1>t, TypeStep DEF Observe, RunnerTypeOK, AttemptStates, counts
    <2>4. /\ effects' = [effects EXCEPT ![e] = effects'[e]]
          /\ effects'[e] = effects[e]
          /\ debit' = debit
      BY <1>14, <1>t DEF Observe, RunnerTypeOK, AttemptStates
    <2>5. run[p].step \in Open /\ run[p].pos = e
      BY <1>14 DEF Observe, At, Open, e, Pos
    <2> QED
      BY <2>1, <2>2, <2>3, <2>4, <2>5, Moves DEF Lawful, e
  <1>15. CASE ObserveDenial(p)
    <2>1. /\ run' = [run EXCEPT ![p] = run'[p]] /\ run'[p] \in RunRow
          /\ run'[p].step \notin Open /\ run'[p].pos = 1
      BY <1>15, <1>m, <1>s DEF ObserveDenial
    <2>2. /\ attempts' \in [Entries -> {"absent", "prepared", "claimed", "accepted",
                                        "failed", "malformed", "blocked"}]
          /\ attempts' = [attempts EXCEPT ![e] = attempts'[e]]
          /\ attempts'[e] = "blocked"
          /\ \A d \in Entries : d < run'[p].pos => attempts'[d] \in Outcomes
      BY <2>1, <1>15, WriteStep DEF ObserveDenial, e
    <2>3. RunnerTypeOK'
      <3>1. {crashes', stops', releases'} \subseteq Nat
        BY <1>15, <1>t DEF ObserveDenial, RunnerTypeOK, AttemptStates
      <3>2. stopped' \in BOOLEAN
        BY <1>15 DEF ObserveDenial
      <3> QED
        BY <3>1, <3>2, <2>1, <2>2, <1>15, <1>t, TypeStep DEF ObserveDenial, RunnerTypeOK, AttemptStates
    <2>4. /\ effects' = [effects EXCEPT ![e] = effects'[e]]
          /\ effects'[e] = effects[e]
          /\ debit' = debit
      BY <1>15, <1>t DEF ObserveDenial, RunnerTypeOK, AttemptStates
    <2>5. run[p].step \in Open /\ run[p].pos = e
      BY <1>15 DEF ObserveDenial, At, Open, e, Pos
    <2> QED
      BY <2>1, <2>2, <2>3, <2>4, <2>5, Moves DEF Lawful, e
  <1>16. CASE ObserveNothing(p)
    BY <1>16, <1>m, <1>s, <1>t, QuietStep, TypeStep
       DEF ObserveNothing, RunnerTypeOK, AttemptStates, ledgers, counts, e
  <1> QED
    BY <1>1, <1>2, <1>3, <1>4, <1>5, <1>6, <1>7, <1>8, <1>9, <1>10, <1>11, <1>12, <1>13,
       <1>14, <1>15, <1>16 DEF Step

-----------------------------------------------------------------------------
\* Starts and crashes are lawful too.
LEMMA StartIsLawful ==
    ASSUME NEW p \in Runners, RunnerInv, Start(p)
    PROVE  Lawful(p, 1) /\ RunnerTypeOK'
  <1>t. RunnerTypeOK /\ 1 \in Entries
    BY FirstEntry DEF RunnerInv
  <1>1. LET r == Locals("enter", 1) IN r \in RunRow /\ r.step = "enter" /\ r.pos = 1
    BY FirstEntry DEF Locals, RunRow, Steps
  <1>2. /\ run' = [run EXCEPT ![p] = run'[p]] /\ run'[p] \in RunRow
        /\ run'[p].step \notin Open /\ run'[p].pos = 1
    <2>1. run' = [run EXCEPT ![p] = Locals("enter", 1)]
      BY DEF Start
    <2> QED
      BY <2>1, <1>1, <1>t DEF RunnerTypeOK, AttemptStates, Open
  <1>3. /\ attempts' \in [Entries -> {"absent", "prepared", "claimed", "accepted",
                                      "failed", "malformed", "blocked"}]
        /\ attempts' = [attempts EXCEPT ![1] = attempts'[1]]
        /\ \/ attempts'[1] = attempts[1]
           \/ attempts[1] \in {"absent", "prepared"} /\ attempts'[1] = "prepared"
    BY <1>t DEF Start, RunnerTypeOK, AttemptStates
  <1>4. /\ effects' = [effects EXCEPT ![1] = effects'[1]]
        /\ effects'[1] = effects[1]
        /\ debit' = debit
    BY <1>t DEF Start, RunnerTypeOK, AttemptStates
  <1>5. RunnerTypeOK'
    BY <1>2, <1>3, <1>t, TypeStep DEF Start, RunnerTypeOK, AttemptStates, counts
  <1>6. \A d \in Entries : ~(d < 1)
    BY FirstEntry
  <1> QED
    BY <1>2, <1>3, <1>4, <1>5, <1>6, <1>t DEF Lawful

\* So is its end, also inside a refund.
LEMMA CrashIsLawful ==
    ASSUME NEW p \in Runners, RunnerInv, Crash(p) \/ CrashInRefund(p)
    PROVE  Lawful(p, Pos(p)) /\ RunnerTypeOK'
  <1>t. RunnerTypeOK /\ Pos(p) \in Entries
    BY Moves DEF RunnerInv
  <1>1. /\ run' = [run EXCEPT ![p] = run'[p]] /\ run'[p] \in RunRow
        /\ run'[p].step \notin Open /\ run'[p].pos = 1
    BY Moves DEF Crash, CrashInRefund, Open
  <1>2. {crashes', stops', releases'} \subseteq Nat
    BY <1>t DEF Crash, CrashInRefund, RunnerTypeOK, AttemptStates
  <1>3. CASE Crash(p)
    BY <1>1, <1>2, <1>3, <1>t, QuietStep, TypeStep DEF Crash, RunnerTypeOK, AttemptStates, ledgers
  <1>4. CASE CrashInRefund(p)
    <2>1. attempts[Pos(p)] = "absent" /\ debit' = [debit EXCEPT ![Pos(p)] = FALSE]
      BY <1>4 DEF CrashInRefund, MayAbandon, MayRelease
    <2>2. /\ \A d \in Entries : debit[d] => debit'[d] \/ attempts[d] = "absent"
          /\ debit' \in [Entries -> BOOLEAN]
      BY <2>1, Refunds
    <2> QED
      BY <1>1, <1>2, <1>4, <2>2, <1>t, QuietStep, TypeStep DEF CrashInRefund, RunnerTypeOK, AttemptStates
  <1> QED
    BY <1>3, <1>4

\* The invariant is inductive.
LEMMA RunnerStep == RunnerInv /\ [Next]_vars => RunnerInv'
  <1> SUFFICES ASSUME RunnerInv, [Next]_vars PROVE RunnerInv'
    OBVIOUS
  <1>t. RunnerTypeOK
    BY DEF RunnerInv
  <1>1. ASSUME NEW p \in Runners, Step(p) PROVE RunnerInv'
    <2>1. Pos(p) \in Entries
      BY Moves
    <2> QED
      BY <1>1, <2>1, StepIsLawful, LawfulStep
  <1>2. ASSUME NEW p \in Runners, Start(p) PROVE RunnerInv'
    BY <1>2, StartIsLawful, LawfulStep, FirstEntry
  <1>3. ASSUME NEW p \in Runners, Crash(p) \/ CrashInRefund(p) PROVE RunnerInv'
    <2>1. Pos(p) \in Entries
      BY Moves
    <2> QED
      BY <1>3, <2>1, CrashIsLawful, LawfulStep
  <1>4. CASE UNCHANGED <<attempts, route, intent, debit, run, effects>> /\ RunnerTypeOK'
    BY <1>4 DEF RunnerInv, OneEffectPerAttempt, EffectsArePaid, SuccessorsWait,
                ClaimsAreHeld, ClaimsAreApart, EffectsAreClaimed, RunnersWait
  <1>5. CASE \/ \E p \in Runners : AcquireLease(p)
             \/ ReleaseLease \/ StopScope \/ ClearScope
             \/ UNCHANGED vars
    <2>1. UNCHANGED <<attempts, route, intent, debit, run, effects>>
      BY <1>5 DEF AcquireLease, ReleaseLease, StopScope, ClearScope, ledgers, vars
    <2>2. current' \subseteq Runners
      BY <1>5, <1>t DEF AcquireLease, ReleaseLease, StopScope, ClearScope, RunnerTypeOK, AttemptStates, vars
    <2>3. stopped' \in BOOLEAN
      BY <1>5, <1>t DEF AcquireLease, ReleaseLease, StopScope, ClearScope, RunnerTypeOK, AttemptStates, vars
    <2>4. {crashes', stops', releases'} \subseteq Nat
      BY <1>5, <1>t
         DEF AcquireLease, ReleaseLease, StopScope, ClearScope, RunnerTypeOK, AttemptStates, vars, counts
    <2>5. RunnerTypeOK'
      BY <2>1, <2>2, <2>3, <2>4, <1>t DEF RunnerTypeOK, AttemptStates
    <2> QED
      BY <1>4, <2>1, <2>5
  <1> QED
    BY <1>1, <1>2, <1>3, <1>5 DEF Next

\* The inductive invariant holds in every reachable state.
THEOREM RunnerInvariant == Spec => []RunnerInv
  BY InitialRunners, RunnerStep, PTL DEF Spec

\* OneEffectPerAttempt, for any number of runners: a native effect is not repeated.
THEOREM EffectsHappenOnce == Spec => []OneEffectPerAttempt
  <1>1. RunnerInv => OneEffectPerAttempt
    BY DEF RunnerInv
  <1> QED
    BY <1>1, RunnerInvariant, PTL

\* EffectsArePaid, for any number of runners: the debit of an effect is not refunded.
THEOREM EffectsStayPaid == Spec => []EffectsArePaid
  <1>1. RunnerInv => EffectsArePaid
    BY DEF RunnerInv
  <1> QED
    BY <1>1, RunnerInvariant, PTL

\* SuccessorsWait, for any number of runners and entries.
THEOREM OneEntryAtATime == Spec => []SuccessorsWait
  <1>1. RunnerInv => SuccessorsWait
    BY DEF RunnerInv
  <1> QED
    BY <1>1, RunnerInvariant, PTL

\* SpentRouteStaysSpent, for any number of runners: only an abandonment reissues a route,
\* and it looks for a successor in the same transaction.
THEOREM RoutesStaySpent == Spec => SpentRouteStaysSpent
  <1> DEFINE Kept == \A e \in Entries :
                        attempts[e] # "absent" /\ route[e] \in {"reserving", "consumed"}
                           => route'[e] # "issued"
  <1>1. ASSUME RunnerInv, [Next]_vars PROVE [Kept]_vars
    <2>t. RunnerTypeOK
      BY <1>1 DEF RunnerInv
    <2>1. CASE route' = route
      BY <2>1, <2>t DEF RunnerTypeOK, AttemptStates
    <2>2. ASSUME NEW p \in Runners, route' = [route EXCEPT ![Pos(p)] = "issued"],
                 attempts[Pos(p)] = "absent" \/ route[Pos(p)] = "none"
          PROVE  Kept
      BY <2>2, <2>t DEF RunnerTypeOK, AttemptStates
    <2>3. ASSUME NEW p \in Runners, NEW v \in {"reserving", "consumed"},
                 route' = [route EXCEPT ![Pos(p)] = v]
          PROVE  Kept
      BY <2>3, <2>t DEF RunnerTypeOK, AttemptStates
    <2>4. ASSUME NEW p \in Runners, Step(p) PROVE Kept
      <3>1. CASE Authorize(p)
        BY <3>1, <2>1, <2>2 DEF Authorize
      <3>2. CASE BeginRoute(p)
        BY <3>2, <2>1, <2>3 DEF BeginRoute
      <3>3. CASE Abandon(p) \/ Unwind(p)
        BY <3>3, <2>1, <2>2 DEF Abandon, Unwind, Reissue, MayAbandon
      <3>4. CASE Commit(p)
        BY <3>4, <2>1, <2>3 DEF Commit
      <3>5. CASE Enter(p) \/ Reconcile(p) \/ ObserveNothing(p)
        BY <3>5, <2>1 DEF Enter, Reconcile, ObserveNothing, ledgers
      <3>6. CASE BeginIntent(p) \/ Reserve(p) \/ Prepare(p) \/ Release(p)
        BY <3>6, <2>1 DEF BeginIntent, Reserve, Prepare, Release
      <3>7. CASE \/ Claim(p) \/ Dispatch(p) \/ ObserveDenial(p)
                 \/ \E result \in {"accepted", "failed", "malformed", "blocked"} :
                       Observe(p, result)
        BY <3>7, <2>1 DEF Claim, Dispatch, ObserveDenial, Observe
      <3> QED
        BY <2>4, <3>1, <3>2, <3>3, <3>4, <3>5, <3>6, <3>7 DEF Step
    <2>5. ASSUME NEW p \in Runners,
                 Start(p) \/ Crash(p) \/ CrashInRefund(p) \/ AcquireLease(p)
          PROVE  Kept
      BY <2>5, <2>1 DEF Start, Crash, CrashInRefund, AcquireLease, ledgers
    <2>6. CASE ReleaseLease \/ StopScope \/ ClearScope \/ UNCHANGED vars
      BY <2>6, <2>1 DEF ReleaseLease, StopScope, ClearScope, ledgers, vars
    <2> QED
      BY <1>1, <2>4, <2>5, <2>6 DEF Next
  <1> QED
    BY <1>1, RunnerInvariant, PTL DEF Spec, SpentRouteStaysSpent

-----------------------------------------------------------------------------
\* Every entry uses the one fence of its kind.
FencesAreTheirKinds ==
    \A e \in Entries : IF Kinds[e] = "fallback" THEN ~intent[e] ELSE route[e] = "none"

\* What a lone runner at entry e knows of the ledgers at each of its steps.
Knows(r, e) ==
    /\ r.step \notin {"idle", "authorize"} /\ e > 1 => Authorized(e)
    /\ r.step \in {"authorize", "enter", "begin", "reconcile", "abandon", "rebegin"} =>
          ~r.acquired /\ ~r.created
    /\ r.step \in {"begin", "reconcile", "abandon", "rebegin"} => attempts[e] = "absent"
    /\ r.step \in {"reconcile", "abandon", "rebegin"} => Kinds[e] = "fallback"
    /\ r.step = "abandon" => r.refund = debit[e]
    /\ r.step = "rebegin" => route[e] = "issued"
    /\ r.step = "reserve" =>
          IF Kinds[e] = "fallback" THEN route[e] = "reserving" /\ ~debit[e]
          ELSE /\ attempts[e] # "absent" \/ intent[e]
               /\ debit[e] => ~r.created
    /\ r.step = "prepare" =>
          /\ debit[e]
          /\ Kinds[e] = "fallback" => route[e] \in {"reserving", "consumed"}
          /\ r.acquired => r.refund
    /\ r.step = "unwind" => r.refund

\* The ledgers of a lone runner are in order, and what it knows of them is right.
LoneInv(p) ==
    /\ DebitsAreOwned
    /\ PreparedIsResumable
    /\ FencesAreTheirKinds
    /\ Knows(run[p], run[p].pos)

\* What a step of a lone runner leaves of the ledgers, at its entry e only.
LoneLawful(e) ==
    /\ attempts' = [attempts EXCEPT ![e] = attempts'[e]]
    /\ route' = [route EXCEPT ![e] = route'[e]]
    /\ intent' = [intent EXCEPT ![e] = intent'[e]]
    /\ debit' = [debit EXCEPT ![e] = debit'[e]]
    /\ attempts[e] \in Outcomes => attempts'[e] = attempts[e] /\ (debit[e] => debit'[e])
    /\ debit'[e] => attempts'[e] # "absent" \/ intent'[e] \/ route'[e] = "reserving"
    /\ attempts'[e] = "prepared" /\ Kinds[e] # "initial" =>
          /\ Authorized(e) /\ debit'[e]
          /\ Kinds[e] = "fallback" => route'[e] \in {"reserving", "consumed"}
    /\ IF Kinds[e] = "fallback" THEN ~intent'[e] ELSE route'[e] = "none"

\* The kinds of entries, and the entry before one that is not the first.
LEMMA KindsOfEntries ==
    /\ \A e \in Entries : Kinds[e] \in {"initial", "format", "fallback"}
    /\ \A e \in Entries : Kinds[e] = "initial" <=> e = 1
    /\ \A e \in Entries : e # 1 => e - 1 \in Entries /\ e - 1 # e /\ e > 1
    /\ \A e \in Entries : e \in Nat
  BY RunnerAssumption DEF Entries

\* The ledgers stay in order under such a step.
LEMMA LoneLedgers ==
    ASSUME RunnerTypeOK, NEW e \in Entries, LoneLawful(e),
           DebitsAreOwned, PreparedIsResumable, FencesAreTheirKinds
    PROVE  /\ DebitsAreOwned' /\ PreparedIsResumable' /\ FencesAreTheirKinds'
           /\ e # 1 /\ Authorized(e) => Authorized(e)'
  <1>1. /\ \A d \in Entries \ {e} : /\ attempts'[d] = attempts[d] /\ route'[d] = route[d]
                                    /\ intent'[d] = intent[d] /\ debit'[d] = debit[d]
    BY DEF LoneLawful, RunnerTypeOK
  <1>2. DebitsAreOwned'
    BY <1>1 DEF DebitsAreOwned, LoneLawful
  <1>3. FencesAreTheirKinds'
    BY <1>1 DEF FencesAreTheirKinds, LoneLawful
  <1>4. ASSUME NEW d \in Entries, d # 1, Authorized(d) PROVE Authorized(d)'
    <2>1. d - 1 \in Entries
      BY <1>4, KindsOfEntries
    <2>2. attempts'[d - 1] = attempts[d - 1] /\ (debit[d - 1] => debit'[d - 1])
      BY <1>1, <1>4, <2>1 DEF LoneLawful, Authorized, Outcomes
    <2> QED
      BY <1>4, <2>2 DEF Authorized
  <1>5. PreparedIsResumable'
    <2> SUFFICES ASSUME NEW d \in Entries, attempts'[d] = "prepared", Kinds[d] # "initial"
                 PROVE  Resumable(d)'
      BY DEF PreparedIsResumable
    <2>1. d # 1 /\ Kinds[d] \in {"format", "fallback"}
      BY KindsOfEntries
    <2>2. /\ Authorized(d) /\ debit'[d]
          /\ Kinds[d] = "fallback" => route'[d] \in {"reserving", "consumed"}
      <3>1. CASE d = e
        BY <3>1 DEF LoneLawful
      <3>2. CASE d # e
        <4>1. attempts[d] = "prepared" /\ debit'[d] = debit[d] /\ route'[d] = route[d]
          BY <1>1, <3>2
        <4>2. Resumable(d)
          BY <4>1 DEF PreparedIsResumable
        <4> QED
          BY <2>1, <4>1, <4>2 DEF Resumable
      <3> QED
        BY <3>1, <3>2
    <2>3. Authorized(d)'
      BY <1>4, <2>1, <2>2
    <2> QED
      BY <2>1, <2>2, <2>3 DEF Resumable
  <1> QED
    BY <1>2, <1>3, <1>4, <1>5

\* A step that leaves the ledgers alone.
LEMMA LoneUnchanged ==
    ASSUME RunnerTypeOK, NEW e \in Entries, UNCHANGED ledgers,
           DebitsAreOwned, PreparedIsResumable, FencesAreTheirKinds
    PROVE  LoneLawful(e)
  <1>1. attempts' = attempts /\ route' = route /\ intent' = intent /\ debit' = debit
    BY DEF ledgers
  <1>2. /\ attempts' = [attempts EXCEPT ![e] = attempts'[e]]
        /\ route' = [route EXCEPT ![e] = route'[e]]
        /\ intent' = [intent EXCEPT ![e] = intent'[e]]
        /\ debit' = [debit EXCEPT ![e] = debit'[e]]
    BY <1>1 DEF RunnerTypeOK
  <1>3. attempts[e] = "prepared" /\ Kinds[e] # "initial" =>
          /\ Authorized(e) /\ debit[e]
          /\ Kinds[e] = "fallback" => route[e] \in {"reserving", "consumed"}
    BY KindsOfEntries DEF PreparedIsResumable, Resumable
  <1>4. debit[e] => attempts[e] # "absent" \/ intent[e] \/ route[e] = "reserving"
    BY DEF DebitsAreOwned
  <1>5. IF Kinds[e] = "fallback" THEN ~intent[e] ELSE route[e] = "none"
    BY DEF FencesAreTheirKinds
  <1> QED
    BY <1>1, <1>2, <1>3, <1>4, <1>5 DEF LoneLawful

\* What a runner's locals are after it notes something and moves on.
Noted(p, step, acquired, created, refund) ==
    /\ run'[p].step = step /\ run'[p].pos = Pos(p)
    /\ run'[p].acquired = acquired /\ run'[p].created = created /\ run'[p].refund = refund

\* The ways a runner moves on, and the locals it then has.
LEMMA NoteFields ==
    ASSUME NEW p \in Runners, RunnerTypeOK, NEW step \in Steps, NEW b \in BOOLEAN
    PROVE  /\ GoTo(p, step) => Noted(p, step, run[p].acquired, run[p].created, run[p].refund)
           /\ run' = [run EXCEPT ![p].existing = b, ![p].step = step] =>
                 Noted(p, step, run[p].acquired, run[p].created, run[p].refund)
           /\ run' = [run EXCEPT ![p].created = b, ![p].step = step] =>
                 Noted(p, step, run[p].acquired, b, run[p].refund)
           /\ run' = [run EXCEPT ![p].acquired = b, ![p].step = step] =>
                 Noted(p, step, b, run[p].created, run[p].refund)
           /\ run' = [run EXCEPT ![p].refund = b, ![p].step = step] =>
                 Noted(p, step, run[p].acquired, run[p].created, b)
           /\ run' = [run EXCEPT ![p].refund = b] =>
                 Noted(p, run[p].step, run[p].acquired, run[p].created, b)
           /\ Raise(p) => run'[p].step = "idle"
           /\ \A state : Advance(p, state) =>
                 /\ run'[p].step \in {"idle", "authorize"}
                 /\ ~run'[p].acquired /\ ~run'[p].created
  <1>1. run \in [Runners -> RunRow] /\ run[p] \in RunRow
    BY DEF RunnerTypeOK, RunRow
  <1>2. ASSUME NEW r \in RunRow, run' = [run EXCEPT ![p] = r], r.pos = run[p].pos
        PROVE  Noted(p, r.step, r.acquired, r.created, r.refund)
    BY <1>1, <1>2 DEF Noted, Pos
  <1>3. GoTo(p, step) => Noted(p, step, run[p].acquired, run[p].created, run[p].refund)
    <2> DEFINE r == [run[p] EXCEPT !.step = step]
    <2>1. /\ r \in RunRow /\ r.step = step /\ r.pos = run[p].pos /\ r.acquired = run[p].acquired
          /\ r.created = run[p].created /\ r.refund = run[p].refund
      BY <1>1 DEF RunRow
    <2>2. GoTo(p, step) => run' = [run EXCEPT ![p] = r]
      BY <1>1 DEF GoTo
    <2> HIDE DEF r
    <2> QED
      BY <1>2, <2>1, <2>2
  <1>4. run' = [run EXCEPT ![p].existing = b, ![p].step = step] =>
           Noted(p, step, run[p].acquired, run[p].created, run[p].refund)
    <2> DEFINE r == [run[p] EXCEPT !.existing = b, !.step = step]
    <2>1. /\ r \in RunRow /\ r.step = step /\ r.pos = run[p].pos /\ r.acquired = run[p].acquired
          /\ r.created = run[p].created /\ r.refund = run[p].refund
      BY <1>1 DEF RunRow
    <2>2. run' = [run EXCEPT ![p].existing = b, ![p].step = step] => run' = [run EXCEPT ![p] = r]
      BY <1>1
    <2> HIDE DEF r
    <2> QED
      BY <1>2, <2>1, <2>2
  <1>5. run' = [run EXCEPT ![p].created = b, ![p].step = step] =>
           Noted(p, step, run[p].acquired, b, run[p].refund)
    <2> DEFINE r == [run[p] EXCEPT !.created = b, !.step = step]
    <2>1. /\ r \in RunRow /\ r.step = step /\ r.pos = run[p].pos /\ r.acquired = run[p].acquired
          /\ r.created = b /\ r.refund = run[p].refund
      BY <1>1 DEF RunRow
    <2>2. run' = [run EXCEPT ![p].created = b, ![p].step = step] => run' = [run EXCEPT ![p] = r]
      BY <1>1
    <2> HIDE DEF r
    <2> QED
      BY <1>2, <2>1, <2>2
  <1>6. run' = [run EXCEPT ![p].acquired = b, ![p].step = step] =>
           Noted(p, step, b, run[p].created, run[p].refund)
    <2> DEFINE r == [run[p] EXCEPT !.acquired = b, !.step = step]
    <2>1. /\ r \in RunRow /\ r.step = step /\ r.pos = run[p].pos /\ r.acquired = b
          /\ r.created = run[p].created /\ r.refund = run[p].refund
      BY <1>1 DEF RunRow
    <2>2. run' = [run EXCEPT ![p].acquired = b, ![p].step = step] => run' = [run EXCEPT ![p] = r]
      BY <1>1
    <2> HIDE DEF r
    <2> QED
      BY <1>2, <2>1, <2>2
  <1>7. run' = [run EXCEPT ![p].refund = b, ![p].step = step] =>
           Noted(p, step, run[p].acquired, run[p].created, b)
    <2> DEFINE r == [run[p] EXCEPT !.refund = b, !.step = step]
    <2>1. /\ r \in RunRow /\ r.step = step /\ r.pos = run[p].pos /\ r.acquired = run[p].acquired
          /\ r.created = run[p].created /\ r.refund = b
      BY <1>1 DEF RunRow
    <2>2. run' = [run EXCEPT ![p].refund = b, ![p].step = step] => run' = [run EXCEPT ![p] = r]
      BY <1>1
    <2> HIDE DEF r
    <2> QED
      BY <1>2, <2>1, <2>2
  <1>8. run' = [run EXCEPT ![p].refund = b] =>
           Noted(p, run[p].step, run[p].acquired, run[p].created, b)
    <2> DEFINE r == [run[p] EXCEPT !.refund = b]
    <2>1. /\ r \in RunRow /\ r.step = run[p].step /\ r.pos = run[p].pos
          /\ r.acquired = run[p].acquired /\ r.created = run[p].created /\ r.refund = b
      BY <1>1 DEF RunRow
    <2>2. run' = [run EXCEPT ![p].refund = b] => run' = [run EXCEPT ![p] = r]
      BY <1>1
    <2> HIDE DEF r
    <2> QED
      BY <1>2, <2>1, <2>2
  <1>9. Raise(p) => run'[p].step = "idle"
    BY <1>1 DEF Raise, Idle, Locals
  <1>10. ASSUME NEW state, Advance(p, state) 
         PROVE  /\ run'[p].step \in {"idle", "authorize"}
                /\ ~run'[p].acquired /\ ~run'[p].created
    <2>1. CASE Raise(p)
      BY <1>1, <2>1 DEF Raise, Idle, Locals
    <2>2. CASE run' = [run EXCEPT ![p] = Locals("authorize", Pos(p) + 1)]
      BY <1>1, <2>2 DEF Locals
    <2> QED
      BY <1>10, <2>1, <2>2 DEF Advance
  <1> QED
    BY <1>3, <1>4, <1>5, <1>6, <1>7, <1>8, <1>9, <1>10

\* After such a step the runner's knowledge is all that is left to show.
LEMMA LoneMoved ==
    ASSUME NEW p \in Runners, RunnerTypeOK, NEW e \in Entries, LoneLawful(e), LoneInv(p),
           Knows(run[p], run[p].pos)'
    PROVE  LoneInv(p)'
  BY LoneLedgers DEF LoneInv

\* A runner that raised or went on to the next entry needs to know nothing yet.
LEMMA KnowsNothing ==
    ASSUME NEW p \in Runners, RunnerTypeOK,
           \/ Raise(p)
           \/ \E state : Advance(p, state)
    PROVE  Knows(run[p], run[p].pos)'
  <1>1. /\ run'[p].step \in {"idle", "authorize"}
        /\ run'[p].step # "idle" => ~run'[p].acquired /\ ~run'[p].created
    BY NoteFields DEF Steps
  <1> QED
    BY <1>1 DEF Knows

\* Every step of a lone runner keeps the ledgers in order and its knowledge right.
LEMMA LoneStep ==
    ASSUME NEW p \in Runners, RunnerInv, LoneInv(p),
           Start(p) \/ Step(p) \/ Crash(p) \/ CrashInRefund(p)
    PROVE  LoneInv(p)'
  <1> PICK e : e = Pos(p)
    OBVIOUS
  <1>t. /\ RunnerTypeOK /\ e \in Entries /\ e = run[p].pos
        /\ attempts \in [Entries -> AttemptStates]
        /\ route \in [Entries -> {"none", "issued", "reserving", "consumed"}]
        /\ intent \in [Entries -> BOOLEAN]
        /\ debit \in [Entries -> BOOLEAN]
        /\ run[p] \in RunRow
    BY Moves DEF RunnerInv, RunnerTypeOK, Pos
  <1>k. Knows(run[p], e) /\ DebitsAreOwned /\ PreparedIsResumable /\ FencesAreTheirKinds
    BY <1>t DEF LoneInv
  <1>f. \A d \in Entries : IF Kinds[d] = "fallback" THEN ~intent[d] ELSE route[d] = "none"
    BY <1>k DEF FencesAreTheirKinds
  <1>o. \A d \in Entries : debit[d] => attempts[d] # "absent" \/ intent[d] \/ route[d] = "reserving"
    BY <1>k DEF DebitsAreOwned
  <1>r. \A d \in Entries : attempts[d] = "prepared" /\ Kinds[d] # "initial" =>
           /\ Authorized(d) /\ debit[d]
           /\ Kinds[d] = "fallback" => route[d] \in {"reserving", "consumed"}
    BY <1>k, KindsOfEntries DEF PreparedIsResumable, Resumable
  <1>c. run[p].step \in {"dispatch", "observe"} => attempts[e] = "claimed"
    BY <1>t DEF RunnerInv, ClaimsAreHeld
  <1>u. ASSUME UNCHANGED ledgers, Knows(run[p], run[p].pos)' PROVE LoneInv(p)'
    BY <1>u, <1>t, <1>k, LoneUnchanged, LoneMoved
  <1>m. ASSUME LoneLawful(e), Knows(run[p], run[p].pos)' PROVE LoneInv(p)'
    BY <1>m, <1>t, LoneMoved
  <1>1. CASE Start(p)
    <2>1. LoneLawful(1)
      BY <1>1, <1>t, <1>f, <1>o, <1>r, FirstEntry, KindsOfEntries
         DEF Start, LoneLawful, Outcomes, AttemptStates
    <2>2. /\ run'[p].step = "enter" /\ run'[p].pos = 1
          /\ ~run'[p].acquired /\ ~run'[p].created
      BY <1>1, <1>t DEF Start, Locals, RunnerTypeOK
    <2>3. Knows(run[p], run[p].pos)'
      BY <2>2 DEF Knows
    <2> QED
      BY <2>1, <2>3, <1>t, LoneMoved, FirstEntry
  <1>2. CASE Authorize(p)
    <2>1. LoneLawful(e)
      BY <1>2, <1>t, <1>f, <1>o, <1>r, KindsOfEntries
         DEF Authorize, LoneLawful, Outcomes, AttemptStates, Kind, Pos
    <2>2. CASE Raise(p)
      BY <2>1, <2>2, <1>m, <1>t, KnowsNothing
    <2>3. CASE Authorized(e) /\ GoTo(p, "enter")
      <3>1. Noted(p, "enter", run[p].acquired, run[p].created, run[p].refund)
        BY <2>3, <1>t, NoteFields DEF Steps
      <3>2. e # 1 => Authorized(e)'
        BY <2>1, <2>3, <1>t, <1>k, LoneLedgers
      <3>3. ~run[p].acquired /\ ~run[p].created
        BY <1>2, <1>k DEF Knows, Authorize, At
      <3>4. Knows(run[p], run[p].pos)'
        BY <3>1, <3>2, <3>3, <1>t DEF Knows, Noted, Pos, Authorized
      <3> QED
        BY <2>1, <3>4, <1>m
    <2> QED
      BY <1>2, <2>2, <2>3, <1>t DEF Authorize, Pos
  <1>n. ASSUME NEW step \in Steps, GoTo(p, step)
        PROVE  Noted(p, step, run[p].acquired, run[p].created, run[p].refund)
    BY <1>n, <1>t, NoteFields
  <1>a. e # 1 /\ run[p].step \notin {"idle", "authorize"} => Authorized(e)
    BY <1>k, <1>t, KindsOfEntries DEF Knows
  <1>b. ASSUME LoneLawful(e), run[p].step \notin {"idle", "authorize"}
        PROVE  e # 1 => Authorized(e)'
    BY <1>b, <1>a, <1>t, <1>k, LoneLedgers
  <1>3. CASE Enter(p)
    <2>1. UNCHANGED ledgers /\ LoneLawful(e) /\ run[p].step = "enter"
      BY <1>3, <1>t, <1>k, LoneUnchanged DEF Enter, At
    <2>2. CASE Raise(p) \/ \E state : Advance(p, state)
      BY <2>1, <2>2, <1>u, <1>t, KnowsNothing
    <2>3. CASE attempts[e] = "absent" /\ GoTo(p, "begin")
      <3>1. Noted(p, "begin", run[p].acquired, run[p].created, run[p].refund)
        BY <2>3, <1>n DEF Steps
      <3>2. Knows(run[p], run[p].pos)'
        BY <3>1, <2>1, <2>3, <1>b, <1>k, <1>t DEF Knows, Noted, Pos, ledgers
      <3> QED
        BY <2>1, <3>2, <1>u
    <2>4. CASE /\ attempts[e] = "prepared"
               /\ run' = [run EXCEPT ![p].existing = TRUE,
                                     ![p].step = IF debit[e] THEN "prepare" ELSE "reserve"]
      <3> DEFINE next == IF debit[e] THEN "prepare" ELSE "reserve"
      <3>1. next \in Steps
        BY DEF Steps
      <3>2. Noted(p, next, run[p].acquired, run[p].created, run[p].refund)
        <4> HIDE DEF next
        <4> QED BY <2>4, <3>1, <1>t, NoteFields DEF next
      <3>3. Knows(run[p], run[p].pos)'
        BY <3>2, <2>1, <2>4, <1>b, <1>k, <1>r, <1>t, KindsOfEntries DEF Knows, Noted, Pos, ledgers
      <3> QED
        BY <2>1, <3>3, <1>u
    <2> QED
      BY <1>3, <2>2, <2>3, <2>4, <1>t DEF Enter, Pos
  <1>4. CASE BeginIntent(p)
    <2>1. LoneLawful(e) /\ run[p].step = "begin" /\ Kinds[e] # "fallback"
      BY <1>4, <1>t, <1>f, <1>o, <1>r, KindsOfEntries
         DEF BeginIntent, LoneLawful, Outcomes, AttemptStates, Kind, Pos, At
    <2>2. CASE Raise(p)
      BY <2>1, <2>2, <1>m, <1>t, KnowsNothing
    <2>3. CASE /\ run' = [run EXCEPT ![p].created = ~intent[e], ![p].step = "reserve"]
               /\ intent' = [intent EXCEPT ![e] = TRUE]
      <3>1. Noted(p, "reserve", run[p].acquired, ~intent[e], run[p].refund)
        BY <2>3, <1>t, NoteFields DEF Steps
      <3>2. debit[e] => intent[e]
        BY <2>1, <1>f, <1>o, <1>k, <1>t DEF Knows
      <3>3. intent'[e] /\ debit' = debit
        BY <1>4, <2>3, <1>t DEF BeginIntent
      <3>4. /\ run'[p].step = "reserve" /\ run'[p].pos = e
            /\ debit'[e] => ~run'[p].created
        BY <3>1, <3>2, <3>3, <1>t DEF Noted, Pos
      <3>5. e # 1 => Authorized(e)'
        BY <2>1, <1>b
      <3>6. Knows(run[p], run[p].pos)'
        BY <3>3, <3>4, <3>5, <2>1, <1>t DEF Knows
      <3> QED
        BY <2>1, <3>6, <1>m
    <2> QED
      BY <1>4, <2>2, <2>3, <1>t DEF BeginIntent, Pos
  <1>5. CASE BeginRoute(p)
    <2>1. /\ Kinds[e] = "fallback" /\ attempts[e] = "absent"
          /\ ~run[p].acquired /\ ~run[p].created
          /\ run[p].step \in {"begin", "rebegin"}
          /\ UNCHANGED <<attempts, intent, debit>>
      BY <1>5, <1>k, <1>t DEF BeginRoute, Knows, Kind, Pos, At
    <2>2. CASE Raise(p) /\ UNCHANGED route
      BY <2>1, <2>2, <1>u, <1>t, KnowsNothing DEF ledgers
    <2>3. CASE /\ route[e] = "issued"
               /\ route' = [route EXCEPT ![e] = "reserving"]
               /\ run' = [run EXCEPT ![p].acquired = TRUE, ![p].step = "reserve"]
      <3>1. LoneLawful(e)
        BY <2>1, <2>3, <1>t, <1>f DEF LoneLawful, Outcomes
      <3>2. Noted(p, "reserve", TRUE, run[p].created, run[p].refund)
        BY <2>3, <1>t, NoteFields DEF Steps
      <3>3. ~debit'[e] /\ route'[e] = "reserving"
        BY <2>1, <2>3, <1>o, <1>f, <1>t
      <3>4. Knows(run[p], run[p].pos)'
        BY <3>1, <3>2, <3>3, <2>1, <1>b, <1>t DEF Knows, Noted, Pos
      <3> QED
        BY <3>1, <3>4, <1>m
    <2>4. CASE /\ route[e] = "reserving" /\ UNCHANGED route
               /\ GoTo(p, IF At(p, "begin") THEN "reconcile" ELSE "reserve")
      <3>1. UNCHANGED ledgers /\ LoneLawful(e)
        BY <2>1, <2>4, <1>t, <1>k, LoneUnchanged DEF ledgers
      <3>2. At(p, "begin")
        BY <2>1, <2>4, <1>k DEF Knows, At
      <3>3. Noted(p, "reconcile", run[p].acquired, run[p].created, run[p].refund)
        BY <2>4, <3>2, <1>n DEF Steps
      <3>4. Knows(run[p], run[p].pos)'
        BY <3>1, <3>3, <2>1, <1>b, <1>t DEF Knows, Noted, Pos
      <3> QED
        BY <3>1, <3>4, <1>u
    <2> QED
      BY <1>5, <2>2, <2>3, <2>4, <1>t DEF BeginRoute, Pos
  <1>6. CASE Reconcile(p)
    <2>1. UNCHANGED ledgers /\ LoneLawful(e) /\ run[p].step = "reconcile"
      BY <1>6, <1>t, <1>k, LoneUnchanged DEF Reconcile, At
    <2>2. Noted(p, "abandon", run[p].acquired, run[p].created, debit[e])
      BY <1>6, <1>t, NoteFields DEF Steps, Reconcile
    <2>3. Knows(run[p], run[p].pos)'
      BY <2>1, <2>2, <1>b, <1>k, <1>t DEF Knows, Noted, Pos, ledgers
    <2> QED
      BY <2>1, <2>3, <1>u
  <1>7. CASE Abandon(p)
    <2>1. /\ run[p].step = "abandon" /\ run[p].refund = debit[e]
          /\ Kinds[e] = "fallback" /\ attempts[e] = "absent"
          /\ ~run[p].acquired /\ ~run[p].created
          /\ UNCHANGED <<attempts, intent>>
      BY <1>7, <1>k DEF Abandon, Knows, At
    <2>2. CASE Raise(p) /\ UNCHANGED <<route, debit>>
      BY <2>1, <2>2, <1>u, <1>t, KnowsNothing DEF ledgers
    <2>3. CASE Reissue(p) /\ GoTo(p, "rebegin")
      <3>1. /\ route' = [route EXCEPT ![e] = "issued"]
            /\ debit' = [debit EXCEPT ![e] = FALSE]
        BY <2>1, <2>3, <1>t DEF Reissue
      <3>2. LoneLawful(e)
        BY <2>1, <3>1, <1>t, <1>f DEF LoneLawful, Outcomes
      <3>3. Noted(p, "rebegin", run[p].acquired, run[p].created, run[p].refund)
        BY <2>3, <1>n DEF Steps
      <3>4. Knows(run[p], run[p].pos)'
        BY <3>1, <3>2, <3>3, <2>1, <1>b, <1>t DEF Knows, Noted, Pos
      <3> QED
        BY <3>2, <3>4, <1>m
    <2> QED
      BY <1>7, <2>1, <2>2, <2>3, <1>t DEF Abandon, Pos
  <1>8. CASE Reserve(p)
    <2>1. run[p].step = "reserve" /\ UNCHANGED <<attempts, route, intent>>
      BY <1>8 DEF Reserve, At
    <2>2. debit[e] => Kinds[e] # "fallback" /\ ~run[p].created
      BY <2>1, <1>k DEF Knows
    <2>3. CASE Raise(p) /\ UNCHANGED debit
      BY <2>1, <2>3, <1>u, <1>t, KnowsNothing DEF ledgers
    <2>4. CASE /\ debit' = [debit EXCEPT ![e] = TRUE]
               /\ run' = [run EXCEPT ![p].refund = TRUE, ![p].step = "prepare"]
      <3>1. LoneLawful(e)
        BY <2>1, <2>4, <1>t, <1>f, <1>r, <1>k DEF LoneLawful, Outcomes, Knows
      <3>2. Noted(p, "prepare", run[p].acquired, run[p].created, TRUE)
        BY <2>4, <1>t, NoteFields DEF Steps
      <3>3. Knows(run[p], run[p].pos)'
        BY <3>1, <3>2, <2>1, <2>4, <1>b, <1>k, <1>t DEF Knows, Noted, Pos
      <3> QED
        BY <3>1, <3>3, <1>m
    <2> QED
      BY <1>8, <2>2, <2>3, <2>4, <1>t DEF Reserve, Kind, Pos
  <1>9. CASE Prepare(p)
    <2>1. run[p].step = "prepare" /\ UNCHANGED <<route, intent, debit>>
      BY <1>9 DEF Prepare, At
    <2>2. CASE Raise(p) /\ UNCHANGED attempts
      BY <2>1, <2>2, <1>u, <1>t, KnowsNothing DEF ledgers
    <2>3. CASE /\ attempts[e] \in {"absent", "prepared"}
               /\ attempts' = [attempts EXCEPT ![e] = "prepared"]
               /\ GoTo(p, "commit")
      <3>1. LoneLawful(e)
        BY <2>1, <2>3, <1>t, <1>f, <1>a, <1>k, KindsOfEntries DEF LoneLawful, Outcomes, Knows
      <3>2. Noted(p, "commit", run[p].acquired, run[p].created, run[p].refund)
        BY <2>3, <1>n DEF Steps
      <3>3. Knows(run[p], run[p].pos)'
        BY <3>1, <3>2, <2>1, <1>b, <1>t DEF Knows, Noted, Pos
      <3> QED
        BY <3>1, <3>3, <1>m
    <2>4. CASE /\ UNCHANGED attempts
               /\ \/ run[p].acquired /\ GoTo(p, "unwind")
                  \/ GoTo(p, "release")
      <3>1. UNCHANGED ledgers /\ LoneLawful(e)
        BY <2>1, <2>4, <1>t, <1>k, LoneUnchanged DEF ledgers
      <3>2. \/ /\ Noted(p, "unwind", run[p].acquired, run[p].created, run[p].refund)
               /\ run[p].acquired
            \/ Noted(p, "release", run[p].acquired, run[p].created, run[p].refund)
        BY <2>4, <1>n DEF Steps
      <3>3. run[p].acquired => run[p].refund
        BY <2>1, <1>k DEF Knows
      <3>4. Knows(run[p], run[p].pos)'
        BY <3>1, <3>2, <3>3, <2>1, <1>b, <1>t DEF Knows, Noted, Pos
      <3> QED
        BY <3>1, <3>4, <1>u
    <2> QED
      BY <1>9, <2>2, <2>3, <2>4, <1>t DEF Prepare, Pos
  <1>10. CASE Unwind(p) \/ Release(p) \/ CrashInRefund(p) \/ Crash(p)
    <2>1. Raise(p)
      BY <1>10 DEF Unwind, Release, CrashInRefund, Crash
    <2>2. Knows(run[p], run[p].pos)'
      BY <2>1, <1>t, KnowsNothing
    <2>3. CASE UNCHANGED ledgers
      BY <2>2, <2>3, <1>u
    <2>4. CASE /\ attempts[e] = "absent" /\ UNCHANGED attempts
               /\ debit' = [debit EXCEPT ![e] = FALSE]
               /\ IF Kinds[e] = "fallback" THEN UNCHANGED intent ELSE UNCHANGED route
               /\ intent' = intent \/ intent' = [intent EXCEPT ![e] = FALSE]
               /\ route' = route \/ route' = [route EXCEPT ![e] = "issued"]
      <3>1. LoneLawful(e)
        BY <2>4, <1>t, <1>f DEF LoneLawful, Outcomes
      <3> QED
        BY <2>2, <3>1, <1>m
    <2>5. CASE Unwind(p)
      <3>1. run[p].refund
        BY <2>5, <1>k DEF Unwind, At, Knows
      <3> QED
        BY <2>5, <3>1, <2>3, <2>4, <1>t, <1>f DEF Unwind, MayAbandon, Reissue, Pos, ledgers
    <2>6. CASE Release(p)
      BY <2>6, <2>3, <2>4, <1>t, <1>f DEF Release, MayRelease, Pos, ledgers
    <2>7. CASE CrashInRefund(p)
      BY <2>7, <2>3, <2>4, <1>t, <1>f DEF CrashInRefund, MayAbandon, MayRelease, Pos, ledgers
    <2>8. CASE Crash(p)
      BY <2>8, <2>3 DEF Crash
    <2> QED
      BY <1>10, <2>5, <2>6, <2>7, <2>8
  <1>11. CASE Commit(p)
    <2>1. run[p].step = "commit" /\ UNCHANGED <<attempts, debit>>
      BY <1>11 DEF Commit, At
    <2>2. CASE Raise(p) /\ UNCHANGED <<intent, route>>
      BY <2>1, <2>2, <1>u, <1>t, KnowsNothing DEF ledgers
    <2>3. CASE /\ attempts[e] = "prepared" /\ GoTo(p, "claim")
               /\ IF Kinds[e] = "fallback"
                  THEN route' = [route EXCEPT ![e] = "consumed"] /\ UNCHANGED intent
                  ELSE intent' = [intent EXCEPT ![e] = FALSE] /\ UNCHANGED route
      <3>1. LoneLawful(e)
        BY <2>1, <2>3, <1>t, <1>f, <1>r DEF LoneLawful, Outcomes
      <3>2. Noted(p, "claim", run[p].acquired, run[p].created, run[p].refund)
        BY <2>3, <1>n DEF Steps
      <3>3. Knows(run[p], run[p].pos)'
        BY <3>1, <3>2, <2>1, <1>b, <1>t DEF Knows, Noted, Pos
      <3> QED
        BY <3>1, <3>3, <1>m
    <2> QED
      BY <1>11, <2>2, <2>3, <1>t DEF Commit, Kind, Pos
  <1>12. CASE Claim(p)
    <2>1. run[p].step = "claim" /\ UNCHANGED <<route, intent, debit>>
      BY <1>12 DEF Claim, At
    <2>2. CASE Raise(p) /\ UNCHANGED attempts
      BY <2>1, <2>2, <1>u, <1>t, KnowsNothing DEF ledgers
    <2>3. CASE /\ attempts[e] = "prepared" /\ GoTo(p, "dispatch")
               /\ attempts' = [attempts EXCEPT ![e] = "claimed"]
      <3>1. LoneLawful(e)
        BY <2>1, <2>3, <1>t, <1>f DEF LoneLawful, Outcomes
      <3>2. Noted(p, "dispatch", run[p].acquired, run[p].created, run[p].refund)
        BY <2>3, <1>n DEF Steps
      <3>3. Knows(run[p], run[p].pos)'
        BY <3>1, <3>2, <2>1, <1>b, <1>t DEF Knows, Noted, Pos
      <3> QED
        BY <3>1, <3>3, <1>m
    <2> QED
      BY <1>12, <2>2, <2>3, <1>t DEF Claim, Pos
  <1>13. CASE Dispatch(p)
    <2>1. run[p].step = "dispatch" /\ UNCHANGED <<route, intent, debit>>
      BY <1>13 DEF Dispatch, At
    <2>2. CASE Raise(p) /\ UNCHANGED attempts
      BY <2>1, <2>2, <1>u, <1>t, KnowsNothing DEF ledgers
    <2>3. CASE Raise(p) /\ attempts' = [attempts EXCEPT ![e] = "blocked"]
      <3>1. LoneLawful(e)
        BY <2>1, <2>3, <1>t, <1>f, <1>c DEF LoneLawful, Outcomes
      <3> QED
        BY <2>3, <3>1, <1>m, <1>t, KnowsNothing
    <2>4. CASE GoTo(p, "observe") /\ UNCHANGED attempts
      <3>1. UNCHANGED ledgers /\ LoneLawful(e)
        BY <2>1, <2>4, <1>t, <1>k, LoneUnchanged DEF ledgers
      <3>2. Noted(p, "observe", run[p].acquired, run[p].created, run[p].refund)
        BY <2>4, <1>n DEF Steps
      <3>3. Knows(run[p], run[p].pos)'
        BY <3>1, <3>2, <2>1, <1>b, <1>t DEF Knows, Noted, Pos
      <3> QED
        BY <3>1, <3>3, <1>u
    <2> QED
      BY <1>13, <2>2, <2>3, <2>4, <1>t DEF Dispatch, Pos
  <1>14. CASE \/ ObserveDenial(p)
              \/ \E result \in {"accepted", "failed", "malformed", "blocked"} :
                    Observe(p, result)
    <2>1. /\ run[p].step = "observe" /\ UNCHANGED <<route, intent, debit>>
          /\ Raise(p) \/ \E state : Advance(p, state)
          /\ \E result \in {"accepted", "failed", "malformed", "blocked"} :
                attempts' = [attempts EXCEPT ![e] = result]
      BY <1>14 DEF ObserveDenial, Observe, At
    <2>2. LoneLawful(e)
      BY <2>1, <1>t, <1>f, <1>c DEF LoneLawful, Outcomes
    <2> QED
      BY <2>1, <2>2, <1>m, <1>t, KnowsNothing
  <1>15. CASE ObserveNothing(p)
    BY <1>15, <1>u, <1>t, KnowsNothing DEF ObserveNothing
  <1> QED
    BY <1>1, <1>2, <1>3, <1>4, <1>5, <1>6, <1>7, <1>8, <1>9, <1>10, <1>11, <1>12, <1>13,
       <1>14, <1>15 DEF Step

\* With a lone crew, its runner's knowledge is right.
CrewInv ==
    /\ crew \subseteq Runners
    /\ RunnerInv
    /\ crew = {p1} => LoneInv(p1)

\* Every step of the crew keeps it.
LEMMA CrewStep ==
    ASSUME p1 \in Runners, p2 \in Runners, CrewInv, [CrewNext]_crewVars
    PROVE  CrewInv'
  <1>1. crew' = crew
    BY DEF CrewNext, Crewed, crewVars
  <1>2. [Next]_vars
    BY DEF CrewNext, Crewed, crewVars, CrewInv, Next
  <1>3. RunnerInv'
    BY <1>2, RunnerStep DEF CrewInv
  <1>4. ASSUME crew = {p1} PROVE LoneInv(p1)'
    <2>1. RunnerInv /\ LoneInv(p1) /\ RunnerTypeOK
      BY <1>4 DEF CrewInv, RunnerInv
    <2>2. CASE Start(p1) \/ Step(p1) \/ Crash(p1) \/ CrashInRefund(p1)
      BY <2>1, <2>2, LoneStep
    <2>3. CASE \/ AcquireLease(p1) \/ ReleaseLease \/ StopScope \/ ClearScope
               \/ UNCHANGED vars
      <3>1. attempts' = attempts /\ route' = route /\ intent' = intent /\ debit' = debit
            /\ run' = run
        BY <2>3 DEF AcquireLease, ReleaseLease, StopScope, ClearScope, vars, ledgers
      <3> QED
        BY <2>1, <3>1 DEF LoneInv, DebitsAreOwned, PreparedIsResumable, Resumable, Authorized,
                          FencesAreTheirKinds, Knows
    <2> QED
      BY <1>4, <2>2, <2>3 DEF CrewNext, Crewed, crewVars
  <1> QED
    BY <1>1, <1>3, <1>4 DEF CrewInv

\* It holds at first.
LEMMA CrewStart ==
    ASSUME p1 \in Runners, p2 \in Runners, CrewInit
    PROVE  CrewInv
  <1>1. RunnerInv /\ crew \subseteq Runners
    BY InitialRunners DEF CrewInit
  <1>2. /\ attempts = [e \in Entries |-> "absent"] /\ route = [e \in Entries |-> "none"]
        /\ intent = [e \in Entries |-> FALSE] /\ debit = [e \in Entries |-> FALSE]
        /\ run[p1].step = "idle"
    BY DEF CrewInit, Init, Idle, Locals
  <1>3. LoneInv(p1)
    BY <1>2 DEF LoneInv, DebitsAreOwned, PreparedIsResumable, FencesAreTheirKinds, Knows
  <1> QED
    BY <1>1, <1>3 DEF CrewInv

\* What the crew's specification gives at every moment.
LEMMA CrewInvariant ==
    ASSUME p1 \in Runners, p2 \in Runners
    PROVE  CrewSpec => []CrewInv
  <1>1. CrewSpec => CrewInit /\ [][CrewNext]_crewVars
    BY PTL DEF CrewSpec
  <1>2. CrewInit => CrewInv
    BY CrewStart
  <1>3. CrewInv /\ [CrewNext]_crewVars => CrewInv'
    BY CrewStep
  <1> QED
    BY <1>1, <1>2, <1>3, PTL

\* LoneDebitsAreOwned, for any sequence and any number of crashes, stops and releases: of
\* a runner that is alone no end between the two databases leaves a debit nobody owns.
THEOREM LoneBudgetIsOwned ==
    ASSUME p1 \in Runners, p2 \in Runners
    PROVE  CrewSpec => []LoneDebitsAreOwned
  <1>1. CrewInv => LoneDebitsAreOwned
    BY DEF CrewInv, LoneInv, LoneDebitsAreOwned, Lone
  <1> QED
    BY <1>1, CrewInvariant, PTL

\* LonePreparedIsResumable, likewise: what a runner that is alone prepared has its debit,
\* its fence and its predecessor's outcome when it comes back.
THEOREM LonePreparationsResume ==
    ASSUME p1 \in Runners, p2 \in Runners
    PROVE  CrewSpec => []LonePreparedIsResumable
  <1>1. CrewInv => LonePreparedIsResumable
    BY DEF CrewInv, LoneInv, LonePreparedIsResumable, Lone
  <1> QED
    BY <1>1, CrewInvariant, PTL
=============================================================================
