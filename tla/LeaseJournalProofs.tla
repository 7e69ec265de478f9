------------------------- MODULE LeaseJournalProofs -------------------------
(***************************************************************************)
(* Proofs about LeaseJournal for every value of its constants.             *)
(***************************************************************************)
EXTENDS LeaseJournal, TLAPS

-----------------------------------------------------------------------------
(* The inductive invariant.                                                *)

\* Permission to write stands on a durable marker.
AuthorityIsDurable ==
  lease.state = "held" /\ lease.write_pending => marker = "pending" /\ disk = "pending"

\* While a recovery is being verified, the lease's window is what was seen.
WindowIsEvidence ==
  lease.state = "verifying_recovery" =>
    /\ quiet.n = lease.samples
    /\ quiet.n >= 1
    /\ quiet.from = lease.observation_started
    /\ quiet.last = lease.last_sample

\* A proof that can still be taken stands on a complete window.
ProofIsEvidence ==
  lease.state = "stable" /\ lease.recovery_verified => QuietWindow

IInv ==
  /\ TypeOK
  /\ HeldIsBounded
  /\ AuthorityIsDurable
  /\ ExposedIsDurable
  /\ WindowIsEvidence
  /\ ProofIsEvidence

-----------------------------------------------------------------------------
(* The reducer keeps the lease well typed and bounded.                     *)

\* What every lease the reducer returns satisfies.
Bounded(l) ==
  /\ l.state = "held" <=> l.owner # 0
  /\ l.state = "held" => l.expires_at = l.last_sample + LeaseTTL
  /\ l.state # "held" => l.expires_at = 0

Sound(l) == l \in Lease /\ Bounded(l)

\* Zero is a time, the value every cleared time field gets.
LEMMA ZeroTime == 0 \in Time
BY LeaseAssumption DEF Time

\* The zeroed lease of a fresh process is sound.
LEMMA ZeroSound == Sound(ZeroLease)
<1>1. ZeroLease \in Lease BY ZeroTime, Zenon DEF ZeroLease, Lease, LeaseStates
<1>2. Bounded(ZeroLease) BY DEF ZeroLease, Bounded
<1> QED BY <1>1, <1>2 DEF Sound

\* Requiring recovery drops owner and deadline, whatever the lease was.
LEMMA RecoverySound ==
  ASSUME NEW l \in Lease
  PROVE  Sound(require_recovery(l))
<1>1. require_recovery(l) \in Lease
  BY ZeroTime, Zenon DEF require_recovery, Lease, LeaseStates
<1>2. Bounded(require_recovery(l)) BY DEF require_recovery, Lease, Bounded
<1> QED BY <1>1, <1>2 DEF Sound

\* A lease nobody holds may change to any other state nobody holds it in.
LEMMA UnheldSound ==
  ASSUME NEW l, Sound(l), l.state # "held",
         NEW s \in LeaseStates \ {"held"}, NEW t \in Time
  PROVE  /\ Sound([l EXCEPT !.state = s])
         /\ Sound(open_window(l, s, t))
<1>1. [l EXCEPT !.state = s] \in Lease BY Zenon DEF Sound, Lease
<1>2. open_window(l, s, t) \in Lease
  <2>1. 1 \in Nat OBVIOUS
  <2> QED BY <2>1, Zenon DEF Sound, Lease, open_window
<1>3. Bounded([l EXCEPT !.state = s]) /\ Bounded(open_window(l, s, t))
  BY DEF Sound, Lease, Bounded, open_window
<1> QED BY <1>1, <1>2, <1>3 DEF Sound

\* Setting a flag keeps a lease sound.
LEMMA FlagSound ==
  ASSUME NEW l, Sound(l), NEW b \in BOOLEAN
  PROVE  /\ Sound([l EXCEPT !.write_pending = b])
         /\ Sound([l EXCEPT !.recovery_verified = b])
<1>1. /\ [l EXCEPT !.write_pending = b] \in Lease
      /\ [l EXCEPT !.recovery_verified = b] \in Lease
  BY Zenon DEF Sound, Lease
<1>2. Bounded([l EXCEPT !.write_pending = b]) /\ Bounded([l EXCEPT !.recovery_verified = b])
  BY DEF Sound, Lease, Bounded
<1> QED BY <1>1, <1>2 DEF Sound

\* control_lease_start returns a sound lease.
LEMMA StartSound ==
  ASSUME NEW intent, NEW r, NEW t \in Time
  PROVE  Sound(control_lease_start(intent, r, t))
<1>1. Sound(require_recovery([ZeroLease EXCEPT !.write_pending = TRUE]))
  BY ZeroSound, FlagSound, RecoverySound DEF Sound
<1>2. Sound(require_recovery(ZeroLease)) BY ZeroSound, RecoverySound DEF Sound
<1>3. ZeroLease.state # "held" BY DEF ZeroLease
<1>4. Sound(read_failed(ZeroLease)) /\ Sound(open_window(ZeroLease, "observing", t))
  BY <1>3, ZeroSound, UnheldSound DEF read_failed, LeaseStates
<1> QED BY <1>1, <1>2, <1>4 DEF control_lease_start

\* control_lease_sample returns a sound lease.
LEMMA SampleSound ==
  ASSUME NEW l, Sound(l), NEW r, NEW t \in Time
  PROVE  Sound(control_lease_sample(l, r, t))
<1> DEFINE counted == [l EXCEPT !.last_sample = t, !.samples = @ + 1]
           proved  == [counted EXCEPT !.recovery_verified = (l.state = "verifying_recovery"),
                         !.state = "stable", !.write_pending = FALSE,
                         !.owner = 0, !.expires_at = 0]
<1>1. CASE ~observing(l) BY <1>1 DEF control_lease_sample
<1>2. CASE observing(l)
  <2>1. l.state # "held" BY <1>2 DEF observing
  <2>2. l.samples + 1 \in Nat BY DEF Sound, Lease
  <2>3. counted \in Lease BY <2>2, Zenon DEF Sound, Lease
  <2>4. Bounded(counted) BY <2>1 DEF Sound, Bounded, Lease
  <2>5. Sound(read_failed(l)) BY <2>1, UnheldSound DEF read_failed, LeaseStates
  <2>6. Sound(require_recovery(counted)) BY <2>3, RecoverySound
  <2>7. Sound(proved)
    <3> HIDE DEF counted
    <3> DEFINE v == l.state = "verifying_recovery"
    <3>1. v \in BOOLEAN OBVIOUS
    <3> HIDE DEF v
    <3>2. [counted EXCEPT !.recovery_verified = v, !.state = "stable", !.write_pending = FALSE,
                         !.owner = 0, !.expires_at = 0] \in Lease
      BY <2>3, <3>1, ZeroTime, Zenon DEF Lease, LeaseStates
    <3>3. Bounded([counted EXCEPT !.recovery_verified = v, !.state = "stable",
                         !.write_pending = FALSE, !.owner = 0, !.expires_at = 0])
      BY <2>3 DEF Lease, Bounded
    <3> QED BY <3>2, <3>3 DEF Sound, v
  <2> QED BY <1>2, <2>3, <2>4, <2>5, <2>6, <2>7 DEF control_lease_sample, Sound
<1> QED BY <1>1, <1>2

\* control_lease_claim returns a sound lease: the deadline does not wrap.
LEMMA ClaimSound ==
  ASSUME NEW l, Sound(l), NEW owner \in Owners, NEW t \in Time, NEW v, NEW intent, NEW r
  PROVE  Sound(control_lease_claim(l, owner, t, v, intent, r))
<1> DEFINE claimed == [l EXCEPT !.state = "held", !.owner = owner, !.last_sample = t,
                         !.expires_at = t + LeaseTTL, !.write_pending = FALSE]
<1>1. Sound(require_recovery(l)) BY RecoverySound DEF Sound
<1>2. CASE l.state # "stable" BY <1>2 DEF control_lease_claim
<1>3. CASE l.state = "stable"
  <2>1. Sound(read_failed(l)) BY <1>3, UnheldSound, ZeroTime DEF read_failed, LeaseStates
  <2>2. ASSUME claim_admissible(l, owner, t, v) PROVE Sound(claimed)
    <3>1. t + LeaseTTL \in Time BY <2>2, LeaseAssumption DEF claim_admissible, Time
    <3>2. claimed \in Lease BY <3>1, Zenon DEF Sound, Lease, LeaseStates
    <3>3. Bounded(claimed) BY LeaseAssumption DEF Sound, Bounded, Lease
    <3> QED BY <3>2, <3>3 DEF Sound
  <2> QED BY <1>1, <1>3, <2>1, <2>2 DEF control_lease_claim
<1> QED BY <1>2, <1>3

\* control_lease_renew returns a sound lease: the deadline does not wrap.
LEMMA RenewSound ==
  ASSUME NEW l, Sound(l), NEW owner, NEW t \in Time, NEW intent, NEW r
  PROVE  Sound(control_lease_renew(l, owner, t, intent, r))
<1> DEFINE renewed == [l EXCEPT !.last_sample = t, !.expires_at = t + LeaseTTL]
<1>1. Sound(require_recovery(l)) BY RecoverySound DEF Sound
<1>2. ASSUME held_by(l, owner), renewable(l, t, intent, r) PROVE Sound(renewed)
  <2>1. t + LeaseTTL \in Time BY <1>2, LeaseAssumption DEF renewable, Time
  <2>2. renewed \in Lease BY <2>1, Zenon DEF Sound, Lease
  <2>3. Bounded(renewed) BY <1>2 DEF held_by, Sound, Bounded, Lease
  <2> QED BY <2>2, <2>3 DEF Sound
<1> QED BY <1>1, <1>2 DEF control_lease_renew

\* The remaining reducers only require recovery, change a flag or open a window.
LEMMA SmallSound ==
  ASSUME NEW l, Sound(l), NEW owner, NEW t \in Time, NEW intent, NEW r
  PROVE  /\ Sound(control_lease_mark_write_pending(l, owner, t, intent))
         /\ Sound(control_lease_prepare_persistent_intent(l))
         /\ Sound(control_lease_owner_lost(l, owner))
         /\ Sound(control_lease_tick(l, t))
         /\ Sound(control_lease_sleep(l))
         /\ Sound(control_lease_recovery_started(l, r, t))
         /\ Sound(control_lease_take_recovery_proof(l))
<1>1. Sound(require_recovery(l)) BY RecoverySound DEF Sound
<1>2. Sound([l EXCEPT !.write_pending = TRUE]) /\ Sound([l EXCEPT !.recovery_verified = FALSE])
  BY FlagSound
<1>3. ASSUME l.state = "recovery_required"
      PROVE  /\ Sound(read_failed(l))
             /\ Sound(open_window([l EXCEPT !.recovery_verified = FALSE], "verifying_recovery", t))
  <2>1. [l EXCEPT !.recovery_verified = FALSE].state # "held"
    BY <1>3 DEF Sound, Lease
  <2> QED BY <1>2, <1>3, <2>1, UnheldSound DEF read_failed, LeaseStates
<1>4. Sound(control_lease_mark_write_pending(l, owner, t, intent))
  BY <1>1, <1>2 DEF control_lease_mark_write_pending
<1>5. Sound(control_lease_prepare_persistent_intent(l))
  BY <1>2 DEF control_lease_prepare_persistent_intent
<1>6. /\ Sound(control_lease_owner_lost(l, owner))
      /\ Sound(control_lease_tick(l, t))
      /\ Sound(control_lease_sleep(l))
  BY <1>1 DEF control_lease_owner_lost, control_lease_tick, control_lease_sleep
<1>7. Sound(control_lease_recovery_started(l, r, t))
  BY <1>3 DEF control_lease_recovery_started
<1>8. Sound(control_lease_take_recovery_proof(l))
  BY <1>2 DEF control_lease_take_recovery_proof
<1> QED BY <1>4, <1>5, <1>6, <1>7, <1>8

-----------------------------------------------------------------------------
(* The invariant is inductive.                                             *)

\* Soundness of the lease is what the type invariant and HeldIsBounded say of it.
LEMMA SoundLease ==
  /\ IInv => Sound(lease)
  /\ Sound(lease) => HeldIsBounded
  /\ Sound(lease') => HeldIsBounded'
BY LeaseAssumption DEF IInv, TypeOK, HeldIsBounded, Sound, Bounded, Lease, Time

\* The history variable stays well typed whatever was read.
LEMMA EvidenceType ==
  ASSUME TypeOK, NEW r
  PROVE  FirstSeen(r) \in Evidence /\ Saw(r) \in Evidence /\ NoEvidence \in Evidence
<1>1. quiet.n + 1 \in Nat /\ 0 \in Nat /\ 1 \in Nat BY DEF TypeOK, Evidence
<1>2. NoEvidence \in Evidence /\ FirstSeen(r) \in Evidence
  BY <1>1, ZeroTime, Zenon DEF TypeOK, Evidence, NoEvidence, FirstSeen
<1>3. [n |-> quiet.n + 1, from |-> quiet.from, last |-> now] \in Evidence
  BY <1>1, Zenon DEF TypeOK, Evidence
<1> QED BY <1>2, <1>3 DEF Saw

\* The initial states satisfy the invariant.
LEMMA InitIInv == Init => IInv
<1> SUFFICES ASSUME Init PROVE IInv OBVIOUS
<1>1. TypeOK
  <2>1. NoEvidence \in Evidence BY ZeroTime DEF NoEvidence, Evidence
  <2> QED BY <2>1, ZeroSound, ZeroTime DEF Init, TypeOK, Sound
<1>2. HeldIsBounded BY <1>1, ZeroSound, SoundLease DEF Init
<1> QED BY <1>1, <1>2 DEF Init, IInv, ZeroLease, AuthorityIsDurable, ExposedIsDurable,
       WindowIsEvidence, ProofIsEvidence

\* Steps that only call a reducer on the lease and leave every window alone.
LEMMA LeaseOnlyStep ==
  ASSUME IInv, Sound(lease'), UNCHANGED <<now, marker, disk, exposed, quiet>>,
         lease'.state = "held" /\ lease'.write_pending =>
            lease.state = "held" /\ lease.write_pending,
         lease'.state # "verifying_recovery" \/ lease' = lease,
         lease'.state = "stable" /\ lease'.recovery_verified => lease' = lease
  PROVE  IInv'
<1>1. TypeOK' BY DEF IInv, TypeOK, Sound
<1>2. HeldIsBounded' BY SoundLease
<1>3. AuthorityIsDurable' /\ ExposedIsDurable'
  BY DEF IInv, AuthorityIsDurable, ExposedIsDurable
<1>4. WindowIsEvidence' BY DEF IInv, WindowIsEvidence
<1>5. ProofIsEvidence' BY DEF IInv, ProofIsEvidence, QuietWindow
<1> QED BY <1>1, <1>2, <1>3, <1>4, <1>5 DEF IInv

\* A new lease in a new process carries no evidence, no owner and no proof.
LEMMA FreshLeaseStep ==
  ASSUME IInv, lease' = ZeroLease, quiet' = NoEvidence, now' \in Time,
         marker' \in Markers, disk' \in Markers, exposed' = exposed,
         exposed => marker' = "pending" /\ disk' = "pending"
  PROVE  IInv'
<1>1. TypeOK'
  BY ZeroSound, EvidenceType DEF IInv, TypeOK, Sound
<1>2. HeldIsBounded' BY ZeroSound, SoundLease
<1> QED BY <1>1, <1>2 DEF IInv, ZeroLease, AuthorityIsDurable, ExposedIsDurable,
       WindowIsEvidence, ProofIsEvidence

\* control_lease_start begins a window with its first reading, or none.
LEMMA StartStep ==
  ASSUME IInv, NEW intent, NEW r, Start(intent, r)
  PROVE  IInv'
<1>1. Sound(lease') BY StartSound DEF Start, IInv, TypeOK
<1>2. TypeOK' BY <1>1, EvidenceType DEF IInv, TypeOK, Start, Sound
<1>3. HeldIsBounded' BY <1>1, SoundLease
<1>4. lease'.state \in {"observing", "read_failed", "recovery_required"}
  BY DEF Start, control_lease_start, require_recovery, read_failed, open_window, ZeroLease
<1> QED BY <1>2, <1>3, <1>4 DEF Start, IInv, AuthorityIsDurable, ExposedIsDurable,
       WindowIsEvidence, ProofIsEvidence

\* control_lease_sample: the window grows by what was seen, fails, or completes.
LEMMA SampleStep ==
  ASSUME IInv, NEW r, Sample(r)
  PROVE  IInv'
<1>1. Sound(lease') BY SoundLease, SampleSound DEF Sample, IInv, TypeOK
<1>2. TypeOK' BY <1>1, EvidenceType DEF IInv, TypeOK, Sample, Sound
<1>3. HeldIsBounded' BY <1>1, SoundLease
<1>4. CASE ~observing(lease)
  <2>1. lease' = lease /\ quiet' = quiet BY <1>4 DEF Sample, control_lease_sample
  <2> QED BY <2>1, LeaseOnlyStep, SoundLease DEF Sample
<1>5. CASE observing(lease)
  <2> DEFINE counted == [lease EXCEPT !.last_sample = now, !.samples = @ + 1]
  <2>1. lease \in Lease /\ lease.state \in {"observing", "verifying_recovery"}
    BY <1>5 DEF IInv, TypeOK, observing
  <2>2. lease'.state # "held"
    BY <1>5, <2>1 DEF Sample, control_lease_sample, read_failed, require_recovery, Lease
  <2>3. lease'.state = "verifying_recovery" =>
          /\ lease.state = "verifying_recovery" /\ lease' = counted
          /\ smc_baseline_is_system(r) /\ sample_in_time(lease, r, now)
    BY <1>5, <2>1 DEF Sample, control_lease_sample, read_failed, require_recovery, Lease
  <2>4. lease'.state = "stable" /\ lease'.recovery_verified =>
          /\ lease.state = "verifying_recovery" /\ window_complete(counted)
          /\ smc_baseline_is_system(r) /\ sample_in_time(lease, r, now)
    BY <1>5, <2>1 DEF Sample, control_lease_sample, read_failed, require_recovery, Lease
  <2>5. lease.state = "verifying_recovery" /\ smc_baseline_is_system(r)
          /\ sample_in_time(lease, r, now) =>
            quiet' = [n |-> lease.samples + 1, from |-> lease.observation_started, last |-> now]
    BY <1>5, <2>1, LeaseAssumption
       DEF Sample, Saw, sample_in_time, IInv, WindowIsEvidence, Lease, Time
  <2>6. WindowIsEvidence'
    <3> SUFFICES ASSUME lease'.state = "verifying_recovery"
                 PROVE  /\ quiet'.n = lease'.samples /\ quiet'.n >= 1
                        /\ quiet'.from = lease'.observation_started
                        /\ quiet'.last = lease'.last_sample
      BY DEF WindowIsEvidence
    <3>1. quiet' = [n |-> lease.samples + 1, from |-> lease.observation_started, last |-> now]
      BY <2>3, <2>5
    <3>2. /\ lease'.samples = lease.samples + 1
          /\ lease'.last_sample = now
          /\ lease'.observation_started = lease.observation_started
          /\ lease.samples \in Nat
      BY <2>1, <2>3 DEF Lease
    <3> QED BY <3>1, <3>2
  <2>7. ProofIsEvidence'
    <3>1. /\ counted.samples = lease.samples + 1
          /\ counted.last_sample = now
          /\ counted.observation_started = lease.observation_started
      BY <2>1 DEF Lease
    <3>2. window_complete(counted) =>
            /\ lease.samples + 1 >= RequiredSamples
            /\ now - lease.observation_started >= BaselineTime
      BY <3>1 DEF window_complete
    <3> QED BY <2>4, <2>5, <3>2 DEF ProofIsEvidence, QuietWindow
  <2>8. AuthorityIsDurable' /\ ExposedIsDurable'
    BY <2>2 DEF Sample, IInv, AuthorityIsDurable, ExposedIsDurable
  <2> QED BY <1>2, <1>3, <2>6, <2>7, <2>8 DEF IInv
<1> QED BY <1>4, <1>5

\* A claim, a renewal, a loss and a tick never open a window and never give
\* permission to write.
LEMMA HolderStep ==
  ASSUME IInv, NEW owner \in Owners, NEW v \in BOOLEAN, NEW intent, NEW r,
         \/ Claim(owner, v, intent, r) \/ Renew(owner, intent, r)
         \/ OwnerLost(owner) \/ Tick
  PROVE  IInv'
<1> USE DEF require_recovery, read_failed, held_by
<1>0. lease \in Lease /\ Sound(lease) /\ now \in Time BY SoundLease DEF IInv, TypeOK
<1>1. CASE Claim(owner, v, intent, r)
  <2>1. Sound(lease') BY <1>0, <1>1, ClaimSound DEF Claim
  <2>2. /\ lease'.state = "held" /\ lease'.write_pending =>
             lease.state = "held" /\ lease.write_pending
        /\ lease'.state = "stable" \/ lease'.state = "verifying_recovery" => lease' = lease
    BY <1>0, <1>1 DEF Claim, control_lease_claim, Lease
  <2> QED BY <1>1, <2>1, <2>2, LeaseOnlyStep DEF Claim
<1>2. CASE Renew(owner, intent, r)
  <2>1. Sound(lease') BY <1>0, <1>2, RenewSound DEF Renew
  <2>2. /\ lease'.state = "held" /\ lease'.write_pending =>
             lease.state = "held" /\ lease.write_pending
        /\ lease'.state = "stable" \/ lease'.state = "verifying_recovery" => lease' = lease
    BY <1>0, <1>2 DEF Renew, control_lease_renew, Lease
  <2> QED BY <1>2, <2>1, <2>2, LeaseOnlyStep DEF Renew
<1>3. CASE OwnerLost(owner)
  <2>1. Sound(lease') BY <1>0, <1>3, SmallSound DEF OwnerLost
  <2>2. lease' = lease \/ lease'.state = "recovery_required"
    BY <1>0, <1>3 DEF OwnerLost, control_lease_owner_lost, Lease
  <2> QED BY <1>3, <2>1, <2>2, LeaseOnlyStep DEF OwnerLost
<1>4. CASE Tick
  <2>1. Sound(lease') BY <1>0, <1>4, SmallSound DEF Tick
  <2>2. lease' = lease \/ lease'.state = "recovery_required"
    BY <1>0, <1>4 DEF Tick, control_lease_tick, Lease
  <2> QED BY <1>4, <2>1, <2>2, LeaseOnlyStep DEF Tick
<1> QED BY <1>1, <1>2, <1>3, <1>4

\* A sleep ends every window and every proof.
LEMMA SleepStep ==
  ASSUME IInv, Sleep
  PROVE  IInv'
<1>0. lease \in Lease /\ Sound(lease) /\ now \in Time BY SoundLease DEF IInv, TypeOK
<1>1. Sound(lease') BY <1>0, SmallSound DEF Sleep
<1>2. lease'.state \in {"recovery_required", "read_failed"}
  BY <1>0 DEF Sleep, control_lease_sleep, require_recovery, Lease, LeaseStates
<1>3. TypeOK' BY <1>1, EvidenceType DEF IInv, TypeOK, Sleep, Sound
<1>4. HeldIsBounded' BY <1>1, SoundLease
<1> QED BY <1>2, <1>3, <1>4 DEF Sleep, IInv, AuthorityIsDurable, ExposedIsDurable,
       WindowIsEvidence, ProofIsEvidence

\* A recovery's window starts with its own first reading.
LEMMA RecoveryStartedStep ==
  ASSUME IInv, NEW r, RecoveryStarted(r)
  PROVE  IInv'
<1>0. lease \in Lease /\ Sound(lease) /\ now \in Time BY SoundLease DEF IInv, TypeOK
<1>1. Sound(lease') BY <1>0, SmallSound DEF RecoveryStarted
<1>2. TypeOK' BY <1>1, EvidenceType DEF IInv, TypeOK, RecoveryStarted, Sound
<1>3. HeldIsBounded' BY <1>1, SoundLease
<1>4. CASE lease.state # "recovery_required"
  <2>1. lease' = lease /\ quiet' = quiet
    BY <1>4 DEF RecoveryStarted, control_lease_recovery_started
  <2> QED BY <1>0, <2>1, LeaseOnlyStep DEF RecoveryStarted
<1>5. CASE lease.state = "recovery_required"
  <2>1. lease'.state \in {"recovery_required", "read_failed", "verifying_recovery"}
    BY <1>0, <1>5 DEF RecoveryStarted, control_lease_recovery_started, read_failed,
       open_window, Lease
  <2>2. lease'.state = "verifying_recovery" =>
          /\ smc_baseline_is_system(r) /\ lease'.samples = 1
          /\ lease'.observation_started = now /\ lease'.last_sample = now
    BY <1>0, <1>5 DEF RecoveryStarted, control_lease_recovery_started, read_failed,
       open_window, Lease
  <2>3. smc_baseline_is_system(r) => quiet' = [n |-> 1, from |-> now, last |-> now]
    BY <1>5 DEF RecoveryStarted, FirstSeen
  <2>4. WindowIsEvidence' BY <2>2, <2>3 DEF WindowIsEvidence
  <2> QED BY <1>2, <1>3, <2>1, <2>4 DEF RecoveryStarted, IInv, AuthorityIsDurable,
         ExposedIsDurable, ProofIsEvidence
<1> QED BY <1>4, <1>5

\* What mark_pending leaves is a marker, and a durable one if it says so.
LEMMA OutcomeFacts ==
  ASSUME TypeOK, NEW out \in MarkPendingOutcomes(marker, disk)
  PROVE  /\ out.marker \in Markers /\ out.disk \in Markers
         /\ out.durable => out.marker = "pending" /\ out.disk = "pending"
<1>1. CASE out = [marker |-> marker, disk |-> disk, durable |-> FALSE]
  BY <1>1 DEF TypeOK
<1>2. CASE out \in [marker : {"malformed"}, disk : {disk, "malformed"}, durable : {FALSE}]
  BY <1>2 DEF TypeOK, Markers
<1>3. CASE out \in [marker : {"pending"}, disk : {disk, "malformed", "pending"},
                    durable : {FALSE}]
  BY <1>3 DEF TypeOK, Markers
<1>4. CASE out = [marker |-> "pending", disk |-> "pending", durable |-> TRUE]
  BY <1>4 DEF Markers
<1> QED BY <1>1, <1>2, <1>3, <1>4, Zenon DEF MarkPendingOutcomes

\* Marking: permission is given only with a durable marker, and a marker made
\* while the lease was held meets no window and no proof.
LEMMA MarkPendingStep ==
  ASSUME IInv, NEW intent \in control_intent_read(marker),
         NEW out \in control_intent_mark_pending(lease, intent, marker, disk),
         MarkPending(intent, out)
  PROVE  IInv'
<1> DEFINE owner    == lease.owner
           prepared == control_lease_prepare_persistent_intent(lease)
           marked   == control_lease_mark_write_pending(prepared, owner, now, "pending")
           accepted == out.durable /\ markWritePendingAccepted(prepared, owner, now, "pending")
           refused  == control_lease_owner_lost(IF out.durable THEN marked ELSE prepared, owner)
<1>0. lease \in Lease /\ Sound(lease) /\ now \in Time BY SoundLease DEF IInv, TypeOK
<1>1. Sound(prepared) BY <1>0, SmallSound
<1>2. Sound(marked)
  <2> HIDE DEF prepared, owner
  <2> QED BY <1>0, <1>1, SmallSound
<1>3. lease' = IF accepted THEN marked ELSE refused
  BY DEF MarkPending, intent_marked, intentAccepted
<1>4. Sound(lease')
  <2> HIDE DEF prepared, marked, accepted, owner
  <2> QED BY <1>0, <1>1, <1>2, <1>3, SmallSound
<1>5. /\ prepared.state = lease.state /\ prepared.owner = lease.owner
      /\ prepared.write_pending = lease.write_pending
  BY <1>0 DEF control_lease_prepare_persistent_intent, Lease
<1>6. CASE lease.state = "held"
  <2>1. lease'.state \in {"held", "recovery_required"}
    BY <1>0, <1>3, <1>5, <1>6 DEF control_lease_mark_write_pending, control_lease_owner_lost,
       require_recovery, held_by, Lease, control_lease_prepare_persistent_intent
  <2>2. ASSUME lease'.state = "held"
        PROVE  accepted
    <3>1. lease.owner # 0 BY <1>0, <1>6 DEF Sound, Bounded
    <3>2. refused.state # "held"
      <4>1. held_by(prepared, owner) BY <1>5, <1>6, <3>1 DEF held_by
      <4>2. CASE ~out.durable
        BY <4>1, <4>2, <1>1 DEF control_lease_owner_lost, require_recovery, Sound, Lease
      <4>3. CASE out.durable /\ held_by(marked, owner)
        BY <4>3, <1>2 DEF control_lease_owner_lost, require_recovery, Sound, Lease
      <4>4. CASE out.durable /\ ~held_by(marked, owner)
        <5>1. refused = marked BY <4>4 DEF control_lease_owner_lost
        <5>2. marked.state # "held" \/ marked.owner = owner
          BY <1>1, <4>1 DEF control_lease_mark_write_pending, require_recovery, held_by,
             Sound, Lease
        <5> QED BY <3>1, <4>4, <5>1, <5>2 DEF held_by
      <4> QED BY <4>2, <4>3, <4>4
    <3> QED BY <1>3, <2>2, <3>2
  <2>3. ASSUME accepted
        PROVE  preparePersistentIntentAccepted(lease) /\ intent = "clear" =>
                 marker' = "pending" /\ disk' = "pending"
    BY <2>3, OutcomeFacts DEF MarkPending, control_intent_mark_pending, IInv
  <2>4. ASSUME accepted
        PROVE  preparePersistentIntentAccepted(lease) /\ intent = "clear"
    BY <2>4 DEF control_intent_mark_pending
  <2>5. AuthorityIsDurable' BY <2>2, <2>3, <2>4 DEF AuthorityIsDurable
  <2>6. ExposedIsDurable'
    <3>1. exposed => UNCHANGED <<marker, disk>>
      BY DEF IInv, ExposedIsDurable, MarkPending, control_intent_mark_pending,
         control_intent_read
    <3> QED BY <3>1 DEF IInv, ExposedIsDurable, MarkPending
  <2>7. TypeOK'
    <3>1. marker' \in Markers /\ disk' \in Markers
      BY OutcomeFacts DEF MarkPending, control_intent_mark_pending, IInv, TypeOK
    <3> QED BY <1>4, <3>1, EvidenceType DEF IInv, TypeOK, MarkPending, Sound
  <2>8. HeldIsBounded' BY <1>4, SoundLease
  <2> QED BY <2>1, <2>5, <2>6, <2>7, <2>8 DEF IInv, WindowIsEvidence, ProofIsEvidence
<1>7. CASE lease.state # "held"
  <2>1. UNCHANGED <<marker, disk, quiet, now, exposed>>
    BY <1>7 DEF MarkPending, control_intent_mark_pending, preparePersistentIntentAccepted
  <2>2. prepared = lease
    BY <1>7 DEF control_lease_prepare_persistent_intent, preparePersistentIntentAccepted
  <2>3. marked = lease
    BY <1>7, <2>2 DEF control_lease_mark_write_pending, held_by
  <2>4. lease' = lease
    BY <1>3, <1>7, <2>2, <2>3 DEF control_lease_owner_lost, held_by
  <2> QED BY <1>0, <2>1, <2>4, LeaseOnlyStep
<1> QED BY <1>6, <1>7

\* Clearing consumes the proof; only a marker is removed, nothing is granted.
LEMMA ClearVerifiedStep ==
  ASSUME IInv, NEW intent, NEW unlinked \in BOOLEAN, NEW synced \in BOOLEAN,
         ClearVerified(intent, unlinked, synced)
  PROVE  IInv'
<1>0. lease \in Lease /\ Sound(lease) /\ now \in Time BY SoundLease DEF IInv, TypeOK
<1>1. CASE UNCHANGED vars
  BY <1>1 DEF vars, IInv, TypeOK, HeldIsBounded, AuthorityIsDurable, ExposedIsDurable,
     WindowIsEvidence, ProofIsEvidence, QuietWindow
<1>2. CASE intent = "pending" /\ takeRecoveryProofAccepted(lease)
  <2>1. Sound(control_lease_take_recovery_proof(lease)) BY <1>0, SmallSound
  <2>2. lease' = control_lease_take_recovery_proof(lease) BY <1>2 DEF ClearVerified
  <2>3. lease'.state = "stable" /\ lease'.recovery_verified = FALSE
    BY <1>0, <1>2, <2>2 DEF control_lease_take_recovery_proof, takeRecoveryProofAccepted, Lease
  <2>4. TypeOK'
    BY <1>2, <2>1, <2>2, EvidenceType DEF ClearVerified, IInv, TypeOK, Sound, Markers
  <2>5. HeldIsBounded' BY <2>1, <2>2, SoundLease
  <2>6. ExposedIsDurable' BY <1>2 DEF ClearVerified, IInv, ExposedIsDurable
  <2> QED BY <2>3, <2>4, <2>5, <2>6 DEF IInv, AuthorityIsDurable, WindowIsEvidence,
         ProofIsEvidence
<1> QED BY <1>1, <1>2 DEF ClearVerified

\* Every step keeps the invariant.
LEMMA NextIInv == IInv /\ [Next]_vars => IInv'
<1> SUFFICES ASSUME IInv, [Next]_vars PROVE IInv' OBVIOUS
<1>1. CASE UNCHANGED vars
  BY <1>1 DEF vars, IInv, TypeOK, HeldIsBounded, AuthorityIsDurable, ExposedIsDurable,
     WindowIsEvidence, ProofIsEvidence, QuietWindow
<1>2. CASE Advance
  <2>1. now' \in Time BY <1>2, LeaseAssumption DEF Advance, IInv, TypeOK, Time
  <2> QED BY <1>2, <2>1 DEF Advance, IInv, TypeOK, HeldIsBounded, AuthorityIsDurable,
         ExposedIsDurable, WindowIsEvidence, ProofIsEvidence, QuietWindow
<1>3. CASE Write
  <2>1. TypeOK' BY <1>3, EvidenceType DEF Write, IInv, TypeOK
  <2> QED BY <1>3, <2>1 DEF Write, IInv, HeldIsBounded, AuthorityIsDurable,
         ExposedIsDurable, WindowIsEvidence, ProofIsEvidence
<1>4. CASE Sleep BY <1>4, SleepStep
<1>5. CASE Restart
  BY <1>5, FreshLeaseStep DEF Restart, IInv, TypeOK, ExposedIsDurable
<1>6. CASE PowerLoss
  <2>1. marker' \in Markers BY <1>6 DEF PowerLoss, AfterPowerLoss, IInv, TypeOK, Markers
  <2>2. exposed => marker' = "pending" BY <1>6 DEF PowerLoss, AfterPowerLoss, IInv, ExposedIsDurable
  <2> QED BY <1>6, <2>1, <2>2, FreshLeaseStep, ZeroTime DEF PowerLoss, AfterPowerLoss
<1>7. CASE \E r \in Readings : Sample(r) \/ RecoveryStarted(r)
  BY <1>7, SampleStep, RecoveryStartedStep
<1>8. CASE \E intent \in control_intent_read(marker), r \in Readings : Start(intent, r)
  BY <1>8, StartStep
<1>9. CASE \E intent \in control_intent_read(marker) :
             \E out \in control_intent_mark_pending(lease, intent, marker, disk) : MarkPending(intent, out)
  BY <1>9, MarkPendingStep
<1>10. CASE \E intent \in control_intent_read(marker), unlinked, synced \in BOOLEAN :
              ClearVerified(intent, unlinked, synced)
  BY <1>10, ClearVerifiedStep
<1>11. CASE \E owner \in Owners, intent \in control_intent_read(marker), r \in Readings,
               verified \in BOOLEAN :
              Renew(owner, intent, r) \/ Claim(owner, verified, intent, r)
  BY <1>11, HolderStep
<1>12. CASE \E owner \in Owners : OwnerLost(owner)
  <2>1. "system_cool" \in Readings /\ TRUE \in BOOLEAN BY DEF Readings
  <2> QED BY <1>12, <2>1, HolderStep
<1>13. CASE Tick
  <2>1. Sound(lease') BY <1>13, SoundLease, SmallSound DEF Tick, IInv, TypeOK
  <2>2. lease' = lease \/ lease'.state = "recovery_required"
    BY <1>13 DEF Tick, control_lease_tick, require_recovery, IInv, TypeOK, Lease
  <2> QED BY <1>13, <2>1, <2>2, LeaseOnlyStep DEF Tick
<1> QED BY <1>1, <1>2, <1>3, <1>4, <1>5, <1>6, <1>7, <1>8, <1>9, <1>10, <1>11, <1>12, <1>13
       DEF Next

-----------------------------------------------------------------------------
(* The theorems.                                                           *)

\* The inductive invariant holds in every reachable state.
THEOREM Invariance == Spec => []IInv
BY InitIInv, NextIInv, PTL DEF Spec

\* Lease, journal and history variables stay well typed: no time field ever
\* exceeds UINT64_MAX.
THEOREM TypeCorrect == Spec => []TypeOK
<1>1. IInv => TypeOK BY DEF IInv
<1> QED BY <1>1, Invariance, PTL

\* Touched fans are always covered by a marker a reboot finds.
THEOREM DurableExposure == Spec => []ExposedIsDurable
<1>1. IInv => ExposedIsDurable BY DEF IInv
<1> QED BY <1>1, Invariance, PTL

\* An owner exists exactly while the lease is held, until its deadline.
THEOREM BoundedLease == Spec => []HeldIsBounded
<1>1. IInv => HeldIsBounded BY DEF IInv
<1> QED BY <1>1, Invariance, PTL

\* A step that removes a pending marker is clear_verified with a complete fresh
\* window behind it, or a power loss that undoes an unsynchronised creation.
LEMMA RemovalStep ==
  ASSUME IInv, [Next]_vars, marker # "absent", marker' = "absent"
  PROVE  \/ QuietWindow /\ exposed' = FALSE /\ quiet' = NoEvidence
         \/ disk # marker /\ PowerLoss
<1>1. CASE UNCHANGED vars BY <1>1 DEF vars
<1>2. CASE Advance \/ Write \/ Tick \/ Sleep \/ Restart
  BY <1>2 DEF Advance, Write, Tick, Sleep, Restart
<1>3. CASE PowerLoss BY <1>3 DEF PowerLoss, AfterPowerLoss
<1>4. CASE \E r \in Readings : Sample(r) \/ RecoveryStarted(r)
  BY <1>4 DEF Sample, RecoveryStarted
<1>5. CASE \E intent, r : Start(intent, r) BY <1>5 DEF Start
<1>6. ASSUME NEW intent \in control_intent_read(marker),
         NEW out \in control_intent_mark_pending(lease, intent, marker, disk),
             MarkPending(intent, out)
      PROVE  FALSE
  <2>1. intent # "clear" BY DEF control_intent_read, IInv, TypeOK, Markers
  <2> QED BY <1>6, <2>1 DEF MarkPending, control_intent_mark_pending
<1>7. ASSUME NEW intent, NEW unlinked \in BOOLEAN, NEW synced \in BOOLEAN,
             ClearVerified(intent, unlinked, synced)
      PROVE  QuietWindow /\ exposed' = FALSE /\ quiet' = NoEvidence
  <2>1. takeRecoveryProofAccepted(lease) /\ unlinked /\ intent = "pending"
    BY <1>7 DEF ClearVerified, vars
  <2>2. exposed' = FALSE /\ quiet' = NoEvidence BY <1>7, <2>1 DEF ClearVerified
  <2>3. QuietWindow BY <2>1 DEF takeRecoveryProofAccepted, IInv, ProofIsEvidence
  <2> QED BY <2>2, <2>3
<1>8. CASE \E owner, verified, intent, r :
             \/ Renew(owner, intent, r) \/ Claim(owner, verified, intent, r)
             \/ OwnerLost(owner)
  BY <1>8 DEF Renew, Claim, OwnerLost
<1> QED BY <1>1, <1>2, <1>3, <1>4, <1>5, <1>6, <1>7, <1>8 DEF Next

\* Nothing but a complete window, seen after the marker and after the last write,
\* takes a pending marker out of the journal.
THEOREM FreshWindowClears == Spec => ClearedOnlyByFreshWindow
<1>1. IInv /\ [Next]_vars =>
        [marker = "pending" /\ marker' = "absent" =>
           QuietWindow \/ (disk # "pending" /\ PowerLoss)]_vars
  BY RemovalStep
<1> QED BY <1>1, Invariance, PTL DEF Spec, ClearedOnlyByFreshWindow

-----------------------------------------------------------------------------
(* Lease and journal implement the abstract protocol.                      *)

\* No evidence is no window.
LEMMA NoEvidenceIsNoWindow ==
  /\ quiet = NoEvidence => QuietWindow = FALSE
  /\ quiet' = NoEvidence => QuietWindow' = FALSE
BY LeaseAssumption DEF QuietWindow, NoEvidence

\* The initial states are initial states of the protocol.
LEMMA ProtocolInitially == Init => Protocol!ProtocolInit
BY NoEvidenceIsNoWindow DEF Init, Protocol!ProtocolInit

\* Every step is a protocol step under the mapping, or stutters.
LEMMA ProtocolStep ==
  ASSUME IInv, [Next]_vars
  PROVE  [Protocol!ProtocolNext]_Protocol!protocolVars
<1> DEFINE armed == marker # "absent"
<1> USE DEF Protocol!ProtocolNext, Protocol!protocolVars
<1>1. CASE UNCHANGED <<marker, exposed>>
  <2>1. QuietWindow' \in BOOLEAN BY DEF QuietWindow
  <2> QED BY <1>1, <2>1 DEF Protocol!Observe
<1>2. CASE ~armed /\ marker' # "absent"
  <2>1. exposed' = exposed /\ quiet' = NoEvidence
    <3>1. CASE \E intent, out : MarkPending(intent, out)
      BY <1>2, <3>1 DEF MarkPending
    <3>2. CASE PowerLoss BY <3>2 DEF PowerLoss, AfterPowerLoss
    <3>3. CASE \E intent, unlinked, synced : ClearVerified(intent, unlinked, synced)
      BY <1>2, <3>3 DEF ClearVerified, vars
    <3>4. CASE \/ Advance \/ Write \/ Tick \/ Sleep \/ Restart \/ UNCHANGED vars
               \/ \E r : Sample(r) \/ RecoveryStarted(r)
               \/ \E intent, r : Start(intent, r)
               \/ \E owner, v, intent, r : Renew(owner, intent, r) \/ Claim(owner, v, intent, r)
               \/ \E owner : OwnerLost(owner)
      BY <1>2, <3>4 DEF Advance, Write, Tick, Sleep, Restart, vars, Sample, RecoveryStarted,
         Start, Renew, Claim, OwnerLost
    <3> QED BY <3>1, <3>2, <3>3, <3>4 DEF Next
  <2> QED BY <1>2, <2>1, NoEvidenceIsNoWindow DEF Protocol!Arm
<1>3. CASE armed /\ marker' = "absent"
  <2>1. CASE QuietWindow /\ exposed' = FALSE /\ quiet' = NoEvidence
    BY <1>3, <2>1, NoEvidenceIsNoWindow DEF Protocol!Disarm
  <2>2. CASE disk # marker /\ PowerLoss
    <3>1. ~exposed BY <2>2 DEF IInv, ExposedIsDurable
    <3>2. QuietWindow' \in BOOLEAN BY DEF QuietWindow
    <3> QED BY <1>3, <2>2, <3>1, <3>2 DEF PowerLoss, AfterPowerLoss, Protocol!Forget, IInv, TypeOK
  <2> QED BY <1>3, <2>1, <2>2, RemovalStep
<1>4. CASE Write
  BY <1>4, NoEvidenceIsNoWindow DEF Write, IInv, AuthorityIsDurable, Protocol!Expose
<1>5. CASE armed /\ marker' # "absent" /\ ~Write
  <2>1. exposed' = exposed
    <3>1. CASE \E intent : \E unlinked, synced \in BOOLEAN :
                  ClearVerified(intent, unlinked, synced)
      BY <1>5, <3>1 DEF ClearVerified, vars
    <3>2. CASE \E intent, out : MarkPending(intent, out) BY <3>2 DEF MarkPending
    <3>3. CASE \/ Advance \/ Tick \/ Sleep \/ Restart \/ PowerLoss \/ UNCHANGED vars
               \/ \E r : Sample(r) \/ RecoveryStarted(r)
               \/ \E intent, r : Start(intent, r)
               \/ \E owner, v, intent, r : Renew(owner, intent, r) \/ Claim(owner, v, intent, r)
               \/ \E owner : OwnerLost(owner)
      BY <3>3 DEF Advance, Tick, Sleep, Restart, PowerLoss, vars, Sample, RecoveryStarted,
         Start, Renew, Claim, OwnerLost
    <3> QED BY <1>5, <3>1, <3>2, <3>3 DEF Next
  <2>2. QuietWindow' \in BOOLEAN BY DEF QuietWindow
  <2> QED BY <1>5, <2>1, <2>2 DEF Protocol!Observe
<1>6. CASE ~armed /\ marker' = "absent"
  <2>1. ~exposed BY <1>6 DEF IInv, ExposedIsDurable
  <2>2. CASE Write BY <1>4, <2>2
  <2>3. CASE ~Write
    <3>1. exposed' = FALSE
      <4>1. CASE \E intent, unlinked, synced : ClearVerified(intent, unlinked, synced)
        BY <2>1, <4>1 DEF ClearVerified, vars, IInv, TypeOK
      <4>2. CASE \E intent, out : MarkPending(intent, out)
        BY <2>1, <4>2 DEF MarkPending, IInv, TypeOK
      <4>3. CASE \/ Advance \/ Tick \/ Sleep \/ Restart \/ PowerLoss \/ UNCHANGED vars
                 \/ \E r : Sample(r) \/ RecoveryStarted(r)
                 \/ \E intent, r : Start(intent, r)
                 \/ \E owner, v, intent, r : Renew(owner, intent, r) \/ Claim(owner, v, intent, r)
                 \/ \E owner : OwnerLost(owner)
        BY <2>1, <4>3 DEF Advance, Tick, Sleep, Restart, PowerLoss, vars, Sample,
           RecoveryStarted, Start, Renew, Claim, OwnerLost, IInv, TypeOK
      <4> QED BY <2>3, <4>1, <4>2, <4>3 DEF Next
    <3> QED BY <1>1, <1>6, <2>1, <3>1 DEF IInv, TypeOK
  <2> QED BY <2>2, <2>3
<1> QED BY <1>2, <1>3, <1>4, <1>5, <1>6

\* Lease and journal, with every crash and power loss, implement the protocol:
\* no exposure without an intent, no disarming without a later verification.
THEOREM Refinement == Spec => ImplementsProtocol
<1>1. IInv /\ [Next]_vars => [Protocol!ProtocolNext]_Protocol!protocolVars
  BY ProtocolStep
<1> QED BY <1>1, ProtocolInitially, Invariance, PTL
       DEF Spec, ImplementsProtocol, Protocol!ProtocolSpec
=============================================================================
