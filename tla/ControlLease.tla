---------------------------- MODULE ControlLease ----------------------------
(***************************************************************************)
(* The control lease of prototype/helper-ipc/ControlLease.c: a pure        *)
(* reducer over one record.  Every C function `control_lease_x` is an      *)
(* operator of the same name that maps the lease before the call to the    *)
(* lease after it; a function that returns bool has a second operator, the *)
(* predicate xAccepted, that says when it returns true.                    *)
(*                                                                         *)
(* Time is a natural number of abstract ticks read from one monotonic      *)
(* clock.  A reading of the fans is one of five values: what the reducer   *)
(* distinguishes of an SMC snapshot is whether it could be read, whether   *)
(* it shows system control, and whether every sensor is below 75 degrees.  *)
(***************************************************************************)
EXTENDS Integers

CONSTANTS
  RequiredSamples,  \* CONTROL_LEASE_REQUIRED_SAMPLES (61)
  BaselineTime,     \* CONTROL_LEASE_BASELINE_NS (60 s)
  LeaseTTL,         \* CONTROL_LEASE_TTL_NS (15 s)
  SampleMin,        \* CONTROL_LEASE_SAMPLE_MIN_NS (0.9 s)
  SampleMax,        \* CONTROL_LEASE_SAMPLE_MAX_NS (5 s)
  Freshness,        \* the age a claimed or supervised sample may have (2 s)
  MaxTime,          \* UINT64_MAX, the largest value the clock can return
  Owners            \* the non-zero owner tokens

ASSUME LeaseAssumption ==
  /\ RequiredSamples \in Nat /\ RequiredSamples >= 2
  /\ BaselineTime \in Nat /\ BaselineTime >= 1
  /\ LeaseTTL \in Nat /\ LeaseTTL >= 1
  /\ SampleMin \in Nat /\ SampleMin >= 1
  /\ SampleMax \in Nat /\ SampleMax >= SampleMin
  /\ Freshness \in Nat
  /\ MaxTime \in Nat /\ MaxTime > LeaseTTL
  /\ Owners \subseteq Nat \ {0}

Time == 0..MaxTime

LeaseStates == {"observing", "stable", "held", "recovery_required",
                "verifying_recovery", "read_failed"}

IntentStatus == {"clear", "pending", "unknown"}

Lease == [state : LeaseStates, owner : Owners \cup {0}, expires_at : Time,
          observation_started : Time, last_sample : Time, samples : Nat,
          write_pending : BOOLEAN, recovery_verified : BOOLEAN]

\* memset(lease, 0, sizeof(*lease)): the first enumerator is OBSERVING.
ZeroLease ==
  [state |-> "observing", owner |-> 0, expires_at |-> 0,
   observation_started |-> 0, last_sample |-> 0, samples |-> 0,
   write_pending |-> FALSE, recovery_verified |-> FALSE]

-----------------------------------------------------------------------------
(* Readings.                                                               *)

Readings == {"failed", "system_cool", "system_hot", "manual_cool", "manual_hot"}

valid_read(r) == r # "failed"

smc_baseline_is_system(r) == r \in {"system_cool", "system_hot"}

cool_enough(r) == r \in {"system_cool", "manual_cool"}

-----------------------------------------------------------------------------
(* The reducer.                                                            *)

\* Mutant: the deadline of a lost lease is kept.
require_recovery_keeps_deadline(l) ==
  [l EXCEPT !.state = "recovery_required", !.owner = 0, !.recovery_verified = FALSE]

require_recovery(l) ==
  [l EXCEPT !.state = "recovery_required", !.owner = 0, !.expires_at = 0,
            !.recovery_verified = FALSE]

read_failed(l) == [l EXCEPT !.state = "read_failed"]

\* The first sample of a window, of the startup window and of a recovery's.
open_window(l, state, now) ==
  [l EXCEPT !.state = state, !.observation_started = now,
            !.last_sample = now, !.samples = 1]

control_lease_start(intent, r, now) ==
  IF intent # "clear"
    THEN require_recovery([ZeroLease EXCEPT !.write_pending = TRUE])
  ELSE IF now = 0 \/ ~valid_read(r) THEN read_failed(ZeroLease)
  ELSE IF ~smc_baseline_is_system(r) THEN require_recovery(ZeroLease)
  ELSE open_window(ZeroLease, "observing", now)

observing(l) == l.state \in {"observing", "verifying_recovery"}

\* Mutant: a late reading still extends the window.
sample_in_time_without_max(l, r, now) ==
  valid_read(r) /\ now > l.last_sample /\ now - l.last_sample >= SampleMin

\* The reading may extend the window: it is valid and neither early nor late.
sample_in_time(l, r, now) ==
  /\ valid_read(r)
  /\ now > l.last_sample
  /\ now - l.last_sample >= SampleMin
  /\ now - l.last_sample <= SampleMax

window_complete(l) ==
  /\ l.samples >= RequiredSamples
  /\ l.last_sample - l.observation_started >= BaselineTime

\* Mutant: a reading that shows manual control is counted like any other.
control_lease_sample_any_mode(l, r, now) ==
  LET counted == [l EXCEPT !.last_sample = now, !.samples = @ + 1]
  IN  IF ~observing(l) THEN l
      ELSE IF ~sample_in_time(l, r, now) THEN read_failed(l)
      ELSE IF window_complete(counted)
        THEN [counted EXCEPT !.recovery_verified = (l.state = "verifying_recovery"),
                             !.state = "stable", !.write_pending = FALSE,
                             !.owner = 0, !.expires_at = 0]
      ELSE counted

control_lease_sample(l, r, now) ==
  LET counted == [l EXCEPT !.last_sample = now, !.samples = @ + 1]
  IN  IF ~observing(l) THEN l
      ELSE IF ~sample_in_time(l, r, now) THEN read_failed(l)
      ELSE IF ~smc_baseline_is_system(r) THEN require_recovery(counted)
      ELSE IF window_complete(counted)
        THEN [counted EXCEPT !.recovery_verified = (l.state = "verifying_recovery"),
                             !.state = "stable", !.write_pending = FALSE,
                             !.owner = 0, !.expires_at = 0]
      ELSE counted

\* Mutant: now + TTL may exceed the range of the clock.
claim_admissible_without_range(l, owner, now, restore_protocol_verified) ==
  /\ restore_protocol_verified /\ owner # 0 /\ now # 0
  /\ now >= l.last_sample /\ now - l.last_sample <= Freshness

\* A claim without these is refused and leaves the lease as it is.
claim_admissible(l, owner, now, restore_protocol_verified) ==
  /\ restore_protocol_verified
  /\ owner # 0
  /\ now # 0
  /\ now >= l.last_sample
  /\ now - l.last_sample <= Freshness
  /\ now <= MaxTime - LeaseTTL

claimAccepted(l, owner, now, restore_protocol_verified, intent, r) ==
  /\ l.state = "stable"
  /\ intent = "clear"
  /\ claim_admissible(l, owner, now, restore_protocol_verified)
  /\ valid_read(r)
  /\ smc_baseline_is_system(r)
  /\ cool_enough(r)

control_lease_claim(l, owner, now, restore_protocol_verified, intent, r) ==
  IF l.state # "stable" THEN l
  ELSE IF intent # "clear" THEN require_recovery(l)
  ELSE IF ~claim_admissible(l, owner, now, restore_protocol_verified) THEN l
  ELSE IF ~valid_read(r) THEN read_failed(l)
  ELSE IF ~smc_baseline_is_system(r) \/ ~cool_enough(r) THEN require_recovery(l)
  ELSE [l EXCEPT !.state = "held", !.owner = owner, !.last_sample = now,
                 !.expires_at = now + LeaseTTL, !.write_pending = FALSE]

held_by(l, owner) == l.state = "held" /\ owner # 0 /\ owner = l.owner

unexpired(l, now) == now >= l.last_sample /\ now < l.expires_at

markWritePendingAccepted(l, owner, now, intent) ==
  held_by(l, owner) /\ intent = "pending" /\ unexpired(l, now)

control_lease_mark_write_pending(l, owner, now, intent) ==
  IF ~held_by(l, owner) THEN l
  ELSE IF markWritePendingAccepted(l, owner, now, intent)
    THEN [l EXCEPT !.write_pending = TRUE]
  ELSE require_recovery(l)

preparePersistentIntentAccepted(l) ==
  l.state = "held" /\ l.owner # 0 /\ ~l.write_pending

control_lease_prepare_persistent_intent(l) ==
  IF preparePersistentIntentAccepted(l)
    THEN [l EXCEPT !.recovery_verified = FALSE]
  ELSE l

\* Before a write the fans must still be the system's; after it they must not.
renewable(l, now, intent, r) ==
  /\ intent = (IF l.write_pending THEN "pending" ELSE "clear")
  /\ unexpired(l, now)
  /\ now <= MaxTime - LeaseTTL
  /\ valid_read(r)
  /\ cool_enough(r)
  /\ smc_baseline_is_system(r) = ~l.write_pending

control_lease_renew(l, owner, now, intent, r) ==
  IF ~held_by(l, owner) THEN l
  ELSE IF renewable(l, now, intent, r)
    THEN [l EXCEPT !.last_sample = now, !.expires_at = now + LeaseTTL]
  ELSE require_recovery(l)

control_lease_owner_lost(l, owner) ==
  IF held_by(l, owner) THEN require_recovery(l) ELSE l

control_lease_tick(l, now) ==
  IF l.state = "held" /\ now >= l.expires_at THEN require_recovery(l) ELSE l

\* Mutant: a proof outlives the sleep of the machine.
control_lease_sleep_keeps_stable(l) ==
  IF l.state \in {"held", "observing", "verifying_recovery"}
    THEN require_recovery(l) ELSE l

control_lease_sleep(l) ==
  IF l.state \in {"held", "stable", "observing", "verifying_recovery"}
    THEN require_recovery(l) ELSE l

control_lease_recovery_started(l, r, now) ==
  IF l.state # "recovery_required" THEN l
  ELSE IF now = 0 \/ ~valid_read(r) THEN read_failed(l)
  ELSE IF smc_baseline_is_system(r)
    THEN open_window([l EXCEPT !.recovery_verified = FALSE],
                     "verifying_recovery", now)
  ELSE l

takeRecoveryProofAccepted(l) ==
  /\ l.state = "stable"
  /\ l.recovery_verified
  /\ ~l.write_pending
  /\ l.owner = 0
  /\ l.expires_at = 0
  /\ l.last_sample >= l.observation_started
  /\ window_complete(l)

control_lease_take_recovery_proof(l) ==
  IF takeRecoveryProofAccepted(l)
    THEN [l EXCEPT !.recovery_verified = FALSE] ELSE l
=============================================================================
