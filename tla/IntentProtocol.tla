--------------------------- MODULE IntentProtocol ---------------------------
(***************************************************************************)
(* What lease, journal and supervisor promise together, without leases,    *)
(* files or processes: nobody touches the fans before an intent is armed,  *)
(* an intent somebody acted on survives everything except a verified       *)
(* recovery, and a verification made before the intent, or before the last *)
(* touch, never disarms it.                                                *)
(***************************************************************************)
VARIABLES
  armed,     \* the journal holds an intent marker, readable or not
  exposed,   \* an operation may have touched the fans under this intent
  good       \* a complete window of system readings since the last touch

protocolVars == <<armed, exposed, good>>

ProtocolInit == armed \in BOOLEAN /\ exposed = FALSE /\ good = FALSE

Arm == ~armed /\ armed' = TRUE /\ good' = FALSE /\ UNCHANGED exposed

Expose == armed /\ exposed' = TRUE /\ good' = FALSE /\ UNCHANGED armed

Observe == good' \in BOOLEAN /\ UNCHANGED <<armed, exposed>>

Disarm == armed /\ good /\ armed' = FALSE /\ exposed' = FALSE /\ good' = FALSE

\* A crash may lose an intent that was never saved, so never acted on.
Forget == armed /\ ~exposed /\ armed' = FALSE /\ good' \in BOOLEAN /\ UNCHANGED exposed

ProtocolNext == Arm \/ Expose \/ Observe \/ Disarm \/ Forget

ProtocolSpec == ProtocolInit /\ [][ProtocolNext]_protocolVars
=============================================================================
