---------------------------- MODULE ControlPlane ----------------------------
(***************************************************************************)
(* The deny/remove control plane of the native tier (jit_control_plane.rs) *)
(* and the call-time revalidation of an install gate packet under its      *)
(* decision (jit_install_gate.rs).  A product is a cached artifact as a    *)
(* consumer would call it: the candidate the control plane judges and the  *)
(* packet the gate revalidates, made from the same artifact.  Digests and  *)
(* canonical hashes that bind a rule to its fields are taken to match, and *)
(* the replay roots and telemetry keys that outlive a removal are left out.*)
(***************************************************************************)
EXTENDS Naturals

CONSTANTS
    Products,      \* see ProductFields
    Switches       \* see SwitchFields; the rules operators may add

Modes == {"ProfileOnly", "ShadowOnly", "CanaryInstallable", "ActiveInstallable"}

\* identified: has_required_identity.  policy: target facts and proof policy.
\* admissible: the consumer admission evidence binds the packet, and consumer and
\* surface belong together.
ProductFields(p) ==
    /\ p.mode \in Modes /\ p.consumer \in {"ay", "ty", "other"}
    /\ p.identified \in BOOLEAN /\ p.admissible \in BOOLEAN

SwitchFields(s) ==
    /\ s.scope \in {"Global", "Consumer", "Family", "Artifact", "TargetProofPolicy", "Mode"}
    /\ s.active \in BOOLEAN

ASSUME PlaneAssumption ==
    /\ \A p \in Products : ProductFields(p)
    /\ \A s \in Switches : SwitchFields(s)

Registries == {"callable_registry", "installable_cache", "ay_registry", "ty_native_handles"}

VARIABLES
    kill_switches,   \* the rules added
    revocations,     \* artifact -> its last revocation: "none", "active", "inactive"
    publication      \* registry -> the artifacts in it

planeVars == <<kill_switches, revocations, publication>>

ProductArtifacts == {p.artifact : p \in Products}

PlaneInit ==
    /\ kill_switches = {}
    /\ revocations = [a \in ProductArtifacts |-> "none"]
    /\ publication = [r \in Registries |-> {}]

-----------------------------------------------------------------------------
(* Operators of the control plane                                          *)

\* add_kill_switch
AddKillSwitch(s) ==
    /\ s \notin kill_switches
    /\ kill_switches' = kill_switches \cup {s}
    /\ UNCHANGED <<revocations, publication>>

\* remove_callable_install_state
Without(a) == [r \in Registries |-> publication[r] \ {a}]

\* revoke_artifact: the last revocation of an artifact is the one that counts, and
\* an inactive one removes as well.
RevokeArtifact(a, kind) ==
    /\ publication' = Without(a)
    /\ revocations' = [revocations EXCEPT ![a] = kind]
    /\ UNCHANGED kill_switches

\* The registries record_existing_product_publication enters an artifact into.
RegistriesOf(consumer) ==
    {"callable_registry", "installable_cache"}
    \cup (CASE consumer = "ay" -> {"ay_registry"}
            [] consumer = "ty" -> {"ty_native_handles"}
            [] OTHER -> {})

\* record_existing_product_publication: no rule is looked at.
RecordExisting(p) ==
    /\ publication' = [r \in Registries |->
                         IF r \in RegistriesOf(p.consumer)
                         THEN publication[r] \cup {p.artifact} ELSE publication[r]]
    /\ UNCHANGED <<kill_switches, revocations>>

PlaneNext ==
    \/ \E s \in Switches : AddKillSwitch(s)
    \/ \E a \in ProductArtifacts, kind \in {"active", "inactive"} : RevokeArtifact(a, kind)
    \/ \E p \in Products : RecordExisting(p)

-----------------------------------------------------------------------------
(* Decisions                                                               *)

\* ControlPlaneKillSwitch::applies_to
SwitchApplies(s, p) ==
    /\ s.active
    /\ CASE s.scope = "Global" -> TRUE
         [] s.scope = "Consumer" -> s.consumer = p.consumer
         [] s.scope = "Family" -> s.consumer = p.consumer /\ s.family = p.family
         [] s.scope = "Artifact" -> s.artifact = p.artifact
         [] s.scope = "TargetProofPolicy" -> s.policy = p.policy
         [] s.scope = "Mode" -> s.mode = p.mode

Revoked(p) == revocations[p.artifact] = "active"

\* Mutant: accepted gate evidence is looked at before the rules.
MutEvaluate(p, evidence) ==
    IF ~p.identified THEN "MissingProductGateEvidence"
    ELSE IF evidence /\ p.mode \notin {"ProfileOnly", "ShadowOnly"}
    THEN "ProductActivationRequired"
    ELSE IF \E s \in kill_switches : SwitchApplies(s, p) THEN "KillSwitchActive"
    ELSE IF Revoked(p) THEN "ArtifactRevoked"
    ELSE "NonCallable"

\* evaluate: identity, kill switches, revocation, mode, gate evidence, in this
\* order.
Evaluate(p, evidence) ==
    IF ~p.identified THEN "MissingProductGateEvidence"
    ELSE IF \E s \in kill_switches : SwitchApplies(s, p) THEN "KillSwitchActive"
    ELSE IF Revoked(p) THEN "ArtifactRevoked"
    ELSE IF p.mode \in {"ProfileOnly", "ShadowOnly"} THEN "NonCallable"
    ELSE IF ~evidence THEN "MissingProductGateEvidence"
    ELSE "ProductActivationRequired"

\* install_gate_deny_control_for_decision: the rejection code of the deny control
\* that is put into the current state.  Its scope is filled in from the packet, so
\* it applies to the packet whatever rule caused it.
DenyControl(reason) ==
    CASE reason = "KillSwitchActive" -> "KillSwitchActive"
      [] reason = "ArtifactRevoked" -> "RevokedArtifact"
      [] OTHER -> "none"

\* packet_freshness_rejection of an installable packet: the live deny control, the
\* generation, the revoked bit.
FreshnessRejection(reason, generation, current) ==
    IF DenyControl(reason) # "none" THEN DenyControl(reason)
    ELSE IF generation # current THEN "StaleInvalidation"
    ELSE IF reason = "ArtifactRevoked" THEN "RevokedArtifact"
    ELSE "none"

\* product_call_status of an installable packet: runtime_outcome of the
\* revalidation, and the consumer admission.
ProductCallStatus(p, reason, generation, current) ==
    LET rejection == FreshnessRejection(reason, generation, current)
    IN  CASE rejection = "StaleInvalidation" -> "StaleDeopt"
          [] rejection = "RevokedArtifact" -> "RevokedDeopt"
          [] rejection = "KillSwitchActive" -> "KillSwitchDeopt"
          [] rejection = "none" /\ p.admissible -> "AcceptedPendingProductGate"
          [] OTHER -> "ConsumerRejected"

\* apply_product_adapter_decision: whatever was decided, the artifact leaves every
\* registry.
ApplyDecision(p) ==
    /\ publication' = Without(p.artifact)
    /\ UNCHANGED <<kill_switches, revocations>>

=============================================================================
