---------------------------- MODULE InstallPath ----------------------------
(***************************************************************************)
(* The way of one artifact from a compile request to a native call: the    *)
(* gates of the compile service, the manifest-keyed cache that integrations*)
(* fill with the artifact's packets, the control plane of the operators,   *)
(* and a consumer that looks the artifact up and routes a call through the *)
(* control plane.                                                          *)
(***************************************************************************)
EXTENDS AsyncManifestCache, CompileGates, ControlPlane

\* Every artifact a consumer may call has a cache key.
ASSUME PathAssumption == ProductArtifacts \subseteq Keys

VARIABLE call   \* the consumer's call: product, generation it saw, last status

pathVars == <<cache_entries, gateVars, planeVars, call>>

NoCall == [product |-> None, current |-> 0, status |-> "none"]

PathInit == Init /\ GatesInit /\ PlaneInit /\ call = NoCall

Compile == GatesNext /\ UNCHANGED <<cache_entries, planeVars, call>>

\* An artifact has accepted packets only once it was compiled to be installed.
Installable == response.status = "Compiled" /\ response.disposition = "Installable"

Record == Installable /\ Next /\ UNCHANGED <<gateVars, planeVars, call>>

\* Nothing before the first call reads the rules.
Operate == Installable /\ PlaneNext /\ UNCHANGED <<cache_entries, gateVars, call>>

\* The runtime's generation: the one its owner has fenced off everything below.
CurrentGeneration == IF stale_before > Generation THEN stale_before ELSE Generation

\* The consumer finds the artifact installable and reads the current generation.
Observe(p) ==
    /\ call.product = None /\ Lookup(p.artifact).outcome = "HitInstallable"
    /\ call' = [product |-> p, current |-> CurrentGeneration, status |-> "none"]
    /\ UNCHANGED <<cache_entries, gateVars, planeVars>>

\* route_consumer_admission_product_adapter_with_current
Route(evidence) ==
    /\ call.product # None
    /\ call' = [NoCall EXCEPT !.status =
                  ProductCallStatus(call.product, Evaluate(call.product, evidence),
                                    Generation, call.current)]
    /\ ApplyDecision(call.product)
    /\ UNCHANGED <<cache_entries, gateVars>>

PathNext ==
    \/ Compile \/ Record \/ Operate
    \/ \E p \in Products : Observe(p)
    \/ \E evidence \in BOOLEAN : Route(evidence)

PathSpec == PathInit /\ [][PathNext]_pathVars

-----------------------------------------------------------------------------
(* Properties                                                              *)

\* A call is accepted (AcceptedPendingProductGate) only for an artifact whose
\* compilation nobody had cancelled or fenced off, at the generation the artifact
\* was compiled for, and only if, when it is routed, no kill switch in force and no
\* revocation concerns an identified candidate; and whatever is decided, the
\* artifact is in no registry after it.
AcceptedIsAllowed ==
    [][call.product # None /\ call'.product = None =>
        /\ call'.status = "AcceptedPendingProductGate" =>
              /\ unwanted = {} /\ call.current = Generation
              /\ call.product.identified =>
                    ~Revoked(call.product)
                    /\ \A s \in kill_switches : ~SwitchApplies(s, call.product)
        /\ \A r \in Registries : call.product.artifact \notin publication'[r]
      ]_pathVars

=============================================================================
