------------------------- MODULE AsyncManifestCache -------------------------
(***************************************************************************)
(* The manifest-keyed cache metadata of the asynchronous compile facade    *)
(* (async_compile_service.rs): what integrations record about cached       *)
(* artifacts, with the native install gate packets of the cache-insert and *)
(* the cache-hit boundary, and what submit's lookup makes of it.           *)
(*                                                                         *)
(* A manifest is known by its cache key.  The proof checksum and the       *)
(* telemetry event that identify a packet are one identity, None when      *)
(* either is absent.                                                       *)
(***************************************************************************)
EXTENDS Naturals

CONSTANTS
    Keys,         \* manifest cache keys
    Artifacts,    \* the manifests packets are bound to
    Identities,   \* proof checksum and telemetry event of a packet
    Outcomes,     \* the outcomes integrations record
    Packets,      \* native install gate packets
    None          \* Option::None

\* accepted: the packet, revalidated against the manifest it names, is
\* installable, has no rejection and authorizes its own surface.
PacketFields ==
    [surface : {"CacheInsert", "CacheHit", "AsyncPoll"}, artifact : Artifacts,
     identity : Identities \cup {None}, accepted : BOOLEAN]

BlockerCodes == {"MissingGateMetadata", "GateMetadataMismatch", "GateRejected"}

\* Mutant: the blocker code itself is stored as the outcome.
MutBlockedOutcome(blocker) == blocker

\* AsyncInstallGateBlockerCode::cache_outcome
BlockedOutcome(blocker) ==
    IF blocker = "MissingGateMetadata" THEN "GateMetadataMissing" ELSE blocker

LookupOutcomes ==
    {"HitInstallable", "HitReplayOnly", "Miss", "Stale", "Corrupt",
     "SchemaMismatch", "UnsupportedRequiredFeature", "GateMetadataMissing",
     "GateMetadataMismatch", "GateRejected"}

ASSUME CacheAssumption ==
    /\ Packets \subseteq PacketFields
    /\ Outcomes \subseteq LookupOutcomes
    /\ None \notin Packets /\ None \notin BlockerCodes /\ None \notin Identities

VARIABLE cache_entries   \* key -> recorded entry, or None

\* AsyncManifestCacheEntry
Entries ==
    [outcome : LookupOutcomes, insert : Packets \cup {None},
     hit : Packets \cup {None}, blocker : BlockerCodes \cup {None},
     identity : Identities \cup {None}]

Entry(outcome, insert, hit, blocker, identity) ==
    [outcome |-> outcome, insert |-> insert, hit |-> hit, blocker |-> blocker,
     identity |-> identity]

Init == cache_entries = [k \in Keys |-> None]

-----------------------------------------------------------------------------
(* Gate checks                                                             *)

\* gate_packet_matches_manifest
MatchesManifest(packet, k, surface) ==
    packet.surface = surface /\ packet.artifact = k

\* gate_packet_matches_cache_identity
MatchesIdentity(packet, identity) ==
    identity # None /\ packet.identity = identity

\* cache_surface_gate_blocker
SurfaceBlocker(k, outcome, packet, identity, surface) ==
    IF outcome # "HitInstallable" THEN None
    ELSE IF packet = None THEN "MissingGateMetadata"
    ELSE IF ~MatchesManifest(packet, k, surface) \/ ~MatchesIdentity(packet, identity)
    THEN "GateMetadataMismatch"
    ELSE IF ~packet.accepted THEN "GateRejected"
    ELSE None

-----------------------------------------------------------------------------
(* Recording                                                               *)

\* The outcome an entry keeps: a blocker turns it into its own outcome.
Outcome(outcome, blocker) ==
    IF blocker = None THEN outcome ELSE BlockedOutcome(blocker)

Store(k, entry) == cache_entries' = [cache_entries EXCEPT ![k] = entry]

\* record_manifest_cache_entry: metadata with no packet installs nothing.
RecordEntry(k, outcome) ==
    LET blocker == IF outcome = "HitInstallable" THEN "MissingGateMetadata" ELSE None
    IN  Store(k, Entry(Outcome(outcome, blocker), None, None, blocker, None))

\* The hit packet recorded so far.
ExistingHit(k) == IF cache_entries[k] = None THEN None ELSE cache_entries[k].hit

\* record_manifest_cache_insert_gate_entry_with_identity.  A hit packet that
\* was recorded earlier stays if the insertion is not blocked.
RecordInsert(k, outcome, packet, identity) ==
    LET blocker == SurfaceBlocker(k, outcome, packet, identity, "CacheInsert")
    IN  Store(k, Entry(Outcome(outcome, blocker), packet,
                       IF blocker = None THEN ExistingHit(k) ELSE None, blocker, identity))

\* Mutant: a hit packet makes any unblocked entry installable again.
MutHitEntry(entry, outcome, packet, identity) ==
    IF entry.blocker # None /\ outcome = "HitInstallable"
    THEN [entry EXCEPT !.hit = packet]
    ELSE Entry(outcome, entry.insert, packet, None, identity)

\* The entry after a hit packet was recorded.
HitEntry(entry, outcome, packet, identity) ==
    IF outcome # "HitInstallable"
    THEN Entry(outcome, entry.insert, packet, None, identity)
    ELSE IF entry.blocker # None
    THEN [entry EXCEPT !.hit = packet]
    ELSE IF entry.outcome = "HitInstallable" /\ entry.insert # None
    THEN Entry(entry.outcome, entry.insert, packet, None, identity)
    ELSE Entry("GateMetadataMissing", entry.insert, packet, "MissingGateMetadata",
               identity)

\* record_manifest_cache_hit_gate_entry_with_identity
RecordHit(k, outcome, packet, identity) ==
    LET fresh == Entry(outcome, None, None,
                       IF outcome = "HitInstallable" THEN "MissingGateMetadata"
                                                     ELSE None, None)
        entry == IF cache_entries[k] = None THEN fresh ELSE cache_entries[k]
    IN  Store(k, HitEntry(entry, outcome, packet, identity))

\* record_manifest_cache_gate_entry_with_identity
RecordGate(k, outcome, packet, identity) ==
    IF packet.surface = "CacheInsert"
    THEN RecordInsert(k, outcome, packet, identity)
    ELSE RecordHit(k, outcome, packet, identity)

\* The entry points without an identity take the packet's own.
Next ==
    \E k \in Keys, outcome \in Outcomes :
        \/ RecordEntry(k, outcome)
        \/ \E packet \in Packets, identity \in Identities \cup {None} :
              RecordGate(k, outcome, packet, identity)
        \/ \E packet \in Packets, identity \in Identities \cup {None} :
              RecordInsert(k, outcome, packet, identity)

Spec == Init /\ [][Next]_cache_entries

-----------------------------------------------------------------------------
(* Lookup                                                                  *)

\* Mutant: the hit packet is checked against its own identity.
MutLookup(k) ==
    LET entry == IF cache_entries[k] = None THEN Entry("Miss", None, None, None, None)
                 ELSE cache_entries[k]
        own == IF entry.hit = None THEN None ELSE entry.hit.identity
        blocker == IF entry.blocker # None THEN entry.blocker
                   ELSE SurfaceBlocker(k, entry.outcome, entry.hit, own, "CacheHit")
    IN  [outcome |-> Outcome(entry.outcome, blocker), gate |-> entry.hit,
         blocker |-> blocker, identity |-> entry.identity]

\* cache_lookup_record, the metadata submit attaches to a request.
Lookup(k) ==
    LET entry == IF cache_entries[k] = None THEN Entry("Miss", None, None, None, None)
                 ELSE cache_entries[k]
        insertBlocker ==
            IF entry.outcome = "HitInstallable" /\ entry.insert = None
               /\ entry.blocker = None
            THEN "MissingGateMetadata" ELSE entry.blocker
        blocker ==
            IF insertBlocker # None THEN insertBlocker
            ELSE SurfaceBlocker(k, entry.outcome, entry.hit, entry.identity, "CacheHit")
    IN  [outcome |-> Outcome(entry.outcome, blocker),
         gate |-> IF insertBlocker # None THEN entry.insert ELSE entry.hit,
         blocker |-> blocker, identity |-> entry.identity]

-----------------------------------------------------------------------------
(* Properties                                                              *)

\* Every recorded entry has the shape of AsyncManifestCacheEntry.
TypeOK == cache_entries \in [Keys -> Entries \cup {None}]

Passes(packet, k, surface) ==
    packet # None /\ packet.surface = surface /\ packet.artifact = k /\ packet.accepted

\* lookup reports HitInstallable only for an entry whose insertion passed the
\* cache-insert gate for this manifest and whose hit packet passes the cache-hit
\* gate with the identity the lookup reports, in whatever order packets,
\* downgrades and re-insertions were recorded.
InstallableHitHasBothGates ==
    \A k \in Keys : Lookup(k).outcome = "HitInstallable" =>
        /\ Passes(cache_entries[k].insert, k, "CacheInsert")
        /\ Passes(Lookup(k).gate, k, "CacheHit")
        /\ Lookup(k).gate.identity = Lookup(k).identity

Armed(k) ==
    /\ cache_entries[k] # None
    /\ cache_entries[k].outcome = "HitInstallable"
    /\ cache_entries[k].blocker = None

\* An entry that was downgraded or blocked becomes installable again only by an
\* insertion that passes its gate: the step records no new hit packet, and the
\* insertion packet it leaves matches the manifest and the entry's identity.
\* A hit packet never revives an insertion from before the downgrade.
RevivedOnlyByInsertion ==
    [][\A k \in Keys : ~Armed(k) /\ Armed(k)' =>
          /\ cache_entries'[k].hit = ExistingHit(k)
          /\ SurfaceBlocker(k, "HitInstallable", cache_entries'[k].insert,
                            cache_entries'[k].identity, "CacheInsert") = None
       ]_cache_entries

=============================================================================
