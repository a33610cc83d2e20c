----------------------------- MODULE WireQuery ------------------------------
(***************************************************************************)
(* Field tables of the codec generated into x/privacy/types/query.pb.go:   *)
(* the requests and responses of the query service. For each message: the  *)
(* fields in the order MarshalToSizedBuffer writes them (backwards) with   *)
(* their tag bytes, the fields Size adds up with their tag lengths, and    *)
(* the cases of Unmarshal with their field numbers. A long Unmarshal is    *)
(* given in parts.                                                         *)
(***************************************************************************)
LOCAL INSTANCE WireFields
LOCAL INSTANCE Sequences

QueryCheckNullifierRequest_Marshal ==
    << Bytes("Nullifier", <<10>>) >>

QueryCheckNullifierRequest_Size ==
    << Bytes("Nullifier", 1) >>

QueryCheckNullifierRequest_Unmarshal ==
    << Bytes("Nullifier", 1) >>

QueryCheckNullifierResponse_Marshal ==
    << Bool("Used", <<8>>) >>

QueryCheckNullifierResponse_Size ==
    << Bool("Used", 1) >>

QueryCheckNullifierResponse_Unmarshal ==
    << Bool("Used", 1) >>

QueryCheckNullifiersRequest_Marshal ==
    << RepBytes("Nullifiers", <<10>>) >>

QueryCheckNullifiersRequest_Size ==
    << RepBytes("Nullifiers", 1) >>

QueryCheckNullifiersRequest_Unmarshal ==
    << RepBytes("Nullifiers", 1) >>

QueryNullifierStatus_Marshal ==
    << Bool("Used", <<16>>), Bytes("Nullifier", <<10>>) >>

QueryNullifierStatus_Size ==
    << Bytes("Nullifier", 1), Bool("Used", 1) >>

QueryNullifierStatus_Unmarshal ==
    << Bytes("Nullifier", 1), Bool("Used", 2) >>

QueryCheckNullifiersResponse_Marshal ==
    << RepMsg("Statuses", "QueryNullifierStatus", <<10>>) >>

QueryCheckNullifiersResponse_Size ==
    << RepMsg("Statuses", "QueryNullifierStatus", 1) >>

QueryCheckNullifiersResponse_Unmarshal ==
    << RepMsg("Statuses", "QueryNullifierStatus", 1) >>

QueryTreeStateRequest_Marshal ==
    <<>>

QueryTreeStateRequest_Size ==
    <<>>

QueryTreeStateRequest_Unmarshal ==
    <<>>

QueryTreeStateResponse_Marshal ==
    << Uint("RemainingLeaves", <<48>>), Uint("MaxLeaves", <<40>>),
       Bool("Initialized", <<32>>), Uint("Depth", <<24>>),
       Uint("LeafCount", <<16>>), Bytes("Root", <<10>>) >>

QueryTreeStateResponse_Size ==
    << Bytes("Root", 1), Uint("LeafCount", 1), Uint("Depth", 1),
       Bool("Initialized", 1), Uint("MaxLeaves", 1),
       Uint("RemainingLeaves", 1) >>

QueryTreeStateResponse_Unmarshal1 ==
    << Bytes("Root", 1), Uint("LeafCount", 2), Uint("Depth", 3),
       Bool("Initialized", 4), Uint("MaxLeaves", 5) >>

QueryTreeStateResponse_Unmarshal2 ==
    << Uint("RemainingLeaves", 6) >>

QueryCommitmentInfoRequest_Marshal ==
    << Bytes("CommitmentHex", <<10>>) >>

QueryCommitmentInfoRequest_Size ==
    << Bytes("CommitmentHex", 1) >>

QueryCommitmentInfoRequest_Unmarshal ==
    << Bytes("CommitmentHex", 1) >>

QueryCommitmentInfoResponse_Marshal ==
    << Uint("LeafIndex", <<16>>), Bool("Found", <<8>>) >>

QueryCommitmentInfoResponse_Size ==
    << Bool("Found", 1), Uint("LeafIndex", 1) >>

QueryCommitmentInfoResponse_Unmarshal ==
    << Bool("Found", 1), Uint("LeafIndex", 2) >>

QueryPrivacyEventsRequest_Marshal ==
    << RepBytes("EventTypes", <<34>>), Uint("Limit", <<24>>),
       Uint("Page", <<16>>), Int64("AfterHeight", <<8>>) >>

QueryPrivacyEventsRequest_Size ==
    << Int64("AfterHeight", 1), Uint("Page", 1), Uint("Limit", 1),
       RepBytes("EventTypes", 1) >>

QueryPrivacyEventsRequest_Unmarshal ==
    << Int64("AfterHeight", 1), Uint("Page", 2), Uint("Limit", 3),
       RepBytes("EventTypes", 4) >>

QueryPrivacyEventAttribute_Marshal ==
    << Bytes("Value", <<18>>), Bytes("Key", <<10>>) >>

QueryPrivacyEventAttribute_Size ==
    << Bytes("Key", 1), Bytes("Value", 1) >>

QueryPrivacyEventAttribute_Unmarshal ==
    << Bytes("Key", 1), Bytes("Value", 2) >>

QueryPrivacyEvent_Marshal ==
    << RepMsg("Attributes", "QueryPrivacyEventAttribute", <<42>>),
       Bytes("EventType", <<34>>), Bytes("TxHashHex", <<26>>),
       Int64("Height", <<16>>), Uint("Sequence", <<8>>) >>

QueryPrivacyEvent_Size ==
    << Uint("Sequence", 1), Int64("Height", 1), Bytes("TxHashHex", 1),
       Bytes("EventType", 1),
       RepMsg("Attributes", "QueryPrivacyEventAttribute", 1) >>

QueryPrivacyEvent_Unmarshal1 ==
    << Uint("Sequence", 1), Int64("Height", 2), Bytes("TxHashHex", 3),
       Bytes("EventType", 4) >>

QueryPrivacyEvent_Unmarshal2 ==
    << RepMsg("Attributes", "QueryPrivacyEventAttribute", 5) >>

QueryPrivacyEventsResponse_Marshal ==
    << Bool("HasMore", <<32>>), Uint("Limit", <<24>>), Uint("Page", <<16>>),
       RepMsg("Events", "QueryPrivacyEvent", <<10>>) >>

QueryPrivacyEventsResponse_Size ==
    << RepMsg("Events", "QueryPrivacyEvent", 1), Uint("Page", 1),
       Uint("Limit", 1), Bool("HasMore", 1) >>

QueryPrivacyEventsResponse_Unmarshal ==
    << RepMsg("Events", "QueryPrivacyEvent", 1), Uint("Page", 2),
       Uint("Limit", 3), Bool("HasMore", 4) >>

QueryScanEventsRequest_Marshal ==
    << RepBytes("EventTypes", <<34>>), Uint("Limit", <<24>>),
       Uint("AfterSequence", <<16>>), Int64("AfterHeight", <<8>>) >>

QueryScanEventsRequest_Size ==
    << Int64("AfterHeight", 1), Uint("AfterSequence", 1), Uint("Limit", 1),
       RepBytes("EventTypes", 1) >>

QueryScanEventsRequest_Unmarshal ==
    << Int64("AfterHeight", 1), Uint("AfterSequence", 2), Uint("Limit", 3),
       RepBytes("EventTypes", 4) >>

QueryScanOutput_Marshal ==
    << Uint("LeafIndex", <<56>>), Bool("LeafIndexFound", <<48>>),
       Bytes("ViewTagHex", <<42>>), Bytes("CipherTextHex", <<34>>),
       Bytes("EncryptedNoteHex", <<26>>), Bytes("CommitmentHex", <<18>>),
       Uint("OutputIndex", <<8>>) >>

QueryScanOutput_Size ==
    << Uint("OutputIndex", 1), Bytes("CommitmentHex", 1),
       Bytes("EncryptedNoteHex", 1), Bytes("CipherTextHex", 1),
       Bytes("ViewTagHex", 1), Bool("LeafIndexFound", 1),
       Uint("LeafIndex", 1) >>

QueryScanOutput_Unmarshal1 ==
    << Uint("OutputIndex", 1), Bytes("CommitmentHex", 2),
       Bytes("EncryptedNoteHex", 3), Bytes("CipherTextHex", 4) >>

QueryScanOutput_Unmarshal2 ==
    << Bytes("ViewTagHex", 5), Bool("LeafIndexFound", 6),
       Uint("LeafIndex", 7) >>

QueryScanEvent_Marshal ==
    << RepBytes("NullifierHexes", <<50>>),
       RepMsg("Outputs", "QueryScanOutput", <<42>>),
       Bytes("EventType", <<34>>), Bytes("TxHashHex", <<26>>),
       Int64("Height", <<16>>), Uint("Sequence", <<8>>) >>

QueryScanEvent_Size ==
    << Uint("Sequence", 1), Int64("Height", 1), Bytes("TxHashHex", 1),
       Bytes("EventType", 1), RepMsg("Outputs", "QueryScanOutput", 1),
       RepBytes("NullifierHexes", 1) >>

QueryScanEvent_Unmarshal1 ==
    << Uint("Sequence", 1), Int64("Height", 2), Bytes("TxHashHex", 3),
       Bytes("EventType", 4) >>

QueryScanEvent_Unmarshal2 ==
    << RepMsg("Outputs", "QueryScanOutput", 5),
       RepBytes("NullifierHexes", 6) >>

QueryScanEventsResponse_Marshal ==
    << Uint("ViewTagVersion", <<56>>), Uint("ScanFormatVersion", <<48>>),
       Bool("HasMore", <<40>>), Uint("Limit", <<32>>),
       Uint("NextSequence", <<24>>), Int64("NextHeight", <<16>>),
       RepMsg("Events", "QueryScanEvent", <<10>>) >>

QueryScanEventsResponse_Size ==
    << RepMsg("Events", "QueryScanEvent", 1), Int64("NextHeight", 1),
       Uint("NextSequence", 1), Uint("Limit", 1), Bool("HasMore", 1),
       Uint("ScanFormatVersion", 1), Uint("ViewTagVersion", 1) >>

QueryScanEventsResponse_Unmarshal1 ==
    << RepMsg("Events", "QueryScanEvent", 1), Int64("NextHeight", 2),
       Uint("NextSequence", 3), Uint("Limit", 4), Bool("HasMore", 5) >>

QueryScanEventsResponse_Unmarshal2 ==
    << Uint("ScanFormatVersion", 6), Uint("ViewTagVersion", 7) >>

QueryMerklePathRequest_Marshal ==
    << Bytes("CommitmentHex", <<10>>) >>

QueryMerklePathRequest_Size ==
    << Bytes("CommitmentHex", 1) >>

QueryMerklePathRequest_Unmarshal ==
    << Bytes("CommitmentHex", 1) >>

QueryMerklePathResponse_Marshal ==
    << Bytes("Root", <<26>>), Packed("PathHelper", <<18>>),
       RepBytes("Path", <<10>>) >>

QueryMerklePathResponse_Size ==
    << RepBytes("Path", 1), Packed("PathHelper", 1), Bytes("Root", 1) >>

QueryMerklePathResponse_Unmarshal1 ==
    << RepBytes("Path", 1), Packed("PathHelper", 2) >>

QueryMerklePathResponse_Unmarshal2 ==
    << Bytes("Root", 3) >>

QueryAuditConfigRequest_Marshal ==
    <<>>

QueryAuditConfigRequest_Size ==
    <<>>

QueryAuditConfigRequest_Unmarshal ==
    <<>>

QueryAuditConfigResponse_Marshal ==
    << Uint("AuditKeyEpoch", <<24>>), Bytes("AuditKeyId", <<18>>),
       Bytes("AuditMasterPubkeyHex", <<10>>) >>

QueryAuditConfigResponse_Size ==
    << Bytes("AuditMasterPubkeyHex", 1), Bytes("AuditKeyId", 1),
       Uint("AuditKeyEpoch", 1) >>

QueryAuditConfigResponse_Unmarshal ==
    << Bytes("AuditMasterPubkeyHex", 1), Bytes("AuditKeyId", 2),
       Uint("AuditKeyEpoch", 3) >>

QueryDisclosureConfigRequest_Marshal ==
    <<>>

QueryDisclosureConfigRequest_Size ==
    <<>>

QueryDisclosureConfigRequest_Unmarshal ==
    <<>>

QueryDisclosureConfigResponse_Marshal ==
    << RepBytes("SupportedUserModes", <<34>>),
       RepBytes("SupportedUserPolicies", <<26>>),
       Bool("AuditDisclosureRequired", <<16>>),
       Bytes("PayloadVersion", <<10>>) >>

QueryDisclosureConfigResponse_Size ==
    << Bytes("PayloadVersion", 1), Bool("AuditDisclosureRequired", 1),
       RepBytes("SupportedUserPolicies", 1),
       RepBytes("SupportedUserModes", 1) >>

QueryDisclosureConfigResponse_Unmarshal1 ==
    << Bytes("PayloadVersion", 1), Bool("AuditDisclosureRequired", 2),
       RepBytes("SupportedUserPolicies", 3) >>

QueryDisclosureConfigResponse_Unmarshal2 ==
    << RepBytes("SupportedUserModes", 4) >>

QueryCircuitConfigRequest_Marshal ==
    <<>>

QueryCircuitConfigRequest_Size ==
    <<>>

QueryCircuitConfigRequest_Unmarshal ==
    <<>>

QueryCircuitArtifact_Marshal ==
    << Bytes("Sha256", <<42>>), Bytes("ChecksumEnv", <<34>>),
       Bytes("Filename", <<26>>), Bytes("ArtifactType", <<18>>),
       Bytes("CircuitId", <<10>>) >>

QueryCircuitArtifact_Size ==
    << Bytes("CircuitId", 1), Bytes("ArtifactType", 1), Bytes("Filename", 1),
       Bytes("ChecksumEnv", 1), Bytes("Sha256", 1) >>

QueryCircuitArtifact_Unmarshal1 ==
    << Bytes("CircuitId", 1), Bytes("ArtifactType", 2),
       Bytes("Filename", 3) >>

QueryCircuitArtifact_Unmarshal2 ==
    << Bytes("ChecksumEnv", 4), Bytes("Sha256", 5) >>

QueryCircuitConfigResponse_Marshal ==
    << Msg("CircuitSetIdentity", "CircuitSetIdentity", <<74>>),
       RepMsg("Artifacts", "QueryCircuitArtifact", <<66>>),
       Bytes("GeneratedAt", <<58>>), Bytes("ChecksumSource", <<50>>),
       Bool("ManifestAvailable", <<40>>), Bytes("ManifestFile", <<34>>),
       Bytes("Curve", <<26>>), Bytes("ActiveSetId", <<18>>),
       Bytes("SchemaVersion", <<10>>) >>

QueryCircuitConfigResponse_Size ==
    << Bytes("SchemaVersion", 1), Bytes("ActiveSetId", 1), Bytes("Curve", 1),
       Bytes("ManifestFile", 1), Bool("ManifestAvailable", 1),
       Bytes("ChecksumSource", 1), Bytes("GeneratedAt", 1),
       RepMsg("Artifacts", "QueryCircuitArtifact", 1),
       Msg("CircuitSetIdentity", "CircuitSetIdentity", 1) >>

QueryCircuitConfigResponse_Unmarshal1 ==
    << Bytes("SchemaVersion", 1), Bytes("ActiveSetId", 2),
       Bytes("Curve", 3) >>

QueryCircuitConfigResponse_Unmarshal2 ==
    << Bytes("ManifestFile", 4), Bool("ManifestAvailable", 5),
       Bytes("ChecksumSource", 6), Bytes("GeneratedAt", 7),
       RepMsg("Artifacts", "QueryCircuitArtifact", 8) >>

QueryCircuitConfigResponse_Unmarshal3 ==
    << Msg("CircuitSetIdentity", "CircuitSetIdentity", 9) >>

QueryReserveRequest_Marshal ==
    << Bytes("Denom", <<10>>) >>

QueryReserveRequest_Size ==
    << Bytes("Denom", 1) >>

QueryReserveRequest_Unmarshal ==
    << Bytes("Denom", 1) >>

QueryReserveResponse_Marshal ==
    << Bytes("Shortfall", <<82>>), Bytes("Surplus", <<74>>),
       Bool("Collateralized", <<64>>), Bytes("Liability", <<58>>),
       Bool("InvariantHolds", <<48>>), Bytes("ExpectedModuleBalance", <<42>>),
       Bytes("TotalWithdrawn", <<34>>), Bytes("TotalDeposited", <<26>>),
       Bytes("ModuleBalance", <<18>>), Bytes("Denom", <<10>>) >>

QueryReserveResponse_Size ==
    << Bytes("Denom", 1), Bytes("ModuleBalance", 1),
       Bytes("TotalDeposited", 1), Bytes("TotalWithdrawn", 1),
       Bytes("ExpectedModuleBalance", 1), Bool("InvariantHolds", 1),
       Bytes("Liability", 1), Bool("Collateralized", 1), Bytes("Surplus", 1),
       Bytes("Shortfall", 1) >>

QueryReserveResponse_Unmarshal1 ==
    << Bytes("Denom", 1), Bytes("ModuleBalance", 2),
       Bytes("TotalDeposited", 3) >>

QueryReserveResponse_Unmarshal2 ==
    << Bytes("TotalWithdrawn", 4), Bytes("ExpectedModuleBalance", 5),
       Bool("InvariantHolds", 6), Bytes("Liability", 7),
       Bool("Collateralized", 8) >>

QueryReserveResponse_Unmarshal3 ==
    << Bytes("Surplus", 9), Bytes("Shortfall", 10) >>

QueryAssetByDenomRequest_Marshal ==
    << Bytes("CanonicalDenom", <<10>>) >>

QueryAssetByDenomRequest_Size ==
    << Bytes("CanonicalDenom", 1) >>

QueryAssetByDenomRequest_Unmarshal ==
    << Bytes("CanonicalDenom", 1) >>

QueryAssetByDenomResponse_Marshal ==
    << Bytes("MappingVersion", <<18>>),
       Msg("Asset", "AssetRegistryEntryV1", <<10>>) >>

QueryAssetByDenomResponse_Size ==
    << Msg("Asset", "AssetRegistryEntryV1", 1), Bytes("MappingVersion", 1) >>

QueryAssetByDenomResponse_Unmarshal ==
    << Msg("Asset", "AssetRegistryEntryV1", 1), Bytes("MappingVersion", 2) >>

QueryAssetByIDRequest_Marshal ==
    << Bytes("AssetIdHex", <<10>>) >>

QueryAssetByIDRequest_Size ==
    << Bytes("AssetIdHex", 1) >>

QueryAssetByIDRequest_Unmarshal ==
    << Bytes("AssetIdHex", 1) >>

QueryAssetByIDResponse_Marshal ==
    << Bytes("MappingVersion", <<18>>),
       Msg("Asset", "AssetRegistryEntryV1", <<10>>) >>

QueryAssetByIDResponse_Size ==
    << Msg("Asset", "AssetRegistryEntryV1", 1), Bytes("MappingVersion", 1) >>

QueryAssetByIDResponse_Unmarshal ==
    << Msg("Asset", "AssetRegistryEntryV1", 1), Bytes("MappingVersion", 2) >>

QueryPrivacyScanRequest_Marshal ==
    << RepBytes("EventTypes", <<42>>), Uint("MaxEncodedBytes", <<32>>),
       Uint("EventLimit", <<24>>), Uint("OutputLimit", <<16>>),
       Msg("After", "PrivacyScanCursorV1", <<10>>) >>

QueryPrivacyScanRequest_Size ==
    << Msg("After", "PrivacyScanCursorV1", 1), Uint("OutputLimit", 1),
       Uint("EventLimit", 1), Uint("MaxEncodedBytes", 1),
       RepBytes("EventTypes", 1) >>

QueryPrivacyScanRequest_Unmarshal1 ==
    << Msg("After", "PrivacyScanCursorV1", 1), Uint("OutputLimit", 2),
       Uint("EventLimit", 3), Uint("MaxEncodedBytes", 4) >>

QueryPrivacyScanRequest_Unmarshal2 ==
    << RepBytes("EventTypes", 5) >>

QueryPrivacyScanResponse_Marshal ==
    << Bytes("ScanSchemaVersion", <<82>>), Uint("EncodedBytes", <<72>>),
       Uint("ScannedEventCount", <<64>>), Uint("MaxEncodedBytes", <<56>>),
       Uint("EventLimit", <<48>>), Uint("OutputLimit", <<40>>),
       Bool("HasMore", <<32>>),
       Msg("NextCursor", "PrivacyScanCursorV1", <<26>>),
       RepMsg("Outputs", "PrivacyScanOutputV2", <<18>>),
       RepMsg("Summaries", "PrivacyScanSummaryV2", <<10>>) >>

QueryPrivacyScanResponse_Size ==
    << RepMsg("Summaries", "PrivacyScanSummaryV2", 1),
       RepMsg("Outputs", "PrivacyScanOutputV2", 1),
       Msg("NextCursor", "PrivacyScanCursorV1", 1), Bool("HasMore", 1),
       Uint("OutputLimit", 1), Uint("EventLimit", 1),
       Uint("MaxEncodedBytes", 1), Uint("ScannedEventCount", 1),
       Uint("EncodedBytes", 1), Bytes("ScanSchemaVersion", 1) >>

QueryPrivacyScanResponse_Unmarshal1 ==
    << RepMsg("Summaries", "PrivacyScanSummaryV2", 1),
       RepMsg("Outputs", "PrivacyScanOutputV2", 2),
       Msg("NextCursor", "PrivacyScanCursorV1", 3) >>

QueryPrivacyScanResponse_Unmarshal2 ==
    << Bool("HasMore", 4), Uint("OutputLimit", 5), Uint("EventLimit", 6),
       Uint("MaxEncodedBytes", 7), Uint("ScannedEventCount", 8),
       Uint("EncodedBytes", 9) >>

QueryPrivacyScanResponse_Unmarshal3 ==
    << Bytes("ScanSchemaVersion", 10) >>

QueryCommitmentPathsAtRootRequest_Marshal ==
    << Int64("SnapshotHeight", <<24>>), Bytes("RootHex", <<18>>),
       RepBytes("CommitmentHexes", <<10>>) >>

QueryCommitmentPathsAtRootRequest_Size ==
    << RepBytes("CommitmentHexes", 1), Bytes("RootHex", 1),
       Int64("SnapshotHeight", 1) >>

QueryCommitmentPathsAtRootRequest_Unmarshal ==
    << RepBytes("CommitmentHexes", 1), Bytes("RootHex", 2),
       Int64("SnapshotHeight", 3) >>

QueryCommitmentPathAtRoot_Marshal ==
    << Packed("PathHelper", <<34>>), RepBytes("Path", <<26>>),
       Uint("LeafIndex", <<16>>), Bytes("CommitmentHex", <<10>>) >>

QueryCommitmentPathAtRoot_Size ==
    << Bytes("CommitmentHex", 1), Uint("LeafIndex", 1), RepBytes("Path", 1),
       Packed("PathHelper", 1) >>

QueryCommitmentPathAtRoot_Unmarshal1 ==
    << Bytes("CommitmentHex", 1), Uint("LeafIndex", 2), RepBytes("Path", 3) >>

QueryCommitmentPathAtRoot_Unmarshal2 ==
    << Packed("PathHelper", 4) >>

QueryCommitmentPathsAtRootResponse_Marshal ==
    << RepMsg("Paths", "QueryCommitmentPathAtRoot", <<34>>),
       Uint("LeafCount", <<24>>), Int64("SnapshotHeight", <<16>>),
       Bytes("RootHex", <<10>>) >>

QueryCommitmentPathsAtRootResponse_Size ==
    << Bytes("RootHex", 1), Int64("SnapshotHeight", 1), Uint("LeafCount", 1),
       RepMsg("Paths", "QueryCommitmentPathAtRoot", 1) >>

QueryCommitmentPathsAtRootResponse_Unmarshal1 ==
    << Bytes("RootHex", 1), Int64("SnapshotHeight", 2),
       Uint("LeafCount", 3) >>

QueryCommitmentPathsAtRootResponse_Unmarshal2 ==
    << RepMsg("Paths", "QueryCommitmentPathAtRoot", 4) >>

\* What the three functions of a message do, by message name.
QueryCodec ==
    [ QueryCheckNullifierRequest |->
         Codec3(QueryCheckNullifierRequest_Marshal, QueryCheckNullifierRequest_Size,
                QueryCheckNullifierRequest_Unmarshal),
      QueryCheckNullifierResponse |->
         Codec3(QueryCheckNullifierResponse_Marshal, QueryCheckNullifierResponse_Size,
                QueryCheckNullifierResponse_Unmarshal),
      QueryCheckNullifiersRequest |->
         Codec3(QueryCheckNullifiersRequest_Marshal, QueryCheckNullifiersRequest_Size,
                QueryCheckNullifiersRequest_Unmarshal),
      QueryNullifierStatus |->
         Codec3(QueryNullifierStatus_Marshal, QueryNullifierStatus_Size,
                QueryNullifierStatus_Unmarshal),
      QueryCheckNullifiersResponse |->
         Codec3(QueryCheckNullifiersResponse_Marshal, QueryCheckNullifiersResponse_Size,
                QueryCheckNullifiersResponse_Unmarshal),
      QueryTreeStateRequest |->
         Codec3(QueryTreeStateRequest_Marshal, QueryTreeStateRequest_Size,
                QueryTreeStateRequest_Unmarshal),
      QueryTreeStateResponse |->
         Codec3(QueryTreeStateResponse_Marshal, QueryTreeStateResponse_Size,
                QueryTreeStateResponse_Unmarshal1
                \o QueryTreeStateResponse_Unmarshal2),
      QueryCommitmentInfoRequest |->
         Codec3(QueryCommitmentInfoRequest_Marshal, QueryCommitmentInfoRequest_Size,
                QueryCommitmentInfoRequest_Unmarshal),
      QueryCommitmentInfoResponse |->
         Codec3(QueryCommitmentInfoResponse_Marshal, QueryCommitmentInfoResponse_Size,
                QueryCommitmentInfoResponse_Unmarshal),
      QueryPrivacyEventsRequest |->
         Codec3(QueryPrivacyEventsRequest_Marshal, QueryPrivacyEventsRequest_Size,
                QueryPrivacyEventsRequest_Unmarshal),
      QueryPrivacyEventAttribute |->
         Codec3(QueryPrivacyEventAttribute_Marshal, QueryPrivacyEventAttribute_Size,
                QueryPrivacyEventAttribute_Unmarshal),
      QueryPrivacyEvent |->
         Codec3(QueryPrivacyEvent_Marshal, QueryPrivacyEvent_Size,
                QueryPrivacyEvent_Unmarshal1
                \o QueryPrivacyEvent_Unmarshal2),
      QueryPrivacyEventsResponse |->
         Codec3(QueryPrivacyEventsResponse_Marshal, QueryPrivacyEventsResponse_Size,
                QueryPrivacyEventsResponse_Unmarshal),
      QueryScanEventsRequest |->
         Codec3(QueryScanEventsRequest_Marshal, QueryScanEventsRequest_Size,
                QueryScanEventsRequest_Unmarshal),
      QueryScanOutput |->
         Codec3(QueryScanOutput_Marshal, QueryScanOutput_Size,
                QueryScanOutput_Unmarshal1
                \o QueryScanOutput_Unmarshal2),
      QueryScanEvent |->
         Codec3(QueryScanEvent_Marshal, QueryScanEvent_Size,
                QueryScanEvent_Unmarshal1
                \o QueryScanEvent_Unmarshal2),
      QueryScanEventsResponse |->
         Codec3(QueryScanEventsResponse_Marshal, QueryScanEventsResponse_Size,
                QueryScanEventsResponse_Unmarshal1
                \o QueryScanEventsResponse_Unmarshal2),
      QueryMerklePathRequest |->
         Codec3(QueryMerklePathRequest_Marshal, QueryMerklePathRequest_Size,
                QueryMerklePathRequest_Unmarshal),
      QueryMerklePathResponse |->
         Codec3(QueryMerklePathResponse_Marshal, QueryMerklePathResponse_Size,
                QueryMerklePathResponse_Unmarshal1
                \o QueryMerklePathResponse_Unmarshal2),
      QueryAuditConfigRequest |->
         Codec3(QueryAuditConfigRequest_Marshal, QueryAuditConfigRequest_Size,
                QueryAuditConfigRequest_Unmarshal),
      QueryAuditConfigResponse |->
         Codec3(QueryAuditConfigResponse_Marshal, QueryAuditConfigResponse_Size,
                QueryAuditConfigResponse_Unmarshal),
      QueryDisclosureConfigRequest |->
         Codec3(QueryDisclosureConfigRequest_Marshal, QueryDisclosureConfigRequest_Size,
                QueryDisclosureConfigRequest_Unmarshal),
      QueryDisclosureConfigResponse |->
         Codec3(QueryDisclosureConfigResponse_Marshal, QueryDisclosureConfigResponse_Size,
                QueryDisclosureConfigResponse_Unmarshal1
                \o QueryDisclosureConfigResponse_Unmarshal2),
      QueryCircuitConfigRequest |->
         Codec3(QueryCircuitConfigRequest_Marshal, QueryCircuitConfigRequest_Size,
                QueryCircuitConfigRequest_Unmarshal),
      QueryCircuitArtifact |->
         Codec3(QueryCircuitArtifact_Marshal, QueryCircuitArtifact_Size,
                QueryCircuitArtifact_Unmarshal1
                \o QueryCircuitArtifact_Unmarshal2),
      QueryCircuitConfigResponse |->
         Codec3(QueryCircuitConfigResponse_Marshal, QueryCircuitConfigResponse_Size,
                QueryCircuitConfigResponse_Unmarshal1
                \o QueryCircuitConfigResponse_Unmarshal2
                \o QueryCircuitConfigResponse_Unmarshal3),
      QueryReserveRequest |->
         Codec3(QueryReserveRequest_Marshal, QueryReserveRequest_Size,
                QueryReserveRequest_Unmarshal),
      QueryReserveResponse |->
         Codec3(QueryReserveResponse_Marshal, QueryReserveResponse_Size,
                QueryReserveResponse_Unmarshal1
                \o QueryReserveResponse_Unmarshal2
                \o QueryReserveResponse_Unmarshal3),
      QueryAssetByDenomRequest |->
         Codec3(QueryAssetByDenomRequest_Marshal, QueryAssetByDenomRequest_Size,
                QueryAssetByDenomRequest_Unmarshal),
      QueryAssetByDenomResponse |->
         Codec3(QueryAssetByDenomResponse_Marshal, QueryAssetByDenomResponse_Size,
                QueryAssetByDenomResponse_Unmarshal),
      QueryAssetByIDRequest |->
         Codec3(QueryAssetByIDRequest_Marshal, QueryAssetByIDRequest_Size,
                QueryAssetByIDRequest_Unmarshal),
      QueryAssetByIDResponse |->
         Codec3(QueryAssetByIDResponse_Marshal, QueryAssetByIDResponse_Size,
                QueryAssetByIDResponse_Unmarshal),
      QueryPrivacyScanRequest |->
         Codec3(QueryPrivacyScanRequest_Marshal, QueryPrivacyScanRequest_Size,
                QueryPrivacyScanRequest_Unmarshal1
                \o QueryPrivacyScanRequest_Unmarshal2),
      QueryPrivacyScanResponse |->
         Codec3(QueryPrivacyScanResponse_Marshal, QueryPrivacyScanResponse_Size,
                QueryPrivacyScanResponse_Unmarshal1
                \o QueryPrivacyScanResponse_Unmarshal2
                \o QueryPrivacyScanResponse_Unmarshal3),
      QueryCommitmentPathsAtRootRequest |->
         Codec3(QueryCommitmentPathsAtRootRequest_Marshal, QueryCommitmentPathsAtRootRequest_Size,
                QueryCommitmentPathsAtRootRequest_Unmarshal),
      QueryCommitmentPathAtRoot |->
         Codec3(QueryCommitmentPathAtRoot_Marshal, QueryCommitmentPathAtRoot_Size,
                QueryCommitmentPathAtRoot_Unmarshal1
                \o QueryCommitmentPathAtRoot_Unmarshal2),
      QueryCommitmentPathsAtRootResponse |->
         Codec3(QueryCommitmentPathsAtRootResponse_Marshal, QueryCommitmentPathsAtRootResponse_Size,
                QueryCommitmentPathsAtRootResponse_Unmarshal1
                \o QueryCommitmentPathsAtRootResponse_Unmarshal2) ]
=============================================================================
