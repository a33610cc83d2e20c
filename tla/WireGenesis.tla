---------------------------- MODULE WireGenesis -----------------------------
(***************************************************************************)
(* Field tables of the codec generated into x/privacy/types/genesis.pb.go: *)
(* the genesis state and the records the keeper stores. For each message:  *)
(* the fields in the order MarshalToSizedBuffer writes them (backwards)    *)
(* with their tag bytes, the fields Size adds up with their tag lengths,   *)
(* and the cases of Unmarshal with their field numbers. A long Unmarshal   *)
(* is given in parts.                                                      *)
(***************************************************************************)
LOCAL INSTANCE WireFields
LOCAL INSTANCE Sequences

GenesisState_Marshal ==
    << Uint("AuditKeyEpoch", <<120>>), Bytes("AuditKeyId", <<114>>),
       Uint("StateVersion", <<104>>),
       RepMsg("ReserveBalances", "ReserveBalanceV1", <<98>>),
       RepMsg("MerkleRootSnapshots", "MerkleRootSnapshotV1", <<90>>),
       RepMsg("PrivacyScanOutputs", "PrivacyScanOutputV2", <<82>>),
       RepMsg("PrivacyScanSummaries", "PrivacyScanSummaryV2", <<74>>),
       RepMsg("PrivacyEvents", "PrivacyEventRecordV1", <<66>>),
       Uint("PrivacyGlobalSequence", <<56>>),
       RepMsg("AssetRegistry", "AssetRegistryEntryV1", <<50>>),
       Msg("CircuitSetIdentity", "CircuitSetIdentity", <<42>>),
       Bytes("AuditMasterPubkey", <<34>>), RepBytes("Nullifiers", <<26>>),
       RepBytes("HistoricalRoots", <<18>>), RepBytes("Commitments", <<10>>) >>

GenesisState_Size ==
    << RepBytes("Commitments", 1), RepBytes("HistoricalRoots", 1),
       RepBytes("Nullifiers", 1), Bytes("AuditMasterPubkey", 1),
       Msg("CircuitSetIdentity", "CircuitSetIdentity", 1),
       RepMsg("AssetRegistry", "AssetRegistryEntryV1", 1),
       Uint("PrivacyGlobalSequence", 1),
       RepMsg("PrivacyEvents", "PrivacyEventRecordV1", 1),
       RepMsg("PrivacyScanSummaries", "PrivacyScanSummaryV2", 1),
       RepMsg("PrivacyScanOutputs", "PrivacyScanOutputV2", 1),
       RepMsg("MerkleRootSnapshots", "MerkleRootSnapshotV1", 1),
       RepMsg("ReserveBalances", "ReserveBalanceV1", 1),
       Uint("StateVersion", 1), Bytes("AuditKeyId", 1),
       Uint("AuditKeyEpoch", 1) >>

GenesisState_Unmarshal1 ==
    << RepBytes("Commitments", 1), RepBytes("HistoricalRoots", 2),
       RepBytes("Nullifiers", 3) >>

GenesisState_Unmarshal2 ==
    << Bytes("AuditMasterPubkey", 4),
       Msg("CircuitSetIdentity", "CircuitSetIdentity", 5),
       RepMsg("AssetRegistry", "AssetRegistryEntryV1", 6),
       Uint("PrivacyGlobalSequence", 7) >>

GenesisState_Unmarshal3 ==
    << RepMsg("PrivacyEvents", "PrivacyEventRecordV1", 8),
       RepMsg("PrivacyScanSummaries", "PrivacyScanSummaryV2", 9),
       RepMsg("PrivacyScanOutputs", "PrivacyScanOutputV2", 10),
       RepMsg("MerkleRootSnapshots", "MerkleRootSnapshotV1", 11) >>

GenesisState_Unmarshal4 ==
    << RepMsg("ReserveBalances", "ReserveBalanceV1", 12),
       Uint("StateVersion", 13), Bytes("AuditKeyId", 14),
       Uint("AuditKeyEpoch", 15) >>

AssetRegistryEntryV1_Marshal ==
    << Bytes("AssetId", <<18>>), Bytes("CanonicalDenom", <<10>>) >>

AssetRegistryEntryV1_Size ==
    << Bytes("CanonicalDenom", 1), Bytes("AssetId", 1) >>

AssetRegistryEntryV1_Unmarshal ==
    << Bytes("CanonicalDenom", 1), Bytes("AssetId", 2) >>

PrivacyScanCursorV1_Marshal ==
    << Uint("OutputIndex", <<24>>), Uint("GlobalSequence", <<16>>),
       Int64("Height", <<8>>) >>

PrivacyScanCursorV1_Size ==
    << Int64("Height", 1), Uint("GlobalSequence", 1),
       Uint("OutputIndex", 1) >>

PrivacyScanCursorV1_Unmarshal ==
    << Int64("Height", 1), Uint("GlobalSequence", 2),
       Uint("OutputIndex", 3) >>

PrivacyEventAttributeV1_Marshal ==
    << Bytes("Value", <<18>>), Bytes("Key", <<10>>) >>

PrivacyEventAttributeV1_Size ==
    << Bytes("Key", 1), Bytes("Value", 1) >>

PrivacyEventAttributeV1_Unmarshal ==
    << Bytes("Key", 1), Bytes("Value", 2) >>

PrivacyEventRecordV1_Marshal ==
    << RepMsg("Attributes", "PrivacyEventAttributeV1", <<42>>),
       Bytes("EventType", <<34>>), Bytes("TxHash", <<26>>),
       Int64("Height", <<16>>), Uint("GlobalSequence", <<8>>) >>

PrivacyEventRecordV1_Size ==
    << Uint("GlobalSequence", 1), Int64("Height", 1), Bytes("TxHash", 1),
       Bytes("EventType", 1),
       RepMsg("Attributes", "PrivacyEventAttributeV1", 1) >>

PrivacyEventRecordV1_Unmarshal1 ==
    << Uint("GlobalSequence", 1), Int64("Height", 2), Bytes("TxHash", 3),
       Bytes("EventType", 4) >>

PrivacyEventRecordV1_Unmarshal2 ==
    << RepMsg("Attributes", "PrivacyEventAttributeV1", 5) >>

PrivacyScanSummaryV2_Marshal ==
    << Bytes("EffectId", <<106>>), Bytes("AuditTargetPubkey", <<98>>),
       Uint("AuditKeyEpoch", <<88>>), Bytes("AuditKeyId", <<82>>),
       Bytes("ScanSchemaVersion", <<74>>), Bytes("PayloadVersion", <<66>>),
       Bytes("CircuitSetId", <<58>>), Uint("OutputCount", <<48>>),
       RepBytes("Nullifiers", <<42>>), Bytes("EventType", <<34>>),
       Bytes("TxHash", <<26>>), Int64("Height", <<16>>),
       Uint("GlobalSequence", <<8>>) >>

PrivacyScanSummaryV2_Size ==
    << Uint("GlobalSequence", 1), Int64("Height", 1), Bytes("TxHash", 1),
       Bytes("EventType", 1), RepBytes("Nullifiers", 1),
       Uint("OutputCount", 1), Bytes("CircuitSetId", 1),
       Bytes("PayloadVersion", 1), Bytes("ScanSchemaVersion", 1),
       Bytes("AuditKeyId", 1), Uint("AuditKeyEpoch", 1),
       Bytes("AuditTargetPubkey", 1), Bytes("EffectId", 1) >>

PrivacyScanSummaryV2_Unmarshal1 ==
    << Uint("GlobalSequence", 1), Int64("Height", 2), Bytes("TxHash", 3),
       Bytes("EventType", 4) >>

PrivacyScanSummaryV2_Unmarshal2 ==
    << RepBytes("Nullifiers", 5), Uint("OutputCount", 6),
       Bytes("CircuitSetId", 7), Bytes("PayloadVersion", 8),
       Bytes("ScanSchemaVersion", 9) >>

PrivacyScanSummaryV2_Unmarshal3 ==
    << Bytes("AuditKeyId", 10), Uint("AuditKeyEpoch", 11),
       Bytes("AuditTargetPubkey", 12), Bytes("EffectId", 13) >>

PrivacyScanOutputV2_Marshal ==
    << Bytes("EventType", <<210, 1>>), Bytes("TxHash", <<202, 1>>),
       Bytes("AuditTargetPubkey", <<194, 1>>),
       Uint("AuditKeyEpoch", <<184, 1>>), Bytes("AuditKeyId", <<178, 1>>),
       Bytes("ScanSchemaVersion", <<170, 1>>),
       Bytes("PayloadVersion", <<162, 1>>), Bytes("CircuitSetId", <<154, 1>>),
       Bytes("SelfViewDisclosurePayload", <<146, 1>>),
       Bytes("AuditDisclosurePayload", <<138, 1>>),
       Bytes("FullDisclosureDigest", <<130, 1>>),
       Bytes("UserDisclosurePayload", <<122>>),
       Bytes("UserDisclosureTargetPubkey", <<114>>),
       Bytes("UserDisclosureDigest", <<106>>),
       Bytes("UserDisclosureMode", <<98>>), Uint("UserPrivacyPolicy", <<88>>),
       Bool("LeafIndexFound", <<80>>), Uint("LeafIndex", <<72>>),
       Bytes("ViewTag", <<66>>), Bytes("EncryptedNote", <<58>>),
       Bytes("Ciphertext", <<50>>), Bytes("Commitment", <<42>>),
       Bytes("EffectId", <<34>>), Uint("OutputIndex", <<24>>),
       Int64("Height", <<16>>), Uint("GlobalSequence", <<8>>) >>

PrivacyScanOutputV2_Size ==
    << Uint("GlobalSequence", 1), Int64("Height", 1), Uint("OutputIndex", 1),
       Bytes("EffectId", 1), Bytes("Commitment", 1), Bytes("Ciphertext", 1),
       Bytes("EncryptedNote", 1), Bytes("ViewTag", 1), Uint("LeafIndex", 1),
       Bool("LeafIndexFound", 1), Uint("UserPrivacyPolicy", 1),
       Bytes("UserDisclosureMode", 1), Bytes("UserDisclosureDigest", 1),
       Bytes("UserDisclosureTargetPubkey", 1),
       Bytes("UserDisclosurePayload", 1), Bytes("FullDisclosureDigest", 2),
       Bytes("AuditDisclosurePayload", 2),
       Bytes("SelfViewDisclosurePayload", 2), Bytes("CircuitSetId", 2),
       Bytes("PayloadVersion", 2), Bytes("ScanSchemaVersion", 2),
       Bytes("AuditKeyId", 2), Uint("AuditKeyEpoch", 2),
       Bytes("AuditTargetPubkey", 2), Bytes("TxHash", 2),
       Bytes("EventType", 2) >>

PrivacyScanOutputV2_Unmarshal1 ==
    << Uint("GlobalSequence", 1), Int64("Height", 2), Uint("OutputIndex", 3),
       Bytes("EffectId", 4) >>

PrivacyScanOutputV2_Unmarshal2 ==
    << Bytes("Commitment", 5), Bytes("Ciphertext", 6),
       Bytes("EncryptedNote", 7), Bytes("ViewTag", 8) >>

PrivacyScanOutputV2_Unmarshal3 ==
    << Uint("LeafIndex", 9), Bool("LeafIndexFound", 10),
       Uint("UserPrivacyPolicy", 11), Bytes("UserDisclosureMode", 12),
       Bytes("UserDisclosureDigest", 13) >>

PrivacyScanOutputV2_Unmarshal4 ==
    << Bytes("UserDisclosureTargetPubkey", 14),
       Bytes("UserDisclosurePayload", 15), Bytes("FullDisclosureDigest", 16),
       Bytes("AuditDisclosurePayload", 17) >>

PrivacyScanOutputV2_Unmarshal5 ==
    << Bytes("SelfViewDisclosurePayload", 18), Bytes("CircuitSetId", 19),
       Bytes("PayloadVersion", 20), Bytes("ScanSchemaVersion", 21) >>

PrivacyScanOutputV2_Unmarshal6 ==
    << Bytes("AuditKeyId", 22), Uint("AuditKeyEpoch", 23),
       Bytes("AuditTargetPubkey", 24), Bytes("TxHash", 25) >>

PrivacyScanOutputV2_Unmarshal7 ==
    << Bytes("EventType", 26) >>

MerkleRootSnapshotV1_Marshal ==
    << Int64("Height", <<24>>), Uint("LeafCount", <<16>>),
       Bytes("Root", <<10>>) >>

MerkleRootSnapshotV1_Size ==
    << Bytes("Root", 1), Uint("LeafCount", 1), Int64("Height", 1) >>

MerkleRootSnapshotV1_Unmarshal ==
    << Bytes("Root", 1), Uint("LeafCount", 2), Int64("Height", 3) >>

ReserveBalanceV1_Marshal ==
    << Bytes("TotalWithdrawn", <<26>>), Bytes("TotalDeposited", <<18>>),
       Bytes("CanonicalDenom", <<10>>) >>

ReserveBalanceV1_Size ==
    << Bytes("CanonicalDenom", 1), Bytes("TotalDeposited", 1),
       Bytes("TotalWithdrawn", 1) >>

ReserveBalanceV1_Unmarshal ==
    << Bytes("CanonicalDenom", 1), Bytes("TotalDeposited", 2),
       Bytes("TotalWithdrawn", 3) >>

CircuitIdentity_Marshal ==
    << Bytes("PublicInputSchemaSha256", <<26>>),
       Bytes("VerifyingKeySha256", <<18>>), Bytes("CircuitId", <<10>>) >>

CircuitIdentity_Size ==
    << Bytes("CircuitId", 1), Bytes("VerifyingKeySha256", 1),
       Bytes("PublicInputSchemaSha256", 1) >>

CircuitIdentity_Unmarshal ==
    << Bytes("CircuitId", 1), Bytes("VerifyingKeySha256", 2),
       Bytes("PublicInputSchemaSha256", 3) >>

CircuitSetIdentity_Marshal ==
    << RepMsg("Circuits", "CircuitIdentity", <<34>>), Bytes("Curve", <<26>>),
       Bytes("CircuitSetId", <<18>>), Bytes("SchemaVersion", <<10>>) >>

CircuitSetIdentity_Size ==
    << Bytes("SchemaVersion", 1), Bytes("CircuitSetId", 1), Bytes("Curve", 1),
       RepMsg("Circuits", "CircuitIdentity", 1) >>

CircuitSetIdentity_Unmarshal1 ==
    << Bytes("SchemaVersion", 1), Bytes("CircuitSetId", 2),
       Bytes("Curve", 3) >>

CircuitSetIdentity_Unmarshal2 ==
    << RepMsg("Circuits", "CircuitIdentity", 4) >>

\* What the three functions of a message do, by message name.
GenesisCodec ==
    [ GenesisState |->
         Codec3(GenesisState_Marshal, GenesisState_Size,
                GenesisState_Unmarshal1
                \o GenesisState_Unmarshal2
                \o GenesisState_Unmarshal3
                \o GenesisState_Unmarshal4),
      AssetRegistryEntryV1 |->
         Codec3(AssetRegistryEntryV1_Marshal, AssetRegistryEntryV1_Size,
                AssetRegistryEntryV1_Unmarshal),
      PrivacyScanCursorV1 |->
         Codec3(PrivacyScanCursorV1_Marshal, PrivacyScanCursorV1_Size,
                PrivacyScanCursorV1_Unmarshal),
      PrivacyEventAttributeV1 |->
         Codec3(PrivacyEventAttributeV1_Marshal, PrivacyEventAttributeV1_Size,
                PrivacyEventAttributeV1_Unmarshal),
      PrivacyEventRecordV1 |->
         Codec3(PrivacyEventRecordV1_Marshal, PrivacyEventRecordV1_Size,
                PrivacyEventRecordV1_Unmarshal1
                \o PrivacyEventRecordV1_Unmarshal2),
      PrivacyScanSummaryV2 |->
         Codec3(PrivacyScanSummaryV2_Marshal, PrivacyScanSummaryV2_Size,
                PrivacyScanSummaryV2_Unmarshal1
                \o PrivacyScanSummaryV2_Unmarshal2
                \o PrivacyScanSummaryV2_Unmarshal3),
      PrivacyScanOutputV2 |->
         Codec3(PrivacyScanOutputV2_Marshal, PrivacyScanOutputV2_Size,
                PrivacyScanOutputV2_Unmarshal1
                \o PrivacyScanOutputV2_Unmarshal2
                \o PrivacyScanOutputV2_Unmarshal3
                \o PrivacyScanOutputV2_Unmarshal4
                \o PrivacyScanOutputV2_Unmarshal5
                \o PrivacyScanOutputV2_Unmarshal6
                \o PrivacyScanOutputV2_Unmarshal7),
      MerkleRootSnapshotV1 |->
         Codec3(MerkleRootSnapshotV1_Marshal, MerkleRootSnapshotV1_Size,
                MerkleRootSnapshotV1_Unmarshal),
      ReserveBalanceV1 |->
         Codec3(ReserveBalanceV1_Marshal, ReserveBalanceV1_Size,
                ReserveBalanceV1_Unmarshal),
      CircuitIdentity |->
         Codec3(CircuitIdentity_Marshal, CircuitIdentity_Size,
                CircuitIdentity_Unmarshal),
      CircuitSetIdentity |->
         Codec3(CircuitSetIdentity_Marshal, CircuitSetIdentity_Size,
                CircuitSetIdentity_Unmarshal1
                \o CircuitSetIdentity_Unmarshal2) ]
=============================================================================
