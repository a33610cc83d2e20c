----------------------------- MODULE WireAudit ------------------------------
(***************************************************************************)
(* Field tables of the codec generated into x/privacy/types/v2/tx.pb.go    *)
(* and v2/query.pb.go: the messages and queries of the audit lane. For     *)
(* each message: the fields in the order MarshalToSizedBuffer writes them  *)
(* (backwards) with their tag bytes, the fields Size adds up with their    *)
(* tag lengths, and the cases of Unmarshal with their field numbers. Names *)
(* of package v2 carry the prefix V2. A long Unmarshal is given in parts.  *)
(***************************************************************************)
LOCAL INSTANCE WireFields
LOCAL INSTANCE Sequences

V2AuditAuthorization_Marshal ==
    << Bytes("Envelope", <<26>>), Uint("Epoch", <<16>>),
       Bytes("KeyId", <<10>>) >>

V2AuditAuthorization_Size ==
    << Bytes("KeyId", 1), Uint("Epoch", 1), Bytes("Envelope", 1) >>

V2AuditAuthorization_Unmarshal ==
    << Bytes("KeyId", 1), Uint("Epoch", 2), Bytes("Envelope", 3) >>

V2OutputEffect_Marshal ==
    << Bytes("SelfViewDisclosurePayload", <<82>>),
       Bytes("SelfFullDisclosureDigest", <<74>>),
       Bytes("UserDisclosurePayload", <<66>>),
       Bytes("UserDisclosureTargetPubkey", <<58>>),
       Bytes("UserDisclosureDigest", <<50>>),
       Uint("UserDisclosureMode", <<40>>), Uint("UserPrivacyPolicy", <<32>>),
       Bytes("ViewTag", <<26>>), Bytes("Ciphertext", <<18>>),
       Bytes("Commitment", <<10>>) >>

V2OutputEffect_Size ==
    << Bytes("Commitment", 1), Bytes("Ciphertext", 1), Bytes("ViewTag", 1),
       Uint("UserPrivacyPolicy", 1), Uint("UserDisclosureMode", 1),
       Bytes("UserDisclosureDigest", 1),
       Bytes("UserDisclosureTargetPubkey", 1),
       Bytes("UserDisclosurePayload", 1),
       Bytes("SelfFullDisclosureDigest", 1),
       Bytes("SelfViewDisclosurePayload", 1) >>

V2OutputEffect_Unmarshal1 ==
    << Bytes("Commitment", 1), Bytes("Ciphertext", 2), Bytes("ViewTag", 3),
       Uint("UserPrivacyPolicy", 4) >>

V2OutputEffect_Unmarshal2 ==
    << Uint("UserDisclosureMode", 5), Bytes("UserDisclosureDigest", 6),
       Bytes("UserDisclosureTargetPubkey", 7),
       Bytes("UserDisclosurePayload", 8) >>

V2OutputEffect_Unmarshal3 ==
    << Bytes("SelfFullDisclosureDigest", 9),
       Bytes("SelfViewDisclosurePayload", 10) >>

V2MsgDeposit_Marshal ==
    << Msg("Audit", "V2AuditAuthorization", <<50>>),
       Int64("ExpiresAtUnix", <<40>>), Bytes("Proof", <<34>>),
       Msg("Output", "V2OutputEffect", <<26>>), Bytes("Amount", <<18>>),
       Bytes("Creator", <<10>>) >>

V2MsgDeposit_Size ==
    << Bytes("Creator", 1), Bytes("Amount", 1),
       Msg("Output", "V2OutputEffect", 1), Bytes("Proof", 1),
       Int64("ExpiresAtUnix", 1), Msg("Audit", "V2AuditAuthorization", 1) >>

V2MsgDeposit_Unmarshal1 ==
    << Bytes("Creator", 1), Bytes("Amount", 2),
       Msg("Output", "V2OutputEffect", 3) >>

V2MsgDeposit_Unmarshal2 ==
    << Bytes("Proof", 4), Int64("ExpiresAtUnix", 5),
       Msg("Audit", "V2AuditAuthorization", 6) >>

V2MsgWithdraw_Marshal ==
    << Msg("Audit", "V2AuditAuthorization", <<66>>),
       Int64("ExpiresAtUnix", <<56>>), Bytes("Proof", <<50>>),
       Bytes("Nullifier", <<42>>), Bytes("Root", <<34>>),
       Bytes("Recipient", <<26>>), Bytes("Amount", <<18>>),
       Bytes("Creator", <<10>>) >>

V2MsgWithdraw_Size ==
    << Bytes("Creator", 1), Bytes("Amount", 1), Bytes("Recipient", 1),
       Bytes("Root", 1), Bytes("Nullifier", 1), Bytes("Proof", 1),
       Int64("ExpiresAtUnix", 1), Msg("Audit", "V2AuditAuthorization", 1) >>

V2MsgWithdraw_Unmarshal1 ==
    << Bytes("Creator", 1), Bytes("Amount", 2), Bytes("Recipient", 3) >>

V2MsgWithdraw_Unmarshal2 ==
    << Bytes("Root", 4), Bytes("Nullifier", 5), Bytes("Proof", 6),
       Int64("ExpiresAtUnix", 7) >>

V2MsgWithdraw_Unmarshal3 ==
    << Msg("Audit", "V2AuditAuthorization", 8) >>

V2MsgTransfer_Marshal ==
    << Msg("Audit", "V2AuditAuthorization", <<58>>),
       Int64("ExpiresAtUnix", <<48>>), Bytes("Proof", <<42>>),
       RepMsg("Outputs", "V2OutputEffect", <<34>>),
       RepBytes("Nullifiers", <<26>>), Bytes("Root", <<18>>),
       Bytes("Creator", <<10>>) >>

V2MsgTransfer_Size ==
    << Bytes("Creator", 1), Bytes("Root", 1), RepBytes("Nullifiers", 1),
       RepMsg("Outputs", "V2OutputEffect", 1), Bytes("Proof", 1),
       Int64("ExpiresAtUnix", 1), Msg("Audit", "V2AuditAuthorization", 1) >>

V2MsgTransfer_Unmarshal1 ==
    << Bytes("Creator", 1), Bytes("Root", 2), RepBytes("Nullifiers", 3) >>

V2MsgTransfer_Unmarshal2 ==
    << RepMsg("Outputs", "V2OutputEffect", 4), Bytes("Proof", 5),
       Int64("ExpiresAtUnix", 6), Msg("Audit", "V2AuditAuthorization", 7) >>

V2MsgBatchTransfer_Marshal ==
    << Msg("Audit", "V2AuditAuthorization", <<58>>),
       Int64("ExpiresAtUnix", <<48>>), Bytes("Proof", <<42>>),
       RepMsg("Outputs", "V2OutputEffect", <<34>>),
       RepBytes("Nullifiers", <<26>>), Bytes("Root", <<18>>),
       Bytes("Creator", <<10>>) >>

V2MsgBatchTransfer_Size ==
    << Bytes("Creator", 1), Bytes("Root", 1), RepBytes("Nullifiers", 1),
       RepMsg("Outputs", "V2OutputEffect", 1), Bytes("Proof", 1),
       Int64("ExpiresAtUnix", 1), Msg("Audit", "V2AuditAuthorization", 1) >>

V2MsgBatchTransfer_Unmarshal1 ==
    << Bytes("Creator", 1), Bytes("Root", 2), RepBytes("Nullifiers", 3) >>

V2MsgBatchTransfer_Unmarshal2 ==
    << RepMsg("Outputs", "V2OutputEffect", 4), Bytes("Proof", 5),
       Int64("ExpiresAtUnix", 6), Msg("Audit", "V2AuditAuthorization", 7) >>

V2MsgScheduleAuditKeyEpoch_Marshal ==
    << Bytes("PossessionProof", <<50>>), Uint("Suite", <<40>>),
       Bytes("PublicKey", <<34>>), Uint("ActivationHeight", <<24>>),
       Uint("Epoch", <<16>>), Bytes("Authority", <<10>>) >>

V2MsgScheduleAuditKeyEpoch_Size ==
    << Bytes("Authority", 1), Uint("Epoch", 1), Uint("ActivationHeight", 1),
       Bytes("PublicKey", 1), Uint("Suite", 1), Bytes("PossessionProof", 1) >>

V2MsgScheduleAuditKeyEpoch_Unmarshal1 ==
    << Bytes("Authority", 1), Uint("Epoch", 2), Uint("ActivationHeight", 3),
       Bytes("PublicKey", 4) >>

V2MsgScheduleAuditKeyEpoch_Unmarshal2 ==
    << Uint("Suite", 5), Bytes("PossessionProof", 6) >>

V2MsgCancelPendingAuditEpoch_Marshal ==
    << Uint("Epoch", <<16>>), Bytes("Authority", <<10>>) >>

V2MsgCancelPendingAuditEpoch_Size ==
    << Bytes("Authority", 1), Uint("Epoch", 1) >>

V2MsgCancelPendingAuditEpoch_Unmarshal ==
    << Bytes("Authority", 1), Uint("Epoch", 2) >>

V2MsgSetPrivacyHalt_Marshal ==
    << Bool("Halted", <<16>>), Bytes("Authority", <<10>>) >>

V2MsgSetPrivacyHalt_Size ==
    << Bytes("Authority", 1), Bool("Halted", 1) >>

V2MsgSetPrivacyHalt_Unmarshal ==
    << Bytes("Authority", 1), Bool("Halted", 2) >>

V2MsgDepositResponse_Marshal ==
    <<>>

V2MsgDepositResponse_Size ==
    <<>>

V2MsgDepositResponse_Unmarshal ==
    <<>>

V2MsgWithdrawResponse_Marshal ==
    <<>>

V2MsgWithdrawResponse_Size ==
    <<>>

V2MsgWithdrawResponse_Unmarshal ==
    <<>>

V2MsgTransferResponse_Marshal ==
    <<>>

V2MsgTransferResponse_Size ==
    <<>>

V2MsgTransferResponse_Unmarshal ==
    <<>>

V2MsgBatchTransferResponse_Marshal ==
    <<>>

V2MsgBatchTransferResponse_Size ==
    <<>>

V2MsgBatchTransferResponse_Unmarshal ==
    <<>>

V2MsgScheduleAuditKeyEpochResponse_Marshal ==
    <<>>

V2MsgScheduleAuditKeyEpochResponse_Size ==
    <<>>

V2MsgScheduleAuditKeyEpochResponse_Unmarshal ==
    <<>>

V2MsgCancelPendingAuditEpochResponse_Marshal ==
    <<>>

V2MsgCancelPendingAuditEpochResponse_Size ==
    <<>>

V2MsgCancelPendingAuditEpochResponse_Unmarshal ==
    <<>>

V2MsgSetPrivacyHaltResponse_Marshal ==
    <<>>

V2MsgSetPrivacyHaltResponse_Size ==
    <<>>

V2MsgSetPrivacyHaltResponse_Unmarshal ==
    <<>>

V2QueryAuditKeyRequest_Marshal ==
    << Uint("Epoch", <<8>>) >>

V2QueryAuditKeyRequest_Size ==
    << Uint("Epoch", 1) >>

V2QueryAuditKeyRequest_Unmarshal ==
    << Uint("Epoch", 1) >>

V2QueryAuditRecordResponse_Marshal ==
    << Int64("StateHeight", <<24>>), Bytes("StoreKey", <<18>>),
       Bytes("Record", <<10>>) >>

V2QueryAuditRecordResponse_Size ==
    << Bytes("Record", 1), Bytes("StoreKey", 1), Int64("StateHeight", 1) >>

V2QueryAuditRecordResponse_Unmarshal ==
    << Bytes("Record", 1), Bytes("StoreKey", 2), Int64("StateHeight", 3) >>

V2QueryAuditKeyScheduleRequest_Marshal ==
    <<>>

V2QueryAuditKeyScheduleRequest_Size ==
    <<>>

V2QueryAuditKeyScheduleRequest_Unmarshal ==
    <<>>

V2QueryAuditKeyScheduleResponse_Marshal ==
    << Int64("StateHeight", <<40>>), Bool("Halted", <<32>>),
       Uint("NextEpoch", <<24>>), Uint("NextActivationHeight", <<16>>),
       Uint("ActiveEpoch", <<8>>) >>

V2QueryAuditKeyScheduleResponse_Size ==
    << Uint("ActiveEpoch", 1), Uint("NextActivationHeight", 1),
       Uint("NextEpoch", 1), Bool("Halted", 1), Int64("StateHeight", 1) >>

V2QueryAuditKeyScheduleResponse_Unmarshal ==
    << Uint("ActiveEpoch", 1), Uint("NextActivationHeight", 2),
       Uint("NextEpoch", 3), Bool("Halted", 4), Int64("StateHeight", 5) >>

V2QueryAuditConfigurationRequest_Marshal ==
    <<>>

V2QueryAuditConfigurationRequest_Size ==
    <<>>

V2QueryAuditConfigurationRequest_Unmarshal ==
    <<>>

V2QueryAuditConfigurationResponse_Marshal ==
    << Int64("StateHeight", <<32>>), Bytes("CircuitIdentity", <<26>>),
       Uint("InitialHeight", <<16>>), Bytes("NetworkNonce", <<10>>) >>

V2QueryAuditConfigurationResponse_Size ==
    << Bytes("NetworkNonce", 1), Uint("InitialHeight", 1),
       Bytes("CircuitIdentity", 1), Int64("StateHeight", 1) >>

V2QueryAuditConfigurationResponse_Unmarshal1 ==
    << Bytes("NetworkNonce", 1), Uint("InitialHeight", 2),
       Bytes("CircuitIdentity", 3) >>

V2QueryAuditConfigurationResponse_Unmarshal2 ==
    << Int64("StateHeight", 4) >>

\* What the three functions of a message do, by message name.
AuditCodec ==
    [ V2AuditAuthorization |->
         Codec3(V2AuditAuthorization_Marshal, V2AuditAuthorization_Size,
                V2AuditAuthorization_Unmarshal),
      V2OutputEffect |->
         Codec3(V2OutputEffect_Marshal, V2OutputEffect_Size,
                V2OutputEffect_Unmarshal1
                \o V2OutputEffect_Unmarshal2
                \o V2OutputEffect_Unmarshal3),
      V2MsgDeposit |->
         Codec3(V2MsgDeposit_Marshal, V2MsgDeposit_Size,
                V2MsgDeposit_Unmarshal1
                \o V2MsgDeposit_Unmarshal2),
      V2MsgWithdraw |->
         Codec3(V2MsgWithdraw_Marshal, V2MsgWithdraw_Size,
                V2MsgWithdraw_Unmarshal1
                \o V2MsgWithdraw_Unmarshal2
                \o V2MsgWithdraw_Unmarshal3),
      V2MsgTransfer |->
         Codec3(V2MsgTransfer_Marshal, V2MsgTransfer_Size,
                V2MsgTransfer_Unmarshal1
                \o V2MsgTransfer_Unmarshal2),
      V2MsgBatchTransfer |->
         Codec3(V2MsgBatchTransfer_Marshal, V2MsgBatchTransfer_Size,
                V2MsgBatchTransfer_Unmarshal1
                \o V2MsgBatchTransfer_Unmarshal2),
      V2MsgScheduleAuditKeyEpoch |->
         Codec3(V2MsgScheduleAuditKeyEpoch_Marshal, V2MsgScheduleAuditKeyEpoch_Size,
                V2MsgScheduleAuditKeyEpoch_Unmarshal1
                \o V2MsgScheduleAuditKeyEpoch_Unmarshal2),
      V2MsgCancelPendingAuditEpoch |->
         Codec3(V2MsgCancelPendingAuditEpoch_Marshal, V2MsgCancelPendingAuditEpoch_Size,
                V2MsgCancelPendingAuditEpoch_Unmarshal),
      V2MsgSetPrivacyHalt |->
         Codec3(V2MsgSetPrivacyHalt_Marshal, V2MsgSetPrivacyHalt_Size,
                V2MsgSetPrivacyHalt_Unmarshal),
      V2MsgDepositResponse |->
         Codec3(V2MsgDepositResponse_Marshal, V2MsgDepositResponse_Size,
                V2MsgDepositResponse_Unmarshal),
      V2MsgWithdrawResponse |->
         Codec3(V2MsgWithdrawResponse_Marshal, V2MsgWithdrawResponse_Size,
                V2MsgWithdrawResponse_Unmarshal),
      V2MsgTransferResponse |->
         Codec3(V2MsgTransferResponse_Marshal, V2MsgTransferResponse_Size,
                V2MsgTransferResponse_Unmarshal),
      V2MsgBatchTransferResponse |->
         Codec3(V2MsgBatchTransferResponse_Marshal, V2MsgBatchTransferResponse_Size,
                V2MsgBatchTransferResponse_Unmarshal),
      V2MsgScheduleAuditKeyEpochResponse |->
         Codec3(V2MsgScheduleAuditKeyEpochResponse_Marshal, V2MsgScheduleAuditKeyEpochResponse_Size,
                V2MsgScheduleAuditKeyEpochResponse_Unmarshal),
      V2MsgCancelPendingAuditEpochResponse |->
         Codec3(V2MsgCancelPendingAuditEpochResponse_Marshal, V2MsgCancelPendingAuditEpochResponse_Size,
                V2MsgCancelPendingAuditEpochResponse_Unmarshal),
      V2MsgSetPrivacyHaltResponse |->
         Codec3(V2MsgSetPrivacyHaltResponse_Marshal, V2MsgSetPrivacyHaltResponse_Size,
                V2MsgSetPrivacyHaltResponse_Unmarshal),
      V2QueryAuditKeyRequest |->
         Codec3(V2QueryAuditKeyRequest_Marshal, V2QueryAuditKeyRequest_Size,
                V2QueryAuditKeyRequest_Unmarshal),
      V2QueryAuditRecordResponse |->
         Codec3(V2QueryAuditRecordResponse_Marshal, V2QueryAuditRecordResponse_Size,
                V2QueryAuditRecordResponse_Unmarshal),
      V2QueryAuditKeyScheduleRequest |->
         Codec3(V2QueryAuditKeyScheduleRequest_Marshal, V2QueryAuditKeyScheduleRequest_Size,
                V2QueryAuditKeyScheduleRequest_Unmarshal),
      V2QueryAuditKeyScheduleResponse |->
         Codec3(V2QueryAuditKeyScheduleResponse_Marshal, V2QueryAuditKeyScheduleResponse_Size,
                V2QueryAuditKeyScheduleResponse_Unmarshal),
      V2QueryAuditConfigurationRequest |->
         Codec3(V2QueryAuditConfigurationRequest_Marshal, V2QueryAuditConfigurationRequest_Size,
                V2QueryAuditConfigurationRequest_Unmarshal),
      V2QueryAuditConfigurationResponse |->
         Codec3(V2QueryAuditConfigurationResponse_Marshal, V2QueryAuditConfigurationResponse_Size,
                V2QueryAuditConfigurationResponse_Unmarshal1
                \o V2QueryAuditConfigurationResponse_Unmarshal2) ]
=============================================================================
