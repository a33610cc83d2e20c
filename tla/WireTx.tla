------------------------------ MODULE WireTx --------------------------------
(***************************************************************************)
(* Field tables of the codec generated into x/privacy/types/tx.pb.go and   *)
(* batch_feasibility.pb.go: the messages of the lane without audit         *)
(* runtime. For each message: the fields in the order MarshalToSizedBuffer *)
(* writes them (backwards) with their tag bytes, the fields Size adds up   *)
(* with their tag lengths, and the cases of Unmarshal with their field     *)
(* numbers. A long Unmarshal is given in parts.                            *)
(***************************************************************************)
LOCAL INSTANCE WireFields
LOCAL INSTANCE Sequences

MsgDeposit_Marshal ==
    << Bytes("Proof", <<42>>), Bytes("EncryptedNote", <<34>>),
       Bytes("NoteCommitment", <<26>>), Bytes("Amount", <<18>>),
       Bytes("Creator", <<10>>) >>

MsgDeposit_Size ==
    << Bytes("Creator", 1), Bytes("Amount", 1), Bytes("NoteCommitment", 1),
       Bytes("EncryptedNote", 1), Bytes("Proof", 1) >>

MsgDeposit_Unmarshal1 ==
    << Bytes("Creator", 1), Bytes("Amount", 2), Bytes("NoteCommitment", 3) >>

MsgDeposit_Unmarshal2 ==
    << Bytes("EncryptedNote", 4), Bytes("Proof", 5) >>

MsgWithdraw_Marshal ==
    << Int64("ExpiresAtUnix", <<80>>), Bytes("ChainId", <<74>>),
       Bytes("Recipient", <<66>>), Bytes("Amount", <<58>>),
       Bytes("Nullifier", <<34>>), Bytes("Root", <<26>>),
       Bytes("Proof", <<18>>), Bytes("Creator", <<10>>) >>

MsgWithdraw_Size ==
    << Bytes("Creator", 1), Bytes("Proof", 1), Bytes("Root", 1),
       Bytes("Nullifier", 1), Bytes("Amount", 1), Bytes("Recipient", 1),
       Bytes("ChainId", 1), Int64("ExpiresAtUnix", 1) >>

MsgWithdraw_Unmarshal1 ==
    << Bytes("Creator", 1), Bytes("Proof", 2), Bytes("Root", 3) >>

MsgWithdraw_Unmarshal2 ==
    << Bytes("Nullifier", 4), Bytes("Amount", 7), Bytes("Recipient", 8),
       Bytes("ChainId", 9) >>

MsgWithdraw_Unmarshal3 ==
    << Int64("ExpiresAtUnix", 10) >>

MsgTransfer_Marshal ==
    << Int64("ExpiresAtUnix", <<144, 1>>), RepBytes("ViewTags", <<138, 1>>),
       Bytes("SelfViewDisclosurePayload", <<130, 1>>),
       Bytes("SelfViewDisclosureDigest", <<122>>),
       Bytes("AuditDisclosurePayload", <<114>>),
       Bytes("AuditDisclosureTargetPubkey", <<106>>),
       Bytes("AuditDisclosureDigest", <<98>>),
       Bytes("UserDisclosurePayload", <<90>>),
       Bytes("UserDisclosureTargetPubkey", <<82>>),
       Uint("UserDisclosureMode", <<72>>),
       Bytes("UserDisclosureDigest", <<66>>),
       Uint("UserPrivacyPolicy", <<56>>), RepBytes("CipherTexts", <<50>>),
       RepBytes("NewCommitments", <<42>>), RepBytes("Nullifiers", <<34>>),
       Bytes("Root", <<26>>), Bytes("Proof", <<18>>),
       Bytes("Creator", <<10>>) >>

MsgTransfer_Size ==
    << Bytes("Creator", 1), Bytes("Proof", 1), Bytes("Root", 1),
       RepBytes("Nullifiers", 1), RepBytes("NewCommitments", 1),
       RepBytes("CipherTexts", 1), Uint("UserPrivacyPolicy", 1),
       Bytes("UserDisclosureDigest", 1), Uint("UserDisclosureMode", 1),
       Bytes("UserDisclosureTargetPubkey", 1),
       Bytes("UserDisclosurePayload", 1), Bytes("AuditDisclosureDigest", 1),
       Bytes("AuditDisclosureTargetPubkey", 1),
       Bytes("AuditDisclosurePayload", 1),
       Bytes("SelfViewDisclosureDigest", 1),
       Bytes("SelfViewDisclosurePayload", 2), RepBytes("ViewTags", 2),
       Int64("ExpiresAtUnix", 2) >>

MsgTransfer_Unmarshal1 ==
    << Bytes("Creator", 1), Bytes("Proof", 2), Bytes("Root", 3) >>

MsgTransfer_Unmarshal2 ==
    << RepBytes("Nullifiers", 4), RepBytes("NewCommitments", 5),
       RepBytes("CipherTexts", 6), Uint("UserPrivacyPolicy", 7),
       Bytes("UserDisclosureDigest", 8) >>

MsgTransfer_Unmarshal3 ==
    << Uint("UserDisclosureMode", 9), Bytes("UserDisclosureTargetPubkey", 10),
       Bytes("UserDisclosurePayload", 11),
       Bytes("AuditDisclosureDigest", 12) >>

MsgTransfer_Unmarshal4 ==
    << Bytes("AuditDisclosureTargetPubkey", 13),
       Bytes("AuditDisclosurePayload", 14),
       Bytes("SelfViewDisclosureDigest", 15),
       Bytes("SelfViewDisclosurePayload", 16) >>

MsgTransfer_Unmarshal5 ==
    << RepBytes("ViewTags", 17), Int64("ExpiresAtUnix", 18) >>

MsgBatchTransfer_Marshal ==
    << Int64("ExpiresAtUnix", <<72>>),
       Bytes("AuditDisclosureTargetPubkey", <<66>>),
       Uint("AuditKeyEpoch", <<56>>), Bytes("AuditKeyId", <<50>>),
       RepMsg("Outputs", "BatchTransferOutput", <<42>>),
       RepBytes("Nullifiers", <<34>>), Bytes("Root", <<26>>),
       Bytes("Proof", <<18>>), Bytes("Creator", <<10>>) >>

MsgBatchTransfer_Size ==
    << Bytes("Creator", 1), Bytes("Proof", 1), Bytes("Root", 1),
       RepBytes("Nullifiers", 1), RepMsg("Outputs", "BatchTransferOutput", 1),
       Bytes("AuditKeyId", 1), Uint("AuditKeyEpoch", 1),
       Bytes("AuditDisclosureTargetPubkey", 1), Int64("ExpiresAtUnix", 1) >>

MsgBatchTransfer_Unmarshal1 ==
    << Bytes("Creator", 1), Bytes("Proof", 2), Bytes("Root", 3) >>

MsgBatchTransfer_Unmarshal2 ==
    << RepBytes("Nullifiers", 4), RepMsg("Outputs", "BatchTransferOutput", 5),
       Bytes("AuditKeyId", 6), Uint("AuditKeyEpoch", 7) >>

MsgBatchTransfer_Unmarshal3 ==
    << Bytes("AuditDisclosureTargetPubkey", 8), Int64("ExpiresAtUnix", 9) >>

BatchTransferOutput_Marshal ==
    << Bytes("SelfViewDisclosurePayload", <<90>>),
       Bytes("AuditDisclosurePayload", <<82>>),
       Bytes("FullDisclosureDigest", <<74>>),
       Bytes("UserDisclosurePayload", <<66>>),
       Bytes("UserDisclosureTargetPubkey", <<58>>),
       Bytes("UserDisclosureDigest", <<50>>),
       Uint("UserDisclosureMode", <<40>>), Uint("UserPrivacyPolicy", <<32>>),
       Bytes("ViewTag", <<26>>), Bytes("Ciphertext", <<18>>),
       Bytes("Commitment", <<10>>) >>

BatchTransferOutput_Size ==
    << Bytes("Commitment", 1), Bytes("Ciphertext", 1), Bytes("ViewTag", 1),
       Uint("UserPrivacyPolicy", 1), Uint("UserDisclosureMode", 1),
       Bytes("UserDisclosureDigest", 1),
       Bytes("UserDisclosureTargetPubkey", 1),
       Bytes("UserDisclosurePayload", 1), Bytes("FullDisclosureDigest", 1),
       Bytes("AuditDisclosurePayload", 1),
       Bytes("SelfViewDisclosurePayload", 1) >>

BatchTransferOutput_Unmarshal1 ==
    << Bytes("Commitment", 1), Bytes("Ciphertext", 2), Bytes("ViewTag", 3),
       Uint("UserPrivacyPolicy", 4) >>

BatchTransferOutput_Unmarshal2 ==
    << Uint("UserDisclosureMode", 5), Bytes("UserDisclosureDigest", 6),
       Bytes("UserDisclosureTargetPubkey", 7),
       Bytes("UserDisclosurePayload", 8) >>

BatchTransferOutput_Unmarshal3 ==
    << Bytes("FullDisclosureDigest", 9), Bytes("AuditDisclosurePayload", 10),
       Bytes("SelfViewDisclosurePayload", 11) >>

MsgDepositResponse_Marshal ==
    <<>>

MsgDepositResponse_Size ==
    <<>>

MsgDepositResponse_Unmarshal ==
    <<>>

MsgWithdrawResponse_Marshal ==
    <<>>

MsgWithdrawResponse_Size ==
    <<>>

MsgWithdrawResponse_Unmarshal ==
    <<>>

MsgTransferResponse_Marshal ==
    <<>>

MsgTransferResponse_Size ==
    <<>>

MsgTransferResponse_Unmarshal ==
    <<>>

MsgBatchTransferResponse_Marshal ==
    <<>>

MsgBatchTransferResponse_Size ==
    <<>>

MsgBatchTransferResponse_Unmarshal ==
    <<>>

BatchTransferWirePrototypeV1_Marshal ==
    << Int64("ExpiresAtUnix", <<72>>),
       Bytes("AuditDisclosureTargetPubkey", <<66>>),
       Uint("AuditKeyEpoch", <<56>>), Bytes("AuditKeyId", <<50>>),
       RepMsg("Outputs", "BatchTransferOutputWirePrototypeV1", <<42>>),
       RepBytes("Nullifiers", <<34>>), Bytes("Root", <<26>>),
       Bytes("Proof", <<18>>), Bytes("Creator", <<10>>) >>

BatchTransferWirePrototypeV1_Size ==
    << Bytes("Creator", 1), Bytes("Proof", 1), Bytes("Root", 1),
       RepBytes("Nullifiers", 1),
       RepMsg("Outputs", "BatchTransferOutputWirePrototypeV1", 1),
       Bytes("AuditKeyId", 1), Uint("AuditKeyEpoch", 1),
       Bytes("AuditDisclosureTargetPubkey", 1), Int64("ExpiresAtUnix", 1) >>

BatchTransferWirePrototypeV1_Unmarshal1 ==
    << Bytes("Creator", 1), Bytes("Proof", 2), Bytes("Root", 3) >>

BatchTransferWirePrototypeV1_Unmarshal2 ==
    << RepBytes("Nullifiers", 4),
       RepMsg("Outputs", "BatchTransferOutputWirePrototypeV1", 5),
       Bytes("AuditKeyId", 6), Uint("AuditKeyEpoch", 7) >>

BatchTransferWirePrototypeV1_Unmarshal3 ==
    << Bytes("AuditDisclosureTargetPubkey", 8), Int64("ExpiresAtUnix", 9) >>

BatchTransferOutputWirePrototypeV1_Marshal ==
    << Bytes("SelfViewDisclosurePayload", <<90>>),
       Bytes("AuditDisclosurePayload", <<82>>),
       Bytes("FullDisclosureDigest", <<74>>),
       Bytes("UserDisclosurePayload", <<66>>),
       Bytes("UserDisclosureTargetPubkey", <<58>>),
       Bytes("UserDisclosureDigest", <<50>>),
       Uint("UserDisclosureMode", <<40>>), Uint("UserPrivacyPolicy", <<32>>),
       Bytes("ViewTag", <<26>>), Bytes("Ciphertext", <<18>>),
       Bytes("Commitment", <<10>>) >>

BatchTransferOutputWirePrototypeV1_Size ==
    << Bytes("Commitment", 1), Bytes("Ciphertext", 1), Bytes("ViewTag", 1),
       Uint("UserPrivacyPolicy", 1), Uint("UserDisclosureMode", 1),
       Bytes("UserDisclosureDigest", 1),
       Bytes("UserDisclosureTargetPubkey", 1),
       Bytes("UserDisclosurePayload", 1), Bytes("FullDisclosureDigest", 1),
       Bytes("AuditDisclosurePayload", 1),
       Bytes("SelfViewDisclosurePayload", 1) >>

BatchTransferOutputWirePrototypeV1_Unmarshal1 ==
    << Bytes("Commitment", 1), Bytes("Ciphertext", 2), Bytes("ViewTag", 3),
       Uint("UserPrivacyPolicy", 4) >>

BatchTransferOutputWirePrototypeV1_Unmarshal2 ==
    << Uint("UserDisclosureMode", 5), Bytes("UserDisclosureDigest", 6),
       Bytes("UserDisclosureTargetPubkey", 7),
       Bytes("UserDisclosurePayload", 8) >>

BatchTransferOutputWirePrototypeV1_Unmarshal3 ==
    << Bytes("FullDisclosureDigest", 9), Bytes("AuditDisclosurePayload", 10),
       Bytes("SelfViewDisclosurePayload", 11) >>

BatchMinimalEventWirePrototypeV1_Marshal ==
    << Int64("ExpiresAtUnix", <<72>>), Bytes("FullDisclosureRoot", <<66>>),
       Bytes("UserDisclosureRoot", <<58>>), Bytes("CommitmentRoot", <<50>>),
       Bytes("NullifierRoot", <<42>>), Uint("OutputCount", <<32>>),
       Uint("InputCount", <<24>>), Bytes("Relayer", <<18>>),
       Bytes("EffectId", <<10>>) >>

BatchMinimalEventWirePrototypeV1_Size ==
    << Bytes("EffectId", 1), Bytes("Relayer", 1), Uint("InputCount", 1),
       Uint("OutputCount", 1), Bytes("NullifierRoot", 1),
       Bytes("CommitmentRoot", 1), Bytes("UserDisclosureRoot", 1),
       Bytes("FullDisclosureRoot", 1), Int64("ExpiresAtUnix", 1) >>

BatchMinimalEventWirePrototypeV1_Unmarshal1 ==
    << Bytes("EffectId", 1), Bytes("Relayer", 2), Uint("InputCount", 3),
       Uint("OutputCount", 4) >>

BatchMinimalEventWirePrototypeV1_Unmarshal2 ==
    << Bytes("NullifierRoot", 5), Bytes("CommitmentRoot", 6),
       Bytes("UserDisclosureRoot", 7), Bytes("FullDisclosureRoot", 8) >>

BatchMinimalEventWirePrototypeV1_Unmarshal3 ==
    << Int64("ExpiresAtUnix", 9) >>

\* What the three functions of a message do, by message name.
TxCodec ==
    [ MsgDeposit |->
         Codec3(MsgDeposit_Marshal, MsgDeposit_Size,
                MsgDeposit_Unmarshal1
                \o MsgDeposit_Unmarshal2),
      MsgWithdraw |->
         Codec3(MsgWithdraw_Marshal, MsgWithdraw_Size,
                MsgWithdraw_Unmarshal1
                \o MsgWithdraw_Unmarshal2
                \o MsgWithdraw_Unmarshal3),
      MsgTransfer |->
         Codec3(MsgTransfer_Marshal, MsgTransfer_Size,
                MsgTransfer_Unmarshal1
                \o MsgTransfer_Unmarshal2
                \o MsgTransfer_Unmarshal3
                \o MsgTransfer_Unmarshal4
                \o MsgTransfer_Unmarshal5),
      MsgBatchTransfer |->
         Codec3(MsgBatchTransfer_Marshal, MsgBatchTransfer_Size,
                MsgBatchTransfer_Unmarshal1
                \o MsgBatchTransfer_Unmarshal2
                \o MsgBatchTransfer_Unmarshal3),
      BatchTransferOutput |->
         Codec3(BatchTransferOutput_Marshal, BatchTransferOutput_Size,
                BatchTransferOutput_Unmarshal1
                \o BatchTransferOutput_Unmarshal2
                \o BatchTransferOutput_Unmarshal3),
      MsgDepositResponse |->
         Codec3(MsgDepositResponse_Marshal, MsgDepositResponse_Size,
                MsgDepositResponse_Unmarshal),
      MsgWithdrawResponse |->
         Codec3(MsgWithdrawResponse_Marshal, MsgWithdrawResponse_Size,
                MsgWithdrawResponse_Unmarshal),
      MsgTransferResponse |->
         Codec3(MsgTransferResponse_Marshal, MsgTransferResponse_Size,
                MsgTransferResponse_Unmarshal),
      MsgBatchTransferResponse |->
         Codec3(MsgBatchTransferResponse_Marshal, MsgBatchTransferResponse_Size,
                MsgBatchTransferResponse_Unmarshal),
      BatchTransferWirePrototypeV1 |->
         Codec3(BatchTransferWirePrototypeV1_Marshal, BatchTransferWirePrototypeV1_Size,
                BatchTransferWirePrototypeV1_Unmarshal1
                \o BatchTransferWirePrototypeV1_Unmarshal2
                \o BatchTransferWirePrototypeV1_Unmarshal3),
      BatchTransferOutputWirePrototypeV1 |->
         Codec3(BatchTransferOutputWirePrototypeV1_Marshal, BatchTransferOutputWirePrototypeV1_Size,
                BatchTransferOutputWirePrototypeV1_Unmarshal1
                \o BatchTransferOutputWirePrototypeV1_Unmarshal2
                \o BatchTransferOutputWirePrototypeV1_Unmarshal3),
      BatchMinimalEventWirePrototypeV1 |->
         Codec3(BatchMinimalEventWirePrototypeV1_Marshal, BatchMinimalEventWirePrototypeV1_Size,
                BatchMinimalEventWirePrototypeV1_Unmarshal1
                \o BatchMinimalEventWirePrototypeV1_Unmarshal2
                \o BatchMinimalEventWirePrototypeV1_Unmarshal3) ]
=============================================================================
