---------------------------- MODULE Announcements ----------------------------
(***************************************************************************)
(* Announcements (announce.ts, parse.ts, discovery.ts): how a sender packs *)
(* what it paid into the bytes of an announcement, and how every wallet    *)
(* tries every announcement of the chain against its own keys.             *)
(*                                                                         *)
(* A byte string is a record of its length and of the fields at its fixed  *)
(* offsets: tag 0, type 1, token 2, identifier 22, and from 54 the IV and  *)
(* the ciphertext.  Only the first byte of an IV is kept: the decoder      *)
(* looks at it.  A text is a record with its length.                       *)
(***************************************************************************)
EXTENDS StealthKeys, SequencesExt

CONSTANTS
    ViewTag(_),  \* the first byte of a shared secret
    ZeroAddress, \* the token address of native ether
    Nothing      \* undefined or null, an absent field

AssetTypes == {"NATIVE", "ERC20", "ERC721"}

assetTypeMap == [type \in AssetTypes |->
                    IF type = "NATIVE" THEN 0 ELSE IF type = "ERC20" THEN 1 ELSE 2]

\* typeMap: a byte the decoder does not know is taken for native ether.
typeOf(byte) ==
    IF byte \in {1, 2} THEN CHOOSE type \in AssetTypes : assetTypeMap[type] = byte
    ELSE "NATIVE"

\* What is paid: a token's address, and an amount or a token id.
AssetInfo(type, tokenAddress, identifier) ==
    [type |-> type, identifier |-> identifier,
     tokenAddress |-> IF type = "NATIVE" THEN ZeroAddress ELSE tokenAddress]

-----------------------------------------------------------------------------
(* The sender: announce.ts.                                                *)

HEADER == 54    \* bytes before the IV
IV     == 12
TAG    == 16    \* the authentication tag that ends the ciphertext

\* HKDF of the shared secret: nobody else can compute it.
deriveMetadataKey(sharedSecret) == [hkdf |-> sharedSecret]

NoBytes == [size |-> 0, tag |-> Nothing, type |-> Nothing, tokenAddress |-> Nothing,
            identifier |-> Nothing, encrypted |-> Nothing]

TagOnly(sharedSecret) == [NoBytes EXCEPT !.size = 1, !.tag = ViewTag(sharedSecret)]

Header(sharedSecret, assetInfo) ==
    [TagOnly(sharedSecret) EXCEPT
        !.size = HEADER, !.type = assetTypeMap[assetInfo.type],
        !.tokenAddress = assetInfo.tokenAddress, !.identifier = assetInfo.identifier]

Encrypt(sharedSecret, senderInfo, iv) ==
    [size |-> IV + senderInfo.length + TAG, iv |-> iv,
     key |-> deriveMetadataKey(sharedSecret), text |-> senderInfo]

packMetadata(sharedSecret, assetInfo, senderInfo, iv) ==
    LET header == Header(sharedSecret, assetInfo)
        encrypted == Encrypt(sharedSecret, senderInfo, iv)
    IN  IF assetInfo = Nothing THEN TagOnly(sharedSecret)
        ELSE IF senderInfo = Nothing THEN header
        ELSE [header EXCEPT !.size = HEADER + encrypted.size, !.encrypted = encrypted]

\* The event that announce() emits for an address; without the shared secret
\* the announcement carries no metadata.
prepareAnnounceTransfer(stealth, withSecret, assetInfo, senderInfo, iv) ==
    [stealthAddress |-> stealth.stealthAddress,
     ephemeralPubKey |-> stealth.ephemeralPubKey, keySize |-> 33,
     metadata |-> IF withSecret
                  THEN packMetadata(stealth.sharedSecret, assetInfo, senderInfo, iv)
                  ELSE NoBytes]

-----------------------------------------------------------------------------
(* The recipient: parse.ts and discovery.ts.                               *)

\* An announcement, or none.  Absent metadata has no bytes.
parseLog(log) ==
    IF log.keySize \in {33, 65}
    THEN <<[ephemeralPubKey |-> log.ephemeralPubKey, metadata |-> log.metadata]>>
    ELSE <<>>

\* A payload of more than 54 bytes whose first byte is the view tag is taken
\* for a whole announcement, though its header has been cut off already: the
\* ciphertext is then cut in the wrong place and does not authenticate.
headerOffset(encrypted, sharedSecret) ==
    IF encrypted.size > HEADER /\ encrypted.iv = ViewTag(sharedSecret) THEN HEADER ELSE 0

decryptMetadataPayload(encrypted, sharedSecret) ==
    IF /\ headerOffset(encrypted, sharedSecret) = 0
       /\ encrypted.key = deriveMetadataKey(sharedSecret)
    THEN encrypted.text ELSE Thrown

AssetBalance(type, tokenAddress, balance, tokenIds) ==
    [type |-> type, tokenAddress |-> tokenAddress, balance |-> balance,
     tokenIds |-> tokenIds]

ParsedAsset(metadata) ==
    LET type == typeOf(metadata.type)
    IN  CASE type = "ERC721" ->
                AssetBalance(type, metadata.tokenAddress, 0, <<metadata.identifier>>)
          [] type = "ERC20"  ->
                AssetBalance(type, metadata.tokenAddress, metadata.identifier, <<>>)
          [] type = "NATIVE" ->
                AssetBalance(type, ZeroAddress, metadata.identifier, <<>>)

\* A sender that does not decrypt is left out; the asset still counts.
ParsedSender(metadata, sharedSecret) ==
    IF /\ metadata.size >= HEADER + IV + TAG
       /\ decryptMetadataPayload(metadata.encrypted, sharedSecret) # Thrown
    THEN decryptMetadataPayload(metadata.encrypted, sharedSecret) ELSE Nothing

\* Mutant: a header without a sender is taken to be too short.
parseAssetMetadataShort(metadata, sharedSecret) ==
    IF metadata.size <= HEADER THEN [assets |-> <<>>, senderInfo |-> Nothing]
    ELSE [assets |-> <<ParsedAsset(metadata)>>,
          senderInfo |-> ParsedSender(metadata, sharedSecret)]

\* For metadata with the right view tag.
parseAssetMetadata(metadata, sharedSecret) ==
    IF metadata.size < HEADER THEN [assets |-> <<>>, senderInfo |-> Nothing]
    ELSE [assets |-> <<ParsedAsset(metadata)>>,
          senderInfo |-> ParsedSender(metadata, sharedSecret)]

TagMatches(metadata, sharedSecret) ==
    metadata.size = 0 \/ metadata.tag = ViewTag(sharedSecret)

\* One announcement against the keys: a discovered shard, or none when the key is
\* not one of the curve, the view tag is another or something throws.  The
\* address is computed, never taken from the announcement.
Discovered(announcement, keys) ==
    LET sharedSecret == computeSharedSecret(keys.viewingPrivateKey,
                                            announcement.ephemeralPubKey)
        address == computeStealthAddress(spendingPublicKey(keys), sharedSecret)
        parsed == IF announcement.metadata.size > 0
                  THEN parseAssetMetadata(announcement.metadata, sharedSecret)
                  ELSE [assets |-> <<>>, senderInfo |-> Nothing]
    IN  IF /\ announcement.ephemeralPubKey \in PublicKeys
           /\ TagMatches(announcement.metadata, sharedSecret)
           /\ address # Thrown
        THEN <<[address |-> address, ephemeralPubKey |-> announcement.ephemeralPubKey,
                assets |-> parsed.assets, senderInfo |-> parsed.senderInfo]>>
        ELSE <<>>

\* The shards among the logs, in their order.
processAnnouncements(logs, keys) ==
    LET announcements == FlattenSeq([i \in DOMAIN logs |-> parseLog(logs[i])])
    IN  FlattenSeq([i \in DOMAIN announcements |-> Discovered(announcements[i], keys)])
=============================================================================
