--------------------------- MODULE DiscoveryProofs ---------------------------
(***************************************************************************)
(* Whatever the group, the hash and the keys are: a payment made to a      *)
(* meta-address is found by its owner, who reads what it says and holds    *)
(* the key of the address that was paid; and whatever syncs overlap, no    *)
(* payment is passed over, every shard of the store can be opened and no   *)
(* token that the wallet owns is dropped.                                  *)
(***************************************************************************)
EXTENDS Discovery, FoldTheorems

-----------------------------------------------------------------------------
(* Keys and announcements.                                                 *)

\* The mod-order sum of two words is a number the group laws speak of.
LEMMA ModIsWord ==
    ASSUME NEW j \in Words, NEW k \in Words
    PROVE  /\ (j + k) % Order \in 0..(Order - 1)
           /\ (j + k) % Order \in Words
<1>1. Order \in Nat \ {0} /\ Words \subseteq Nat /\ 0..(Order - 1) \subseteq Words
  BY GroupAssumption DEF GroupAssumption
<1>2. (j + k) % Order \in 0..(Order - 1)
  BY <1>1, SMT
<1> QED BY <1>1, <1>2

\* A shared secret is a word, whatever point the key is multiplied with.
LEMMA SecretIsWord ==
    ASSUME NEW k \in Words, NEW p \in Points
    PROVE  computeSharedSecret(k, p) \in Words
BY GroupAssumption DEF GroupAssumption, computeSharedSecret

\* Both ends of a payment compute one shared secret (ECDH): the sender from the
\* ephemeral key, the recipient from the viewing key.
THEOREM SharedSecretAgrees ==
    ASSUME NEW keys \in KeySet, NEW ephemeral \in Words
    PROVE  computeSharedSecret(keys.viewingPrivateKey, PublicKey(ephemeral))
               = computeSharedSecret(ephemeral, viewingPublicKey(keys))
<1>1. keys.viewingPrivateKey \in Words
  BY DEF KeySet, Scalars
<1>2. Times(keys.viewingPrivateKey, PublicKey(ephemeral))
          = Times(ephemeral, PublicKey(keys.viewingPrivateKey))
  BY <1>1, GroupAssumption DEF GroupAssumption
<1> QED BY <1>2 DEF computeSharedSecret, viewingPublicKey

\* A stealth address that can be computed is the address of the shard's derived
\* private key, and that key is one the curve accepts: what is paid to it can be
\* spent.
THEOREM DerivedKeyOpensAddress ==
    ASSUME NEW keys \in KeySet, NEW secret \in Words,
           computeStealthAddress(spendingPublicKey(keys), secret) # Thrown
    PROVE  /\ PublicKey(deriveShardPrivateKey(keys, secret))
                  = computeStealthAddress(spendingPublicKey(keys), secret)
           /\ deriveShardPrivateKey(keys, secret) \in Scalars
<1> DEFINE sum == (keys.spendingPrivateKey + secret) % Order
<1>1. keys.spendingPrivateKey \in Words
  BY DEF KeySet, Scalars
<1>2. sum \in 0..(Order - 1) /\ sum \in Words
  BY <1>1, ModIsWord
<1>3. Plus(spendingPublicKey(keys), PublicKey(secret)) = PublicKey(sum)
  BY <1>1, GroupAssumption DEF GroupAssumption, spendingPublicKey
<1>4. /\ computeStealthAddress(spendingPublicKey(keys), secret) = PublicKey(sum)
      /\ PublicKey(sum) # Infinity
  BY <1>3 DEF computeStealthAddress, deriveStealthPublicKey
<1>5. sum # 0
  BY <1>4, GroupAssumption DEF GroupAssumption
<1>6. sum \in Scalars
  <2>1. Order \in Nat
    BY GroupAssumption DEF GroupAssumption
  <2> HIDE DEF sum
  <2> QED BY <1>2, <1>5, <2>1, SMT DEF Scalars
<1> QED BY <1>4, <1>6 DEF deriveShardPrivateKey

-----------------------------------------------------------------------------
(* Payments and discovery.                                                 *)

\* What generateStealthAddress gives for a wallet's own meta-address: the codec
\* puts the two keys back where they came from.
LEMMA StealthOfMetaAddress ==
    ASSUME NEW keys \in KeySet, NEW ephemeral \in Words,
           generateStealthAddress(encodeMetaAddress(keys), ephemeral) # Thrown
    PROVE  LET secret == computeSharedSecret(ephemeral, viewingPublicKey(keys))
           IN  /\ computeStealthAddress(spendingPublicKey(keys), secret) # Thrown
               /\ ephemeral \in Scalars
               /\ generateStealthAddress(encodeMetaAddress(keys), ephemeral)
                    = [stealthAddress |-> computeStealthAddress(spendingPublicKey(keys), secret),
                       ephemeralPubKey |-> PublicKey(ephemeral),
                       sharedSecret |-> secret]
<1> DEFINE secret == computeSharedSecret(ephemeral, viewingPublicKey(keys))
           decoded == [spendingPublicKey |-> spendingPublicKey(keys),
                       viewingPublicKey |-> viewingPublicKey(keys)]
<1>1. decodeMetaAddress(encodeMetaAddress(keys)) \in {decoded, Thrown}
  BY DEF decodeMetaAddress, encodeMetaAddress, Text, Payload
<1>2. decodeMetaAddress(encodeMetaAddress(keys)) = decoded
  BY <1>1 DEF generateStealthAddress
<1>3. generateStealthAddress(encodeMetaAddress(keys), ephemeral)
          = StealthFor(spendingPublicKey(keys), viewingPublicKey(keys), ephemeral)
  BY <1>2 DEF generateStealthAddress
<1> QED BY <1>3 DEF StealthFor

\* The three asset types survive their byte.
LEMMA TypeOfByte ==
    ASSUME NEW type \in AssetTypes
    PROVE  typeOf(assetTypeMap[type]) = type
<1>1. /\ assetTypeMap["NATIVE"] = 0 /\ assetTypeMap["ERC20"] = 1
      /\ assetTypeMap["ERC721"] = 2
  BY DEF assetTypeMap, AssetTypes
<1>2. \A t \in AssetTypes : t \in {"NATIVE", "ERC20", "ERC721"}
  BY DEF AssetTypes
<1>3. (CHOOSE t \in AssetTypes : assetTypeMap[t] = 1) = "ERC20"
  BY <1>1, <1>2 DEF AssetTypes
<1>4. (CHOOSE t \in AssetTypes : assetTypeMap[t] = 2) = "ERC721"
  BY <1>1, <1>2 DEF AssetTypes
<1> QED BY <1>1, <1>2, <1>3, <1>4 DEF typeOf

\* A sender, or none.
SenderInfo(senderInfo) == senderInfo = Nothing \/ senderInfo.length \in Nat

\* Packed metadata starts with the view tag; it is a tag, or at least a header.
LEMMA PackedMetadata ==
    ASSUME NEW secret, NEW assetInfo, NEW senderInfo, NEW iv, SenderInfo(senderInfo)
    PROVE  LET metadata == packMetadata(secret, assetInfo, senderInfo, iv)
           IN  /\ metadata.tag = ViewTag(secret)
               /\ assetInfo = Nothing => metadata.size = 1
               /\ assetInfo # Nothing =>
                     /\ metadata.type = assetTypeMap[assetInfo.type]
                     /\ metadata.tokenAddress = assetInfo.tokenAddress
                     /\ metadata.identifier = assetInfo.identifier
               /\ assetInfo # Nothing /\ senderInfo = Nothing => metadata.size = 54
               /\ assetInfo # Nothing /\ senderInfo # Nothing =>
                     /\ metadata.size = 82 + senderInfo.length
                     /\ metadata.encrypted = Encrypt(secret, senderInfo, iv)
<1>1. CASE assetInfo = Nothing
  BY <1>1 DEF packMetadata, TagOnly, NoBytes
<1>2. CASE assetInfo # Nothing /\ senderInfo = Nothing
  BY <1>2 DEF packMetadata, Header, HEADER, TagOnly, NoBytes
<1>3. CASE assetInfo # Nothing /\ senderInfo # Nothing
  <2>1. senderInfo.length \in Nat
    BY <1>3 DEF SenderInfo
  <2>2. packMetadata(secret, assetInfo, senderInfo, iv)
            = [Header(secret, assetInfo) EXCEPT
                  !.size = HEADER + Encrypt(secret, senderInfo, iv).size,
                  !.encrypted = Encrypt(secret, senderInfo, iv)]
    BY <1>3 DEF packMetadata
  <2>3. HEADER + Encrypt(secret, senderInfo, iv).size = 82 + senderInfo.length
    BY <2>1 DEF Encrypt, HEADER, IV, TAG
  <2> QED BY <1>3, <2>2, <2>3 DEF Header, TagOnly, NoBytes
<1> QED BY <1>1, <1>2, <1>3

\* A payment to a wallet's meta-address is found by it whatever the announcement
\* says: the address that the wallet computes from the announcement is the one
\* that was paid, and the derived key opens it.
THEOREM PaymentIsFound ==
    ASSUME NEW keys \in KeySet, NEW ephemeral \in Words, NEW assetInfo,
           NEW senderInfo, NEW iv, NEW withSecret \in BOOLEAN,
           SenderInfo(senderInfo),
           generateStealthAddress(encodeMetaAddress(keys), ephemeral) # Thrown
    PROVE  LET stealth == generateStealthAddress(encodeMetaAddress(keys), ephemeral)
               log == prepareAnnounceTransfer(stealth, withSecret, assetInfo, senderInfo, iv)
               found == Discovered(parseLog(log)[1], keys)
           IN  /\ Len(parseLog(log)) = 1 /\ Len(found) = 1
               /\ found[1].address = stealth.stealthAddress
               /\ found[1].ephemeralPubKey = stealth.ephemeralPubKey
               /\ PublicKey(deriveShardPrivateKey(keys, stealth.sharedSecret))
                      = found[1].address
<1> DEFINE stealth == generateStealthAddress(encodeMetaAddress(keys), ephemeral)
           secret == computeSharedSecret(ephemeral, viewingPublicKey(keys))
           address == computeStealthAddress(spendingPublicKey(keys), secret)
           log == prepareAnnounceTransfer(stealth, withSecret, assetInfo, senderInfo, iv)
           announcement == parseLog(log)[1]
           found == Discovered(announcement, keys)
<1>1. /\ address # Thrown /\ ephemeral \in Scalars
      /\ stealth = [stealthAddress |-> address, ephemeralPubKey |-> PublicKey(ephemeral),
                    sharedSecret |-> secret]
  BY StealthOfMetaAddress
<1>2. /\ log.keySize = 33 /\ log.ephemeralPubKey = PublicKey(ephemeral)
      /\ log.metadata = IF withSecret THEN packMetadata(secret, assetInfo, senderInfo, iv)
                        ELSE NoBytes
  BY <1>1 DEF prepareAnnounceTransfer
<1>3. /\ parseLog(log) = <<announcement>>
      /\ announcement.ephemeralPubKey = PublicKey(ephemeral)
      /\ announcement.metadata = log.metadata
  <2> HIDE DEF log
  <2> QED BY <1>2 DEF parseLog
<1>4. TagMatches(announcement.metadata, secret)
  <2>1. CASE withSecret
    <3>1. packMetadata(secret, assetInfo, senderInfo, iv).tag = ViewTag(secret)
      BY PackedMetadata
    <3> QED BY <2>1, <1>2, <1>3, <3>1 DEF TagMatches
  <2>2. CASE ~withSecret
    BY <2>2, <1>2, <1>3 DEF TagMatches, NoBytes
  <2> QED BY <2>1, <2>2
<1>5. computeSharedSecret(keys.viewingPrivateKey, announcement.ephemeralPubKey) = secret
  BY <1>3, SharedSecretAgrees
<1>6. announcement.ephemeralPubKey \in PublicKeys
  BY <1>1, <1>3, GroupAssumption DEF GroupAssumption, PublicKeys, Scalars
<1>7. /\ Len(found) = 1 /\ found[1].address = address
      /\ found[1].ephemeralPubKey = PublicKey(ephemeral)
  <2> HIDE DEF announcement
  <2> QED BY <1>1, <1>3, <1>4, <1>5, <1>6 DEF Discovered
<1>8. secret \in Words
  <2>1. viewingPublicKey(keys) \in Points
    BY GroupAssumption DEF GroupAssumption, viewingPublicKey, KeySet, Scalars
  <2> QED BY <2>1, SecretIsWord
<1>9. PublicKey(deriveShardPrivateKey(keys, secret)) = address
  BY <1>1, <1>8, DerivedKeyOpensAddress
<1> QED BY <1>1, <1>3, <1>7, <1>9

\* The owner of a payment reads what its sender wrote: the asset, and who sent
\* it, unless the sender's text is long and its IV happens to begin with the view
\* tag.
THEOREM PaymentIsRead ==
    ASSUME NEW secret, NEW type \in AssetTypes, NEW token, NEW identifier,
           NEW senderInfo, NEW iv,
           AssetInfo(type, token, identifier) # Nothing,
           SenderInfo(senderInfo), senderInfo # Nothing, senderInfo # Thrown
    PROVE  LET metadata == packMetadata(secret, AssetInfo(type, token, identifier),
                                        senderInfo, iv)
               parsed == parseAssetMetadata(metadata, secret)
               asset == parsed.assets[1]
           IN  /\ Len(parsed.assets) = 1
               /\ asset.type = type
               /\ type # "NATIVE" => asset.tokenAddress = token
               /\ type = "ERC721" => asset.tokenIds = <<identifier>>
               /\ type # "ERC721" => asset.balance = identifier
               /\ \/ parsed.senderInfo = senderInfo
                  \/ senderInfo.length > 26 /\ iv = ViewTag(secret)
<1> DEFINE assetInfo == AssetInfo(type, token, identifier)
           metadata == packMetadata(secret, assetInfo, senderInfo, iv)
           parsed == parseAssetMetadata(metadata, secret)
           encrypted == Encrypt(secret, senderInfo, iv)
<1>1. senderInfo.length \in Nat
  BY DEF SenderInfo
<1>2. /\ metadata.size = 82 + senderInfo.length
      /\ metadata.type = assetTypeMap[type] /\ metadata.identifier = identifier
      /\ metadata.tokenAddress = IF type = "NATIVE" THEN ZeroAddress ELSE token
      /\ metadata.encrypted = encrypted
  BY PackedMetadata DEF AssetInfo
<1>3. typeOf(metadata.type) = type
  BY <1>2, TypeOfByte
<1>4. /\ metadata.size >= HEADER /\ metadata.size >= HEADER + IV + TAG
      /\ ~(metadata.size < HEADER)
  BY <1>1, <1>2 DEF HEADER, IV, TAG
<1>5. parsed = [assets |-> <<ParsedAsset(metadata)>>,
                senderInfo |-> ParsedSender(metadata, secret)]
  BY <1>4 DEF parseAssetMetadata
<1>6. /\ ParsedAsset(metadata).type = type
      /\ type # "NATIVE" => ParsedAsset(metadata).tokenAddress = token
      /\ type = "ERC721" => ParsedAsset(metadata).tokenIds = <<identifier>>
      /\ type # "ERC721" => ParsedAsset(metadata).balance = identifier
  BY <1>2, <1>3 DEF ParsedAsset, AssetBalance, AssetTypes
<1>7. \/ decryptMetadataPayload(encrypted, secret) = senderInfo
      \/ senderInfo.length > 26 /\ iv = ViewTag(secret)
  <2>1. /\ encrypted.key = deriveMetadataKey(secret) /\ encrypted.text = senderInfo
        /\ encrypted.size = 28 + senderInfo.length /\ encrypted.iv = iv
    BY <1>1 DEF Encrypt, IV, TAG
  <2>2. \/ headerOffset(encrypted, secret) = 0
        \/ senderInfo.length > 26 /\ iv = ViewTag(secret)
    BY <1>1, <2>1 DEF headerOffset, HEADER
  <2> QED BY <2>1, <2>2 DEF decryptMetadataPayload
<1>8. \/ parsed.senderInfo = senderInfo
      \/ senderInfo.length > 26 /\ iv = ViewTag(secret)
  BY <1>2, <1>4, <1>5, <1>7 DEF ParsedSender
<1> QED BY <1>5, <1>6, <1>8

\* The asset that a payment's announcement tells, as the wallet keeps it.
AssetOf(asset) ==
    AssetBalance(asset.type, asset.tokenAddress,
                 IF asset.type = "ERC721" THEN 0 ELSE asset.identifier,
                 IF asset.type = "ERC721" THEN <<asset.identifier>> ELSE <<>>)

\* The asset that was packed is read back.
LEMMA AssetIsRead ==
    ASSUME NEW secret, NEW asset, NEW senderInfo, NEW iv,
           asset.type \in AssetTypes, asset # Nothing, SenderInfo(senderInfo),
           asset = AssetInfo(asset.type, asset.tokenAddress, asset.identifier)
    PROVE  LET metadata == packMetadata(secret, asset, senderInfo, iv)
           IN  /\ metadata.size >= HEADER
               /\ parseAssetMetadata(metadata, secret).assets = <<AssetOf(asset)>>
<1> DEFINE metadata == packMetadata(secret, asset, senderInfo, iv)
<1>1. metadata.size \in Nat /\ metadata.size >= 54
  BY PackedMetadata DEF SenderInfo
<1>2. /\ metadata.type = assetTypeMap[asset.type] /\ metadata.identifier = asset.identifier
      /\ metadata.tokenAddress = asset.tokenAddress
  BY PackedMetadata
<1>3. typeOf(metadata.type) = asset.type
  BY <1>2, TypeOfByte
<1>4. asset.type = "NATIVE" => asset.tokenAddress = ZeroAddress
  <2>1. AssetInfo("NATIVE", asset.tokenAddress, asset.identifier).tokenAddress = ZeroAddress
    BY DEF AssetInfo
  <2> QED BY <2>1
<1> HIDE DEF metadata
<1>5. ParsedAsset(metadata) = AssetOf(asset)
  <2>1. asset.type \in {"NATIVE", "ERC20", "ERC721"}
    BY DEF AssetTypes
  <2> QED BY <1>2, <1>3, <1>4, <2>1 DEF ParsedAsset, AssetOf
<1>6. parseAssetMetadata(metadata, secret).assets = <<ParsedAsset(metadata)>>
  BY <1>1 DEF parseAssetMetadata, HEADER
<1> QED BY <1>1, <1>5, <1>6 DEF metadata, HEADER

-----------------------------------------------------------------------------
(* Sequences.                                                              *)

IsSeq(s) == Len(s) \in Nat /\ s = [i \in 1..Len(s) |-> s[i]]

\* A sequence is one over its own elements.
LEMMA SequenceOf ==
    ASSUME NEW s, IsSeq(s)
    PROVE  /\ DOMAIN s = 1..Len(s) /\ Len(s) \in Nat
           /\ s \in Seq({s[i] : i \in 1..Len(s)})
<1>1. DOMAIN s = 1..Len(s) /\ Len(s) \in Nat
  BY DEF IsSeq
<1>2. s \in Seq({s[i] : i \in 1..Len(s)})
  <2> DEFINE n == Len(s)
             U == {s[j] : j \in 1..n}
  <2>1. n \in Nat /\ s = [j \in 1..n |-> s[j]]
    BY DEF IsSeq
  <2>2. \A j \in 1..n : s[j] \in U
    OBVIOUS
  <2> HIDE DEF n, U
  <2>3. s \in Seq(U)
    BY <2>1, <2>2
  <2> QED BY <2>3 DEF n, U
<1> QED BY <1>1, <1>2

\* A member of Seq is a sequence.
LEMMA SeqIs ==
    ASSUME NEW U, NEW s \in Seq(U)
    PROVE  IsSeq(s)
BY DEF IsSeq

\* What an append does.
LEMMA AppendSeq ==
    ASSUME NEW s, IsSeq(s), NEW x
    PROVE  /\ IsSeq(Append(s, x)) /\ Len(Append(s, x)) = Len(s) + 1
           /\ DOMAIN Append(s, x) = 1..(Len(s) + 1)
           /\ \A i \in 1..Len(s) : Append(s, x)[i] = s[i]
           /\ Append(s, x)[Len(s) + 1] = x
<1> DEFINE U == {s[i] : i \in 1..Len(s)} \cup {x}
<1>1. s \in [1..Len(s) -> U] /\ Len(s) \in Nat
  BY DEF IsSeq
<1>2. s \in Seq(U) /\ x \in U
  BY <1>1
<1> HIDE DEF U
<1>3. Append(s, x) \in Seq(U)
  BY <1>2
<1>4. IsSeq(Append(s, x))
  BY <1>3, SeqIs
<1> QED BY <1>2, <1>4

\* A function on 1..n is a sequence.
LEMMA MadeSeq ==
    ASSUME NEW n \in Nat, NEW s, s = [i \in 1..n |-> s[i]]
    PROVE  IsSeq(s) /\ Len(s) = n /\ DOMAIN s = 1..n
<1>1. s \in [1..n -> {s[i] : i \in 1..n}]
  OBVIOUS
<1>2. s \in Seq({s[i] : i \in 1..n}) /\ Len(s) = n
  BY <1>1
<1> QED BY <1>1, <1>2, SeqIs

-----------------------------------------------------------------------------
(* What a sync makes of the logs.                                          *)

AssetFields == {"type", "tokenAddress", "balance", "tokenIds"}
ShardFields == {"address", "ephemeralPubKey", "assets"}

AssetOK(asset) ==
    /\ DOMAIN asset = AssetFields /\ asset.type \in AssetTypes /\ IsSeq(asset.tokenIds)

AssetsOK(assets) ==
    IsSeq(assets) /\ \A ai \in DOMAIN assets : AssetOK(assets[ai])

\* The address is the one that the wallet computes from the ephemeral key.
Opens(shard) ==
    /\ shard.ephemeralPubKey \in PublicKeys
    /\ shard.address = ComputedAddress(shard.ephemeralPubKey) /\ shard.address # Thrown

\* The sequences with at most one element.
LEMMA OneElement ==
    ASSUME NEW S, NEW x \in S
    PROVE  /\ <<>> \in Seq(S) /\ <<x>> \in Seq(S)
           /\ DOMAIN <<x>> = {1} /\ <<x>>[1] = x
<1>1. <<>> \in Seq(S) /\ <<x>> \in Seq(S) /\ <<x>>[1] = x /\ Len(<<x>>) = 1
  OBVIOUS
<1>2. DOMAIN <<x>> = 1..1
  OBVIOUS
<1> QED BY <1>1, <1>2

\* The same without a set of elements.
LEMMA ShortSeqs ==
    /\ IsSeq(<<>>)
    /\ \A x : IsSeq(<<x>>) /\ DOMAIN <<x>> = {1} /\ <<x>>[1] = x
<1>1. IsSeq(<<>>)
  BY DEF IsSeq
<1>2. ASSUME NEW x PROVE IsSeq(<<x>>) /\ DOMAIN <<x>> = {1} /\ <<x>>[1] = x
  <2>1. <<x>> \in Seq({x}) /\ DOMAIN <<x>> = {1} /\ <<x>>[1] = x
    BY OneElement
  <2>2. IsSeq(<<x>>)
    BY <2>1, SeqIs
  <2> QED BY <2>1, <2>2
<1> QED BY <1>1, <1>2

\* Whatever is read of metadata has the form of a list of assets.
LEMMA ParsedOK ==
    ASSUME NEW metadata, NEW secret
    PROVE  AssetsOK(parseAssetMetadata(metadata, secret).assets)
<1>1. typeOf(metadata.type) \in {"NATIVE", "ERC20", "ERC721"}
  <2>1. metadata.type \in {1, 2} => \E type \in AssetTypes : assetTypeMap[type] = metadata.type
    BY DEF AssetTypes, assetTypeMap
  <2> QED BY <2>1 DEF typeOf, AssetTypes
<1>2. ParsedAsset(metadata).tokenIds \in {<<>>, <<metadata.identifier>>}
      /\ ParsedAsset(metadata).type = typeOf(metadata.type)
      /\ DOMAIN ParsedAsset(metadata) = AssetFields
  BY <1>1 DEF ParsedAsset, AssetBalance, AssetFields
<1>3. IsSeq(ParsedAsset(metadata).tokenIds)
  BY <1>2, ShortSeqs
<1>4. AssetOK(ParsedAsset(metadata))
  BY <1>1, <1>2, <1>3 DEF AssetOK, AssetTypes
<1>5. parseAssetMetadata(metadata, secret).assets \in {<<>>, <<ParsedAsset(metadata)>>}
  BY DEF parseAssetMetadata
<1>6. AssetsOK(<<ParsedAsset(metadata)>>)
  BY <1>4, ShortSeqs DEF AssetsOK
<1>7. AssetsOK(<<>>)
  BY ShortSeqs DEF AssetsOK
<1> QED BY <1>5, <1>6, <1>7

\* A discovered shard can be opened, whoever made the announcement.
LEMMA DiscoveredShard ==
    ASSUME NEW announcement, Discovered(announcement, Keys) # <<>>
    PROVE  LET shard == Discovered(announcement, Keys)[1]
           IN  /\ Discovered(announcement, Keys) = <<shard>>
               /\ shard.ephemeralPubKey = announcement.ephemeralPubKey
               /\ Opens(shard) /\ AssetsOK(shard.assets)
<1> DEFINE secret == computeSharedSecret(Keys.viewingPrivateKey, announcement.ephemeralPubKey)
           address == computeStealthAddress(spendingPublicKey(Keys), secret)
           parsed == IF announcement.metadata.size > 0
                     THEN parseAssetMetadata(announcement.metadata, secret)
                     ELSE [assets |-> <<>>, senderInfo |-> Nothing]
           shard == [address |-> address, ephemeralPubKey |-> announcement.ephemeralPubKey,
                     assets |-> parsed.assets, senderInfo |-> parsed.senderInfo]
<1>1. /\ Discovered(announcement, Keys) = <<shard>>
      /\ announcement.ephemeralPubKey \in PublicKeys /\ address # Thrown
  BY DEF Discovered
<1>2. AssetsOK(parsed.assets)
  <2>1. AssetsOK(<<>>)
    BY ShortSeqs DEF AssetsOK
  <2> QED BY <2>1, ParsedOK
<1>3. address = ComputedAddress(announcement.ephemeralPubKey)
  BY DEF ComputedAddress
<1> HIDE DEF address, parsed
<1> QED BY <1>1, <1>2, <1>3 DEF Opens

\* What a log gives: nothing, or one shard.
Found(log) == IF parseLog(log) = <<>> THEN <<>> ELSE Discovered(parseLog(log)[1], Keys)

\* What the trial of a log finds can be opened.
LEMMA FoundShard ==
    ASSUME NEW log, Found(log) # <<>>
    PROVE  /\ Found(log) = <<Found(log)[1]>>
           /\ Found(log)[1].ephemeralPubKey = log.ephemeralPubKey
           /\ Opens(Found(log)[1]) /\ AssetsOK(Found(log)[1].assets)
<1>1. /\ parseLog(log) # <<>> /\ Found(log) = Discovered(parseLog(log)[1], Keys)
  BY DEF Found
<1>2. parseLog(log)[1].ephemeralPubKey = log.ephemeralPubKey
  BY <1>1 DEF parseLog
<1> QED BY <1>1, <1>2, DiscoveredShard

\* processAnnouncements finds what the trial of each log finds, and nothing else.
LEMMA Processed ==
    ASSUME NEW logs, IsSeq(logs)
    PROVE  LET found == processAnnouncements(logs, Keys)
           IN  /\ IsSeq(found)
               /\ \A k \in DOMAIN found : \E i \in DOMAIN logs :
                     Found(logs[i]) # <<>> /\ found[k] = Found(logs[i])[1]
               /\ \A i \in DOMAIN logs : Found(logs[i]) # <<>> =>
                     \E k \in DOMAIN found : found[k] = Found(logs[i])[1]
<1> DEFINE parsed == [i \in DOMAIN logs |-> parseLog(logs[i])]
           V == {parseLog(logs[i])[1] : i \in DOMAIN logs}
           announcements == FlattenSeq(parsed)
           tried == [i \in DOMAIN announcements |-> Discovered(announcements[i], Keys)]
           W == {Discovered(announcements[i], Keys)[1] : i \in DOMAIN announcements}
           found == FlattenSeq(tried)
<1>1. DOMAIN logs = 1..Len(logs) /\ Len(logs) \in Nat
  BY SequenceOf
<1>2. IsSeq(parsed) /\ Len(parsed) = Len(logs) /\ DOMAIN parsed = DOMAIN logs
  BY <1>1, MadeSeq
<1>3. \A i \in DOMAIN logs : /\ parsed[i] = parseLog(logs[i])
                             /\ parsed[i] \in {<<>>, <<parseLog(logs[i])[1]>>}
  BY DEF parseLog
<1>4. ASSUME NEW i \in DOMAIN parsed
      PROVE  parsed[i] \in Seq(V)
  <2> DEFINE v == parseLog(logs[i])[1]
  <2>1. v \in V /\ parsed[i] \in {<<>>, <<v>>}
    BY <1>2, <1>3
  <2> HIDE DEF v, V, parsed
  <2> QED BY <2>1, OneElement
<1>5. /\ IsSeq(announcements)
      /\ Joins(announcements, parsed, Len(parsed))
  <2> HIDE DEF parsed, V
  <2>1. CASE Len(parsed) = 0
    BY <2>1, <1>1, <1>2, <1>4, Flattened
  <2>2. CASE Len(parsed) # 0
    <3>1. announcements \in Seq(V)
      BY <2>2, <1>1, <1>2, <1>4, Flattened
    <3>2. IsSeq(announcements)
      <4> HIDE DEF announcements
      <4> QED BY <3>1, SeqIs
    <3> QED BY <3>2, <1>1, <1>2, <1>4, Flattened
  <2> QED BY <2>1, <2>2
<1> HIDE DEF announcements
<1>6. DOMAIN announcements = 1..Len(announcements) /\ Len(announcements) \in Nat
  BY <1>5, SequenceOf
<1>7. IsSeq(tried) /\ Len(tried) = Len(announcements) /\ DOMAIN tried = DOMAIN announcements
  BY <1>6, MadeSeq
<1>8. \A i \in DOMAIN announcements :
         /\ tried[i] = Discovered(announcements[i], Keys)
         /\ tried[i] \in {<<>>, <<Discovered(announcements[i], Keys)[1]>>}
  BY DiscoveredShard
<1>9. ASSUME NEW i \in DOMAIN tried
      PROVE  tried[i] \in Seq(W)
  <2> DEFINE w == Discovered(announcements[i], Keys)[1]
  <2>1. w \in W /\ tried[i] \in {<<>>, <<w>>}
    BY <1>7, <1>8
  <2> HIDE DEF w, W, tried
  <2> QED BY <2>1, OneElement
<1>10. IsSeq(found) /\ Joins(found, tried, Len(tried))
  <2> HIDE DEF tried, W
  <2>1. CASE Len(tried) = 0
    BY <2>1, <1>6, <1>7, <1>9, Flattened
  <2>2. CASE Len(tried) # 0
    <3>1. found \in Seq(W)
      BY <2>2, <1>6, <1>7, <1>9, Flattened
    <3>2. IsSeq(found)
      <4> HIDE DEF found
      <4> QED BY <3>1, SeqIs
    <3> QED BY <3>2, <1>6, <1>7, <1>9, Flattened
  <2> QED BY <2>1, <2>2
<1> HIDE DEF found, tried, parsed, V, W
<1>11. ASSUME NEW k \in DOMAIN found
       PROVE  \E i \in DOMAIN logs : Found(logs[i]) # <<>> /\ found[k] = Found(logs[i])[1]
  <2>1. PICK n \in 1..Len(tried) : \E j \in DOMAIN tried[n] : found[k] = tried[n][j]
    BY <1>10 DEF Joins
  <2>2. PICK j \in DOMAIN tried[n] : found[k] = tried[n][j]
    BY <2>1
  <2>3. n \in DOMAIN announcements
    BY <1>6, <1>7
  <2>4. tried[n] # <<>> /\ j = 1 /\ tried[n] = Discovered(announcements[n], Keys)
    BY <1>8, <2>2, <2>3
  <2>5. PICK i \in 1..Len(parsed) : \E m \in DOMAIN parsed[i] : announcements[n] = parsed[i][m]
    BY <1>5, <2>3 DEF Joins
  <2>6. PICK m \in DOMAIN parsed[i] : announcements[n] = parsed[i][m]
    BY <2>5
  <2>7. i \in DOMAIN logs
    BY <1>1, <1>2
  <2>8. parsed[i] # <<>> /\ m = 1 /\ parsed[i] = parseLog(logs[i])
    BY <1>3, <2>6, <2>7
  <2>9. Found(logs[i]) = tried[n]
    BY <2>4, <2>6, <2>8 DEF Found
  <2> QED BY <2>2, <2>4, <2>7, <2>9
<1>12. ASSUME NEW i \in DOMAIN logs, Found(logs[i]) # <<>>
       PROVE  \E k \in DOMAIN found : found[k] = Found(logs[i])[1]
  <2>1. parsed[i] = parseLog(logs[i]) /\ parsed[i] # <<>> /\ 1 \in DOMAIN parsed[i]
    BY <1>3, <1>12 DEF Found
  <2>2. PICK n \in DOMAIN announcements : announcements[n] = parsed[i][1]
    BY <1>1, <1>2, <1>5, <2>1 DEF Joins
  <2>3. tried[n] = Found(logs[i])
    BY <1>8, <1>12, <2>1, <2>2 DEF Found
  <2>4. 1 \in DOMAIN tried[n]
    BY <1>8, <1>12, <2>3
  <2> QED BY <1>6, <1>7, <1>10, <2>3, <2>4 DEF Joins
<1>13. found = processAnnouncements(logs, Keys)
  BY DEF found, tried, announcements, parsed, processAnnouncements
<1> QED BY <1>10, <1>11, <1>12, <1>13

-----------------------------------------------------------------------------
(* What a sync adds to the store, one shard after another.                 *)

Added(inventory, found) == FoldLeft(add, inventory, found)

AddsUpTo(inventory, found, n, f) ==
    f = [s \in SUBSET (1..n) |->
            IF s = {} THEN inventory ELSE add(f[s \ {Max(s)}], found[Max(s)])]

\* The largest of a set of positions that holds the last one.
LEMMA MaxIsLast ==
    ASSUME NEW n \in Nat, NEW s \in SUBSET (1..n), n \in s
    PROVE  Max(s) = n
<1>1. \A y \in s : n >= y
  OBVIOUS
<1>2. \A x \in s : (\A y \in s : x >= y) => x = n
  OBVIOUS
<1> QED BY <1>1, <1>2 DEF Max

\* The fold of add has a value after each element.
LEMMA AddsExist ==
    ASSUME NEW inventory, NEW found, NEW m \in Nat
    PROVE  \E f : AddsUpTo(inventory, found, m, f)
<1> DEFINE Good == {n \in 0..m : \E f : AddsUpTo(inventory, found, n, f)}
<1>1. 0 \in Good
  <2> DEFINE f == [s \in SUBSET (1..0) |-> inventory]
  <2>1. \A s \in SUBSET (1..0) : s = {}
    OBVIOUS
  <2>2. AddsUpTo(inventory, found, 0, f)
    BY <2>1 DEF AddsUpTo
  <2> QED BY <2>2
<1>2. ASSUME NEW n \in 0..(m - 1), n \in Good
      PROVE  n + 1 \in Good
  <2>1. PICK f : AddsUpTo(inventory, found, n, f)
    BY <1>2
  <2> DEFINE top == n + 1
             g == [s \in SUBSET (1..top) |->
                     IF top \in s THEN add(f[s \ {top}], found[top]) ELSE f[s]]
  <2>2. ASSUME NEW s \in SUBSET (1..top)
        PROVE  g[s] = IF s = {} THEN inventory ELSE add(g[s \ {Max(s)}], found[Max(s)])
    <3>1. CASE top \in s
      <4>1. Max(s) = top
        BY <3>1, MaxIsLast
      <4>2. s \ {top} \in SUBSET (1..top) /\ top \notin s \ {top}
        OBVIOUS
      <4>3. g[s \ {top}] = f[s \ {top}]
        BY <4>2
      <4>4. g[s] = add(f[s \ {top}], found[top])
        BY <3>1
      <4> HIDE DEF g
      <4> QED BY <3>1, <4>1, <4>3, <4>4
    <3>2. CASE top \notin s
      <4>1. s \in SUBSET (1..n)
        BY <3>2
      <4>2. f[s] = IF s = {} THEN inventory ELSE add(f[s \ {Max(s)}], found[Max(s)])
        BY <2>1, <4>1 DEF AddsUpTo
      <4>3. g[s] = f[s]
        BY <3>2
      <4>4. s \ {Max(s)} \in SUBSET (1..top) /\ top \notin s \ {Max(s)}
        BY <3>2
      <4>5. g[s \ {Max(s)}] = f[s \ {Max(s)}]
        BY <4>4
      <4> HIDE DEF g
      <4> QED BY <4>2, <4>3, <4>5
    <3> QED BY <3>1, <3>2
  <2>3. g = [s \in SUBSET (1..top) |-> g[s]]
    OBVIOUS
  <2> HIDE DEF g
  <2>4. AddsUpTo(inventory, found, top, g)
    BY <2>2, <2>3 DEF AddsUpTo
  <2> QED BY <2>4
<1>3. m \in Good
  <2> HIDE DEF Good
  <2> QED BY <1>1, <1>2, UpTo
<1> QED BY <1>3

\* The fold over the shards found, as the inventories it passes through.
LEMMA AddsDefined ==
    ASSUME NEW inventory, NEW found, IsSeq(found)
    PROVE  \E d : /\ d[0] = inventory
                  /\ \A k \in 0..(Len(found) - 1) : d[k + 1] = add(d[k], found[k + 1])
                  /\ Added(inventory, found) = d[Len(found)]
<1> DEFINE n == Len(found)
           f == CHOOSE f_ : AddsUpTo(inventory, found, n, f_)
           d == [k \in 0..n |-> f[1..k]]
<1>1. n \in Nat /\ DOMAIN found = 1..n
  BY SequenceOf
<1>2. Added(inventory, found) = f[1..n]
  BY <1>1 DEF Added, FoldLeft, MapThenFoldSet, AddsUpTo
<1>3. AddsUpTo(inventory, found, n, f)
  <2> HIDE DEF n
  <2> QED BY <1>1, AddsExist
<1> HIDE DEF n, f
<1>4. d[0] = inventory
  <2>1. 1..0 = {} /\ 1..0 \in SUBSET (1..n)
    OBVIOUS
  <2> QED BY <1>1, <1>3, <2>1 DEF AddsUpTo
<1>5. ASSUME NEW k \in 0..(n - 1)
      PROVE  d[k + 1] = add(d[k], found[k + 1])
  <2> DEFINE s == 1..(k + 1)
  <2>1. s \in SUBSET (1..n) /\ s # {} /\ s \ {k + 1} = 1..k
    BY <1>1
  <2>2. Max(s) = k + 1
    BY MaxIsLast
  <2>3. f[s] = add(f[s \ {Max(s)}], found[Max(s)])
    <3> HIDE DEF s
    <3> QED BY <1>3, <2>1 DEF AddsUpTo
  <2>4. f[s] = add(f[1..k], found[k + 1])
    <3> HIDE DEF s
    <3> QED BY <2>1, <2>2, <2>3
  <2>5. d[k + 1] = f[s] /\ d[k] = f[1..k]
    BY <1>1
  <2> HIDE DEF d, s
  <2> QED BY <2>4, <2>5
<1>6. Added(inventory, found) = d[n]
  BY <1>1, <1>2
<1> HIDE DEF d
<1> QED BY <1>4, <1>5, <1>6 DEF n

ShardOK(shard) ==
    /\ DOMAIN shard = ShardFields
    /\ Opens(shard) /\ AssetsOK(shard.assets)

StoreOK(inventory) ==
    IsSeq(inventory) /\ \A n \in DOMAIN inventory : ShardOK(inventory[n])

Copies(shard, found) ==
    /\ shard.address = found.address /\ shard.ephemeralPubKey = found.ephemeralPubKey
    /\ shard.assets = found.assets

\* An inventory with the first k shards found: what was there is kept, every
\* address found is there, and nothing else.
Merged(new, inventory, found, k) ==
    /\ StoreOK(new)
    /\ \A n \in DOMAIN new : \/ \E m \in DOMAIN inventory : new[n] = inventory[m]
                             \/ \E j \in 1..k : Copies(new[n], found[j])
    /\ \A m \in DOMAIN inventory : \E n \in DOMAIN new : new[n] = inventory[m]
    /\ \A j \in 1..k : \E n \in DOMAIN new : new[n].address = found[j].address

\* Adding a shard keeps what is there, and its address is there then.
LEMMA AddOne ==
    ASSUME NEW inventory, StoreOK(inventory), NEW shard,
           Opens(shard), AssetsOK(shard.assets)
    PROVE  LET new == add(inventory, shard)
           IN  /\ StoreOK(new)
               /\ \A n \in DOMAIN new : \/ \E m \in DOMAIN inventory : new[n] = inventory[m]
                                        \/ Copies(new[n], shard)
               /\ \A m \in DOMAIN inventory : \E n \in DOMAIN new : new[n] = inventory[m]
               /\ \E n \in DOMAIN new : new[n].address = shard.address
<1>1. CASE \E k \in DOMAIN inventory : inventory[k].address = shard.address
  <2>1. add(inventory, shard) = inventory
    BY <1>1 DEF add
  <2> QED BY <1>1, <2>1
<1>2. CASE ~\E k \in DOMAIN inventory : inventory[k].address = shard.address
  <2> DEFINE one == [address |-> shard.address, ephemeralPubKey |-> shard.ephemeralPubKey,
                     assets |-> shard.assets]
             new == Append(inventory, one)
  <2>1. add(inventory, shard) = new
    BY <1>2 DEF add
  <2>2. ShardOK(one) /\ Copies(one, shard)
    BY DEF ShardOK, ShardFields, Opens, Copies
  <2> HIDE DEF one
  <2>3. IsSeq(inventory) /\ DOMAIN inventory = 1..Len(inventory) /\ Len(inventory) \in Nat
    BY SequenceOf DEF StoreOK
  <2>4. /\ IsSeq(new) /\ DOMAIN new = 1..(Len(inventory) + 1)
        /\ \A i \in 1..Len(inventory) : new[i] = inventory[i]
        /\ new[Len(inventory) + 1] = one
    BY <2>3, AppendSeq
  <2> HIDE DEF new
  <2>5. ASSUME NEW n \in DOMAIN new
        PROVE  \/ n \in DOMAIN inventory /\ new[n] = inventory[n]
               \/ n = Len(inventory) + 1 /\ new[n] = one
    BY <2>3, <2>4
  <2>6. StoreOK(new)
    BY <2>2, <2>4, <2>5 DEF StoreOK
  <2>7. Len(inventory) + 1 \in DOMAIN new /\ new[Len(inventory) + 1].address = shard.address
    BY <2>2, <2>3, <2>4 DEF Copies
  <2>8. \A m \in DOMAIN inventory : m \in DOMAIN new /\ new[m] = inventory[m]
    BY <2>3, <2>4
  <2> QED BY <2>1, <2>2, <2>5, <2>6, <2>7, <2>8
<1> QED BY <1>1, <1>2

\* Adding a list of shards keeps what is there and brings every address.
LEMMA AddAll ==
    ASSUME NEW inventory, StoreOK(inventory), NEW found, IsSeq(found),
           \A k \in DOMAIN found : Opens(found[k]) /\ AssetsOK(found[k].assets)
    PROVE  Merged(Added(inventory, found), inventory, found, Len(found))
<1>1. PICK d : /\ d[0] = inventory
               /\ \A k \in 0..(Len(found) - 1) : d[k + 1] = add(d[k], found[k + 1])
               /\ Added(inventory, found) = d[Len(found)]
  BY AddsDefined
<1>2. DOMAIN found = 1..Len(found) /\ Len(found) \in Nat
  BY SequenceOf
<1> DEFINE Good == {k \in 0..Len(found) : Merged(d[k], inventory, found, k)}
<1>3. 0 \in Good
  BY <1>1, <1>2 DEF Merged
<1>4. ASSUME NEW k \in 0..(Len(found) - 1), k \in Good
      PROVE  k + 1 \in Good
  <2> DEFINE old == d[k]
             shard == found[k + 1]
             new == add(old, shard)
  <2>1. d[k + 1] = new /\ k + 1 \in DOMAIN found /\ k + 1 \in 0..Len(found)
    BY <1>1, <1>2
  <2>2. Merged(old, inventory, found, k) /\ Opens(shard) /\ AssetsOK(shard.assets)
    BY <1>4, <2>1
  <2>3. StoreOK(old)
    BY <2>2 DEF Merged
  <2> HIDE DEF old
  <2>4. /\ StoreOK(new)
        /\ \A n \in DOMAIN new : \/ \E m \in DOMAIN old : new[n] = old[m]
                                 \/ Copies(new[n], shard)
        /\ \A m \in DOMAIN old : \E n \in DOMAIN new : new[n] = old[m]
        /\ \E n \in DOMAIN new : new[n].address = shard.address
    BY <2>2, <2>3, AddOne
  <2> HIDE DEF new
  <2>5. ASSUME NEW n \in DOMAIN new
        PROVE  \/ \E m \in DOMAIN inventory : new[n] = inventory[m]
               \/ \E j \in 1..(k + 1) : Copies(new[n], found[j])
    <3>1. CASE \E m \in DOMAIN old : new[n] = old[m]
      <4>1. PICK m \in DOMAIN old : new[n] = old[m]
        BY <3>1
      <4>2. \/ \E l \in DOMAIN inventory : old[m] = inventory[l]
            \/ \E j \in 1..k : Copies(old[m], found[j])
        BY <2>2 DEF Merged
      <4>3. \A j \in 1..k : j \in 1..(k + 1)
        OBVIOUS
      <4> QED BY <4>1, <4>2, <4>3
    <3>2. CASE Copies(new[n], shard)
      <4>1. k + 1 \in 1..(k + 1)
        OBVIOUS
      <4> QED BY <3>2, <4>1
    <3> QED BY <2>4, <3>1, <3>2
  <2>6. ASSUME NEW j \in 1..(k + 1)
        PROVE  \E n \in DOMAIN new : new[n].address = found[j].address
    <3>1. CASE j = k + 1
      BY <2>4, <3>1
    <3>2. CASE j # k + 1
      <4>1. j \in 1..k
        BY <3>2
      <4>2. PICK m \in DOMAIN old : old[m].address = found[j].address
        BY <2>2, <4>1 DEF Merged
      <4> QED BY <2>4, <4>2
    <3> QED BY <3>1, <3>2
  <2>7. ASSUME NEW m \in DOMAIN inventory
        PROVE  \E n \in DOMAIN new : new[n] = inventory[m]
    BY <2>2, <2>4 DEF Merged
  <2>8. Merged(new, inventory, found, k + 1)
    BY <2>4, <2>5, <2>6, <2>7 DEF Merged
  <2> QED BY <2>1, <2>8
<1>5. Len(found) \in Good
  <2> HIDE DEF Good
  <2> QED BY <1>2, <1>3, <1>4, UpTo
<1> QED BY <1>1, <1>5

-----------------------------------------------------------------------------
(* The invariant.                                                          *)

\* A payment to this wallet is found in its log, and its log tells it all.
Arrived(entry) ==
    /\ Found(entry.log) # <<>>
    /\ Found(entry.log)[1].address = entry.log.stealthAddress
    /\ entry.payment.tells = "asset" =>
          LET shard == Found(entry.log)[1]
              secret == computeSharedSecret(Keys.viewingPrivateKey, shard.ephemeralPubKey)
          IN  /\ shard.assets = <<AssetOf(entry.payment.asset)>>
              /\ entry.payment.sender # Nothing =>
                    \/ shard.senderInfo = entry.payment.sender
                    \/ entry.log.metadata.encrypted.iv = ViewTag(secret)

EntryOK(entry) ==
    \/ entry.payment = Nothing
    \/ entry.payment \in Payments /\ (entry.payment.to = Keys => Arrived(entry))

\* No address and no ephemeral key of a payment is met again.
Unique(i) ==
    \A j \in DOMAIN chain : j # i =>
        /\ AddressOf(j) # AddressOf(i)
        /\ Coordinate(chain[j].log.ephemeralPubKey) # Coordinate(chain[i].log.ephemeralPubKey)

ChainInv ==
    /\ IsSeq(chain) /\ IsSeq(holding) /\ Len(holding) = Len(chain)
    /\ \A i \in DOMAIN chain : EntryOK(chain[i])
    /\ \A i \in Paid : /\ Unique(i)
                       /\ chain[i].payment.asset.type = "ERC721" => holding[i] \in {0, 1}
    /\ isShardSpent \subseteq Paid

\* An address that the wallet computed from some log.
Origin(address) ==
    \E j \in DOMAIN chain :
        LET key == chain[j].log.ephemeralPubKey
        IN  key \in PublicKeys /\ address = ComputedAddress(key) /\ address # Thrown

StoreInv ==
    /\ StoreOK(shards)
    /\ \A n \in DOMAIN shards : Origin(shards[n].address)

\* The wallet holds every payment up to a block that has not been spent.
Covered(block) ==
    \A i \in Mine \ isShardSpent : i <= block => AddressOf(i) \in Addresses

CursorInv ==
    /\ lastSyncedBlock \in 0..Len(chain) /\ Covered(lastSyncedBlock)
    /\ DOMAIN syncPc = Syncs /\ DOMAIN startCursor = Syncs /\ DOMAIN upTo = Syncs
    /\ \A s \in Syncs :
          /\ startCursor[s] \in 0..Len(chain) /\ upTo[s] \in 0..Len(chain)
          /\ syncPc[s] \in {"logs", "decrypt"} => Covered(startCursor[s])
          /\ syncPc[s] = "saveDiscovered" => Covered(upTo[s])

Answered(s, c, k) ==
    answers[s][c].is = "answered" /\ k \in DOMAIN answers[s][c].values

BatchInv ==
    /\ DOMAIN calls = Syncs /\ DOMAIN answers = Syncs /\ DOMAIN deadTokens = Syncs
    /\ \A s \in Syncs :
          /\ \A k \in DOMAIN calls[s] : Origin(calls[s][k].address)
          /\ deadTokens[s] \subseteq DOMAIN calls[s]
          /\ \A c \in DOMAIN answers[s] :
                answers[s][c].is = "answered" => DOMAIN answers[s][c].values \subseteq DOMAIN calls[s]
          /\ syncPc[s] # "balances" => deadTokens[s] = {}

\* The tokens that the wallet was told of and has.
Owned ==
    {i \in Mine : /\ chain[i].payment.tells = "asset" /\ holding[i] = 1
                  /\ chain[i].payment.asset.type = "ERC721"}

IsToken(asset, token) ==
    /\ asset.type = "ERC721" /\ asset.tokenAddress = token.tokenAddress
    /\ asset.tokenIds = <<token.identifier>>

\* Every batch asks for such a token at its place, is told that it is owned, and
\* holds it for alive.
TokensInv ==
    \A i \in Owned :
        LET token == chain[i].payment.asset
        IN  /\ \A n \in DOMAIN shards : shards[n].address = AddressOf(i) =>
                  DOMAIN shards[n].assets = {1} /\ IsToken(shards[n].assets[1], token)
            /\ \A s \in Syncs : \A k \in DOMAIN calls[s] :
                  calls[s][k].address = AddressOf(i) =>
                     /\ IsToken(calls[s][k].asset, token) /\ calls[s][k].tokenIdIndex = 1
                     /\ k \notin deadTokens[s]
                     /\ \A c \in DOMAIN answers[s] :
                           Answered(s, c, k) => answers[s][c].values[k]

DiscoveryInv == ChainInv /\ StoreInv /\ CursorInv /\ BatchInv /\ TokensInv

-----------------------------------------------------------------------------
(* The chain.                                                              *)

\* Only a meta-address that was handed over can be paid.
LEMMA PaidMetaAddress ==
    ASSUME NEW keys, NEW metaAddress \in MetaAddressesOf(keys), NEW ephemeral,
           generateStealthAddress(metaAddress, ephemeral) # Thrown
    PROVE  metaAddress = encodeMetaAddress(keys)
<1>1. \A bytes : decodeMetaAddress(lookupMetaAddress(bytes)) = Thrown
  BY DEF decodeMetaAddress, lookupMetaAddress, Text
<1>2. \A bytes : generateStealthAddress(lookupMetaAddress(bytes), ephemeral) = Thrown
  BY <1>1 DEF generateStealthAddress
<1> QED BY <1>2 DEF MetaAddressesOf

\* The announcement of a payment to this wallet arrives.
LEMMA NewEntry ==
    ASSUME NEW p \in Payments, p.to = Keys, NEW ephemeral \in Words, NEW iv,
           generateStealthAddress(encodeMetaAddress(Keys), ephemeral) # Thrown
    PROVE  LET stealth == generateStealthAddress(encodeMetaAddress(Keys), ephemeral)
               log == prepareAnnounceTransfer(
                          stealth, p.tells # "nothing",
                          IF p.tells = "asset" THEN p.asset ELSE Nothing, p.sender, iv)
           IN  Arrived([log |-> log, payment |-> p])
<1> DEFINE stealth == generateStealthAddress(encodeMetaAddress(Keys), ephemeral)
           told == IF p.tells = "asset" THEN p.asset ELSE Nothing
           secret == computeSharedSecret(ephemeral, viewingPublicKey(Keys))
           withSecret == p.tells # "nothing"
           log == prepareAnnounceTransfer(stealth, withSecret, told, p.sender, iv)
           found == Discovered(parseLog(log)[1], Keys)
           metadata == packMetadata(secret, told, p.sender, iv)
<1>1. /\ Keys \in KeySet /\ SenderInfo(p.sender) /\ p.sender # Thrown
      /\ p.asset.type \in AssetTypes /\ p.asset # Nothing
      /\ p.asset = AssetInfo(p.asset.type, p.asset.tokenAddress, p.asset.identifier)
  BY DiscoveryAssumption DEF DiscoveryAssumption, SenderInfo
<1>2. /\ Len(parseLog(log)) = 1 /\ Len(found) = 1
      /\ found[1].address = stealth.stealthAddress
      /\ found[1].ephemeralPubKey = stealth.ephemeralPubKey
  <2>1. withSecret \in BOOLEAN
    OBVIOUS
  <2> HIDE DEF withSecret, told
  <2> QED BY <1>1, <2>1, PaymentIsFound
<1>3. /\ stealth.ephemeralPubKey = PublicKey(ephemeral) /\ stealth.sharedSecret = secret
  BY <1>1, StealthOfMetaAddress
<1>4. /\ log.stealthAddress = stealth.stealthAddress
      /\ log.ephemeralPubKey = PublicKey(ephemeral)
      /\ p.tells = "asset" => log.metadata = metadata
      /\ log.keySize = 33
  <2> HIDE DEF stealth, told
  <2> QED BY <1>3 DEF prepareAnnounceTransfer
<1>5. computeSharedSecret(Keys.viewingPrivateKey, PublicKey(ephemeral)) = secret
  BY <1>1, SharedSecretAgrees
<1> HIDE DEF stealth, log, metadata
<1>6. /\ parseLog(log) # <<>> /\ Found(log) = found /\ found # <<>>
  BY <1>2 DEF Found
<1>7. ASSUME p.tells = "asset"
      PROVE  /\ found[1].assets = <<AssetOf(p.asset)>>
             /\ p.sender # Nothing => \/ found[1].senderInfo = p.sender
                                      \/ log.metadata.encrypted.iv = ViewTag(secret)
  <2> DEFINE announcement == parseLog(log)[1]
             parsed == parseAssetMetadata(metadata, secret)
  <2>1. told = p.asset
    BY <1>7
  <2>2. metadata.size >= HEADER /\ parsed.assets = <<AssetOf(p.asset)>>
    BY <1>1, <2>1, AssetIsRead DEF metadata
  <2>3. announcement.ephemeralPubKey = PublicKey(ephemeral)
        /\ announcement.metadata = metadata
    BY <1>4, <1>7 DEF parseLog
  <2>4. metadata.size \in Nat
    BY <1>1, <2>1, PackedMetadata DEF metadata, SenderInfo
  <2>5. metadata.size > 0
    BY <2>2, <2>4 DEF HEADER
  <2>6. found[1].assets = parsed.assets /\ found[1].senderInfo = parsed.senderInfo
    <3> HIDE DEF announcement, parsed
    <3>1. Discovered(announcement, Keys) # <<>>
      BY <1>6 DEF announcement
    <3> QED BY <1>5, <2>3, <2>5, <3>1 DEF Discovered, parsed, announcement
  <2>7. ASSUME p.sender # Nothing
        PROVE  parsed.senderInfo = p.sender \/ metadata.encrypted.iv = ViewTag(secret)
    <3>1. metadata.encrypted.iv = iv
      <4>1. metadata.encrypted = Encrypt(secret, p.sender, iv)
        BY <1>1, <2>1, <2>7, PackedMetadata DEF metadata
      <4> QED BY <4>1 DEF Encrypt
    <3>2. metadata = packMetadata(secret, AssetInfo(p.asset.type, p.asset.tokenAddress,
                                                    p.asset.identifier), p.sender, iv)
      BY <1>1, <2>1 DEF metadata
    <3>3. parsed.senderInfo = p.sender \/ iv = ViewTag(secret)
      BY <1>1, <2>7, <3>2, PaymentIsRead
    <3> QED BY <3>1, <3>3
  <2> QED BY <1>4, <1>7, <2>2, <2>6, <2>7
<1> HIDE DEF found
<1>8. Arrived([log |-> log, payment |-> p])
  BY <1>2, <1>3, <1>4, <1>5, <1>6, <1>7 DEF Arrived
<1> QED BY <1>8 DEF log, stealth

\* What a payment appends.
Grows(n) ==
    /\ n = Len(chain) + 1 /\ n \notin DOMAIN chain
    /\ IsSeq(chain') /\ IsSeq(holding') /\ Len(chain') = n /\ Len(holding') = n
    /\ DOMAIN chain' = DOMAIN chain \cup {n}
    /\ \A i \in DOMAIN chain : chain'[i] = chain[i] /\ holding'[i] = holding[i]
    /\ EntryOK(chain'[n])
    /\ \A i \in DOMAIN chain :
          /\ AddressOf(i) # chain'[n].log.stealthAddress
          /\ Coordinate(chain[i].log.ephemeralPubKey) # Coordinate(chain'[n].log.ephemeralPubKey)
    /\ chain'[n].payment.asset.type = "ERC721" => holding'[n] \in {0, 1}

\* A payment adds one log and one holding.
LEMMA PayGrows ==
    ASSUME ChainInv, NEW p \in Payments, NEW metaAddress \in MetaAddressesOf(p.to),
           NEW e \in DrawsOf[p], NEW iv, Pay(p, metaAddress, e, iv)
    PROVE  /\ Grows(Len(chain) + 1)
           /\ UNCHANGED <<isShardSpent, store, syncPc, locals, batch, events>>
<1> DEFINE n == Len(chain) + 1
           stealth == generateStealthAddress(metaAddress, e)
           log == prepareAnnounceTransfer(
                   stealth, p.tells # "nothing",
                   IF p.tells = "asset" THEN p.asset ELSE Nothing, p.sender, iv)
           entry == [log |-> log, payment |-> p]
           held == IF p.asset.type = "ERC721" THEN 1 ELSE p.asset.identifier
<1>1. /\ stealth # Thrown /\ Fresh(e, stealth.stealthAddress)
      /\ chain' = Append(chain, entry) /\ holding' = Append(holding, held)
      /\ UNCHANGED <<isShardSpent, store, syncPc, locals, batch, events>>
  BY DEF Pay
<1>2. /\ log.stealthAddress = stealth.stealthAddress
      /\ log.ephemeralPubKey = PublicKey(e)
  <2>1. log.stealthAddress = stealth.stealthAddress
        /\ log.ephemeralPubKey = stealth.ephemeralPubKey
    BY DEF prepareAnnounceTransfer
  <2>2. stealth.ephemeralPubKey = PublicKey(e)
    BY <1>1 DEF generateStealthAddress, StealthFor
  <2> QED BY <2>1, <2>2
<1>3. EntryOK(entry)
  <2>1. CASE p.to = Keys
    <3>1. e \in Words
      BY DiscoveryAssumption DEF DiscoveryAssumption
    <3>2. metaAddress = encodeMetaAddress(Keys)
      BY <1>1, <2>1, PaidMetaAddress
    <3>3. Arrived(entry)
      BY <1>1, <2>1, <3>1, <3>2, NewEntry
    <3> QED BY <3>3 DEF EntryOK
  <2>2. CASE p.to # Keys
    BY <2>2 DEF EntryOK
  <2> QED BY <2>1, <2>2
<1>4. /\ entry.log = log /\ (entry.payment.asset.type = "ERC721" => held = 1)
  OBVIOUS
<1> HIDE DEF entry, held
<1>5. /\ IsSeq(chain') /\ Len(chain') = n /\ DOMAIN chain' = 1..n
      /\ (\A i \in 1..Len(chain) : chain'[i] = chain[i]) /\ chain'[n] = entry
      /\ IsSeq(holding') /\ Len(holding') = n
      /\ (\A i \in 1..Len(chain) : holding'[i] = holding[i]) /\ holding'[n] = held
  <2>1. IsSeq(chain) /\ IsSeq(holding) /\ Len(holding) = Len(chain)
    BY DEF ChainInv
  <2> QED BY <1>1, <2>1, AppendSeq
<1>6. DOMAIN chain = 1..Len(chain) /\ Len(chain) \in Nat
  BY SequenceOf DEF ChainInv
<1>7. n \notin DOMAIN chain /\ DOMAIN chain' = DOMAIN chain \cup {n}
  BY <1>5, <1>6
<1>8. \A i \in DOMAIN chain :
          /\ AddressOf(i) # log.stealthAddress
          /\ Coordinate(chain[i].log.ephemeralPubKey) # Coordinate(log.ephemeralPubKey)
  BY <1>1, <1>2 DEF Fresh, AddressOf
<1> HIDE DEF log, stealth
<1> QED BY <1>1, <1>3, <1>4, <1>5, <1>6, <1>7, <1>8 DEF Grows

\* What changing one element does.
LEMMA ChangedSeq ==
    ASSUME NEW s, IsSeq(s), NEW i, NEW x
    PROVE  /\ IsSeq([s EXCEPT ![i] = x]) /\ Len([s EXCEPT ![i] = x]) = Len(s)
           /\ \A j \in DOMAIN s : [s EXCEPT ![i] = x][j] = IF j = i THEN x ELSE s[j]
<1> DEFINE t == [s EXCEPT ![i] = x]
<1>1. DOMAIN s = 1..Len(s) /\ Len(s) \in Nat
  BY SequenceOf
<1>2. t = [j \in 1..Len(s) |-> t[j]] /\ \A j \in DOMAIN s : t[j] = IF j = i THEN x ELSE s[j]
  BY <1>1
<1> HIDE DEF t
<1>3. IsSeq(t) /\ Len(t) = Len(s)
  BY <1>1, <1>2, MadeSeq
<1> QED BY <1>2, <1>3 DEF t

\* An empty chain has nothing to be found.
LEMMA ChainInit ==
    ASSUME Init
    PROVE  ChainInv
<1>1. IsSeq(OtherLogs)
  BY SeqIs, DiscoveryAssumption DEF DiscoveryAssumption
<1>2. DOMAIN OtherLogs = 1..Len(OtherLogs) /\ Len(OtherLogs) \in Nat
  BY <1>1, SequenceOf
<1>3. IsSeq(chain) /\ Len(chain) = Len(OtherLogs) /\ IsSeq(holding) /\ Len(holding) = Len(OtherLogs)
  BY <1>2, MadeSeq DEF Init
<1>4. \A i \in DOMAIN chain : chain[i].payment = Nothing
  BY DEF Init
<1> QED BY <1>3, <1>4 DEF ChainInv, EntryOK, Paid, Init

\* A payment keeps what is said of the chain.
LEMMA PayKeepsChain ==
    ASSUME ChainInv, NEW n, Grows(n), isShardSpent' = isShardSpent
    PROVE  ChainInv'
<1>1. Paid' \subseteq Paid \cup {n} /\ Paid \subseteq Paid'
  BY DEF Grows, Paid
<1>2. \A i \in DOMAIN chain : AddressOf(i)' = AddressOf(i)
  BY DEF Grows, AddressOf
<1>3. ASSUME NEW i \in Paid'
      PROVE  Unique(i)'
  <2>1. CASE i = n
    BY <2>1, <1>2 DEF Unique, Grows, AddressOf
  <2>2. CASE i # n
    <3>1. i \in Paid /\ i \in DOMAIN chain /\ Unique(i)
      BY <1>1, <2>2 DEF ChainInv, Paid
    <3> QED BY <2>2, <3>1, <1>2 DEF Unique, Grows, AddressOf
  <2> QED BY <2>1, <2>2
<1>4. \A i \in Paid' : chain'[i].payment.asset.type = "ERC721" => holding'[i] \in {0, 1}
  BY <1>1 DEF ChainInv, Grows, Paid
<1>5. \A i \in DOMAIN chain' : EntryOK(chain'[i])
  BY DEF ChainInv, Grows
<1> QED BY <1>1, <1>3, <1>4, <1>5 DEF ChainInv, Grows, EntryOK, Arrived

\* A balance that changes, and a token that leaves.
LEMMA HoldingKeepsChain ==
    ASSUME ChainInv, NEW i \in Paid, NEW amount, holding' = [holding EXCEPT ![i] = amount],
           chain[i].payment.asset.type = "ERC721" => amount = 0,
           chain' = chain, isShardSpent' \subseteq Paid
    PROVE  /\ ChainInv'
           /\ Owned' \subseteq Owned /\ Mine' = Mine
<1>1. /\ IsSeq(holding') /\ Len(holding') = Len(holding)
      /\ \A j \in DOMAIN holding : holding'[j] = IF j = i THEN amount ELSE holding[j]
  BY ChangedSeq DEF ChainInv
<1>2. DOMAIN holding = DOMAIN chain
  BY SequenceOf DEF ChainInv
<1>3. Paid' = Paid /\ Mine' = Mine /\ \A j \in Paid : Unique(j)' = Unique(j)
  BY DEF Paid, Mine, Unique, AddressOf
<1>4. \A j \in Paid : chain[j].payment.asset.type = "ERC721" => holding'[j] \in {0, 1}
  BY <1>1, <1>2 DEF ChainInv, Paid
<1>5. ChainInv'
  BY <1>1, <1>3, <1>4 DEF ChainInv, EntryOK, Arrived
<1>6. Owned' \subseteq Owned
  BY <1>1, <1>2, <1>3 DEF Owned, Mine, Paid
<1> QED BY <1>3, <1>5, <1>6

\* A payment to this wallet is found at the address that was paid.
LEMMA MineFound ==
    ASSUME ChainInv, NEW i \in Mine
    PROVE  /\ i \in DOMAIN chain /\ Unique(i) /\ Arrived(chain[i])
           /\ chain[i].log.ephemeralPubKey \in PublicKeys
           /\ AddressOf(i) = ComputedAddress(chain[i].log.ephemeralPubKey)
           /\ AddressOf(i) # Thrown
           /\ chain[i].payment \in Payments
<1>1. i \in DOMAIN chain /\ chain[i].payment # Nothing /\ chain[i].payment.to = Keys
  BY DEF Mine, Paid
<1>2. Arrived(chain[i]) /\ chain[i].payment \in Payments /\ Unique(i)
  BY <1>1 DEF ChainInv, EntryOK, Mine
<1>3. /\ Found(chain[i].log)[1].ephemeralPubKey = chain[i].log.ephemeralPubKey
      /\ Opens(Found(chain[i].log)[1])
      /\ Found(chain[i].log)[1].address = AddressOf(i)
  BY <1>2, FoundShard DEF Arrived, AddressOf
<1> QED BY <1>1, <1>2, <1>3 DEF Opens

\* The address of a payment to this wallet is computed from one log only.
LEMMA OneOrigin ==
    ASSUME ChainInv, NEW i \in Mine, NEW j \in DOMAIN chain,
           chain[j].log.ephemeralPubKey \in PublicKeys,
           ComputedAddress(chain[j].log.ephemeralPubKey) = AddressOf(i)
    PROVE  j = i
<1>1. Coordinate(chain[j].log.ephemeralPubKey) = Coordinate(chain[i].log.ephemeralPubKey)
  <2> DEFINE p == chain[i].log.ephemeralPubKey
             q == chain[j].log.ephemeralPubKey
  <2>1. p \in PublicKeys /\ q \in PublicKeys /\ ComputedAddress(q) = ComputedAddress(p)
        /\ ComputedAddress(q) # Thrown
    BY MineFound
  <2> HIDE DEF p, q
  <2>2. Coordinate(q) = Coordinate(p)
    BY <2>1, CollisionAssumption DEF CollisionAssumption
  <2> QED BY <2>2 DEF p, q
<1> QED BY <1>1, MineFound DEF Unique

\* A payment that is new is at no address the wallet has seen.
LEMMA NewAddress ==
    ASSUME ChainInv, ChainInv', NEW n, Grows(n), n \in Mine', NEW address, Origin(address)
    PROVE  address # chain'[n].log.stealthAddress
<1>1. PICK j \in DOMAIN chain :
          /\ chain[j].log.ephemeralPubKey \in PublicKeys
          /\ address = ComputedAddress(chain[j].log.ephemeralPubKey) /\ address # Thrown
  BY DEF Origin
<1> DEFINE p == chain[j].log.ephemeralPubKey
           q == chain'[n].log.ephemeralPubKey
<1>2. Arrived(chain'[n])
  BY DEF ChainInv, EntryOK, Mine, Paid
<1>3. /\ Found(chain'[n].log)[1].ephemeralPubKey = q
      /\ Opens(Found(chain'[n].log)[1])
      /\ Found(chain'[n].log)[1].address = chain'[n].log.stealthAddress
  BY <1>2, FoundShard DEF Arrived
<1>4. q \in PublicKeys /\ chain'[n].log.stealthAddress = ComputedAddress(q)
  BY <1>3 DEF Opens
<1>5. Coordinate(p) # Coordinate(q)
  BY DEF Grows
<1> HIDE DEF p, q
<1>6. p \in PublicKeys /\ address = ComputedAddress(p) /\ address # Thrown
  BY <1>1 DEF p
<1> QED BY <1>4, <1>5, <1>6, CollisionAssumption DEF CollisionAssumption

\* A payment.
LEMMA PayKeeps ==
    ASSUME DiscoveryInv, NEW n, Grows(n),
           UNCHANGED <<isShardSpent, store, syncPc, locals, batch, events>>
    PROVE  DiscoveryInv'
<1> USE DEF store, locals, batch
<1>1. ChainInv'
  BY PayKeepsChain DEF DiscoveryInv
<1>2. \A a : Origin(a) => Origin(a)'
  BY DEF Origin, Grows
<1>3. Mine' \subseteq Mine \cup {n} /\ Owned' \subseteq Owned \cup {n}
      /\ Owned' \subseteq Mine' /\ Mine \subseteq DOMAIN chain /\ Owned \subseteq Mine
  BY DEF Grows, Owned, Mine, Paid
<1>4. \A i \in DOMAIN chain : AddressOf(i)' = AddressOf(i) /\ chain'[i] = chain[i]
  BY DEF Grows, AddressOf
<1>5. DOMAIN chain = 1..Len(chain) /\ Len(chain) \in Nat /\ n = Len(chain) + 1
      /\ Len(chain') = n
  BY SequenceOf DEF DiscoveryInv, ChainInv, Grows
<1>6. StoreInv'
  BY <1>2 DEF DiscoveryInv, StoreInv, Origin
<1>7. ASSUME NEW b \in 0..Len(chain), Covered(b)
      PROVE  Covered(b)'
  <2>1. ASSUME NEW i \in Mine', i <= b PROVE i \in Mine
    BY <1>3, <1>5, <2>1
  <2> QED BY <1>3, <1>4, <1>7, <2>1 DEF Covered, Addresses
<1>8. CursorInv'
  <2>1. 0..Len(chain) \subseteq 0..Len(chain')
    BY <1>5
  <2> QED BY <1>7, <2>1 DEF DiscoveryInv, CursorInv
<1>9. BatchInv'
  BY <1>2 DEF DiscoveryInv, BatchInv, Origin
<1>10. ASSUME NEW i \in Owned', i = n
       PROVE  /\ \A m \in DOMAIN shards : shards[m].address # AddressOf(i)'
              /\ \A s \in Syncs : \A k \in DOMAIN calls[s] : calls[s][k].address # AddressOf(i)'
  <2>1. \A a : Origin(a) => a # chain'[n].log.stealthAddress
    BY <1>1, <1>3, <1>10, NewAddress DEF DiscoveryInv
  <2> QED BY <1>10, <2>1 DEF AddressOf, DiscoveryInv, StoreInv, BatchInv
<1>11. TokensInv'
  <2> SUFFICES ASSUME NEW i \in Owned'
               PROVE  (LET token == chain[i].payment.asset
        IN  /\ \A m \in DOMAIN shards : shards[m].address = AddressOf(i) =>
                  DOMAIN shards[m].assets = {1} /\ IsToken(shards[m].assets[1], token)
            /\ \A s \in Syncs : \A k \in DOMAIN calls[s] :
                  calls[s][k].address = AddressOf(i) =>
                     /\ IsToken(calls[s][k].asset, token) /\ calls[s][k].tokenIdIndex = 1
                     /\ k \notin deadTokens[s]
                     /\ \A c \in DOMAIN answers[s] :
                           Answered(s, c, k) => answers[s][c].values[k])'
    BY DEF TokensInv
  <2>1. CASE i = n
    BY <1>10, <2>1
  <2>2. CASE i # n
    <3>1. i \in Owned /\ chain'[i] = chain[i] /\ AddressOf(i)' = AddressOf(i)
      BY <1>3, <1>4, <2>2
    <3> QED BY <3>1 DEF DiscoveryInv, TokensInv, Answered, IsToken
  <2> QED BY <2>1, <2>2
<1> QED BY <1>1, <1>6, <1>8, <1>9, <1>11 DEF DiscoveryInv

\* A change of what an address holds.
LEMMA HoldingKeeps ==
    ASSUME DiscoveryInv, NEW i \in Paid, NEW amount, holding' = [holding EXCEPT ![i] = amount],
           chain[i].payment.asset.type = "ERC721" => amount = 0,
           isShardSpent \subseteq isShardSpent', isShardSpent' \subseteq Paid,
           UNCHANGED <<chain, store, syncPc, locals, batch>>
    PROVE  DiscoveryInv'
<1> USE DEF store, locals, batch
<1>1. ChainInv' /\ Owned' \subseteq Owned /\ Mine' = Mine
  BY HoldingKeepsChain DEF DiscoveryInv
<1>2. StoreInv'
  BY DEF DiscoveryInv, StoreInv, Origin
<1>3. ASSUME NEW b, Covered(b)
      PROVE  Covered(b)'
  BY <1>1, <1>3 DEF Covered, Addresses, AddressOf
<1>4. CursorInv'
  BY <1>3 DEF DiscoveryInv, CursorInv
<1>5. BatchInv'
  BY DEF DiscoveryInv, BatchInv, Origin
<1>6. TokensInv'
  BY <1>1 DEF DiscoveryInv, TokensInv, AddressOf, Answered, IsToken
<1> QED BY <1>1, <1>2, <1>4, <1>5, <1>6 DEF DiscoveryInv

\* Any step of the chain.
LEMMA ChainStepKeeps ==
    ASSUME DiscoveryInv, ChainStep
    PROVE  DiscoveryInv'
<1>1. ASSUME NEW p \in Payments, NEW iv \in Ivs, NEW metaAddress \in MetaAddressesOf(p.to),
             NEW e \in DrawsOf[p], Pay(p, metaAddress, e, iv)
      PROVE  DiscoveryInv'
  BY <1>1, PayGrows, PayKeeps DEF DiscoveryInv
<1>2. ASSUME NEW i \in DOMAIN chain, Spend(i)
      PROVE  DiscoveryInv'
  <2>1. i \in Paid /\ isShardSpent \subseteq Paid
    BY <1>2 DEF Spend, Mine, DiscoveryInv, ChainInv
  <2> QED BY <1>2, <2>1, HoldingKeeps DEF Spend
<1>3. ASSUME NEW i \in DOMAIN chain, NEW amount \in 0..MaxAmount, Move(i, amount)
      PROVE  DiscoveryInv'
  <2>1. i \in Paid /\ isShardSpent \subseteq Paid
    BY <1>3 DEF Move, DiscoveryInv, ChainInv
  <2>2. chain[i].payment.asset.type = "ERC721" => amount = 0
    <3>1. chain[i].payment.asset.type = "ERC721" => amount < holding[i] /\ holding[i] \in {0, 1}
      BY <1>3, <2>1 DEF Move, DiscoveryInv, ChainInv
    <3>2. amount \in Nat
      BY DiscoveryAssumption DEF DiscoveryAssumption
    <3> QED BY <3>1, <3>2
  <2> QED BY <1>3, <2>1, <2>2, HoldingKeeps DEF Move
<1> QED BY <1>1, <1>2, <1>3 DEF ChainStep

-----------------------------------------------------------------------------
(* The steps of a sync leave the chain alone.                              *)

\* A step of the wallet leaves all that is said of the chain.
LEMMA ChainRests ==
    ASSUME ChainInv, UNCHANGED world
    PROVE  /\ ChainInv' /\ Mine' = Mine /\ Owned' = Owned /\ Paid' = Paid
           /\ \A i : AddressOf(i)' = AddressOf(i)
           /\ \A a : Origin(a)' <=> Origin(a)
<1> USE DEF world
<1>1. Mine' = Mine /\ Owned' = Owned /\ Paid' = Paid
  BY DEF Mine, Owned, Paid
<1>2. \A i : AddressOf(i)' = AddressOf(i)
  BY DEF AddressOf
<1>3. \A a : Origin(a)' <=> Origin(a)
  BY DEF Origin
<1>4. \A i : Unique(i)' <=> Unique(i)
  BY DEF Unique, AddressOf
<1>5. ChainInv'
  BY <1>1, <1>4 DEF ChainInv, EntryOK, Arrived
<1> QED BY <1>1, <1>2, <1>3, <1>5

\* What the store and the batches say stays true while nobody writes to them.
LEMMA BatchRests ==
    ASSUME DiscoveryInv, UNCHANGED <<world, shards, calls, answers, deadTokens>>,
           \A s \in Syncs : syncPc[s] = "balances" => syncPc'[s] = "balances"
    PROVE  ChainInv' /\ StoreInv' /\ BatchInv' /\ TokensInv'
<1> USE DEF world
<1>1. ChainInv' /\ Owned' = Owned
  BY ChainRests DEF DiscoveryInv
<1>2. StoreInv'
  BY DEF DiscoveryInv, StoreInv, Origin
<1>3. BatchInv'
  BY DEF DiscoveryInv, BatchInv, Origin
<1>4. TokensInv'
  BY <1>1 DEF DiscoveryInv, TokensInv, AddressOf, Answered, IsToken
<1> QED BY <1>1, <1>2, <1>3, <1>4

\* So does what is covered, while no address leaves the store.
LEMMA CoverRests ==
    ASSUME ChainInv, UNCHANGED world, Addresses \subseteq Addresses'
    PROVE  \A b : Covered(b) => Covered(b)'
BY ChainRests DEF Covered, world

\* A sync begins.
LEMMA SyncBeginsKeeps ==
    ASSUME DiscoveryInv, NEW s \in Syncs, NEW fromStart \in BOOLEAN, SyncBegins(s, fromStart)
    PROVE  DiscoveryInv'
<1> USE DEF store, batch
<1>1. /\ syncPc[s] = "idle" /\ syncPc' = [syncPc EXCEPT ![s] = "logs"]
      /\ startCursor' = [startCursor EXCEPT ![s] = IF fromStart THEN 0 ELSE lastSyncedBlock]
      /\ UNCHANGED <<world, store, upTo, checking, batch, events>>
  BY DEF SyncBegins, Goto
<1>2. ChainInv' /\ StoreInv' /\ BatchInv' /\ TokensInv'
  BY <1>1, BatchRests DEF DiscoveryInv, CursorInv
<1>3. ChainInv /\ CursorInv /\ chain' = chain
  BY <1>1 DEF DiscoveryInv, world
<1>4. \A b : Covered(b) => Covered(b)'
  BY <1>1, <1>3, CoverRests DEF Addresses
<1>5. Covered(0) /\ Len(chain) \in Nat
  <2>1. \A i \in Mine : i \in 1..Len(chain) /\ Len(chain) \in Nat
    BY <1>3, SequenceOf DEF ChainInv, Mine, Paid
  <2> QED BY <1>3, <2>1, SequenceOf DEF Covered, ChainInv
<1>6. CursorInv'
  BY <1>1, <1>3, <1>4, <1>5 DEF CursorInv
<1> QED BY <1>2, <1>6 DEF DiscoveryInv

\* The logs arrive.
LEMMA LogsArriveKeeps ==
    ASSUME DiscoveryInv, NEW s \in Syncs, LogsArrive(s)
    PROVE  DiscoveryInv'
<1> USE DEF store, batch
<1>1. /\ syncPc[s] = "logs" /\ syncPc' = [syncPc EXCEPT ![s] = "decrypt"]
      /\ upTo' = [upTo EXCEPT ![s] = Len(chain)]
      /\ UNCHANGED <<world, store, startCursor, checking, batch, events>>
  BY DEF LogsArrive, Goto
<1>2. ChainInv' /\ StoreInv' /\ BatchInv' /\ TokensInv'
  BY <1>1, BatchRests DEF DiscoveryInv, CursorInv
<1>3. ChainInv /\ CursorInv /\ chain' = chain
  BY <1>1 DEF DiscoveryInv, world
<1>4. \A b : Covered(b) => Covered(b)'
  BY <1>1, <1>3, CoverRests DEF Addresses
<1>5. Len(chain) \in 0..Len(chain)
  BY <1>3, SequenceOf DEF ChainInv
<1>6. CursorInv'
  BY <1>1, <1>3, <1>4, <1>5 DEF CursorInv
<1> QED BY <1>2, <1>6 DEF DiscoveryInv

-----------------------------------------------------------------------------
(* The shards found join the store.                                        *)

\* What the logs of a sync are.
LEMMA LogsOf ==
    ASSUME ChainInv, NEW s, startCursor[s] \in 0..Len(chain), upTo[s] \in 0..Len(chain)
    PROVE  /\ IsSeq(Logs(s))
           /\ \A k \in DOMAIN Logs(s) : \E i \in DOMAIN chain : Logs(s)[k] = chain[i].log
           /\ \A i \in DOMAIN chain : startCursor[s] <= i /\ i <= upTo[s] =>
                 \E k \in DOMAIN Logs(s) : Logs(s)[k] = chain[i].log
<1> DEFINE U == {chain[i] : i \in 1..Len(chain)}
           a == IF startCursor[s] = 0 THEN 1 ELSE startCursor[s]
           b == upTo[s]
           blocks == SubSeq(chain, a, b)
<1>1. chain \in Seq(U) /\ DOMAIN chain = 1..Len(chain) /\ Len(chain) \in Nat
  BY SequenceOf DEF ChainInv
<1>2. a \in 1..(Len(chain) + 1) /\ b \in 0..Len(chain)
  BY <1>1
<1>3. Logs(s) = [k \in DOMAIN blocks |-> blocks[k].log]
  BY DEF Logs
<1> DEFINE n == IF a <= b THEN b - a + 1 ELSE 0
<1> HIDE DEF U, a, b
<1>4. /\ n \in Nat /\ DOMAIN blocks = 1..n
      /\ \A k \in 1..n : a + k - 1 \in DOMAIN chain /\ blocks[k] = chain[a + k - 1]
  <2>1. Len(blocks) = n /\ DOMAIN blocks = 1..Len(blocks)
    BY <1>1, <1>2
  <2>2. n \in Nat
    BY <1>1, <1>2
  <2>3. ASSUME NEW k \in 1..n
        PROVE  a + k - 1 \in DOMAIN chain /\ blocks[k] = chain[a + k - 1]
    BY <1>1, <1>2, <2>3
  <2> QED BY <2>1, <2>2, <2>3
<1> HIDE DEF blocks, n
<1>5. IsSeq(Logs(s)) /\ DOMAIN Logs(s) = 1..n
  <2>1. Logs(s) = [k \in 1..n |-> Logs(s)[k]]
    BY <1>3, <1>4
  <2> QED BY <1>4, <2>1, MadeSeq
<1>6. \A k \in DOMAIN Logs(s) : \E i \in DOMAIN chain : Logs(s)[k] = chain[i].log
  BY <1>3, <1>4, <1>5
<1>7. ASSUME NEW i \in DOMAIN chain, startCursor[s] <= i, i <= upTo[s]
      PROVE  \E k \in DOMAIN Logs(s) : Logs(s)[k] = chain[i].log
  <2> DEFINE k == i - a + 1
  <2>1. a <= i /\ i <= b /\ i \in Nat
    BY <1>1, <1>7 DEF a, b
  <2>2. k \in 1..n /\ a + k - 1 = i
    BY <1>2, <2>1, <1>1 DEF n
  <2> HIDE DEF k
  <2>3. Logs(s)[k] = blocks[k].log /\ blocks[k] = chain[i]
    BY <1>3, <1>4, <2>2
  <2> QED BY <1>5, <2>2, <2>3
<1> QED BY <1>5, <1>6, <1>7

\* What joins the store.
LEMMA DecryptedStore ==
    ASSUME ChainInv, StoreOK(shards), NEW s, Decrypted(s),
           startCursor[s] \in 0..Len(chain), upTo[s] \in 0..Len(chain)
    PROVE  /\ StoreOK(shards')
           /\ \A n \in DOMAIN shards' :
                 \/ \E m \in DOMAIN shards : shards'[n] = shards[m]
                 \/ \E i \in DOMAIN chain : /\ Found(chain[i].log) # <<>>
                                            /\ Copies(shards'[n], Found(chain[i].log)[1])
           /\ \A m \in DOMAIN shards : \E n \in DOMAIN shards' : shards'[n] = shards[m]
           /\ \A i \in DOMAIN chain :
                 startCursor[s] <= i /\ i <= upTo[s] /\ Found(chain[i].log) # <<>> =>
                     \E n \in DOMAIN shards' : shards'[n].address = Found(chain[i].log)[1].address
<1> DEFINE logs == Logs(s)
           found == processAnnouncements(logs, Keys)
<1>1. /\ IsSeq(logs)
      /\ \A k \in DOMAIN logs : \E i \in DOMAIN chain : logs[k] = chain[i].log
      /\ \A i \in DOMAIN chain : startCursor[s] <= i /\ i <= upTo[s] =>
             \E k \in DOMAIN logs : logs[k] = chain[i].log
  BY LogsOf
<1> HIDE DEF logs
<1>2. /\ IsSeq(found)
      /\ \A k \in DOMAIN found : \E i \in DOMAIN logs :
             Found(logs[i]) # <<>> /\ found[k] = Found(logs[i])[1]
      /\ \A i \in DOMAIN logs : Found(logs[i]) # <<>> =>
             \E k \in DOMAIN found : found[k] = Found(logs[i])[1]
  BY <1>1, Processed
<1>3. shards' = Added(shards, found)
  BY DEF Decrypted, Added, logs
<1> HIDE DEF found
<1>4. \A k \in DOMAIN found : Opens(found[k]) /\ AssetsOK(found[k].assets)
  BY <1>2, FoundShard
<1>5. Merged(shards', shards, found, Len(found))
  BY <1>2, <1>3, <1>4, AddAll
<1>6. DOMAIN found = 1..Len(found)
  BY <1>2, SequenceOf
<1>7. ASSUME NEW n \in DOMAIN shards', ~\E m \in DOMAIN shards : shards'[n] = shards[m]
      PROVE  \E i \in DOMAIN chain : /\ Found(chain[i].log) # <<>>
                                     /\ Copies(shards'[n], Found(chain[i].log)[1])
  <2>1. PICK k \in DOMAIN found : Copies(shards'[n], found[k])
    BY <1>5, <1>6, <1>7 DEF Merged
  <2>2. PICK j \in DOMAIN logs : Found(logs[j]) # <<>> /\ found[k] = Found(logs[j])[1]
    BY <1>2
  <2>3. PICK i \in DOMAIN chain : logs[j] = chain[i].log
    BY <1>1
  <2> QED BY <2>1, <2>2, <2>3
<1>8. ASSUME NEW i \in DOMAIN chain, startCursor[s] <= i, i <= upTo[s], Found(chain[i].log) # <<>>
      PROVE  \E n \in DOMAIN shards' : shards'[n].address = Found(chain[i].log)[1].address
  <2>1. PICK j \in DOMAIN logs : logs[j] = chain[i].log
    BY <1>1, <1>8
  <2>2. PICK k \in DOMAIN found : found[k] = Found(chain[i].log)[1]
    BY <1>2, <1>8, <2>1
  <2> QED BY <1>5, <1>6, <2>2 DEF Merged
<1> QED BY <1>5, <1>7, <1>8 DEF Merged

\* A token that is owned is in a shard that was found as its announcement tells.
LEMMA TokenFound ==
    ASSUME ChainInv, NEW i \in Owned, NEW j \in DOMAIN chain, Found(chain[j].log) # <<>>,
           NEW shard, Copies(shard, Found(chain[j].log)[1]), shard.address = AddressOf(i)
    PROVE  DOMAIN shard.assets = {1} /\ IsToken(shard.assets[1], chain[i].payment.asset)
<1>1. i \in Mine /\ chain[i].payment.tells = "asset" /\ chain[i].payment.asset.type = "ERC721"
  BY DEF Owned
<1>2. /\ chain[j].log.ephemeralPubKey \in PublicKeys
      /\ ComputedAddress(chain[j].log.ephemeralPubKey) = AddressOf(i)
  BY FoundShard DEF Copies, Opens
<1>3. j = i
  BY <1>1, <1>2, OneOrigin
<1>4. shard.assets = <<AssetOf(chain[i].payment.asset)>>
  BY <1>1, <1>3, MineFound DEF Copies, Arrived
<1>5. IsToken(AssetOf(chain[i].payment.asset), chain[i].payment.asset)
  BY <1>1 DEF IsToken, AssetOf, AssetBalance
<1> QED BY <1>4, <1>5, ShortSeqs

\* The logs are tried and what is found is added.
LEMMA DecryptedKeeps ==
    ASSUME DiscoveryInv, NEW s \in Syncs, Decrypted(s)
    PROVE  DiscoveryInv'
<1> USE DEF locals, batch
<1>1. /\ syncPc[s] = "decrypt" /\ syncPc' = [syncPc EXCEPT ![s] = "saveDiscovered"]
      /\ UNCHANGED <<world, lastSyncedBlock, locals, batch, events>>
  BY DEF Decrypted, Goto
<1>2. /\ ChainInv /\ StoreInv /\ CursorInv /\ BatchInv /\ TokensInv /\ StoreOK(shards)
      /\ startCursor[s] \in 0..Len(chain) /\ upTo[s] \in 0..Len(chain)
      /\ Covered(startCursor[s])
  BY <1>1 DEF DiscoveryInv, StoreInv, CursorInv
<1>3. /\ StoreOK(shards')
      /\ \A n \in DOMAIN shards' :
                 \/ \E m \in DOMAIN shards : shards'[n] = shards[m]
                 \/ \E i \in DOMAIN chain : /\ Found(chain[i].log) # <<>>
                                            /\ Copies(shards'[n], Found(chain[i].log)[1])
      /\ \A m \in DOMAIN shards : \E n \in DOMAIN shards' : shards'[n] = shards[m]
      /\ \A i \in DOMAIN chain :
                 startCursor[s] <= i /\ i <= upTo[s] /\ Found(chain[i].log) # <<>> =>
                     \E n \in DOMAIN shards' : shards'[n].address = Found(chain[i].log)[1].address
  BY <1>2, DecryptedStore
<1>4. /\ ChainInv' /\ Mine' = Mine /\ Owned' = Owned
      /\ \A i : AddressOf(i)' = AddressOf(i)
      /\ \A a : Origin(a)' <=> Origin(a)
  BY <1>1, <1>2, ChainRests
<1>5. StoreInv'
  <2>1. ASSUME NEW n \in DOMAIN shards'
        PROVE  Origin(shards'[n].address)
    <3>1. CASE \E m \in DOMAIN shards : shards'[n] = shards[m]
      BY <1>2, <3>1 DEF StoreInv
    <3>2. CASE \E i \in DOMAIN chain : /\ Found(chain[i].log) # <<>>
                                       /\ Copies(shards'[n], Found(chain[i].log)[1])
      <4>1. PICK i \in DOMAIN chain : /\ Found(chain[i].log) # <<>>
                                      /\ Copies(shards'[n], Found(chain[i].log)[1])
        BY <3>2
      <4> QED BY <4>1, FoundShard DEF Origin, Copies, Opens
    <3> QED BY <1>3, <3>1, <3>2
  <2> QED BY <1>3, <1>4, <2>1 DEF StoreInv
<1>6. Addresses \subseteq Addresses'
  BY <1>3 DEF Addresses
<1>7. \A b : Covered(b) => Covered(b)'
  BY <1>1, <1>2, <1>6, CoverRests
<1>8. Covered(upTo[s])'
  <2> SUFFICES ASSUME NEW i \in Mine \ isShardSpent, i <= upTo[s]
               PROVE  AddressOf(i) \in Addresses'
    BY <1>1, <1>4 DEF Covered, world
  <2>1. i \in DOMAIN chain /\ Found(chain[i].log) # <<>>
        /\ Found(chain[i].log)[1].address = AddressOf(i)
    BY <1>2, MineFound DEF Arrived, AddressOf
  <2>2. CASE i <= startCursor[s]
    BY <1>2, <1>6, <2>2 DEF Covered
  <2>3. CASE ~(i <= startCursor[s])
    <3>1. DOMAIN chain = 1..Len(chain) /\ Len(chain) \in Nat
      BY <1>2, SequenceOf DEF ChainInv
    <3>2. startCursor[s] <= i
      BY <1>2, <2>1, <2>3, <3>1
    <3>3. PICK n \in DOMAIN shards' : shards'[n].address = AddressOf(i)
      BY <1>3, <2>1, <3>2
    <3> QED BY <3>3 DEF Addresses
  <2> QED BY <2>2, <2>3
<1>9. CursorInv'
  BY <1>1, <1>2, <1>7, <1>8 DEF CursorInv, world
<1>10. BatchInv'
  BY <1>1, <1>2, <1>4 DEF BatchInv
<1>11. TokensInv'
  <2>1. ASSUME NEW i \in Owned, NEW n \in DOMAIN shards', shards'[n].address = AddressOf(i)
        PROVE  /\ DOMAIN shards'[n].assets = {1}
               /\ IsToken(shards'[n].assets[1], chain[i].payment.asset)
    <3>1. CASE \E m \in DOMAIN shards : shards'[n] = shards[m]
      BY <1>2, <2>1, <3>1 DEF TokensInv
    <3>2. CASE \E j \in DOMAIN chain : /\ Found(chain[j].log) # <<>>
                                       /\ Copies(shards'[n], Found(chain[j].log)[1])
      <4>1. PICK j \in DOMAIN chain : /\ Found(chain[j].log) # <<>>
                                      /\ Copies(shards'[n], Found(chain[j].log)[1])
        BY <3>2
      <4> DEFINE shard == shards'[n]
      <4>2. Copies(shard, Found(chain[j].log)[1]) /\ shard.address = AddressOf(i)
        BY <2>1, <4>1
      <4> HIDE DEF shard
      <4>3. DOMAIN shard.assets = {1} /\ IsToken(shard.assets[1], chain[i].payment.asset)
        BY <1>2, <4>1, <4>2, TokenFound
      <4> QED BY <4>3 DEF shard
    <3> QED BY <1>3, <3>1, <3>2
  <2>2. chain' = chain
    BY <1>1 DEF world
  <2> QED BY <1>1, <1>2, <1>4, <2>1, <2>2 DEF TokensInv, Answered
<1> QED BY <1>4, <1>5, <1>9, <1>10, <1>11 DEF DiscoveryInv

-----------------------------------------------------------------------------
(* The cursor moves, and spent shards leave.                               *)

\* A sync that ends forgets its batch.
LEMMA EndsForgets ==
    ASSUME BatchInv, NEW s \in Syncs, Ends(s)
    PROVE  /\ DOMAIN calls' = Syncs /\ DOMAIN answers' = Syncs /\ DOMAIN deadTokens' = Syncs
           /\ DOMAIN calls'[s] = {} /\ DOMAIN answers'[s] = {} /\ deadTokens'[s] = {}
           /\ \A t \in Syncs : t # s =>
                 /\ calls'[t] = calls[t] /\ answers'[t] = answers[t]
                 /\ deadTokens'[t] = deadTokens[t] /\ syncPc'[t] = syncPc[t]
<1>1. /\ calls' = [calls EXCEPT ![s] = <<>>] /\ answers' = [answers EXCEPT ![s] = <<>>]
      /\ deadTokens' = [deadTokens EXCEPT ![s] = {}]
      /\ syncPc' = [syncPc EXCEPT ![s] = "idle"]
  BY DEF Ends, Goto
<1>2. calls'[s] = <<>> /\ answers'[s] = <<>> /\ deadTokens'[s] = {}
  BY <1>1 DEF BatchInv
<1>3. DOMAIN <<>> = {}
  OBVIOUS
<1> QED BY <1>1, <1>2, <1>3 DEF BatchInv

\* A sync ends, whatever it comes to.
LEMMA EndsKeeps ==
    ASSUME ChainInv, StoreInv, BatchInv, TokensInv, NEW s \in Syncs, Ends(s),
           UNCHANGED <<world, shards>>
    PROVE  ChainInv' /\ StoreInv' /\ BatchInv' /\ TokensInv'
<1>1. /\ ChainInv' /\ Mine' = Mine /\ Owned' = Owned
      /\ \A i : AddressOf(i)' = AddressOf(i)
      /\ \A a : Origin(a)' <=> Origin(a)
  BY ChainRests
<1>2. StoreInv'
  BY <1>1 DEF StoreInv
<1>3. BatchInv'
  BY <1>1, EndsForgets DEF BatchInv
<1>4. TokensInv'
  <2>1. chain' = chain
    BY DEF world
  <2> QED BY <1>1, <2>1, EndsForgets DEF TokensInv, Answered
<1> QED BY <1>1, <1>2, <1>3, <1>4

\* The cursor moves to what this sync has covered.
LEMMA CursorMovesKeeps ==
    ASSUME DiscoveryInv, NEW s \in Syncs, CursorMoves(s)
    PROVE  DiscoveryInv'
<1> USE DEF batch
<1>1. /\ syncPc[s] = "saveDiscovered" /\ lastSyncedBlock' = upTo[s]
      /\ startCursor' = [startCursor EXCEPT ![s] = 0] /\ upTo' = [upTo EXCEPT ![s] = 0]
      /\ UNCHANGED <<world, shards, events>>
      /\ (Goto(s, "spent") /\ UNCHANGED batch) \/ Ends(s)
  BY DEF CursorMoves, highestProcessedBlock
<1>2. ChainInv /\ CursorInv /\ StoreInv /\ BatchInv /\ TokensInv /\ chain' = chain
  BY <1>1 DEF DiscoveryInv, world
<1>3. ChainInv' /\ StoreInv' /\ BatchInv' /\ TokensInv'
  <2>1. CASE Goto(s, "spent") /\ UNCHANGED batch
    <3>1. \A t \in Syncs : syncPc[t] = "balances" => syncPc'[t] = "balances"
      BY <1>1, <1>2, <2>1 DEF CursorInv, Goto
    <3> QED BY <1>1, <2>1, <3>1, BatchRests
  <2>2. CASE Ends(s)
    BY <1>1, <1>2, <2>2, EndsKeeps
  <2> QED BY <1>1, <2>1, <2>2
<1>4. \A b : Covered(b) => Covered(b)'
  BY <1>1, <1>2, CoverRests DEF Addresses
<1>5. syncPc' = [syncPc EXCEPT ![s] = "spent"] \/ syncPc' = [syncPc EXCEPT ![s] = "idle"]
  BY <1>1 DEF Goto, Ends
<1>6. 0 \in 0..Len(chain)
  BY <1>2, SequenceOf DEF ChainInv
<1>7. CursorInv'
  BY <1>1, <1>2, <1>4, <1>5, <1>6 DEF CursorInv
<1> QED BY <1>3, <1>7 DEF DiscoveryInv

\* Spent shards are removed.
LEMMA SpentRemovedKeeps ==
    ASSUME DiscoveryInv, NEW s \in Syncs, SpentRemoved(s)
    PROVE  DiscoveryInv'
<1> USE DEF locals
<1> DEFINE kept == [n \in DOMAIN shards |->
                     IF shards[n].address \in SpentAmong(s) THEN <<>> ELSE <<shards[n]>>]
           U == {shards[n] : n \in DOMAIN shards}
<1>1. /\ syncPc[s] = "spent" /\ syncPc' = [syncPc EXCEPT ![s] = "saveSpent"]
      /\ shards' = FlattenSeq(kept)
      /\ UNCHANGED <<world, lastSyncedBlock, locals, calls, answers, deadTokens, events>>
  BY DEF SpentRemoved, Goto
<1>2. ChainInv /\ CursorInv /\ StoreInv /\ BatchInv /\ TokensInv /\ chain' = chain
      /\ isShardSpent' = isShardSpent
  BY <1>1 DEF DiscoveryInv, world
<1>3. IsSeq(shards) /\ DOMAIN shards = 1..Len(shards) /\ Len(shards) \in Nat
  BY <1>2, SequenceOf DEF StoreInv, StoreOK
<1>4. /\ IsSeq(kept) /\ Len(kept) = Len(shards) /\ DOMAIN kept = DOMAIN shards
      /\ \A n \in DOMAIN shards :
            kept[n] = IF shards[n].address \in SpentAmong(s) THEN <<>> ELSE <<shards[n]>>
  BY <1>3, MadeSeq
<1>5. ASSUME NEW n \in DOMAIN kept
      PROVE  kept[n] \in Seq(U)
  <2> DEFINE x == shards[n]
  <2>1. x \in U /\ kept[n] \in {<<>>, <<x>>}
    BY <1>4
  <2> HIDE DEF x, U, kept
  <2> QED BY <2>1, OneElement
<1>6. IsSeq(shards') /\ Joins(shards', kept, Len(kept))
  <2> HIDE DEF kept, U
  <2>1. CASE Len(kept) = 0
    BY <2>1, <1>1, <1>3, <1>4, <1>5, Flattened
  <2>2. CASE Len(kept) # 0
    <3>1. shards' \in Seq(U)
      BY <2>2, <1>1, <1>3, <1>4, <1>5, Flattened
    <3> QED BY <3>1, SeqIs, <1>1, <1>3, <1>4, <1>5, Flattened
  <2> QED BY <2>1, <2>2
<1> HIDE DEF kept, U
<1>7. ASSUME NEW n \in DOMAIN shards'
      PROVE  \E m \in DOMAIN shards : shards'[n] = shards[m]
  <2>1. PICK m \in 1..Len(kept) : \E j \in DOMAIN kept[m] : shards'[n] = kept[m][j]
    BY <1>6 DEF Joins
  <2>2. PICK j \in DOMAIN kept[m] : shards'[n] = kept[m][j]
    BY <2>1
  <2>3. m \in DOMAIN shards /\ kept[m] \in {<<>>, <<shards[m]>>}
    BY <1>3, <1>4
  <2>4. kept[m] = <<shards[m]>> /\ j = 1
    BY <2>2, <2>3, ShortSeqs
  <2> QED BY <2>2, <2>3, <2>4
<1>8. ASSUME NEW m \in DOMAIN shards, shards[m].address \notin SpentAmong(s)
      PROVE  \E n \in DOMAIN shards' : shards'[n] = shards[m]
  <2>1. kept[m] = <<shards[m]>> /\ 1 \in DOMAIN kept[m] /\ m \in 1..Len(kept)
    BY <1>3, <1>4, <1>8
  <2> QED BY <1>6, <2>1 DEF Joins
<1>9. /\ ChainInv' /\ Mine' = Mine /\ Owned' = Owned
      /\ \A i : AddressOf(i)' = AddressOf(i)
      /\ \A a : Origin(a)' <=> Origin(a)
  BY <1>1, <1>2, ChainRests
<1>10. StoreInv'
  BY <1>2, <1>6, <1>7, <1>9 DEF StoreInv, StoreOK
<1>11. ASSUME NEW b, Covered(b)
       PROVE  Covered(b)'
  <2> SUFFICES ASSUME NEW i \in Mine \ isShardSpent, i <= b
               PROVE  AddressOf(i) \in Addresses'
    BY <1>2, <1>9 DEF Covered
  <2>1. PICK m \in DOMAIN shards : shards[m].address = AddressOf(i)
    BY <1>11 DEF Covered, Addresses
  <2>2. AddressOf(i) \notin SpentAmong(s)
    <3>1. \A j \in isShardSpent : j # i /\ j \in DOMAIN chain
      BY <1>2 DEF ChainInv, Paid
    <3> QED BY <1>2, <3>1, MineFound DEF SpentAmong, Unique
  <2>3. PICK n \in DOMAIN shards' : shards'[n] = shards[m]
    BY <1>8, <2>1, <2>2
  <2> QED BY <2>1, <2>3 DEF Addresses
<1>12. CursorInv'
  BY <1>1, <1>2, <1>11 DEF CursorInv
<1>13. BatchInv'
  BY <1>1, <1>2, <1>9 DEF BatchInv
<1>14. TokensInv'
  BY <1>1, <1>2, <1>7, <1>9 DEF TokensInv, Answered
<1> QED BY <1>9, <1>10, <1>12, <1>13, <1>14 DEF DiscoveryInv

-----------------------------------------------------------------------------
(* The batch.                                                              *)

\* A joined sequence has the elements of its parts.
LEMMA FlatSeq ==
    ASSUME NEW seqs, IsSeq(seqs), \A i \in DOMAIN seqs : IsSeq(seqs[i])
    PROVE  /\ IsSeq(FlattenSeq(seqs))
           /\ \A k \in DOMAIN FlattenSeq(seqs) :
                 \E i \in DOMAIN seqs : \E j \in DOMAIN seqs[i] : FlattenSeq(seqs)[k] = seqs[i][j]
<1> DEFINE U == UNION {{seqs[i][j] : j \in DOMAIN seqs[i]} : i \in DOMAIN seqs}
           flat == FlattenSeq(seqs)
<1>1. DOMAIN seqs = 1..Len(seqs) /\ Len(seqs) \in Nat
  BY SequenceOf
<1>2. ASSUME NEW i \in DOMAIN seqs
      PROVE  seqs[i] \in Seq(U)
  <2> DEFINE s == seqs[i]
             V == {s[j] : j \in 1..Len(s)}
  <2>1. s \in Seq(V) /\ DOMAIN s = 1..Len(s)
    BY SequenceOf
  <2>2. V \subseteq U
    BY <2>1
  <2> HIDE DEF s, U, V
  <2>3. s \in Seq(U)
    BY <2>1, <2>2
  <2> QED BY <2>3 DEF s
<1> HIDE DEF U
<1>3. Joins(flat, seqs, Len(seqs))
  BY <1>1, <1>2, Flattened
<1>4. IsSeq(flat)
  <2>1. CASE Len(seqs) = 0
    BY <2>1, <1>1, <1>2, Flattened
  <2>2. CASE Len(seqs) # 0
    <3>1. flat \in Seq(U)
      BY <2>2, <1>1, <1>2, Flattened
    <3> HIDE DEF flat
    <3> QED BY <3>1, SeqIs
  <2> QED BY <2>1, <2>2
<1> HIDE DEF flat
<1>5. \A k \in DOMAIN flat : \E i \in DOMAIN seqs : \E j \in DOMAIN seqs[i] : flat[k] = seqs[i][j]
  BY <1>1, <1>3 DEF Joins
<1> QED BY <1>4, <1>5 DEF flat

\* A call asks about an asset of a shard, or about one of its tokens.
CallFor(call, shard) ==
    /\ call.address = shard.address
    /\ \E ai \in DOMAIN shard.assets : call.asset = shard.assets[ai]
    /\ call.asset.type = "ERC721" => call.tokenIdIndex \in DOMAIN call.asset.tokenIds

\* The calls of one asset are for the shard that has it.
LEMMA AssetCalls ==
    ASSUME NEW shard, AssetsOK(shard.assets), NEW ai \in DOMAIN shard.assets
    PROVE  LET made == CallsOfAsset(shard.address, ai, shard.assets[ai])
           IN  IsSeq(made) /\ \A k \in DOMAIN made : CallFor(made[k], shard)
<1> DEFINE asset == shard.assets[ai]
           call == [address |-> shard.address, assetIndex |-> ai, asset |-> asset,
                    tokenIdIndex |-> Nothing]
           made == CallsOfAsset(shard.address, ai, asset)
<1>1. IsSeq(asset.tokenIds) /\ DOMAIN asset.tokenIds = 1..Len(asset.tokenIds)
      /\ Len(asset.tokenIds) \in Nat
  BY SequenceOf DEF AssetsOK, AssetOK
<1>2. CASE asset.type = "ERC721"
  <2>1. made = [ti \in DOMAIN asset.tokenIds |-> [call EXCEPT !.tokenIdIndex = ti]]
    BY <1>2 DEF CallsOfAsset
  <2>2. IsSeq(made) /\ DOMAIN made = DOMAIN asset.tokenIds
    <3> HIDE DEF asset, call, made
    <3> QED BY <1>1, <2>1, MadeSeq
  <2>3. ASSUME NEW k \in DOMAIN made
        PROVE  CallFor(made[k], shard)
    <3>1. made[k] = [address |-> shard.address, assetIndex |-> ai, asset |-> asset,
                     tokenIdIndex |-> k] /\ k \in DOMAIN asset.tokenIds
      <4> HIDE DEF asset, made
      <4> QED BY <2>1, <2>2
    <3> QED BY <3>1 DEF CallFor
  <2> QED BY <2>2, <2>3
<1>3. CASE asset.type # "ERC721"
  <2>1. made = <<call>>
    BY <1>3 DEF CallsOfAsset
  <2>2. CallFor(call, shard)
    BY <1>3 DEF CallFor
  <2> HIDE DEF made, call
  <2>3. IsSeq(made) /\ \A k \in DOMAIN made : CallFor(made[k], shard)
    BY <2>1, <2>2, ShortSeqs
  <2> QED BY <2>3 DEF made
<1> QED BY <1>2, <1>3

\* Every call of a batch is for a shard of the store.
LEMMA BatchCalls ==
    ASSUME NEW inventory, StoreOK(inventory)
    PROVE  LET made == buildBalanceVerificationBatch(inventory)
           IN  /\ IsSeq(made)
               /\ \A k \in DOMAIN made : \E n \in DOMAIN inventory : CallFor(made[k], inventory[n])
<1> DEFINE of == [si \in DOMAIN inventory |-> CallsOfShard(inventory[si])]
<1>1. ASSUME NEW shard, AssetsOK(shard.assets)
      PROVE  IsSeq(CallsOfShard(shard))
             /\ \A k \in DOMAIN CallsOfShard(shard) : CallFor(CallsOfShard(shard)[k], shard)
  <2> DEFINE seqs == [ai \in DOMAIN shard.assets |->
                         CallsOfAsset(shard.address, ai, shard.assets[ai])]
  <2>1. DOMAIN shard.assets = 1..Len(shard.assets) /\ Len(shard.assets) \in Nat
    BY <1>1, SequenceOf DEF AssetsOK
  <2>2. IsSeq(seqs) /\ DOMAIN seqs = DOMAIN shard.assets
    BY <2>1, MadeSeq
  <2>3. \A ai \in DOMAIN seqs : /\ IsSeq(seqs[ai])
                                /\ \A k \in DOMAIN seqs[ai] : CallFor(seqs[ai][k], shard)
    BY <1>1, AssetCalls
  <2>4. CallsOfShard(shard) = FlattenSeq(seqs)
    BY DEF CallsOfShard
  <2> HIDE DEF seqs
  <2> QED BY <2>2, <2>3, <2>4, FlatSeq
<1>2. DOMAIN inventory = 1..Len(inventory) /\ Len(inventory) \in Nat
  BY SequenceOf DEF StoreOK
<1>3. IsSeq(of) /\ DOMAIN of = DOMAIN inventory
  BY <1>2, MadeSeq
<1>4. \A si \in DOMAIN of : /\ IsSeq(of[si])
                            /\ \A k \in DOMAIN of[si] : CallFor(of[si][k], inventory[si])
  BY <1>1 DEF StoreOK, ShardOK
<1>5. buildBalanceVerificationBatch(inventory) = FlattenSeq(of)
  BY DEF buildBalanceVerificationBatch
<1> HIDE DEF of
<1> QED BY <1>3, <1>4, <1>5, FlatSeq

\* A batch that begins asks for every token at its place.
LEMMA VerifyKeeps ==
    ASSUME DiscoveryInv, NEW s \in Syncs, Verify(s), syncPc[s] # "balances",
           UNCHANGED <<world, store>>
    PROVE  DiscoveryInv'
<1> USE DEF batch, store
<1> DEFINE asked == buildBalanceVerificationBatch(shards)
<1>1. ChainInv /\ CursorInv /\ StoreInv /\ BatchInv /\ TokensInv /\ chain' = chain
      /\ StoreOK(shards)
  BY DEF DiscoveryInv, StoreInv, world
<1>2. /\ ChainInv' /\ Mine' = Mine /\ Owned' = Owned
      /\ \A i : AddressOf(i)' = AddressOf(i)
      /\ \A a : Origin(a)' <=> Origin(a)
  BY <1>1, ChainRests
<1>3. \A b : Covered(b) => Covered(b)'
  BY <1>1, CoverRests DEF Addresses
<1>4. CursorInv'
  <2>1. syncPc' = [syncPc EXCEPT ![s] = "balances"] \/ syncPc' = [syncPc EXCEPT ![s] = "idle"]
    BY DEF Verify, Goto, Ends
  <2>2. UNCHANGED <<startCursor, upTo>>
    BY DEF Verify
  <2> QED BY <1>1, <1>3, <2>1, <2>2 DEF CursorInv
<1>5. CASE Ends(s)
  BY <1>1, <1>4, <1>5, EndsKeeps DEF DiscoveryInv
<1>6. CASE ~Ends(s)
  <2>1. /\ syncPc' = [syncPc EXCEPT ![s] = "balances"]
        /\ calls' = [calls EXCEPT ![s] = asked]
        /\ \E n : answers' = [answers EXCEPT ![s] = [c \in 1..n |-> Asked]]
        /\ deadTokens' = deadTokens
    BY <1>6 DEF Verify, Goto
  <2>2. \A k \in DOMAIN asked : \E n \in DOMAIN shards : CallFor(asked[k], shards[n])
    BY <1>1, BatchCalls
  <2> HIDE DEF asked
  <2>3. \A t \in Syncs : t # s => /\ calls'[t] = calls[t] /\ answers'[t] = answers[t]
                                  /\ deadTokens'[t] = deadTokens[t] /\ syncPc'[t] = syncPc[t]
    BY <1>1, <2>1 DEF BatchInv, CursorInv
  <2>4. /\ calls'[s] = asked /\ deadTokens'[s] = {} /\ syncPc'[s] = "balances"
        /\ \A c \in DOMAIN answers'[s] : answers'[s][c].is = "asked"
    <3>1. PICK n : answers' = [answers EXCEPT ![s] = [c \in 1..n |-> Asked]]
      BY <2>1
    <3>2. answers'[s] = [c \in 1..n |-> Asked]
      BY <1>1, <3>1 DEF BatchInv
    <3> QED BY <1>1, <2>1, <3>2 DEF BatchInv, CursorInv, Asked
  <2>5. DOMAIN calls' = Syncs /\ DOMAIN answers' = Syncs /\ DOMAIN deadTokens' = Syncs
    BY <1>1, <2>1 DEF BatchInv
  <2>6. BatchInv'
    <3>1. \A k \in DOMAIN asked : Origin(asked[k].address)
      BY <1>1, <2>2 DEF CallFor, StoreInv
    <3> QED BY <1>1, <1>2, <2>3, <2>4, <2>5, <3>1 DEF BatchInv
  <2>7. ASSUME NEW i \in Owned, NEW k \in DOMAIN asked, asked[k].address = AddressOf(i)
        PROVE  /\ IsToken(asked[k].asset, chain[i].payment.asset)
               /\ asked[k].tokenIdIndex = 1
    <3>1. PICK n \in DOMAIN shards : CallFor(asked[k], shards[n])
      BY <2>2
    <3>2. /\ DOMAIN shards[n].assets = {1}
          /\ IsToken(shards[n].assets[1], chain[i].payment.asset)
      BY <1>1, <2>7, <3>1 DEF CallFor, TokensInv
    <3>3. IsToken(asked[k].asset, chain[i].payment.asset)
      BY <3>1, <3>2 DEF CallFor
    <3>4. asked[k].tokenIdIndex \in DOMAIN <<chain[i].payment.asset.identifier>>
      BY <3>1, <3>3 DEF CallFor, IsToken
    <3> QED BY <3>3, <3>4, ShortSeqs
  <2>8. TokensInv'
    BY <1>1, <1>2, <2>3, <2>4, <2>7 DEF TokensInv, Answered
  <2>9. StoreInv'
    BY <1>1, <1>2 DEF StoreInv
  <2> QED BY <1>2, <1>4, <2>6, <2>8, <2>9 DEF DiscoveryInv
<1> QED BY <1>5, <1>6

\* The spent flags arrive, or do not.
LEMMA SpentAnsweredKeeps ==
    ASSUME DiscoveryInv, NEW s \in Syncs, NoneSpent(s) \/ SpentFails(s) \/ SpentSaved(s)
    PROVE  DiscoveryInv'
<1>1. syncPc[s] # "balances" /\ Verify(s) /\ UNCHANGED <<world, store>>
  BY DEF NoneSpent, SpentFails, SpentSaved
<1> QED BY <1>1, VerifyKeeps

-----------------------------------------------------------------------------
(* Answers.                                                                *)

\* The owner of a token that was asked for is this wallet.
LEMMA TokenAnswer ==
    ASSUME ChainInv, NEW i \in Owned, NEW call, call.address = AddressOf(i),
           IsToken(call.asset, chain[i].payment.asset), call.tokenIdIndex = 1
    PROVE  Answer(call) = TRUE
<1>1. Answer(call) = isOwner(call.address, call.asset, call.asset.tokenIds[1])
  BY DEF Answer, IsToken
<1>2. call.asset.tokenIds[1] = chain[i].payment.asset.identifier
  BY ShortSeqs DEF IsToken
<1>3. i \in At(call.address, call.asset) /\ holding[i] = 1
  BY DEF At, Owned, Mine, IsToken
<1>4. isOwner(call.address, call.asset, call.asset.tokenIds[1])
  BY <1>2, <1>3 DEF isOwner
<1> QED BY <1>1, <1>4

\* One answer of a batch changes: what it says of a token is that it is owned.
LEMMA AnswerKeeps ==
    ASSUME DiscoveryInv, NEW s \in Syncs, NEW c \in DOMAIN answers[s], NEW answer,
           answers' = [answers EXCEPT ![s][c] = answer],
           answer.is = "answered" => DOMAIN answer.values \subseteq DOMAIN calls[s],
           \A i \in Owned : \A k \in DOMAIN calls[s] :
              /\ calls[s][k].address = AddressOf(i)
              /\ answer.is = "answered" /\ k \in DOMAIN answer.values
              => answer.values[k],
           UNCHANGED <<world, store, syncPc, locals, calls, deadTokens>>
    PROVE  DiscoveryInv'
<1> USE DEF store, locals
<1>1. ChainInv /\ CursorInv /\ StoreInv /\ BatchInv /\ TokensInv /\ chain' = chain
  BY DEF DiscoveryInv, world
<1>2. /\ ChainInv' /\ Mine' = Mine /\ Owned' = Owned
      /\ \A i : AddressOf(i)' = AddressOf(i)
      /\ \A a : Origin(a)' <=> Origin(a)
  BY <1>1, ChainRests
<1>3. \A b : Covered(b) => Covered(b)'
  BY <1>1, CoverRests DEF Addresses
<1>4. CursorInv'
  BY <1>1, <1>3 DEF CursorInv
<1>5. StoreInv'
  BY <1>1, <1>2 DEF StoreInv
<1>6. /\ DOMAIN answers' = Syncs
      /\ \A t \in Syncs : /\ DOMAIN answers'[t] = DOMAIN answers[t]
                          /\ \A d \in DOMAIN answers[t] :
                                answers'[t][d] = IF t = s /\ d = c THEN answer ELSE answers[t][d]
  BY <1>1 DEF BatchInv
<1>7. BatchInv'
  BY <1>1, <1>2, <1>6 DEF BatchInv
<1>8. TokensInv'
  BY <1>1, <1>2, <1>6 DEF TokensInv, Answered
<1> QED BY <1>2, <1>4, <1>5, <1>7, <1>8 DEF DiscoveryInv

\* The node answers a chunk.
LEMMA NodeAnswersKeeps ==
    ASSUME DiscoveryInv, NEW s \in Syncs, NEW c \in DOMAIN answers[s], NodeAnswers(s, c)
    PROVE  DiscoveryInv'
<1> DEFINE answer == [is |-> "answered", values |-> [k \in Chunk(s, c) |-> Answer(calls[s][k])]]
<1>1. /\ answers' = [answers EXCEPT ![s][c] = answer]
      /\ UNCHANGED <<world, store, syncPc, locals, calls, live, deadTokens, events>>
  BY DEF NodeAnswers
<1>2. DOMAIN answer.values = Chunk(s, c) /\ Chunk(s, c) \subseteq DOMAIN calls[s]
  BY DEF Chunk
<1>3. ASSUME NEW i \in Owned, NEW k \in DOMAIN calls[s], calls[s][k].address = AddressOf(i),
             k \in Chunk(s, c)
      PROVE  answer.values[k] = TRUE
  <2>1. answer.values[k] = Answer(calls[s][k])
    BY <1>3
  <2>2. /\ IsToken(calls[s][k].asset, chain[i].payment.asset)
        /\ calls[s][k].tokenIdIndex = 1 /\ ChainInv
    BY <1>3 DEF DiscoveryInv, TokensInv
  <2> QED BY <1>3, <2>1, <2>2, TokenAnswer
<1> HIDE DEF answer
<1>4. \A i \in Owned : \A k \in DOMAIN calls[s] :
         /\ calls[s][k].address = AddressOf(i)
         /\ answer.is = "answered" /\ k \in DOMAIN answer.values
         => answer.values[k]
  BY <1>2, <1>3
<1>5. answer.is = "answered" => DOMAIN answer.values \subseteq DOMAIN calls[s]
  BY <1>2
<1> QED BY <1>1, <1>4, <1>5, AnswerKeeps

\* A chunk is not answered.
LEMMA ChunkFailsKeeps ==
    ASSUME DiscoveryInv, NEW s \in Syncs, NEW c \in DOMAIN answers[s], ChunkFails(s, c)
    PROVE  DiscoveryInv'
<1>1. /\ answers' = [answers EXCEPT ![s][c] = Done] /\ Done.is # "answered"
      /\ UNCHANGED <<world, store, syncPc, locals, calls, live, deadTokens>>
  BY DEF ChunkFails, Done
<1> QED BY <1>1, AnswerKeeps

-----------------------------------------------------------------------------
(* Balances and tokens are written into the store.                         *)

\* A store whose assets are written anew keeps its addresses.
LEMMA StoreRewritten ==
    ASSUME StoreOK(shards), NEW made, \A n \in DOMAIN shards : AssetsOK(made[n]),
           shards' = [n \in DOMAIN shards |-> [shards[n] EXCEPT !.assets = made[n]]]
    PROVE  /\ StoreOK(shards') /\ DOMAIN shards' = DOMAIN shards
           /\ \A n \in DOMAIN shards : /\ shards'[n].address = shards[n].address
                                       /\ shards'[n].assets = made[n]
<1>1. DOMAIN shards = 1..Len(shards) /\ Len(shards) \in Nat
  BY SequenceOf DEF StoreOK
<1>2. DOMAIN shards' = DOMAIN shards /\ IsSeq(shards')
  <2>1. shards' = [n \in 1..Len(shards) |-> shards'[n]]
    BY <1>1
  <2> QED BY <1>1, <2>1, MadeSeq
<1>3. ASSUME NEW n \in DOMAIN shards
      PROVE  /\ ShardOK(shards'[n]) /\ shards'[n].address = shards[n].address
             /\ shards'[n].assets = made[n]
  <2> DEFINE old == shards[n]
             new == shards'[n]
  <2>1. ShardOK(old) /\ AssetsOK(made[n]) /\ new = [old EXCEPT !.assets = made[n]]
    BY DEF StoreOK
  <2> HIDE DEF old, new
  <2>2. DOMAIN old = ShardFields
    BY <2>1 DEF ShardOK
  <2>3. DOMAIN new = ShardFields /\ new.address = old.address
        /\ new.ephemeralPubKey = old.ephemeralPubKey /\ new.assets = made[n]
    BY <2>1, <2>2 DEF ShardFields
  <2>4. ShardOK(new)
    BY <2>1, <2>3 DEF ShardOK, Opens
  <2> QED BY <2>3, <2>4 DEF old, new
<1> QED BY <1>2, <1>3 DEF StoreOK

\* The store after its assets have been written: the tokens that are owned are
\* still there.
LEMMA RewrittenKeeps ==
    ASSUME DiscoveryInv, NEW made,
           shards' = [n \in DOMAIN shards |-> [shards[n] EXCEPT !.assets = made[n]]],
           \A n \in DOMAIN shards : AssetsOK(made[n]),
           \A i \in Owned : \A n \in DOMAIN shards : shards[n].address = AddressOf(i) =>
              DOMAIN made[n] = {1} /\ IsToken(made[n][1], chain[i].payment.asset),
           UNCHANGED <<world, lastSyncedBlock, startCursor, upTo>>,
           \E s \in Syncs : syncPc' = [syncPc EXCEPT ![s] = "idle"] \/ syncPc' = syncPc
    PROVE  /\ StoreInv' /\ CursorInv'
           /\ \A i \in Owned : \A n \in DOMAIN shards' : shards'[n].address = AddressOf(i) =>
                 /\ DOMAIN shards'[n].assets = {1}
                 /\ IsToken(shards'[n].assets[1], chain[i].payment.asset)
<1>1. ChainInv /\ CursorInv /\ StoreInv /\ StoreOK(shards) /\ chain' = chain
  BY DEF DiscoveryInv, world, StoreInv
<1>2. /\ StoreOK(shards') /\ DOMAIN shards' = DOMAIN shards
      /\ \A n \in DOMAIN shards : /\ shards'[n].address = shards[n].address
                                  /\ shards'[n].assets = made[n]
  BY <1>1, StoreRewritten
<1>3. \A a : Origin(a)' <=> Origin(a)
  BY <1>1, ChainRests
<1>4. StoreInv'
  BY <1>1, <1>2, <1>3 DEF StoreInv
<1>5. Addresses \subseteq Addresses'
  BY <1>2 DEF Addresses
<1>6. \A b : Covered(b) => Covered(b)'
  BY <1>1, <1>5, CoverRests
<1>7. CursorInv'
  BY <1>1, <1>6 DEF CursorInv
<1> QED BY <1>2, <1>4, <1>7

\* A balance that is written changes no token.
LEMMA BalanceWritten ==
    ASSUME NEW assets, AssetsOK(assets), NEW made, DOMAIN made = DOMAIN assets,
           made = [ai \in DOMAIN assets |-> made[ai]],
           \A ai \in DOMAIN assets : \/ made[ai] = assets[ai]
                                     \/ \E b : made[ai] = [assets[ai] EXCEPT !.balance = b]
    PROVE  /\ AssetsOK(made)
           /\ \A token : DOMAIN assets = {1} /\ IsToken(assets[1], token)
                            => DOMAIN made = {1} /\ IsToken(made[1], token)
<1>1. DOMAIN assets = 1..Len(assets) /\ Len(assets) \in Nat
  BY SequenceOf DEF AssetsOK
<1>2. IsSeq(made)
  BY <1>1, MadeSeq
<1>3. ASSUME NEW ai \in DOMAIN assets
      PROVE  /\ AssetOK(made[ai]) /\ made[ai].type = assets[ai].type
             /\ made[ai].tokenAddress = assets[ai].tokenAddress
             /\ made[ai].tokenIds = assets[ai].tokenIds
  <2> DEFINE old == assets[ai]
             new == made[ai]
  <2>1. AssetOK(old) /\ (new = old \/ \E b : new = [old EXCEPT !.balance = b])
    BY DEF AssetsOK
  <2> HIDE DEF old, new
  <2>2. AssetOK(new) /\ new.type = old.type /\ new.tokenAddress = old.tokenAddress
        /\ new.tokenIds = old.tokenIds
    BY <2>1 DEF AssetOK, AssetFields
  <2> QED BY <2>2 DEF old, new
<1> QED BY <1>2, <1>3 DEF AssetsOK, IsToken

\* The answer for a chunk is written.
LEMMA ChunkArrivesKeeps ==
    ASSUME DiscoveryInv, NEW s \in Syncs, NEW c \in DOMAIN answers[s], ChunkArrives(s, c)
    PROVE  DiscoveryInv'
<1> USE DEF locals
<1> DEFINE answer == answers[s][c].values
           For(address, ai) == {k \in DOMAIN answer :
                                   /\ calls[s][k].address = address
                                   /\ calls[s][k].assetIndex = ai
                                   /\ calls[s][k].tokenIdIndex = Nothing}
           Written(shard) ==
               [ai \in DOMAIN shard.assets |->
                   IF shard.address \in live[s] /\ For(shard.address, ai) # {}
                   THEN [shard.assets[ai] EXCEPT
                           !.balance = answer[CHOOSE k \in For(shard.address, ai) : TRUE]]
                   ELSE shard.assets[ai]]
           made == [n \in DOMAIN shards |-> Written(shards[n])]
           gone == {k \in DOMAIN answer : calls[s][k].tokenIdIndex # Nothing /\ ~answer[k]}
<1>1. /\ syncPc[s] = "balances" /\ answers[s][c].is = "answered"
      /\ shards' = [n \in DOMAIN shards |-> [shards[n] EXCEPT !.assets = Written(shards[n])]]
      /\ deadTokens' = [deadTokens EXCEPT ![s] = @ \cup gone]
      /\ answers' = [answers EXCEPT ![s][c] = Done]
      /\ UNCHANGED <<world, lastSyncedBlock, syncPc, locals, calls, live, events>>
  BY DEF ChunkArrives
<1>2. ChainInv /\ CursorInv /\ StoreInv /\ BatchInv /\ TokensInv /\ chain' = chain
      /\ StoreOK(shards)
  BY <1>1 DEF DiscoveryInv, world, StoreInv
<1>3. /\ ChainInv' /\ Mine' = Mine /\ Owned' = Owned
      /\ \A i : AddressOf(i)' = AddressOf(i)
      /\ \A a : Origin(a)' <=> Origin(a)
  BY <1>1, <1>2, ChainRests
<1>4. shards' = [n \in DOMAIN shards |-> [shards[n] EXCEPT !.assets = made[n]]]
  BY <1>1
<1>5. ASSUME NEW n \in DOMAIN shards
      PROVE  /\ AssetsOK(made[n])
             /\ \A token : DOMAIN shards[n].assets = {1} /\ IsToken(shards[n].assets[1], token)
                              => DOMAIN made[n] = {1} /\ IsToken(made[n][1], token)
  <2> DEFINE assets == shards[n].assets
             new == made[n]
  <2>1. DOMAIN new = DOMAIN assets /\ new = [ai \in DOMAIN assets |-> new[ai]]
    OBVIOUS
  <2>2. ASSUME NEW ai \in DOMAIN assets
        PROVE  \/ new[ai] = assets[ai]
               \/ \E b : new[ai] = [assets[ai] EXCEPT !.balance = b]
    <3> DEFINE written == answer[CHOOSE k \in For(shards[n].address, ai) : TRUE]
    <3>1. new[ai] = IF shards[n].address \in live[s] /\ For(shards[n].address, ai) # {}
                    THEN [assets[ai] EXCEPT !.balance = written] ELSE assets[ai]
      OBVIOUS
    <3> HIDE DEF written, assets, new, For
    <3> QED BY <3>1
  <2>3. AssetsOK(assets)
    BY <1>2 DEF StoreOK, ShardOK
  <2> HIDE DEF new, assets
  <2>4. /\ AssetsOK(new)
        /\ \A token : DOMAIN assets = {1} /\ IsToken(assets[1], token)
                         => DOMAIN new = {1} /\ IsToken(new[1], token)
    BY <2>1, <2>2, <2>3, BalanceWritten
  <2> QED BY <2>4 DEF new, assets
<1> HIDE DEF made
<1>6. \A i \in Owned : \A n \in DOMAIN shards : shards[n].address = AddressOf(i) =>
              DOMAIN made[n] = {1} /\ IsToken(made[n][1], chain[i].payment.asset)
  BY <1>2, <1>5 DEF TokensInv
<1>7. /\ StoreInv' /\ CursorInv'
      /\ \A i \in Owned : \A n \in DOMAIN shards' : shards'[n].address = AddressOf(i) =>
                 /\ DOMAIN shards'[n].assets = {1}
                 /\ IsToken(shards'[n].assets[1], chain[i].payment.asset)
  BY <1>1, <1>4, <1>5, <1>6, RewrittenKeeps
<1>8. /\ DOMAIN answers' = Syncs /\ DOMAIN deadTokens' = Syncs
      /\ \A t \in Syncs : /\ DOMAIN answers'[t] = DOMAIN answers[t]
                          /\ deadTokens'[t] = IF t = s THEN deadTokens[s] \cup gone ELSE deadTokens[t]
                          /\ \A d \in DOMAIN answers[t] :
                                answers'[t][d] = IF t = s /\ d = c THEN Done ELSE answers[t][d]
  BY <1>1, <1>2 DEF BatchInv
<1>9. gone \subseteq DOMAIN calls[s]
  BY <1>1, <1>2 DEF BatchInv
<1>10. \A i \in Owned : \A k \in gone : calls[s][k].address # AddressOf(i)
  BY <1>1, <1>2, <1>9 DEF TokensInv, Answered
<1> HIDE DEF gone
<1>11. BatchInv'
  BY <1>1, <1>2, <1>3, <1>8, <1>9 DEF BatchInv, Done
<1>12. ASSUME NEW i \in Owned, NEW t \in Syncs, NEW k \in DOMAIN calls[t],
              calls[t][k].address = AddressOf(i)
       PROVE  /\ IsToken(calls[t][k].asset, chain[i].payment.asset)
              /\ calls[t][k].tokenIdIndex = 1 /\ k \notin deadTokens'[t]
              /\ \A d \in DOMAIN answers'[t] : Answered(t, d, k)' => answers'[t][d].values[k]
  <2>1. /\ IsToken(calls[t][k].asset, chain[i].payment.asset)
        /\ calls[t][k].tokenIdIndex = 1 /\ k \notin deadTokens[t]
        /\ \A d \in DOMAIN answers[t] : Answered(t, d, k) => answers[t][d].values[k]
    BY <1>2, <1>12 DEF TokensInv
  <2>2. k \notin deadTokens'[t]
    BY <1>8, <1>10, <1>12, <2>1
  <2>3. ASSUME NEW d \in DOMAIN answers'[t], Answered(t, d, k)'
        PROVE  answers'[t][d].values[k]
    <3>1. d \in DOMAIN answers[t] /\ answers'[t][d] = answers[t][d]
      BY <1>8, <2>3 DEF Answered, Done
    <3> QED BY <2>1, <2>3, <3>1 DEF Answered
  <2> QED BY <2>1, <2>2, <2>3
<1> HIDE DEF answer, For, Written
<1>13. calls' = calls
  BY <1>1
<1>14. TokensInv'
  BY <1>2, <1>3, <1>7, <1>12, <1>13 DEF TokensInv
<1> QED BY <1>3, <1>7, <1>11, <1>14 DEF DiscoveryInv

\* What is spliced out of an asset's tokens leaves a sequence; nothing leaves
\* nothing out.
LEMMA RemainingTokens ==
    ASSUME NEW tokenIds, IsSeq(tokenIds), NEW dead
    PROVE  /\ IsSeq(Remaining(tokenIds, dead))
           /\ dead = {} => Remaining(tokenIds, dead) = tokenIds
<1> DEFINE seqs == [n \in DOMAIN tokenIds |-> IF n \in dead THEN <<>> ELSE <<tokenIds[n]>>]
           U == {tokenIds[n] : n \in 1..Len(tokenIds)}
<1>1. tokenIds \in Seq(U) /\ DOMAIN tokenIds = 1..Len(tokenIds) /\ Len(tokenIds) \in Nat
  BY SequenceOf
<1>2. IsSeq(seqs) /\ DOMAIN seqs = DOMAIN tokenIds
  BY <1>1, MadeSeq
<1>3. \A n \in DOMAIN seqs : IsSeq(seqs[n])
  BY ShortSeqs
<1>4. Remaining(tokenIds, dead) = FlattenSeq(seqs)
  BY DEF Remaining
<1>5. dead = {} => seqs = [n \in DOMAIN tokenIds |-> <<tokenIds[n]>>]
  OBVIOUS
<1> HIDE DEF seqs, U
<1>6. dead = {} => FlattenSeq(seqs) = tokenIds
  BY <1>1, <1>5, FlattenedOnes
<1> QED BY <1>2, <1>3, <1>4, <1>6, FlatSeq

\* The dead tokens are spliced out.
LEMMA VerificationEndsKeeps ==
    ASSUME DiscoveryInv, NEW s \in Syncs, VerificationEnds(s)
    PROVE  DiscoveryInv'
<1> USE DEF locals
<1> DEFINE made == [n \in DOMAIN shards |-> Spliced(s, shards[n])]
<1>1. /\ shards' = [n \in DOMAIN shards |-> [shards[n] EXCEPT !.assets = Spliced(s, shards[n])]]
      /\ Ends(s) /\ UNCHANGED <<world, lastSyncedBlock, locals, events>>
  BY DEF VerificationEnds
<1>2. ChainInv /\ CursorInv /\ StoreInv /\ BatchInv /\ TokensInv /\ chain' = chain
      /\ StoreOK(shards)
  BY <1>1 DEF DiscoveryInv, world, StoreInv
<1>3. /\ ChainInv' /\ Mine' = Mine /\ Owned' = Owned
      /\ \A i : AddressOf(i)' = AddressOf(i)
      /\ \A a : Origin(a)' <=> Origin(a)
  BY <1>1, <1>2, ChainRests
<1>4. shards' = [n \in DOMAIN shards |-> [shards[n] EXCEPT !.assets = made[n]]]
  BY <1>1
<1>5. ASSUME NEW n \in DOMAIN shards
      PROVE  /\ AssetsOK(made[n])
             /\ \A i \in Owned : shards[n].address = AddressOf(i) =>
                   DOMAIN made[n] = {1} /\ IsToken(made[n][1], chain[i].payment.asset)
  <2> DEFINE assets == shards[n].assets
             address == shards[n].address
             new == made[n]
             left(ai) == IF address \in live[s]
                         THEN Remaining(assets[ai].tokenIds, Dead(s, address, ai))
                         ELSE assets[ai].tokenIds
  <2>1. new = [ai \in DOMAIN assets |-> [assets[ai] EXCEPT !.tokenIds = left(ai)]]
    BY DEF Spliced
  <2>2. AssetsOK(assets)
    BY <1>2 DEF StoreOK, ShardOK
  <2>3. DOMAIN assets = 1..Len(assets) /\ Len(assets) \in Nat
    BY <2>2, SequenceOf DEF AssetsOK
  <2>4. \A ai \in DOMAIN assets : IsSeq(left(ai))
    BY <2>2, RemainingTokens DEF AssetsOK, AssetOK
  <2>5. ASSUME NEW i \in Owned, address = AddressOf(i)
        PROVE  /\ DOMAIN assets = {1} /\ IsToken(assets[1], chain[i].payment.asset)
               /\ left(1) = assets[1].tokenIds
    <3>1. DOMAIN assets = {1} /\ IsToken(assets[1], chain[i].payment.asset)
      BY <1>2, <2>5 DEF TokensInv
    <3>2. \A k \in deadTokens[s] : calls[s][k].address # address
      BY <1>2, <2>5 DEF BatchInv, TokensInv
    <3>3. Dead(s, address, 1) = {}
      BY <3>2 DEF Dead
    <3>4. IsSeq(assets[1].tokenIds)
      BY <2>2, <3>1 DEF AssetsOK, AssetOK
    <3> QED BY <3>1, <3>3, <3>4, RemainingTokens
  <2> HIDE DEF assets, address, new, left
  <2>6. IsSeq(new) /\ DOMAIN new = DOMAIN assets
    BY <2>1, <2>3, MadeSeq
  <2>7. ASSUME NEW ai \in DOMAIN assets
        PROVE  /\ AssetOK(new[ai]) /\ new[ai].type = assets[ai].type
               /\ new[ai].tokenAddress = assets[ai].tokenAddress
               /\ new[ai].tokenIds = left(ai)
    <3> DEFINE old == assets[ai]
               rest == left(ai)
    <3>1. AssetOK(old) /\ IsSeq(rest) /\ new[ai] = [old EXCEPT !.tokenIds = rest]
      BY <2>1, <2>2, <2>4 DEF AssetsOK
    <3> HIDE DEF old, rest
    <3>2. AssetOK(new[ai]) /\ new[ai].type = old.type /\ new[ai].tokenAddress = old.tokenAddress
          /\ new[ai].tokenIds = rest
      BY <3>1 DEF AssetOK, AssetFields
    <3> QED BY <3>2 DEF old, rest
  <2>8. AssetsOK(new)
    BY <2>6, <2>7 DEF AssetsOK
  <2>9. \A i \in Owned : address = AddressOf(i) =>
            DOMAIN new = {1} /\ IsToken(new[1], chain[i].payment.asset)
    BY <2>5, <2>6, <2>7 DEF IsToken
  <2> QED BY <2>8, <2>9 DEF new, address
<1> HIDE DEF made
<1>6. \A i \in Owned : \A n \in DOMAIN shards : shards[n].address = AddressOf(i) =>
              DOMAIN made[n] = {1} /\ IsToken(made[n][1], chain[i].payment.asset)
  BY <1>5
<1>7. syncPc' = [syncPc EXCEPT ![s] = "idle"]
  BY <1>1 DEF Ends, Goto
<1>8. /\ StoreInv' /\ CursorInv'
      /\ \A i \in Owned : \A n \in DOMAIN shards' : shards'[n].address = AddressOf(i) =>
                 /\ DOMAIN shards'[n].assets = {1}
                 /\ IsToken(shards'[n].assets[1], chain[i].payment.asset)
  BY <1>1, <1>4, <1>5, <1>6, <1>7, RewrittenKeeps
<1>9. /\ DOMAIN calls' = Syncs /\ DOMAIN answers' = Syncs /\ DOMAIN deadTokens' = Syncs
      /\ DOMAIN calls'[s] = {} /\ DOMAIN answers'[s] = {} /\ deadTokens'[s] = {}
      /\ \A t \in Syncs : t # s =>
            /\ calls'[t] = calls[t] /\ answers'[t] = answers[t]
            /\ deadTokens'[t] = deadTokens[t] /\ syncPc'[t] = syncPc[t]
  BY <1>1, <1>2, EndsForgets
<1>10. BatchInv'
  BY <1>2, <1>3, <1>9 DEF BatchInv
<1>11. TokensInv'
  BY <1>2, <1>3, <1>8, <1>9 DEF TokensInv, Answered
<1> QED BY <1>3, <1>8, <1>10, <1>11 DEF DiscoveryInv

-----------------------------------------------------------------------------
(* The theorems.                                                           *)

\* The initial states.
LEMMA DiscoveryInit ==
    ASSUME Init
    PROVE  DiscoveryInv
<1>1. ChainInv
  BY ChainInit
<1>2. DOMAIN <<>> = {} /\ IsSeq(<<>>)
  BY ShortSeqs
<1>3. shards = <<>> /\ lastSyncedBlock = 0
  BY DEF Init
<1>4. StoreInv
  BY <1>2, <1>3 DEF StoreInv, StoreOK
<1>5. Mine = {} /\ Owned = {}
  BY DEF Init, Mine, Paid, Owned
<1>6. 0 \in 0..Len(chain)
  BY <1>1, SequenceOf DEF ChainInv
<1>7. CursorInv
  BY <1>5, <1>6 DEF CursorInv, Covered, Init
<1>8. BatchInv
  BY <1>2 DEF BatchInv, Init
<1>9. TokensInv
  BY <1>5 DEF TokensInv
<1> QED BY <1>1, <1>4, <1>7, <1>8, <1>9 DEF DiscoveryInv

\* A step that changes nothing.
LEMMA DiscoveryRests ==
    ASSUME DiscoveryInv, UNCHANGED vars
    PROVE  DiscoveryInv'
<1>1. /\ UNCHANGED <<world, shards, calls, answers, deadTokens>>
      /\ UNCHANGED <<lastSyncedBlock, syncPc, startCursor, upTo>>
  BY DEF vars, world, store, locals, batch
<1>2. ChainInv' /\ StoreInv' /\ BatchInv' /\ TokensInv'
  BY <1>1, BatchRests
<1>3. \A b : Covered(b) => Covered(b)'
  BY <1>1, CoverRests DEF DiscoveryInv, Addresses
<1>4. CursorInv'
  BY <1>1, <1>3 DEF DiscoveryInv, CursorInv, world
<1> QED BY <1>2, <1>4 DEF DiscoveryInv

\* Any step of a sync.
LEMMA SyncStepKeeps ==
    ASSUME DiscoveryInv, NEW s \in Syncs, SyncStep(s)
    PROVE  DiscoveryInv'
<1>1. CASE \E fromStart \in BOOLEAN : SyncBegins(s, fromStart)
  BY <1>1, SyncBeginsKeeps
<1>2. CASE LogsArrive(s)
  BY <1>2, LogsArriveKeeps
<1>3. CASE Decrypted(s)
  BY <1>3, DecryptedKeeps
<1>4. CASE CursorMoves(s)
  BY <1>4, CursorMovesKeeps
<1>5. CASE SpentRemoved(s)
  BY <1>5, SpentRemovedKeeps
<1>6. CASE NoneSpent(s) \/ SpentFails(s) \/ SpentSaved(s)
  BY <1>6, SpentAnsweredKeeps
<1>7. ASSUME NEW c \in DOMAIN answers[s],
             NodeAnswers(s, c) \/ ChunkFails(s, c) \/ ChunkArrives(s, c)
      PROVE  DiscoveryInv'
  BY <1>7, NodeAnswersKeeps, ChunkFailsKeeps, ChunkArrivesKeeps
<1>8. CASE VerificationEnds(s)
  BY <1>8, VerificationEndsKeeps
<1> QED BY <1>1, <1>2, <1>3, <1>4, <1>5, <1>6, <1>7, <1>8 DEF SyncStep

\* Whatever is paid, announced, spent and moved while syncs overlap, the chain,
\* the store, the cursors and the batches stay consistent.
THEOREM DiscoveryInvariant == Spec => []DiscoveryInv
<1>1. Init => DiscoveryInv
  BY DiscoveryInit
<1>2. ASSUME DiscoveryInv, [Next]_vars
      PROVE  DiscoveryInv'
  <2>1. CASE ChainStep
    BY <1>2, <2>1, ChainStepKeeps
  <2>2. CASE \E s \in Syncs : SyncStep(s)
    BY <1>2, <2>2, SyncStepKeeps
  <2>3. CASE UNCHANGED vars
    BY <1>2, <2>3, DiscoveryRests
  <2> QED BY <1>2, <2>1, <2>2, <2>3 DEF Next
<1> QED BY <1>1, <1>2, PTL DEF Spec

\* No payment to the wallet is overlooked (PaymentsFound): the cursor passes a
\* block only when what the block pays this wallet is in the store, and only a
\* spent shard leaves it.
THEOREM PaymentsAreFound == Spec => []PaymentsFound
<1>1. DiscoveryInv => PaymentsFound
  BY DEF DiscoveryInv, CursorInv, Covered, PaymentsFound
<1> QED BY <1>1, DiscoveryInvariant, PTL

\* The recipient reads what the sender wrote, out of whatever log the payment
\* was announced by (MetadataArrives).
THEOREM MetadataAlwaysArrives == Spec => []MetadataArrives
<1>1. ASSUME DiscoveryInv, NEW i \in Mine
      PROVE  LET p == chain[i].payment
                 shard == Discovered(parseLog(chain[i].log)[1], Keys)
                 found == shard[1]
                 secret == computeSharedSecret(Keys.viewingPrivateKey, found.ephemeralPubKey)
             IN  /\ shard # <<>>
                 /\ found.address = AddressOf(i)
                 /\ p.tells = "asset" =>
                      /\ Len(found.assets) = 1
                      /\ found.assets[1].type = p.asset.type
                      /\ found.assets[1].tokenAddress = p.asset.tokenAddress
                      /\ p.asset.identifier = IF p.asset.type = "ERC721"
                                              THEN found.assets[1].tokenIds[1]
                                              ELSE found.assets[1].balance
                      /\ p.sender # Nothing =>
                            \/ found.senderInfo = p.sender
                            \/ chain[i].log.metadata.encrypted.iv = ViewTag(secret)
  <2> DEFINE p == chain[i].payment
             shard == Discovered(parseLog(chain[i].log)[1], Keys)
             found == shard[1]
             secret == computeSharedSecret(Keys.viewingPrivateKey, found.ephemeralPubKey)
  <2>1. Arrived(chain[i])
    BY <1>1, MineFound DEF DiscoveryInv
  <2>2. Found(chain[i].log) = shard
    BY <2>1 DEF Arrived, Found
  <2>3. /\ shard # <<>> /\ found.address = AddressOf(i)
        /\ p.tells = "asset" =>
              /\ found.assets = <<AssetOf(p.asset)>>
              /\ p.sender # Nothing =>
                    \/ found.senderInfo = p.sender
                    \/ chain[i].log.metadata.encrypted.iv = ViewTag(secret)
    <3> HIDE DEF shard
    <3> QED BY <2>1, <2>2 DEF Arrived, AddressOf
  <2>4. /\ AssetOf(p.asset).type = p.asset.type
        /\ AssetOf(p.asset).tokenAddress = p.asset.tokenAddress
        /\ p.asset.identifier = IF p.asset.type = "ERC721" THEN AssetOf(p.asset).tokenIds[1]
                                ELSE AssetOf(p.asset).balance
    <3> HIDE DEF p
    <3> QED BY ShortSeqs DEF AssetOf, AssetBalance
  <2>5. Len(<<AssetOf(p.asset)>>) = 1 /\ <<AssetOf(p.asset)>>[1] = AssetOf(p.asset)
    OBVIOUS
  <2> HIDE DEF p, found, secret
  <2>6. p.tells = "asset" =>
           /\ Len(found.assets) = 1 /\ found.assets[1] = AssetOf(p.asset)
    BY <2>3, <2>5
  <2> QED BY <2>3, <2>4, <2>6 DEF p, found, secret
<1>2. DiscoveryInv => MetadataArrives
  BY <1>1 DEF MetadataArrives
<1> QED BY <1>2, DiscoveryInvariant, PTL

\* The wallet holds the key of every shard of its store (ShardKeysOpen), also of
\* one that somebody else's announcement put there.
THEOREM ShardKeysAlwaysOpen == Spec => []ShardKeysOpen
<1>1. ASSUME DiscoveryInv, NEW n \in DOMAIN shards
      PROVE  LET secret == computeSharedSecret(Keys.viewingPrivateKey, shards[n].ephemeralPubKey)
             IN  PublicKey(deriveShardPrivateKey(Keys, secret)) = shards[n].address
  <2> DEFINE secret == computeSharedSecret(Keys.viewingPrivateKey, shards[n].ephemeralPubKey)
  <2>1. Opens(shards[n])
    BY <1>1 DEF DiscoveryInv, StoreInv, StoreOK, ShardOK
  <2>2. Keys \in KeySet /\ Keys.viewingPrivateKey \in Words
    BY DiscoveryAssumption DEF DiscoveryAssumption, KeySet, Scalars
  <2>3. secret \in Words
    BY <2>1, <2>2, SecretIsWord DEF Opens, PublicKeys
  <2>4. /\ shards[n].address = computeStealthAddress(spendingPublicKey(Keys), secret)
        /\ computeStealthAddress(spendingPublicKey(Keys), secret) # Thrown
    BY <2>1 DEF Opens, ComputedAddress
  <2> HIDE DEF secret
  <2> QED BY <2>2, <2>3, <2>4, DerivedKeyOpensAddress DEF secret
<1>2. DiscoveryInv => ShardKeysOpen
  BY <1>1 DEF ShardKeysOpen
<1> QED BY <1>2, DiscoveryInvariant, PTL

\* However the answers of overlapping verifications are delayed, no token that
\* the wallet owns is spliced out of its shard (OwnedTokensStay).
THEOREM OwnedTokensAlwaysStay == Spec => []OwnedTokensStay
<1>1. ASSUME DiscoveryInv, NEW i \in Mine, NEW n \in DOMAIN shards,
             chain[i].payment.tells = "asset", chain[i].payment.asset.type = "ERC721",
             holding[i] = 1, shards[n].address = AddressOf(i)
      PROVE  chain[i].payment.asset.identifier \in Range(shards[n].assets[1].tokenIds)
  <2>1. i \in Owned
    BY <1>1 DEF Owned
  <2>2. shards[n].assets[1].tokenIds = <<chain[i].payment.asset.identifier>>
    BY <1>1, <2>1 DEF DiscoveryInv, TokensInv, IsToken
  <2> DEFINE tokenIds == shards[n].assets[1].tokenIds
  <2>3. 1 \in DOMAIN tokenIds /\ tokenIds[1] = chain[i].payment.asset.identifier
    BY <2>2, ShortSeqs
  <2> HIDE DEF tokenIds
  <2>4. chain[i].payment.asset.identifier \in Range(tokenIds)
    BY <2>3 DEF Range
  <2> QED BY <2>4 DEF tokenIds
<1>2. DiscoveryInv => OwnedTokensStay
  BY <1>1 DEF OwnedTokensStay
<1> QED BY <1>2, DiscoveryInvariant, PTL
=============================================================================
