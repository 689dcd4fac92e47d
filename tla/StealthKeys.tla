----------------------------- MODULE StealthKeys -----------------------------
(***************************************************************************)
(* Keys and stealth addresses (keys.ts, stealth.ts, metaAddress.ts) as     *)
(* operators, over any group with a generator.                             *)
(*                                                                         *)
(* A 32-byte number may be zero or not below the group's order: the curve  *)
(* library refuses such a scalar, while the wallet reduces the sum of two  *)
(* of them.  Hashes are functions the model knows nothing about, and an    *)
(* Ethereum address stands for its point.                                  *)
(***************************************************************************)
EXTENDS Integers

CONSTANTS
    Words,          \* 32-byte numbers
    Order,          \* the order n of the group
    Points,         \* its elements
    Infinity,       \* the neutral element, which has no encoding
    PublicKey(_),   \* scalar times the generator, of a word
    Times(_, _),    \* word times point
    Plus(_, _),     \* sum of two points
    Coordinate(_),  \* the x-coordinate of a point
    Keccak(_),      \* the hash of a coordinate
    Thrown          \* the result of a call that throws

\* What the curve library accepts as a private key or a scalar.
Scalars == {k \in Words : 0 < k /\ k < Order}

\* What it accepts as a public key.
PublicKeys == Points \ {Infinity}

\* The laws of the group that the protocol rests on.
ASSUME GroupAssumption ==
    /\ Order \in Nat \ {0} /\ Words \subseteq Nat /\ 0..(Order - 1) \subseteq Words
    /\ \A k \in Words : PublicKey(k) \in Points /\ PublicKey(k) = PublicKey(k % Order)
    /\ PublicKey(0) = Infinity /\ \A k \in Scalars : PublicKey(k) # Infinity
    /\ \A k \in Words, p \in Points : Times(k, p) \in Points
    /\ \A j, k \in Words : Times(j, PublicKey(k)) = Times(k, PublicKey(j))
    /\ \A j, k \in Words : Plus(PublicKey(j), PublicKey(k)) = PublicKey((j + k) % Order)
    /\ \A p \in Points : Keccak(Coordinate(p)) \in Words
    /\ Thrown \notin Words \cup Points

-----------------------------------------------------------------------------
(* keys.ts.                                                                *)

\* What deriveKeys makes of a signature: every key is hashed again until it is
\* a scalar.
KeySet == [spendingPrivateKey : Scalars, viewingPrivateKey : Scalars]

spendingPublicKey(keys) == PublicKey(keys.spendingPrivateKey)
viewingPublicKey(keys)  == PublicKey(keys.viewingPrivateKey)

computeSharedSecret(privateKey, publicKey) ==
    Keccak(Coordinate(Times(privateKey, publicKey)))

\* Mutant: the address hides the viewing key instead of the spending key.
deriveShardPrivateKeyViewing(keys, sharedSecret) ==
    (keys.viewingPrivateKey + sharedSecret) % Order

deriveShardPrivateKey(keys, sharedSecret) ==
    (keys.spendingPrivateKey + sharedSecret) % Order

\* The point has to be one that can be encoded.
deriveStealthPublicKey(spendingKey, sharedSecret) ==
    IF sharedSecret \in Scalars /\ Plus(spendingKey, PublicKey(sharedSecret)) # Infinity
    THEN Plus(spendingKey, PublicKey(sharedSecret))
    ELSE Thrown

computeStealthAddress(spendingKey, sharedSecret) ==
    deriveStealthPublicKey(spendingKey, sharedSecret)

-----------------------------------------------------------------------------
(* metaAddress.ts.  A meta-address is a text: a prefix, maybe "0x", and    *)
(* the digits of some bytes.                                               *)

STANDARD_SCHEME_ID == 1

Text(zeroX, bytes) == [zeroX |-> zeroX, bytes |-> bytes]

\* The 67 bytes of a scheme and two compressed keys.
Payload(scheme, spending, viewing) ==
    [size |-> 67, scheme |-> scheme, spending |-> spending, viewing |-> viewing]

encodeMetaAddress(keys) ==
    Text(TRUE, Payload(STANDARD_SCHEME_ID, spendingPublicKey(keys), viewingPublicKey(keys)))

\* hexToBytes drops two characters, whether or not they are "0x": without them
\* it is the first byte that is lost, and the rest is too short or misplaced.
decodeMetaAddress(text) ==
    IF text.zeroX /\ text.bytes.size = 67 /\ text.bytes.scheme = STANDARD_SCHEME_ID
    THEN [spendingPublicKey |-> text.bytes.spending, viewingPublicKey |-> text.bytes.viewing]
    ELSE Thrown

isMetaAddress(text) == text.zeroX /\ text.bytes.size = 67

-----------------------------------------------------------------------------
(* registry.ts.  The registry keeps bytes for an account.                  *)

\* The bytes registered are the letters of the meta-address, not its payload.
LETTER_S == 115

registerKeys(metaAddress) ==
    [size |-> 7 + 2 + 2 * metaAddress.bytes.size, scheme |-> LETTER_S,
     spending |-> Infinity, viewing |-> Infinity]

\* The bytes found are written in digits after the prefix, without "0x".
lookupMetaAddress(registered) == Text(FALSE, registered)

-----------------------------------------------------------------------------
(* stealth.ts.                                                             *)

\* An address of the keys, hidden by the random word ephemeral.
StealthFor(spendingKey, viewingKey, ephemeral) ==
    LET sharedSecret == computeSharedSecret(ephemeral, viewingKey)
        address == computeStealthAddress(spendingKey, sharedSecret)
    IN  IF ephemeral \in Scalars /\ address # Thrown
        THEN [stealthAddress |-> address, ephemeralPubKey |-> PublicKey(ephemeral),
              sharedSecret |-> sharedSecret]
        ELSE Thrown

generateStealthAddress(metaAddress, ephemeral) ==
    LET decoded == decodeMetaAddress(metaAddress)
    IN  IF decoded = Thrown THEN Thrown
        ELSE StealthFor(decoded.spendingPublicKey, decoded.viewingPublicKey, ephemeral)

getNewDepositAddress(keys, ephemeral) ==
    StealthFor(spendingPublicKey(keys), viewingPublicKey(keys), ephemeral)
=============================================================================
