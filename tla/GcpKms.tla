------------------------------- MODULE GcpKms -------------------------------
(***************************************************************************)
(* src/encrypt/gcp-kms/repository.go: one definition per method, as a plan *)
(* (see KeyMaterial).  A symmetric key is named without a version, every   *)
(* other key with one; the key ring is that of the configured key.         *)
(***************************************************************************)
EXTENDS KeyMaterial

Local == INSTANCE LocalKeys

rawKey(a) == IF a.key # NoText THEN a.key ELSE a.configured

\* Only a full resource name tells the key ring.
resolveGCPKeyRingName(a) == a.configured.form = "ref"

\* The key's name: a version is cut off.
resolveGCPCryptoKeyName(a) ==
    IF rawKey(a).form = "ref" THEN [rawKey(a) EXCEPT !.ver = 0] ELSE NoText

resolveGCPCryptoKeyVersionName(a) ==
    IF rawKey(a).form = "ref" /\ rawKey(a).ver # 0 THEN rawKey(a) ELSE NoText

\* A bug: the version is cut off here as well.
resolveGCPKeyLookupNamesOnly(a) ==
    IF resolveGCPCryptoKeyName(a) # NoText THEN resolveGCPCryptoKeyName(a)
    ELSE IF rawKey(a) # NoText /\ resolveGCPKeyRingName(a) THEN rawKey(a)
    ELSE NoText

\* Any other text is taken for the name of a key in the configured ring.
resolveGCPKeyLookupNames(a) ==
    IF rawKey(a).form = "ref" THEN rawKey(a)
    ELSE IF rawKey(a) # NoText /\ resolveGCPKeyRingName(a) THEN rawKey(a)
    ELSE NoText

AskAbout(ref, calls, then)  == IF ref = NoText THEN Fail ELSE Ask(ref, calls, then)
AskKey(a, calls, then)      == AskAbout(resolveGCPCryptoKeyName(a), calls, then)
AskVersion(a, calls, then)  == AskAbout(resolveGCPCryptoKeyVersionName(a), calls, then)
AskLookup(a, calls, then)   == AskAbout(resolveGCPKeyLookupNames(a), calls, then)

looksLikeGCPKMSKeyReference(a) ==
    IF a.key = NoText THEN a.configured # NoText ELSE a.key.form = "ref"

\* The version meant: the one named, else the primary one, else the first.
gcpPublicVersionName(named, primary) ==
    IF named # 0 THEN named ELSE IF primary # 0 THEN primary ELSE 1

\* The bytes authenticated: as for Azure.
gcpAuthenticatedData(uid, add) ==
    IF uid = "" THEN BytesFromOptionalString(add)
    ELSE IF add = "nil" THEN <<uid>>
    ELSE <<uid, "\\0">> \o BytesFromOptionalString(add)

gcpKEMAlgorithmName(size) == size \in {768, 1024}

fetchGCPPublicKey    == Lookup("GetPublicKey")
fetchGCPKEMPublicKey == Needs(Lookup("GetPublicKey"), {"ecdh"})

\* A bug: every reference is the name of the key.
gcpKeyDataFromCryptoKeyName(t) ==
    KeyData([t EXCEPT !.form = "id", !.ver = 0], [t EXCEPT !.form = "ref", !.ver = 0],
            IF t.alg \in {"rsa", "ed25519"} THEN [t EXCEPT !.form = "pkix"] ELSE NoText)

\* Key data: an asymmetric key's reference is that of the version whose public half is given.
gcpKeyDataFromCryptoKey(t) ==
    KeyData([t EXCEPT !.form = "id", !.ver = 0],
            IF t.alg \in Asymmetric THEN [t EXCEPT !.form = "ref"] ELSE [t EXCEPT !.form = "ref", !.ver = 0],
            CASE t.alg = "ecdh" -> [t EXCEPT !.form = "kem"]
              [] t.alg \in {"rsa", "ed25519"} -> [t EXCEPT !.form = "pkix"]
              [] OTHER -> NoText)

gcpRSADecryptAlgorithm(s) == s \in RSASizes
gcpKEMAlgorithm(s)        == IF s = 256 THEN 768 ELSE IF s \in {384, 521} THEN 1024 ELSE 0

----------------------------------------------------------------------------
GenerateSymetrycKeys(a) ==
    IF a.size = Key256Bits /\ resolveGCPKeyRingName(a)
    THEN Ask(NoText, <<Create("aes", a.size, {"encrypt"})>>, "data")
    ELSE Fail

\* Only a symmetric key has a primary version from the start: for a pair,
\* ensureGCPVersion makes another version and gives that one to the caller.
ensureGCPVersion == OnlyFor(Lookup("CreateCryptoKeyVersion"), Asymmetric)

GeneratePair(a, sized, alg, size, uses) ==
    IF sized /\ resolveGCPKeyRingName(a)
    THEN Ask(NoText, <<Create(alg, size, uses), ensureGCPVersion, fetchGCPPublicKey>>, "data")
    ELSE Fail

GenerateECDHCurveKeys(a) ==
    GeneratePair(a, gcpKEMAlgorithm(a.size) # 0, "ecdh", gcpKEMAlgorithm(a.size), {"derive"})
GenerateRSAKeys(a)   == GeneratePair(a, gcpRSADecryptAlgorithm(a.size), "rsa", a.size, {"encrypt"})
GenerateEd255Keys(a) == GeneratePair(a, TRUE, "ed25519", 0, {"sign"})

\* A bug: the new version is not made the primary one.
RotateKeyWithoutPrimary(a) ==
    AskLookup(a, <<Lookup("GetCryptoKey"), Lookup("CreateCryptoKeyVersion"),
                   OnlyFor(fetchGCPPublicKey, Asymmetric)>>, "data")

\* A new version; a symmetric key's primary version is then moved to it.
RotateKey(a) ==
    AskLookup(a, <<Lookup("GetCryptoKey"), Lookup("CreateCryptoKeyVersion"),
                   OnlyFor(Lookup("UpdatePrimary"), {"aes"}),
                   OnlyFor(fetchGCPPublicKey, Asymmetric)>>, "data")

GetKey(a) == AskLookup(a, <<Lookup("GetCryptoKey"), OnlyFor(fetchGCPPublicKey, Asymmetric)>>, "data")
DeactivateKey(a) == AskLookup(a, <<Lookup("GetCryptoKey"), Lookup("DisableKey")>>, "none")

EncryptAES(a) ==
    IF IsLocalAESKey(a.key)
    THEN Local!EncryptAES(a)
    ELSE AskKey(a, <<Call("Encrypt", "aes", gcpAuthenticatedData(a.uid, a.add))>>, "value")

DecryptAES(a) ==
    IF IsLocalAESKey(a.key)
    THEN Local!DecryptAES(a)
    ELSE AskKey(a, <<Call("Decrypt", "aes", gcpAuthenticatedData(a.uid, a.add))>>, "value")

HMAC(a) ==
    IF ~looksLikeGCPKMSKeyReference(a) THEN Local!HMAC(a)
    ELSE IF resolveGCPCryptoKeyVersionName(a) = NoText THEN Give(NoDigest)
    ELSE AskVersion(a, <<Plain("Mac", "mac")>>, "digest")
Sha256Hex(a) == Local!Sha256Hex(a)
Blake3(a)    == Local!Blake3(a)

\* Encapsulation under a KEM key; the algorithm's name is the additional data.
encodeGCPKEMPayload(a) ==
    IF a.key.form = "kem" /\ gcpKEMAlgorithmName(a.key.size)
    THEN Give(Sealed("ecdh", a.key, a.msg, <<a.key.size>>))
    ELSE Fail

ECDH_Encode(a) ==
    IF parseECDHPublicKey(a.key) THEN Local!ECDH_Encode(a)
    ELSE IF encodeGCPKEMPayload(a) # Fail THEN encodeGCPKEMPayload(a)
    ELSE AskVersion(a, <<fetchGCPKEMPublicKey>>, "local")

ECDH_Decode(a) ==
    IF parseECDHPrivateKey(a.key) THEN Local!ECDH_Decode(a)
    ELSE IF DecodeECCCipherPayload(a.art) THEN AskVersion(a, <<Plain("Derive", "ecdh")>>, "open")
    ELSE Fail

\* Sealing and verifying fetch the public half and go on locally.
RSA_OAEP_Encode(a) ==
    IF ParseRSAPublicKeyFromBase64(a.key)
    THEN Local!RSA_OAEP_Encode(a)
    ELSE AskVersion(a, <<fetchGCPPublicKey>>, "local")

RSA_OAEP_Decode(a) ==
    IF ParseRSAPrivateKeyFromBase64(a.key)
    THEN Local!RSA_OAEP_Decode(a)
    ELSE AskVersion(a, <<Plain("Decrypt", "oaep")>>, "value")

SignEd25519(a) ==
    IF ParseEd25519PrivateKeyFromBase64(a.key)
    THEN Local!SignEd25519(a)
    ELSE AskVersion(a, <<Plain("Sign", "ed25519")>>, "value")

VerifyEd25519(a) ==
    IF ParseEd25519PublicKeyFromBase64(a.key)
    THEN Local!VerifyEd25519(a)
    ELSE AskVersion(a, <<fetchGCPPublicKey>>, "local")

SignRSAPSS(a) ==
    IF ParseRSAPrivateKeyFromBase64(a.key)
    THEN Local!SignRSAPSS(a)
    ELSE AskVersion(a, <<Plain("Sign", "pss")>>, "value")

VerifyRSAPSS(a) ==
    IF ParseRSAPublicKeyFromBase64(a.key)
    THEN Local!VerifyRSAPSS(a)
    ELSE AskVersion(a, <<fetchGCPPublicKey>>, "local")

Sign_RSA_PKCS1v15_SHA256(a) ==
    IF a.key # NoText /\ ~looksLikeGCPKMSKeyReference(a)
    THEN Local!Sign_RSA_PKCS1v15_SHA256(a)
    ELSE AskVersion(a, <<Plain("Sign", "pkcs1v15")>>, "value")

Verify_RSA_PKCS1v15_SHA256(a) ==
    IF a.key # NoText /\ ~looksLikeGCPKMSKeyReference(a)
    THEN Local!Verify_RSA_PKCS1v15_SHA256(a)
    ELSE AskVersion(a, <<fetchGCPPublicKey>>, "local")

\* The methods by name.
Method(op, a) ==
    CASE op = "GenerateSymetrycKeys" -> GenerateSymetrycKeys(a)
      [] op = "GenerateECDHCurveKeys" -> GenerateECDHCurveKeys(a)
      [] op = "GenerateRSAKeys" -> GenerateRSAKeys(a)
      [] op = "GenerateEd255Keys" -> GenerateEd255Keys(a)
      [] op = "RotateKey" -> RotateKey(a)
      [] op = "GetKey" -> GetKey(a)
      [] op = "DeactivateKey" -> DeactivateKey(a)
      [] op = "EncryptAES" -> EncryptAES(a)
      [] op = "DecryptAES" -> DecryptAES(a)
      [] op = "HMAC" -> HMAC(a)
      [] op = "Sha256Hex" -> Sha256Hex(a)
      [] op = "Blake3" -> Blake3(a)
      [] op = "ECDH_Encode" -> ECDH_Encode(a)
      [] op = "ECDH_Decode" -> ECDH_Decode(a)
      [] op = "RSA_OAEP_Encode" -> RSA_OAEP_Encode(a)
      [] op = "RSA_OAEP_Decode" -> RSA_OAEP_Decode(a)
      [] op = "SignEd25519" -> SignEd25519(a)
      [] op = "VerifyEd25519" -> VerifyEd25519(a)
      [] op = "SignRSAPSS" -> SignRSAPSS(a)
      [] op = "VerifyRSAPSS" -> VerifyRSAPSS(a)
      [] op = "Sign_RSA_PKCS1v15_SHA256" -> Sign_RSA_PKCS1v15_SHA256(a)
      [] op = "Verify_RSA_PKCS1v15_SHA256" -> Verify_RSA_PKCS1v15_SHA256(a)
=============================================================================
