--------------------------- MODULE AzureKeyVault ---------------------------
(***************************************************************************)
(* src/encrypt/azure-key-vault/repository.go: one definition per method,   *)
(* as a plan (see KeyMaterial).  References name a version of a key;       *)
(* only the methods of the key's life also take its bare name.  vault says *)
(* whether the vault's URL is configured.                                  *)
(***************************************************************************)
EXTENDS KeyMaterial

Local == INSTANCE LocalKeys

\* The reference named or else configured; a text that is no URL of a key is refused.
resolveAzureKeyReference(a) ==
    LET rawKey == IF a.key # NoText THEN a.key ELSE a.configured
    IN  IF rawKey.form = "ref" THEN rawKey ELSE NoText

resolveAzureVaultURL(a) == a.vault \/ a.configured.form = "ref"

\* A bug: keys are looked up by URL only.
resolveAzureKeyLookupReferenceByURL(a) == resolveAzureKeyReference(a)

\* Any other text is taken for the name of a key in the configured vault.
resolveAzureKeyLookupReference(a) ==
    IF a.key = NoText \/ a.key.form = "ref" THEN resolveAzureKeyReference(a)
    ELSE IF resolveAzureVaultURL(a) THEN a.key
    ELSE NoText

AskAbout(ref, calls, then) == IF ref = NoText THEN Fail ELSE Ask(ref, calls, then)
AskKey(a, calls, then)     == AskAbout(resolveAzureKeyReference(a), calls, then)
AskLookup(a, calls, then)  == AskAbout(resolveAzureKeyLookupReference(a), calls, then)

looksLikeAzureKeyReference(a) ==
    IF a.key = NoText THEN a.configured # NoText ELSE a.key.form = "ref"

\* The bytes authenticated: additional data alone, the identifier alone, or
\* both with a zero byte between them.
azureAuthenticatedData(uid, add) ==
    IF uid = "" THEN BytesFromOptionalString(add)
    ELSE IF add = "nil" THEN <<uid>>
    ELSE <<uid, "\\0">> \o BytesFromOptionalString(add)

azureBundleHasRSAKey(t) == t.alg = "rsa"
azureBundleHasECKey(t)  == t.alg = "ecdh"

\* Key data from a bundle: the bare name, the URL of the version, the public half.
azureKeyDataFromBundle(t) ==
    KeyData([t EXCEPT !.form = "id", !.ver = 0], [t EXCEPT !.form = "ref"],
            IF azureBundleHasRSAKey(t) \/ azureBundleHasECKey(t) THEN [t EXCEPT !.form = "pkix"] ELSE NoText)

azureRSAKeySize(s)    == s \in RSASizes
azureECDHCurveName(s) == s \in Curves

----------------------------------------------------------------------------
\* The answer to a creation holds the public half.
CreateIn(a, sized, alg, uses) ==
    IF sized /\ resolveAzureVaultURL(a) THEN Ask(NoText, <<Create(alg, a.size, uses)>>, "data") ELSE Fail

GenerateSymetrycKeys(a)  == CreateIn(a, a.size = Key256Bits, "aes", {"encrypt"})
GenerateECDHCurveKeys(a) == CreateIn(a, azureECDHCurveName(a.size), "ecdh", {"derive"})
GenerateRSAKeys(a)       == CreateIn(a, azureRSAKeySize(a.size), "rsa", {"encrypt", "sign"})
GenerateEd255Keys(a)     == Fail

\* The version that the rotation made is fetched by its own reference.
RotateKey(a) == AskLookup(a, <<Lookup("RotateKey"), Lookup("GetKey")>>, "data")
GetKey(a)    == AskLookup(a, <<Lookup("GetKey")>>, "data")

\* A bug: the latest version is disabled, whichever was named.
DeactivateKeyLatest(a) ==
    LET ref == resolveAzureKeyLookupReference(a)
    IN  IF ref = NoText THEN Fail
        ELSE Ask([ref EXCEPT !.ver = 0], <<Lookup("GetKey"), Lookup("DisableKey")>>, "none")

\* Without a version, the latest is looked up first, and that one is disabled.
DeactivateKey(a) ==
    AskLookup(a, (IF resolveAzureKeyLookupReference(a).ver = 0 THEN <<Lookup("GetKey")>> ELSE <<>>)
                 \o <<Lookup("DisableKey")>>, "none")

EncryptAES(a) ==
    IF IsLocalAESKey(a.key)
    THEN Local!EncryptAES(a)
    ELSE AskKey(a, <<Call("Encrypt", "aes", azureAuthenticatedData(a.uid, a.add))>>, "value")

\* The payload is a JSON object of this provider.
DecryptAES(a) ==
    IF IsLocalAESKey(a.key) THEN Local!DecryptAES(a)
    ELSE IF a.art.kind = "aes" THEN AskKey(a, <<Call("Decrypt", "aes", azureAuthenticatedData(a.uid, a.add))>>, "value")
    ELSE Fail

HMAC(a) ==
    IF ~looksLikeAzureKeyReference(a) THEN Local!HMAC(a)
    ELSE IF resolveAzureKeyReference(a) = NoText THEN Give(NoDigest)
    ELSE AskKey(a, <<Plain("Mac", "mac")>>, "digest")
Sha256Hex(a) == Local!Sha256Hex(a)
Blake3(a)    == Local!Blake3(a)

ECDH_Encode(a) ==
    IF parseECDHPublicKey(a.key)
    THEN Local!ECDH_Encode(a)
    ELSE AskKey(a, <<Needs(Lookup("GetKey"), {"ecdh"})>>, "local")

\* The ephemeral key is sent on as a JSON web key, with a curve this provider knows.
azureECJWKFromPublicKeyDER(art) == art.size \in Curves

ECDH_Decode(a) ==
    IF parseECDHPrivateKey(a.key) THEN Local!ECDH_Decode(a)
    ELSE IF DecodeECCCipherPayload(a.art) /\ azureECJWKFromPublicKeyDER(a.art)
         THEN AskKey(a, <<Plain("Derive", "ecdh")>>, "open")
    ELSE Fail

RSA_OAEP_Encode(a) ==
    IF ParseRSAPublicKeyFromBase64(a.key)
    THEN Local!RSA_OAEP_Encode(a)
    ELSE AskKey(a, <<Plain("Encrypt", "oaep")>>, "value")

RSA_OAEP_Decode(a) ==
    IF ParseRSAPrivateKeyFromBase64(a.key)
    THEN Local!RSA_OAEP_Decode(a)
    ELSE AskKey(a, <<Plain("Decrypt", "oaep")>>, "value")

\* Ed25519 is served only for key material.
SignEd25519(a)   == IF ParseEd25519PrivateKeyFromBase64(a.key) THEN Local!SignEd25519(a) ELSE Fail
VerifyEd25519(a) == IF ParseEd25519PublicKeyFromBase64(a.key) THEN Local!VerifyEd25519(a) ELSE Fail

SignRSAPSS(a) ==
    IF ParseRSAPrivateKeyFromBase64(a.key)
    THEN Local!SignRSAPSS(a)
    ELSE AskKey(a, <<Plain("Sign", "pss")>>, "value")

VerifyRSAPSS(a) ==
    IF ParseRSAPublicKeyFromBase64(a.key)
    THEN Local!VerifyRSAPSS(a)
    ELSE AskKey(a, <<Plain("Verify", "pss")>>, "value")

Sign_RSA_PKCS1v15_SHA256(a) ==
    IF a.key # NoText /\ ~looksLikeAzureKeyReference(a)
    THEN Local!Sign_RSA_PKCS1v15_SHA256(a)
    ELSE AskKey(a, <<Plain("Sign", "pkcs1v15")>>, "value")

Verify_RSA_PKCS1v15_SHA256(a) ==
    IF a.key # NoText /\ ~looksLikeAzureKeyReference(a)
    THEN Local!Verify_RSA_PKCS1v15_SHA256(a)
    ELSE AskKey(a, <<Plain("Verify", "pkcs1v15")>>, "value")

\* The methods by name.
Method(op, a) ==
    CASE op = "GenerateSymetrycKeys" -> GenerateSymetrycKeys(a)
      [] op = "GenerateECDHCurveKeys" -> GenerateECDHCurveKeys(a)
      [] op = "GenerateRSAKeys" -> GenerateRSAKeys(a)
      [] op = "GenerateEd255Keys" -> GenerateEd255Keys(a)
      [] op = "RotateKey" -> RotateKey(a)
      [] op = "GetKey" -> GetKey(a)
      [] op = "DeactivateKey" -> DeactivateKey(a)
      [] op = "EncryptAES" -> EncryptAES(a)
      [] op = "DecryptAES" -> DecryptAES(a)
      [] op = "HMAC" -> HMAC(a)
      [] op = "Sha256Hex" -> Sha256Hex(a)
      [] op = "Blake3" -> Blake3(a)
      [] op = "ECDH_Encode" -> ECDH_Encode(a)
      [] op = "ECDH_Decode" -> ECDH_Decode(a)
      [] op = "RSA_OAEP_Encode" -> RSA_OAEP_Encode(a)
      [] op = "RSA_OAEP_Decode" -> RSA_OAEP_Decode(a)
      [] op = "SignEd25519" -> SignEd25519(a)
      [] op = "VerifyEd25519" -> VerifyEd25519(a)
      [] op = "SignRSAPSS" -> SignRSAPSS(a)
      [] op = "VerifyRSAPSS" -> VerifyRSAPSS(a)
      [] op = "Sign_RSA_PKCS1v15_SHA256" -> Sign_RSA_PKCS1v15_SHA256(a)
      [] op = "Verify_RSA_PKCS1v15_SHA256" -> Verify_RSA_PKCS1v15_SHA256(a)
=============================================================================
