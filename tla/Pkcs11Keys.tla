----------------------------- MODULE Pkcs11Keys -----------------------------
(***************************************************************************)
(* src/encrypt/pkcs11/repository.go with keys.go, uri.go, attributes.go    *)
(* and mechanisms.go: one definition per method, as a plan (see            *)
(* KeyMaterial).  The session that every token operation borrows is that   *)
(* of SessionPool.  A mechanism that the token lacks has the effect of a   *)
(* refused first call; a signature refused for the form of its parameters  *)
(* and repeated with the other form is one call.  opts holds the options:  *)
(*   rotateDisablesPrev, deactivateDestroys, allowSecretExtraction         *)
(* and whether the token derives with HKDF (hkdf).                         *)
(***************************************************************************)
EXTENDS KeyMaterial

Local == INSTANCE LocalKeys

isKeyURI(t)    == t.form = "ref"
parseKeyURI(t) == IF isKeyURI(t) THEN t ELSE NoText

\* Only URIs name keys: the KeyID of key data is not one.
resolveKeyURI(a) == parseKeyURI(IF a.key # NoText THEN a.key ELSE a.configured)

AskKey(a, calls, then) == IF resolveKeyURI(a) = NoText THEN Fail ELSE Ask(resolveKeyURI(a), calls, then)

aesValueLen(s)      == s \in {Key128Bits, Key256Bits}
rsaModulusBits(s)   == s \in RSASizes
ecParamsForCurve(s) == s \in Curves

\* The public half: its object on the token or a certificate, or none.
fetchPublicKey == Lookup("GetPublicKey")

\* A description whose public half was not read has the form "bare".
keyDataFor(t) ==
    KeyData([t EXCEPT !.form = "id"], [t EXCEPT !.form = "ref"],
            IF t.alg \in Asymmetric /\ t.form # "bare" THEN [t EXCEPT !.form = "pkix"] ELSE NoText)

----------------------------------------------------------------------------
GenerateSymetrycKeys(a) ==
    IF aesValueLen(a.size) THEN Ask(NoText, <<Create("aes", a.size, {"encrypt"})>>, "data") ELSE Fail

GeneratePair(sized, alg, size, uses) ==
    IF sized THEN Ask(NoText, <<Create(alg, size, uses), fetchPublicKey>>, "data") ELSE Fail

GenerateRSAKeys(a)       == GeneratePair(rsaModulusBits(a.size), "rsa", a.size, {"encrypt", "sign"})
GenerateECDHCurveKeys(a) == GeneratePair(ecParamsForCurve(a.size), "ecdh", a.size, {"derive"})
GenerateEd255Keys(a)     == GeneratePair(TRUE, "ed25519", 0, {"sign"})

\* The sizes of a replacement: the key's own, or the default when the token does
\* not show CKA_VALUE_LEN of an AES key, or CKA_MODULUS_BITS of a private RSA key.
generateReplacement(t) ==
    CASE t.alg = "aes" -> {t.size, Key256Bits}
      [] t.alg = "rsa" -> {t.size, 2048}
      [] OTHER -> {t.size}

\* What a replacement of each kind may be used for.
replacementUses(alg) ==
    CASE alg = "aes" -> {"encrypt"}
      [] alg = "rsa" -> {"encrypt", "sign"}
      [] alg = "ecdh" -> {"derive"}
      [] OTHER -> {"sign"}

disableObject == Lookup("DisableKey")

\* A bug: the old key is disabled before the new one is there.
RotateKeyDisablingFirst(a) ==
    AskKey(a, <<Needs(Lookup("GetAttributes"), {"aes"} \cup Asymmetric)>>
              \o (IF a.opts.rotateDisablesPrev THEN <<Lookup("DisablePrevious")>> ELSE <<>>)
              \o <<Lookup("CreateReplacement"), OnlyFor(fetchPublicKey, Asymmetric)>>, "data")

\* A new key of the same kind; the old one is disabled only on request, last.
RotateKey(a) ==
    AskKey(a, <<Needs(Lookup("GetAttributes"), {"aes"} \cup Asymmetric), Lookup("CreateReplacement"),
                OnlyFor(fetchPublicKey, Asymmetric)>>
              \o IF a.opts.rotateDisablesPrev THEN <<Lookup("DisablePrevious")>> ELSE <<>>, "data")

\* The public half is optional: a failure to read it is no error.
GetKey(a) == AskKey(a, <<Lookup("GetAttributes"), Otherwise(fetchPublicKey, "skip")>>, "data")

DeactivateKey(a) ==
    AskKey(a, <<IF a.opts.deactivateDestroys THEN Otherwise(disableObject, "DestroyObject") ELSE disableObject>>, "none")

\* The identifier of the caller is not authenticated: the format is the local one.
EncryptAES(a) ==
    IF IsLocalAESKey(a.key)
    THEN Local!EncryptAES(a)
    ELSE AskKey(a, <<Call("Encrypt", "aes", BytesFromOptionalString(a.add))>>, "value")

DecryptAES(a) ==
    IF IsLocalAESKey(a.key)
    THEN Local!DecryptAES(a)
    ELSE AskKey(a, <<Call("Decrypt", "aes", BytesFromOptionalString(a.add))>>, "value")

HMAC(a) ==
    IF isKeyURI(a.key) THEN AskKey(a, <<Plain("Mac", "mac")>>, "digest") ELSE Local!HMAC(a)
Sha256Hex(a) == Local!Sha256Hex(a)
Blake3(a)    == Local!Blake3(a)

\* The ephemeral key of a payload, as the bare point that the token wants.
ecdhPeerPoint(art) == art.size \in Curves

ECDH_Encode(a) ==
    IF parseECDHPublicKey(a.key) THEN Local!ECDH_Encode(a) ELSE AskKey(a, <<fetchPublicKey>>, "local")

\* The derivation stays in the token (decryptECDHInHardware) where it can;
\* the shared secret is read out (deriveExtractableSecret) where it may.
ecdhCalls(opts) ==
    IF opts.hkdf
    THEN IF opts.allowSecretExtraction
         THEN <<Otherwise(Plain("DecryptInHardware", "ecdh"), "Derive")>>
         ELSE <<Plain("DecryptInHardware", "ecdh")>>
    ELSE IF opts.allowSecretExtraction THEN <<Plain("Derive", "ecdh")>> ELSE <<>>

ECDH_Decode(a) ==
    IF parseECDHPrivateKey(a.key) THEN Local!ECDH_Decode(a)
    ELSE IF DecodeECCCipherPayload(a.art) /\ ecdhPeerPoint(a.art) /\ ecdhCalls(a.opts) # <<>>
         THEN AskKey(a, ecdhCalls(a.opts), "open")
    ELSE Fail

RSA_OAEP_Encode(a) ==
    IF ParseRSAPublicKeyFromBase64(a.key) THEN Local!RSA_OAEP_Encode(a) ELSE AskKey(a, <<fetchPublicKey>>, "local")

RSA_OAEP_Decode(a) ==
    IF ParseRSAPrivateKeyFromBase64(a.key)
    THEN Local!RSA_OAEP_Decode(a)
    ELSE AskKey(a, <<Plain("Decrypt", "oaep")>>, "value")

\* The token signs; verification fetches the public half and goes on locally.
signWithToken(a, kind)  == AskKey(a, <<Plain("Sign", kind)>>, "value")
fetchVerificationKey(a) == AskKey(a, <<fetchPublicKey>>, "local")

SignEd25519(a) ==
    IF ParseEd25519PrivateKeyFromBase64(a.key) THEN Local!SignEd25519(a) ELSE signWithToken(a, "ed25519")
VerifyEd25519(a) ==
    IF ParseEd25519PublicKeyFromBase64(a.key) THEN Local!VerifyEd25519(a) ELSE fetchVerificationKey(a)
SignRSAPSS(a) ==
    IF ParseRSAPrivateKeyFromBase64(a.key) THEN Local!SignRSAPSS(a) ELSE signWithToken(a, "pss")
VerifyRSAPSS(a) ==
    IF ParseRSAPublicKeyFromBase64(a.key) THEN Local!VerifyRSAPSS(a) ELSE fetchVerificationKey(a)
Sign_RSA_PKCS1v15_SHA256(a) ==
    IF a.key # NoText /\ ~isKeyURI(a.key) THEN Local!Sign_RSA_PKCS1v15_SHA256(a) ELSE signWithToken(a, "pkcs1v15")
Verify_RSA_PKCS1v15_SHA256(a) ==
    IF a.key # NoText /\ ~isKeyURI(a.key) THEN Local!Verify_RSA_PKCS1v15_SHA256(a) ELSE fetchVerificationKey(a)

\* The methods by name.
Method(op, a) ==
    CASE op = "GenerateSymetrycKeys" -> GenerateSymetrycKeys(a)
      [] op = "GenerateECDHCurveKeys" -> GenerateECDHCurveKeys(a)
      [] op = "GenerateRSAKeys" -> GenerateRSAKeys(a)
      [] op = "GenerateEd255Keys" -> GenerateEd255Keys(a)
      [] op = "RotateKey" -> RotateKey(a)
      [] op = "GetKey" -> GetKey(a)
      [] op = "DeactivateKey" -> DeactivateKey(a)
      [] op = "EncryptAES" -> EncryptAES(a)
      [] op = "DecryptAES" -> DecryptAES(a)
      [] op = "HMAC" -> HMAC(a)
      [] op = "Sha256Hex" -> Sha256Hex(a)
      [] op = "Blake3" -> Blake3(a)
      [] op = "ECDH_Encode" -> ECDH_Encode(a)
      [] op = "ECDH_Decode" -> ECDH_Decode(a)
      [] op = "RSA_OAEP_Encode" -> RSA_OAEP_Encode(a)
      [] op = "RSA_OAEP_Decode" -> RSA_OAEP_Decode(a)
      [] op = "SignEd25519" -> SignEd25519(a)
      [] op = "VerifyEd25519" -> VerifyEd25519(a)
      [] op = "SignRSAPSS" -> SignRSAPSS(a)
      [] op = "VerifyRSAPSS" -> VerifyRSAPSS(a)
      [] op = "Sign_RSA_PKCS1v15_SHA256" -> Sign_RSA_PKCS1v15_SHA256(a)
      [] op = "Verify_RSA_PKCS1v15_SHA256" -> Verify_RSA_PKCS1v15_SHA256(a)
=============================================================================
