------------------------------- MODULE AwsKms -------------------------------
(***************************************************************************)
(* src/encrypt/aws-kms/repository.go: one definition per method, as a plan *)
(* (see KeyMaterial).  A failure to load the configuration, which comes    *)
(* before the first call, has the effect of a fault of that call.  The     *)
(* argument record has, besides the fields of LocalKeys, configured: the   *)
(* key of the configuration, NoText if none is set.                        *)
(***************************************************************************)
EXTENDS KeyMaterial

Local == INSTANCE LocalKeys

\* The key named, or else the configured one.
resolveAWSKMSKeyID(a) == IF a.key # NoText THEN a.key ELSE a.configured

AskKey(a, calls, then) ==
    IF resolveAWSKMSKeyID(a) = NoText THEN Fail ELSE Ask(resolveAWSKMSKeyID(a), calls, then)

looksLikeAWSKMSKeyReference(a) ==
    IF a.key = NoText THEN a.configured # NoText ELSE a.key.form \in {"ref", "id"}

\* A bug: the context holds the caller's identifier only.
awsKMSEncryptionContextOfUID(uid, add) == IF uid = "" THEN {} ELSE {<<"uid", uid>>}

\* The encryption context: a map with an entry for each of the two that is there.
awsKMSEncryptionContext(uid, add) ==
    (IF uid = "" THEN {} ELSE {<<"uid", uid>>}) \cup (IF add = "nil" THEN {} ELSE {<<"additional", add>>})

awsKeySpecHasPublicKey == Asymmetric

\* Key data from a description t: the identifier and the ARN name the key, not a version.
awsKeyDataFromMetadata(t) ==
    KeyData([t EXCEPT !.form = "id", !.ver = 0], [t EXCEPT !.form = "ref", !.ver = 0],
            IF t.alg \in awsKeySpecHasPublicKey THEN [t EXCEPT !.form = "pkix"] ELSE NoText)

awsKeyDataFromDescribe == <<Lookup("DescribeKey"), OnlyFor(Lookup("GetPublicKey"), awsKeySpecHasPublicKey)>>

toAWSSymmetricKeySpec(s) == s = Key256Bits
toAWSRSAKeySpec(s)       == s \in RSASizes
toAWSECCKeySpec(s)       == s \in Curves

----------------------------------------------------------------------------
GenerateSymetrycKeys(a) ==
    IF toAWSSymmetricKeySpec(a.size) THEN Ask(NoText, <<Create("aes", a.size, {"encrypt"})>>, "data") ELSE Fail

\* A pair is created and its public half fetched.
GeneratePair(alg, size, uses) == Ask(NoText, <<Create(alg, size, uses), Lookup("GetPublicKey")>>, "data")

GenerateECDHCurveKeys(a) == IF toAWSECCKeySpec(a.size) THEN GeneratePair("ecdh", a.size, {"derive"}) ELSE Fail
GenerateRSAKeys(a)       == IF toAWSRSAKeySpec(a.size) THEN GeneratePair("rsa", a.size, {"encrypt"}) ELSE Fail
GenerateEd255Keys(a)     == GeneratePair("ed25519", 0, {"sign"})

\* Only symmetric encryption keys are rotated.
RotateKey(a) ==
    AskKey(a, <<Needs(Lookup("DescribeKey"), {"aes"}), Lookup("RotateKey")>> \o awsKeyDataFromDescribe, "data")

GetKey(a)        == AskKey(a, awsKeyDataFromDescribe, "data")
DeactivateKey(a) == AskKey(a, <<Lookup("DisableKey")>>, "none")

EncryptAES(a) ==
    IF IsLocalAESKey(a.key)
    THEN Local!EncryptAES(a)
    ELSE AskKey(a, <<Call("Encrypt", "aes", awsKMSEncryptionContext(a.uid, a.add))>>, "value")

DecryptAES(a) ==
    IF IsLocalAESKey(a.key)
    THEN Local!DecryptAES(a)
    ELSE AskKey(a, <<Call("Decrypt", "aes", awsKMSEncryptionContext(a.uid, a.add))>>, "value")

HMAC(a) ==
    IF looksLikeAWSKMSKeyReference(a) THEN AskKey(a, <<Plain("Mac", "mac")>>, "digest") ELSE Local!HMAC(a)
Sha256Hex(a) == Local!Sha256Hex(a)
Blake3(a)    == Local!Blake3(a)

ECDH_Encode(a) ==
    IF parseECDHPublicKey(a.key) THEN Local!ECDH_Encode(a) ELSE AskKey(a, <<Lookup("GetPublicKey")>>, "local")

ECDH_Decode(a) ==
    IF parseECDHPrivateKey(a.key) THEN Local!ECDH_Decode(a)
    ELSE IF DecodeECCCipherPayload(a.art) THEN AskKey(a, <<Plain("Derive", "ecdh")>>, "open")
    ELSE Fail

RSA_OAEP_Encode(a) ==
    IF ParseRSAPublicKeyFromBase64(a.key)
    THEN Local!RSA_OAEP_Encode(a)
    ELSE AskKey(a, <<Plain("Encrypt", "oaep")>>, "value")

RSA_OAEP_Decode(a) ==
    IF ParseRSAPrivateKeyFromBase64(a.key)
    THEN Local!RSA_OAEP_Decode(a)
    ELSE AskKey(a, <<Plain("Decrypt", "oaep")>>, "value")

SignEd25519(a) ==
    IF ParseEd25519PrivateKeyFromBase64(a.key)
    THEN Local!SignEd25519(a)
    ELSE AskKey(a, <<Plain("Sign", "ed25519")>>, "value")

VerifyEd25519(a) ==
    IF ParseEd25519PublicKeyFromBase64(a.key)
    THEN Local!VerifyEd25519(a)
    ELSE AskKey(a, <<Plain("Verify", "ed25519")>>, "value")

SignRSAPSS(a) ==
    IF ParseRSAPrivateKeyFromBase64(a.key)
    THEN Local!SignRSAPSS(a)
    ELSE AskKey(a, <<Plain("Sign", "pss")>>, "value")

VerifyRSAPSS(a) ==
    IF ParseRSAPublicKeyFromBase64(a.key)
    THEN Local!VerifyRSAPSS(a)
    ELSE AskKey(a, <<Plain("Verify", "pss")>>, "value")

\* The PKCS#1 v1.5 methods ask whether the text is a reference, not whether it is a key.
Sign_RSA_PKCS1v15_SHA256(a) ==
    IF a.key # NoText /\ ~looksLikeAWSKMSKeyReference(a)
    THEN Local!Sign_RSA_PKCS1v15_SHA256(a)
    ELSE AskKey(a, <<Plain("Sign", "pkcs1v15")>>, "value")

Verify_RSA_PKCS1v15_SHA256(a) ==
    IF a.key # NoText /\ ~looksLikeAWSKMSKeyReference(a)
    THEN Local!Verify_RSA_PKCS1v15_SHA256(a)
    ELSE AskKey(a, <<Plain("Verify", "pkcs1v15")>>, "value")

\* The methods by name.
Method(op, a) ==
    CASE op = "GenerateSymetrycKeys" -> GenerateSymetrycKeys(a)
      [] op = "GenerateECDHCurveKeys" -> GenerateECDHCurveKeys(a)
      [] op = "GenerateRSAKeys" -> GenerateRSAKeys(a)
      [] op = "GenerateEd255Keys" -> GenerateEd255Keys(a)
      [] op = "RotateKey" -> RotateKey(a)
      [] op = "GetKey" -> GetKey(a)
      [] op = "DeactivateKey" -> DeactivateKey(a)
      [] op = "EncryptAES" -> EncryptAES(a)
      [] op = "DecryptAES" -> DecryptAES(a)
      [] op = "HMAC" -> HMAC(a)
      [] op = "Sha256Hex" -> Sha256Hex(a)
      [] op = "Blake3" -> Blake3(a)
      [] op = "ECDH_Encode" -> ECDH_Encode(a)
      [] op = "ECDH_Decode" -> ECDH_Decode(a)
      [] op = "RSA_OAEP_Encode" -> RSA_OAEP_Encode(a)
      [] op = "RSA_OAEP_Decode" -> RSA_OAEP_Decode(a)
      [] op = "SignEd25519" -> SignEd25519(a)
      [] op = "VerifyEd25519" -> VerifyEd25519(a)
      [] op = "SignRSAPSS" -> SignRSAPSS(a)
      [] op = "VerifyRSAPSS" -> VerifyRSAPSS(a)
      [] op = "Sign_RSA_PKCS1v15_SHA256" -> Sign_RSA_PKCS1v15_SHA256(a)
      [] op = "Verify_RSA_PKCS1v15_SHA256" -> Verify_RSA_PKCS1v15_SHA256(a)
=============================================================================
