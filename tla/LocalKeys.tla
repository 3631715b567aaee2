----------------------------- MODULE LocalKeys -----------------------------
(***************************************************************************)
(* src/encrypt/local/repository.go: the repository that works on key       *)
(* material itself.  Every other repository hands to it the keys that are  *)
(* material and not references.  An argument record a has the fields       *)
(*   key   the text of the key        art   the ciphertext or signature    *)
(*   msg   the message                add   the additional data            *)
(*   size  the size or curve asked    uid   the caller's identifier        *)
(* and new, the name of the material that a key generation would create.   *)
(***************************************************************************)
EXTENDS KeyMaterial

\* The context is tested first; once the work is under way, its end and the
\* context's race in a select.
runWithContext(ctx, r) ==
    CASE ctx = "live" -> {r}
      [] ctx = "done" -> {Fail}
      [] ctx = "ends" -> {r, Fail}

RotateKey(a)     == Fail
GetKey(a)        == Fail
DeactivateKey(a) == Fail

validateSymmetricKeySize(s)  == s \in {Key128Bits, Key256Bits}
validateAsymmetricKeySize(s) == s \in RSASizes

\* The key data of material: its private half is both identifier and reference.
Material(private, public) == Give(KeyData(private, private, public))

GenerateSymetrycKeys(a) ==
    IF validateSymmetricKeySize(a.size)
    THEN Material(Text("aes", "aes", a.new, 0, a.size), NoText)
    ELSE Fail

\* The pair is encoded in PKCS#1, unlike those of the other generators.
GenerateRSAKeys(a) ==
    IF validateAsymmetricKeySize(a.size)
    THEN Material(Text("pkcs1", "rsa", a.new, 0, a.size), Text("pkcs1pub", "rsa", a.new, 0, a.size))
    ELSE Fail

\* A bug: the private half is encoded as the bare EC key.
GenerateECDHCurveKeysSEC1(a) ==
    IF a.size \in Curves
    THEN Material(Text("sec1", "ecdh", a.new, 0, a.size), Text("point", "ecdh", a.new, 0, a.size))
    ELSE Fail

GenerateECDHCurveKeys(a) ==
    IF a.size \in Curves
    THEN Material(Text("pkcs8", "ecdh", a.new, 0, a.size), Text("pkix", "ecdh", a.new, 0, a.size))
    ELSE Fail

GenerateEd255Keys(a) ==
    Material(Text("pkcs8", "ed25519", a.new, 0, 0), Text("pkix", "ed25519", a.new, 0, 0))

----------------------------------------------------------------------------
encryptAES(t, m, add) ==
    IF IsLocalAESKey(t) THEN Give(Sealed("aes", t, m, BytesFromOptionalString(add))) ELSE Fail

decryptAES(t, art, add) ==
    IF /\ IsLocalAESKey(t)
       /\ art.kind = "aes"
       /\ art.key = t.key
       /\ art.bind = BytesFromOptionalString(add)
    THEN Give(Message(art.msg))
    ELSE Fail

EncryptAES(a) == encryptAES(a.key, a.msg, a.add)
DecryptAES(a) == decryptAES(a.key, a.art, a.add)

RSA_OAEP_Encode(a) ==
    IF ParseRSAPublicKeyFromBase64(a.key) THEN Give(Sealed("oaep", a.key, a.msg, <<>>)) ELSE Fail

\* The private half behind t opens what its public half sealed.
Opens(t, art) == art.key = t.key /\ art.ver = t.ver

RSA_OAEP_Decode(a) ==
    IF ParseRSAPrivateKeyFromBase64(a.key) /\ a.art.kind = "oaep" /\ Opens(a.key, a.art)
    THEN Give(Message(a.art.msg))
    ELSE Fail

\* The message is sealed with AES under the derived key, with the curve's name
\* as additional data.
ECDH_Encode(a) ==
    IF parseECDHPublicKey(a.key) /\ CurveNameFromECDH(a.key.size)
    THEN Give(Sealed("ecdh", a.key, a.msg, <<a.key.size>>))
    ELSE Fail

\* What all ECDH_Decode methods do once the shared secret of t is there: the
\* label of the payload enters both the derived key and the additional data.
OpenWithSecret(t, art) ==
    IF DeriveECCAESKey(t, art.bind) = DeriveECCAESKey([t EXCEPT !.key = art.key, !.ver = art.ver], art.bind)
    THEN Give(Message(art.msg))
    ELSE Fail

ECDH_Decode(a) ==
    IF /\ parseECDHPrivateKey(a.key)
       /\ DecodeECCCipherPayload(a.art)
       /\ CurveNameFromECDH(a.key.size)
       /\ a.art.bind = <<a.key.size>>
    THEN OpenWithSecret(a.key, a.art)
    ELSE Fail

----------------------------------------------------------------------------
\* The hash methods return an empty string where the others return an error.
HMAC(a)      == Give(Sealed("mac", a.key, a.msg, <<>>))
Sha256Hex(a) == Give(Digest(a.msg))
Blake3(a)    == Give(Digest(a.msg))

SignWith(kind, parses, a) == IF parses THEN Give(Sealed(kind, a.key, a.msg, <<>>)) ELSE Fail
VerifyWith(kind, parses, a) ==
    IF parses /\ a.art.kind = kind /\ Opens(a.key, a.art) /\ a.art.msg = a.msg
    THEN Give(Verified)
    ELSE Fail

SignEd25519(a)   == SignWith("ed25519", ParseEd25519PrivateKeyFromBase64(a.key), a)
VerifyEd25519(a) == VerifyWith("ed25519", ParseEd25519PublicKeyFromBase64(a.key), a)
SignRSAPSS(a)    == SignWith("pss", ParseRSAPrivateKeyFromBase64(a.key), a)
VerifyRSAPSS(a)  == VerifyWith("pss", ParseRSAPublicKeyFromBase64(a.key), a)
Sign_RSA_PKCS1v15_SHA256(a)   == SignWith("pkcs1v15", ParseRSAPrivateKeyFromBase64(a.key), a)
Verify_RSA_PKCS1v15_SHA256(a) == VerifyWith("pkcs1v15", ParseRSAPublicKeyFromBase64(a.key), a)

\* The methods by name.
Method(op, a) ==
    CASE op = "GenerateSymetrycKeys" -> GenerateSymetrycKeys(a)
      [] op = "GenerateECDHCurveKeys" -> GenerateECDHCurveKeys(a)
      [] op = "GenerateRSAKeys" -> GenerateRSAKeys(a)
      [] op = "GenerateEd255Keys" -> GenerateEd255Keys(a)
      [] op = "RotateKey" -> RotateKey(a)
      [] op = "GetKey" -> GetKey(a)
      [] op = "DeactivateKey" -> DeactivateKey(a)
      [] op = "EncryptAES" -> EncryptAES(a)
      [] op = "DecryptAES" -> DecryptAES(a)
      [] op = "HMAC" -> HMAC(a)
      [] op = "Sha256Hex" -> Sha256Hex(a)
      [] op = "Blake3" -> Blake3(a)
      [] op = "ECDH_Encode" -> ECDH_Encode(a)
      [] op = "ECDH_Decode" -> ECDH_Decode(a)
      [] op = "RSA_OAEP_Encode" -> RSA_OAEP_Encode(a)
      [] op = "RSA_OAEP_Decode" -> RSA_OAEP_Decode(a)
      [] op = "SignEd25519" -> SignEd25519(a)
      [] op = "VerifyEd25519" -> VerifyEd25519(a)
      [] op = "SignRSAPSS" -> SignRSAPSS(a)
      [] op = "VerifyRSAPSS" -> VerifyRSAPSS(a)
      [] op = "Sign_RSA_PKCS1v15_SHA256" -> Sign_RSA_PKCS1v15_SHA256(a)
      [] op = "Verify_RSA_PKCS1v15_SHA256" -> Verify_RSA_PKCS1v15_SHA256(a)
=============================================================================
