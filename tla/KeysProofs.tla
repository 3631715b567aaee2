----------------------------- MODULE KeysProofs -----------------------------
(***************************************************************************)
(* Proofs about Keys, for every set of clients and names, every number of  *)
(* calls and every backend and family of keys.                             *)
(*                                                                         *)
(* The first part says, backend by backend, which plans the methods make.  *)
(***************************************************************************)
EXTENDS Keys, SequenceTheorems, TLAPS

IsText(t) == t = Text(t.form, t.alg, t.key, t.ver, t.size)

\* Arguments that name a key of a service: the caller has no key material.
Foreign(a) ==
    /\ IsText(a.key) /\ IsText(a.configured)
    /\ a.key = NoText \/ a.key.form \in {"ref", "id", "pkix", "kem"}
    /\ a.configured = NoText \/ a.configured.form = "ref"

\* The text that a method goes by, and the references that it may make of it.
Raw(a) == IF a.key # NoText THEN a.key ELSE a.configured
RefersTo(a, ref) ==
    /\ IsText(ref) /\ ref # NoText /\ Raw(a) # NoText
    /\ ref.form = Raw(a).form /\ ref.key = Raw(a).key /\ ref.ver \in {Raw(a).ver, 0}

\* The data that EncryptAES and DecryptAES authenticate.
Bind(uid, add) ==
    IF Backend = "aws" THEN Aws!awsKMSEncryptionContext(uid, add)
    ELSE IF Backend = "azure" THEN Azure!azureAuthenticatedData(uid, add)
    ELSE IF Backend = "gcp" THEN Gcp!gcpAuthenticatedData(uid, add)
    ELSE BytesFromOptionalString(add)

\* The methods by what they are for.
Using == {"HMAC", "Sha256Hex", "Blake3", "ECDH_Encode", "ECDH_Decode", "RSA_OAEP_Encode", "RSA_OAEP_Decode",
          "SignEd25519", "VerifyEd25519", "SignRSAPSS", "VerifyRSAPSS",
          "Sign_RSA_PKCS1v15_SHA256", "Verify_RSA_PKCS1v15_SHA256"}
Makes == [GenerateSymetrycKeys |-> "aes", GenerateRSAKeys |-> "rsa",
          GenerateECDHCurveKeys |-> "ecdh", GenerateEd255Keys |-> "ed25519"]

\* What a method may compute by itself: an answer that is neither key data nor
\* an artefact, or an artefact of the material it was called with.
Harmless(v) == (\E m : v = Message(m)) \/ v = Verified \/ (\E m : v = Digest(m))
Computed(a, v) ==
    \/ Harmless(v)
    \/ \E kind, bind : v = Sealed(kind, a.key, a.msg, bind) /\ kind # "aes" /\ a.key.form # "ref"

\* The one call of a method that uses a key.
UseCall(call) ==
    /\ call.do \in Computing \cup {"GetPublicKey", "GetKey"}
    /\ call.kind # "aes"
    /\ call.for = Algorithms
    /\ call.else \in {"fail", "Derive"}

Thens == {"value", "digest", "local", "open"}
UsePlan(a, r) ==
    \/ r = Fail
    \/ \E v : r = Give(v) /\ Computed(a, v)
    \/ \E ref, call, then :
          r = Ask(ref, <<call>>, then) /\ RefersTo(a, ref) /\ UseCall(call) /\ then \in Thens

SealPlan(a, r, do) ==
    \/ r = Fail
    \/ \E ref : /\ r = Ask(ref, <<Call(do, "aes", Bind(a.uid, a.add))>>, "value")
                /\ RefersTo(a, ref)
                /\ Backend = "gcp" => ref.ver = 0

MakePlan(alg, r) ==
    \/ r = Fail
    \/ \E size, uses :
          \/ r = Ask(NoText, <<Create(alg, size, uses)>>, "data")
          \/ r = Ask(NoText, <<Create(alg, size, uses), Lookup("GetPublicKey")>>, "data")
          \/ /\ Backend = "gcp"
             /\ r = Ask(NoText, <<Create(alg, size, uses), OnlyFor(Lookup("CreateCryptoKeyVersion"), Asymmetric),
                                  Lookup("GetPublicKey")>>, "data")

ManagePlan(a, r, calls_, then) ==
    \/ r = Fail
    \/ \E ref : r = Ask(ref, calls_, then) /\ RefersTo(a, ref) /\ ref.ver = Raw(a).ver

PublicHalf == OnlyFor(Lookup("GetPublicKey"), Asymmetric)

\* The calls of RotateKey, GetKey and DeactivateKey.
Rotation(a) ==
    IF Backend = "aws" THEN
        <<Needs(Lookup("DescribeKey"), {"aes"}), Lookup("RotateKey"), Lookup("DescribeKey"), PublicHalf>>
    ELSE IF Backend = "azure" THEN <<Lookup("RotateKey"), Lookup("GetKey")>>
    ELSE IF Backend = "gcp" THEN
        <<Lookup("GetCryptoKey"), Lookup("CreateCryptoKeyVersion"), OnlyFor(Lookup("UpdatePrimary"), {"aes"}), PublicHalf>>
    ELSE IF a.opts.rotateDisablesPrev THEN
        <<Needs(Lookup("GetAttributes"), {"aes"} \cup Asymmetric), Lookup("CreateReplacement"), PublicHalf,
          Lookup("DisablePrevious")>>
    ELSE <<Needs(Lookup("GetAttributes"), {"aes"} \cup Asymmetric), Lookup("CreateReplacement"), PublicHalf>>

Inspection ==
    IF Backend = "aws" THEN <<Lookup("DescribeKey"), PublicHalf>>
    ELSE IF Backend = "azure" THEN <<Lookup("GetKey")>>
    ELSE IF Backend = "gcp" THEN <<Lookup("GetCryptoKey"), PublicHalf>>
    ELSE <<Lookup("GetAttributes"), Otherwise(Lookup("GetPublicKey"), "skip")>>

Deactivation(a) ==
    IF Backend = "aws" THEN <<Lookup("DisableKey")>>
    ELSE IF Backend = "azure" THEN
        IF Raw(a).ver = 0 THEN <<Lookup("GetKey"), Lookup("DisableKey")>> ELSE <<Lookup("DisableKey")>>
    ELSE IF Backend = "gcp" THEN <<Lookup("GetCryptoKey"), Lookup("DisableKey")>>
    ELSE IF a.opts.deactivateDestroys THEN <<Otherwise(Lookup("DisableKey"), "DestroyObject")>>
    ELSE <<Lookup("DisableKey")>>

\* What a method of a service makes of its arguments.
Planned(op, a, r) ==
    /\ op \in Using => UsePlan(a, r)
    /\ op = "EncryptAES" => SealPlan(a, r, "Encrypt")
    /\ op = "DecryptAES" => SealPlan(a, r, "Decrypt")
    /\ op \in DOMAIN Makes => MakePlan(Makes[op], r)
    /\ op = "RotateKey" => ManagePlan(a, r, Rotation(a), "data")
    /\ op = "GetKey" => ManagePlan(a, r, Inspection, "data")
    /\ op = "DeactivateKey" => ManagePlan(a, r, Deactivation(a), "none")

----------------------------------------------------------------------------
\* The plans that end without a call to the service.
LEMMA ComputedPlans ==
  ASSUME NEW a, Foreign(a)
  PROVE  /\ UsePlan(a, Fail)
         /\ \A m : UsePlan(a, Give(Message(m))) /\ UsePlan(a, Give(Digest(m)))
         /\ UsePlan(a, Give(Verified)) /\ UsePlan(a, Give(NoDigest))
         /\ \A k, b : a.key.form # "ref" /\ k # "aes" => UsePlan(a, Give(Sealed(k, a.key, a.msg, b)))
<1>1. UsePlan(a, Fail) /\ \A v : Computed(a, v) => UsePlan(a, Give(v))
  BY Zenon DEF UsePlan
<1>2. /\ \A m : Computed(a, Message(m)) /\ Computed(a, Digest(m))
      /\ Computed(a, Verified) /\ Computed(a, NoDigest)
      /\ \A k, b : a.key.form # "ref" /\ k # "aes" => Computed(a, Sealed(k, a.key, a.msg, b))
  BY Zenon DEF Computed, Harmless, NoDigest, Digest
<1>. QED
  BY Zenon, <1>1, <1>2

\* No text of such arguments is the private half of a pair, or an AES key.
LEMMA ForeignForms ==
  ASSUME NEW a, Foreign(a)
  PROVE  /\ a.key.form # "pkcs8" /\ a.key.form # "aes"
         /\ a.key.form = "pkix" => a.key.form # "ref"
         /\ a.key.form = "kem" => a.key.form # "ref"
         /\ a.key = NoText => a.key.form # "ref"
         /\ "mac" # "aes" /\ "ecdh" # "aes" /\ "oaep" # "aes"
BY DEF Foreign, NoText, Text

\* Two sequences joined, from their elements.
LEMMA Joined ==
  ASSUME NEW S, NEW s \in Seq(S), NEW t \in Seq(S), NEW u \in Seq(S), Len(u) = Len(s) + Len(t),
         \A i \in 1..Len(u) : u[i] = IF i <= Len(s) THEN s[i] ELSE t[i - Len(s)]
  PROVE  s \o t = u
<1>1. /\ s \o t \in Seq(S) /\ Len(s \o t) = Len(s) + Len(t)
      /\ \A i \in 1..(Len(s)+Len(t)) : (s \o t)[i] = IF i <= Len(s) THEN s[i] ELSE t[i - Len(s)]
  BY ConcatProperties
<1>. QED
  BY <1>1, SeqEqual

\* The calls of a plan and those added to it, written out.
LEMMA TwoAndTwo ==
  ASSUME NEW w, NEW x, NEW y, NEW z
  PROVE  <<w, x>> \o <<y, z>> = <<w, x, y, z>>
<1>. DEFINE S == {w, x, y, z}
           s == <<w, x>>
           t == <<y, z>>
           u == <<w, x, y, z>>
<1>1. s \in Seq(S) /\ t \in Seq(S) /\ u \in Seq(S)
  OBVIOUS
<1>2. Len(u) = Len(s) + Len(t)
  OBVIOUS
<1>3. \A i \in 1..Len(u) : u[i] = IF i <= Len(s) THEN s[i] ELSE t[i - Len(s)]
  OBVIOUS
<1>4. s \o t = u
  <2>. HIDE DEF S, s, t, u
  <2>. QED
    BY Zenon, <1>1, <1>2, <1>3, Joined
<1>. QED
  BY <1>4

\* ... three and one,
LEMMA ThreeAndOne ==
  ASSUME NEW w, NEW x, NEW y, NEW z
  PROVE  <<w, x, y>> \o <<z>> = <<w, x, y, z>>
<1>. DEFINE S == {w, x, y, z}
           s == <<w, x, y>>
           t == <<z>>
           u == <<w, x, y, z>>
<1>1. s \in Seq(S) /\ t \in Seq(S) /\ u \in Seq(S)
  OBVIOUS
<1>2. Len(u) = Len(s) + Len(t)
  OBVIOUS
<1>3. \A i \in 1..Len(u) : u[i] = IF i <= Len(s) THEN s[i] ELSE t[i - Len(s)]
  OBVIOUS
<1>4. s \o t = u
  <2>. HIDE DEF S, s, t, u
  <2>. QED
    BY Zenon, <1>1, <1>2, <1>3, Joined
<1>. QED
  BY <1>4

\* ... one and one,
LEMMA OneAndOne ==
  ASSUME NEW y, NEW z
  PROVE  <<y>> \o <<z>> = <<y, z>>
<1>. DEFINE S == {y, z}
           s == <<y>>
           t == <<z>>
           u == <<y, z>>
<1>1. s \in Seq(S) /\ t \in Seq(S) /\ u \in Seq(S)
  OBVIOUS
<1>2. Len(u) = Len(s) + Len(t)
  OBVIOUS
<1>3. \A i \in 1..Len(u) : u[i] = IF i <= Len(s) THEN s[i] ELSE t[i - Len(s)]
  OBVIOUS
<1>4. s \o t = u
  <2>. HIDE DEF S, s, t, u
  <2>. QED
    BY Zenon, <1>1, <1>2, <1>3, Joined
<1>. QED
  BY <1>4

\* ... and none.
LEMMA AndNone ==
  ASSUME NEW x, NEW y, NEW z
  PROVE  <<x, y, z>> \o << >> = <<x, y, z>> /\ << >> \o <<z>> = <<z>>
<1>1. <<x, y, z>> \in Seq({x, y, z}) /\ <<z>> \in Seq({z})
  OBVIOUS
<1>. QED
  BY <1>1

\* AWS KMS: the vocabulary of the instances is that of Keys.
LEMMA AwsVocabulary ==
  /\ Aws!Fail = Fail /\ Aws!Local!Fail = Fail /\ Aws!NoText = NoText /\ Aws!NoDigest = NoDigest /\ Aws!Local!Verified = Verified
  /\ \A v : Aws!Give(v) = Give(v) /\ Aws!Local!Give(v) = Give(v)
  /\ \A m : Aws!Digest(m) = Digest(m) /\ Aws!Local!Digest(m) = Digest(m) /\ Aws!Local!Message(m) = Message(m)
  /\ \A k, t, m, b : Aws!Sealed(k, t, m, b) = Sealed(k, t, m, b) /\ Aws!Local!Sealed(k, t, m, b) = Sealed(k, t, m, b)
  /\ \A do, k, b : Aws!Call(do, k, b) = Call(do, k, b) /\ Aws!Plain(do, k) = Plain(do, k) /\ Aws!Lookup(do) = Lookup(do)
  /\ \A c, x : Aws!Needs(c, x) = Needs(c, x) /\ Aws!OnlyFor(c, x) = OnlyFor(c, x) /\ Aws!Otherwise(c, x) = Otherwise(c, x)
  /\ \A k, s, u : Aws!Create(k, s, u) = Create(k, s, u)
  /\ \A r, c, t : Aws!Ask(r, c, t) = Ask(r, c, t)
  /\ Aws!Asymmetric = Asymmetric
BY DEF Fail, Aws!Fail, Aws!Local!Fail, NoText, Aws!NoText, Text, Aws!Text, Give, Aws!Give, Aws!Local!Give, Digest, Aws!Digest,
    Aws!Local!Digest, Message, Aws!Local!Message, NoDigest, Aws!NoDigest, Verified, Aws!Local!Verified, Sealed, Aws!Sealed, Aws!Local!Sealed,
    Call, Aws!Call, Plain, Aws!Plain, Lookup, Aws!Lookup, Needs, Aws!Needs, OnlyFor, Aws!OnlyFor,
    Otherwise, Aws!Otherwise, Create, Aws!Create, Ask, Aws!Ask, Algorithms, Aws!Algorithms, Asymmetric, Aws!Asymmetric

\* AWS KMS: the methods that use a key.
LEMMA AwsUses ==
  ASSUME NEW a, Foreign(a)
  PROVE  /\ UsePlan(a, Aws!HMAC(a))
         /\ UsePlan(a, Aws!Sha256Hex(a))
         /\ UsePlan(a, Aws!Blake3(a))
         /\ UsePlan(a, Aws!ECDH_Encode(a))
         /\ UsePlan(a, Aws!ECDH_Decode(a))
         /\ UsePlan(a, Aws!RSA_OAEP_Encode(a))
         /\ UsePlan(a, Aws!RSA_OAEP_Decode(a))
         /\ UsePlan(a, Aws!SignEd25519(a))
         /\ UsePlan(a, Aws!VerifyEd25519(a))
         /\ UsePlan(a, Aws!SignRSAPSS(a))
         /\ UsePlan(a, Aws!VerifyRSAPSS(a))
         /\ UsePlan(a, Aws!Sign_RSA_PKCS1v15_SHA256(a))
         /\ UsePlan(a, Aws!Verify_RSA_PKCS1v15_SHA256(a))
<1>1. \A call, then : UseCall(call) /\ then \in Thens => UsePlan(a, Aws!AskKey(a, <<call>>, then))
  <2>. SUFFICES ASSUME NEW call, NEW then, UseCall(call), then \in Thens
               PROVE  UsePlan(a, Aws!AskKey(a, <<call>>, then))
    OBVIOUS
  <2>1. \/ Aws!AskKey(a, <<call>>, then) = Fail
        \/ \E ref : RefersTo(a, ref) /\ Aws!AskKey(a, <<call>>, then) = Ask(ref, <<call>>, then)
    BY AwsVocabulary DEF Foreign, IsText, RefersTo, Raw, NoText, Text,
      Aws!AskKey, Aws!resolveAWSKMSKeyID
  <2>. QED
    BY Zenon, <2>1 DEF UsePlan
<1>2. /\ \A kind : \A do \in Computing : kind # "aes" => UseCall(Plain(do, kind))
      /\ UseCall(Lookup("GetPublicKey")) /\ UseCall(Needs(Lookup("GetPublicKey"), {"ecdh"}))
      /\ UseCall(Needs(Lookup("GetKey"), {"ecdh"}))
      /\ UseCall(Otherwise(Plain("DecryptInHardware", "ecdh"), "Derive"))
  BY DEF UseCall, Computing, Plain, Lookup, Call, Needs, Otherwise
<1>3. /\ \A kind, parses : UsePlan(a, Aws!Local!VerifyWith(kind, parses, a))
      /\ \A t, art : UsePlan(a, Aws!Local!OpenWithSecret(t, art))
  BY Zenon, ComputedPlans, AwsVocabulary DEF Aws!Local!VerifyWith, Aws!Local!OpenWithSecret
<1>4. UsePlan(a, Aws!HMAC(a))
  BY Zenon, ComputedPlans, ForeignForms, AwsVocabulary, <1>1, <1>2, <1>3 DEF
      Aws!HMAC, Aws!Local!HMAC, Aws!looksLikeAWSKMSKeyReference, Computing, Thens
<1>5. UsePlan(a, Aws!Sha256Hex(a))
  BY Zenon, ComputedPlans, ForeignForms, AwsVocabulary, <1>1, <1>2, <1>3 DEF
      Aws!Sha256Hex, Aws!Local!Sha256Hex, Computing, Thens
<1>6. UsePlan(a, Aws!Blake3(a))
  BY Zenon, ComputedPlans, ForeignForms, AwsVocabulary, <1>1, <1>2, <1>3 DEF
      Aws!Blake3, Aws!Local!Blake3, Computing, Thens
<1>7. UsePlan(a, Aws!ECDH_Encode(a))
  BY Zenon, ComputedPlans, ForeignForms, AwsVocabulary, <1>1, <1>2, <1>3 DEF
      Aws!ECDH_Encode, Aws!Local!ECDH_Encode, Aws!parseECDHPublicKey, Aws!ParsePKIX,
      Aws!Local!parseECDHPublicKey, Aws!Local!ParsePKIX, Computing, Thens
<1>8. UsePlan(a, Aws!ECDH_Decode(a))
  BY Zenon, ComputedPlans, ForeignForms, AwsVocabulary, <1>1, <1>2, <1>3 DEF
      Aws!ECDH_Decode, Aws!Local!ECDH_Decode, Aws!parseECDHPrivateKey, Aws!ParsePKCS8,
      Aws!Local!parseECDHPrivateKey, Aws!Local!ParsePKCS8, Computing, Thens
<1>9. UsePlan(a, Aws!RSA_OAEP_Encode(a))
  BY Zenon, ComputedPlans, ForeignForms, AwsVocabulary, <1>1, <1>2, <1>3 DEF
      Aws!RSA_OAEP_Encode, Aws!Local!RSA_OAEP_Encode, Aws!ParseRSAPublicKeyFromBase64,
      Aws!ParsePKIX, Aws!Local!ParseRSAPublicKeyFromBase64, Aws!Local!ParsePKIX, Computing, Thens
<1>10. UsePlan(a, Aws!RSA_OAEP_Decode(a))
  BY Zenon, ComputedPlans, ForeignForms, AwsVocabulary, <1>1, <1>2, <1>3 DEF
      Aws!RSA_OAEP_Decode, Aws!Local!RSA_OAEP_Decode, Aws!ParseRSAPrivateKeyFromBase64,
      Aws!ParsePKCS8, Aws!Local!ParseRSAPrivateKeyFromBase64, Aws!Local!ParsePKCS8, Computing, Thens
<1>11. UsePlan(a, Aws!SignEd25519(a))
  BY Zenon, ComputedPlans, ForeignForms, AwsVocabulary, <1>1, <1>2, <1>3 DEF
      Aws!SignEd25519, Aws!Local!SignEd25519, Aws!ParseEd25519PrivateKeyFromBase64, Aws!ParsePKCS8,
      Aws!Local!ParseEd25519PrivateKeyFromBase64, Aws!Local!ParsePKCS8, Aws!Local!SignWith,
      Computing, Thens
<1>12. UsePlan(a, Aws!VerifyEd25519(a))
  BY Zenon, ComputedPlans, ForeignForms, AwsVocabulary, <1>1, <1>2, <1>3 DEF
      Aws!VerifyEd25519, Aws!Local!VerifyEd25519, Computing, Thens
<1>13. UsePlan(a, Aws!SignRSAPSS(a))
  BY Zenon, ComputedPlans, ForeignForms, AwsVocabulary, <1>1, <1>2, <1>3 DEF
      Aws!SignRSAPSS, Aws!Local!SignRSAPSS, Aws!ParseRSAPrivateKeyFromBase64, Aws!ParsePKCS8,
      Aws!Local!ParseRSAPrivateKeyFromBase64, Aws!Local!ParsePKCS8, Aws!Local!SignWith, Computing,
      Thens
<1>14. UsePlan(a, Aws!VerifyRSAPSS(a))
  BY Zenon, ComputedPlans, ForeignForms, AwsVocabulary, <1>1, <1>2, <1>3 DEF
      Aws!VerifyRSAPSS, Aws!Local!VerifyRSAPSS, Computing, Thens
<1>15. UsePlan(a, Aws!Sign_RSA_PKCS1v15_SHA256(a))
  BY Zenon, ComputedPlans, ForeignForms, AwsVocabulary, <1>1, <1>2, <1>3 DEF
      Aws!Sign_RSA_PKCS1v15_SHA256, Aws!Local!Sign_RSA_PKCS1v15_SHA256,
      Aws!ParseRSAPrivateKeyFromBase64, Aws!ParsePKCS8, Aws!Local!ParseRSAPrivateKeyFromBase64,
      Aws!Local!ParsePKCS8, Aws!Local!SignWith, Aws!looksLikeAWSKMSKeyReference, Computing, Thens
<1>16. UsePlan(a, Aws!Verify_RSA_PKCS1v15_SHA256(a))
  BY Zenon, ComputedPlans, ForeignForms, AwsVocabulary, <1>1, <1>2, <1>3 DEF
      Aws!Verify_RSA_PKCS1v15_SHA256, Aws!Local!Verify_RSA_PKCS1v15_SHA256,
      Aws!looksLikeAWSKMSKeyReference, Computing, Thens
<1>. QED
  BY <1>4, <1>5, <1>6, <1>7, <1>8, <1>9, <1>10, <1>11, <1>12, <1>13, <1>14, <1>15, <1>16

\* AWS KMS: the methods that seal and open.
LEMMA AwsSeals ==
  ASSUME NEW a, Foreign(a), Backend = "aws"
  PROVE  SealPlan(a, Aws!EncryptAES(a), "Encrypt") /\ SealPlan(a, Aws!DecryptAES(a), "Decrypt")
<1>1. \A do : SealPlan(a, Aws!AskKey(a, <<Call(do, "aes", Bind(a.uid, a.add))>>, "value"), do)
  <2>. SUFFICES ASSUME NEW do
               PROVE  SealPlan(a, Aws!AskKey(a, <<Call(do, "aes", Bind(a.uid, a.add))>>, "value"), do)
    OBVIOUS
  <2>. DEFINE calls_ == <<Call(do, "aes", Bind(a.uid, a.add))>>
             r == Aws!AskKey(a, calls_, "value")
  <2>. HIDE DEF calls_
  <2>1. \/ r = Fail
        \/ \E ref : r = Ask(ref, calls_, "value") /\ RefersTo(a, ref) /\ (Backend = "gcp" => ref.ver = 0)
    BY AwsVocabulary DEF Foreign, IsText, RefersTo, Raw, NoText, Text,
      Aws!AskKey, Aws!resolveAWSKMSKeyID
  <2>. QED
    BY Zenon, <2>1 DEF SealPlan, calls_
<1>2. Aws!awsKMSEncryptionContext(a.uid, a.add) = Bind(a.uid, a.add)
  BY DEF Bind
<1>3. \A do : SealPlan(a, Fail, do)
  BY Zenon DEF SealPlan
<1>. QED
  BY Zenon, ForeignForms, AwsVocabulary, <1>1, <1>2, <1>3 DEF Aws!EncryptAES, Aws!DecryptAES, Aws!IsLocalAESKey

\* AWS KMS: the methods that make keys.
LEMMA AwsMakes ==
  ASSUME NEW a, Backend = "aws"
  PROVE  /\ MakePlan("aes", Aws!GenerateSymetrycKeys(a)) /\ MakePlan("rsa", Aws!GenerateRSAKeys(a))
         /\ MakePlan("ecdh", Aws!GenerateECDHCurveKeys(a)) /\ MakePlan("ed25519", Aws!GenerateEd255Keys(a))
BY Zenon, AwsVocabulary DEF MakePlan,
    Aws!GenerateSymetrycKeys, Aws!GenerateRSAKeys, Aws!GenerateECDHCurveKeys, Aws!GenerateEd255Keys,
    Aws!GeneratePair

\* AWS KMS: the methods that manage keys.
LEMMA AwsManages ==
  ASSUME NEW a, Foreign(a), Backend = "aws"
  PROVE  /\ ManagePlan(a, Aws!RotateKey(a), Rotation(a), "data")
         /\ ManagePlan(a, Aws!GetKey(a), Inspection, "data")
         /\ ManagePlan(a, Aws!DeactivateKey(a), Deactivation(a), "none")
<1>1. \A calls_, then : ManagePlan(a, Aws!AskKey(a, calls_, then), calls_, then)
  <2>. SUFFICES ASSUME NEW calls_, NEW then
               PROVE  ManagePlan(a, Aws!AskKey(a, calls_, then), calls_, then)
    OBVIOUS
  <2>1. \/ Aws!AskKey(a, calls_, then) = Fail
        \/ \E ref : /\ Aws!AskKey(a, calls_, then) = Ask(ref, calls_, then)
                    /\ RefersTo(a, ref) /\ ref.ver = Raw(a).ver
    BY AwsVocabulary DEF Foreign, IsText, RefersTo, Raw, NoText, Text,
      Aws!AskKey, Aws!resolveAWSKMSKeyID
  <2>. QED
    BY Zenon, <2>1 DEF ManagePlan
<1>2. Aws!RotateKey(a) = Aws!AskKey(a, Rotation(a), "data")
  <2>. DEFINE w == Needs(Lookup("DescribeKey"), {"aes"})
             x == Lookup("RotateKey")
             y == Lookup("DescribeKey")
  <2>1. Aws!Needs(Aws!Lookup("DescribeKey"), {"aes"}) = w /\ Aws!Lookup("RotateKey") = x
    BY Zenon, AwsVocabulary
  <2>2. Aws!awsKeyDataFromDescribe = <<y, PublicHalf>>
    BY AwsVocabulary DEF PublicHalf, Aws!awsKeyDataFromDescribe, Aws!awsKeySpecHasPublicKey
  <2>3. Rotation(a) = <<w, x, y, PublicHalf>>
    BY DEF Rotation
  <2>4. <<w, x>> \o <<y, PublicHalf>> = Rotation(a)
    <3>. HIDE DEF w, x, y
    <3>. QED
      BY Zenon, <2>3, TwoAndTwo
  <2>. QED
    BY Zenon, <2>1, <2>2, <2>4 DEF Aws!RotateKey
<1>3. Aws!GetKey(a) = Aws!AskKey(a, Inspection, "data")
  BY AwsVocabulary DEF Inspection, PublicHalf, Aws!GetKey, Aws!awsKeyDataFromDescribe, Aws!awsKeySpecHasPublicKey
<1>4. Aws!DeactivateKey(a) = Aws!AskKey(a, Deactivation(a), "none")
  BY AwsVocabulary DEF Deactivation, Aws!DeactivateKey
<1>. QED
  BY Zenon, <1>1, <1>2, <1>3, <1>4

\* What any method of the AWS repository yields.
LEMMA AwsMethods ==
  ASSUME NEW op, NEW a, Foreign(a), Backend = "aws"
  PROVE  Planned(op, a, Aws!Method(op, a))
<1>1. op \in Using => UsePlan(a, Aws!Method(op, a))
  BY AwsUses DEF Using, Aws!Method
<1>2. (op = "EncryptAES" => Aws!Method(op, a) = Aws!EncryptAES(a)) /\ (op = "DecryptAES" => Aws!Method(op, a) = Aws!DecryptAES(a))
  BY DEF Aws!Method
<1>3. op \in DOMAIN Makes => MakePlan(Makes[op], Aws!Method(op, a))
  BY AwsMakes DEF Makes, Aws!Method
<1>4. /\ op = "RotateKey" => Aws!Method(op, a) = Aws!RotateKey(a)
      /\ op = "GetKey" => Aws!Method(op, a) = Aws!GetKey(a)
      /\ op = "DeactivateKey" => Aws!Method(op, a) = Aws!DeactivateKey(a)
  BY DEF Aws!Method
<1>. QED
  BY Zenon, AwsSeals, AwsManages, <1>1, <1>2, <1>3, <1>4 DEF Planned

\* Azure Key Vault: the vocabulary of the instances is that of Keys.
LEMMA AzureVocabulary ==
  /\ Azure!Fail = Fail /\ Azure!Local!Fail = Fail /\ Azure!NoText = NoText /\ Azure!NoDigest = NoDigest /\ Azure!Local!Verified = Verified
  /\ \A v : Azure!Give(v) = Give(v) /\ Azure!Local!Give(v) = Give(v)
  /\ \A m : Azure!Digest(m) = Digest(m) /\ Azure!Local!Digest(m) = Digest(m) /\ Azure!Local!Message(m) = Message(m)
  /\ \A k, t, m, b : Azure!Sealed(k, t, m, b) = Sealed(k, t, m, b) /\ Azure!Local!Sealed(k, t, m, b) = Sealed(k, t, m, b)
  /\ \A do, k, b : Azure!Call(do, k, b) = Call(do, k, b) /\ Azure!Plain(do, k) = Plain(do, k) /\ Azure!Lookup(do) = Lookup(do)
  /\ \A c, x : Azure!Needs(c, x) = Needs(c, x) /\ Azure!OnlyFor(c, x) = OnlyFor(c, x) /\ Azure!Otherwise(c, x) = Otherwise(c, x)
  /\ \A k, s, u : Azure!Create(k, s, u) = Create(k, s, u)
  /\ \A r, c, t : Azure!Ask(r, c, t) = Ask(r, c, t)
  /\ Azure!Asymmetric = Asymmetric
BY DEF Fail, Azure!Fail, Azure!Local!Fail, NoText, Azure!NoText, Text, Azure!Text, Give, Azure!Give, Azure!Local!Give, Digest, Azure!Digest,
    Azure!Local!Digest, Message, Azure!Local!Message, NoDigest, Azure!NoDigest, Verified, Azure!Local!Verified, Sealed, Azure!Sealed, Azure!Local!Sealed,
    Call, Azure!Call, Plain, Azure!Plain, Lookup, Azure!Lookup, Needs, Azure!Needs, OnlyFor, Azure!OnlyFor,
    Otherwise, Azure!Otherwise, Create, Azure!Create, Ask, Azure!Ask, Algorithms, Azure!Algorithms, Asymmetric, Azure!Asymmetric

\* Azure Key Vault: the methods that use a key.
LEMMA AzureUses ==
  ASSUME NEW a, Foreign(a)
  PROVE  /\ UsePlan(a, Azure!HMAC(a))
         /\ UsePlan(a, Azure!Sha256Hex(a))
         /\ UsePlan(a, Azure!Blake3(a))
         /\ UsePlan(a, Azure!ECDH_Encode(a))
         /\ UsePlan(a, Azure!ECDH_Decode(a))
         /\ UsePlan(a, Azure!RSA_OAEP_Encode(a))
         /\ UsePlan(a, Azure!RSA_OAEP_Decode(a))
         /\ UsePlan(a, Azure!SignEd25519(a))
         /\ UsePlan(a, Azure!VerifyEd25519(a))
         /\ UsePlan(a, Azure!SignRSAPSS(a))
         /\ UsePlan(a, Azure!VerifyRSAPSS(a))
         /\ UsePlan(a, Azure!Sign_RSA_PKCS1v15_SHA256(a))
         /\ UsePlan(a, Azure!Verify_RSA_PKCS1v15_SHA256(a))
<1>1. \A call, then : UseCall(call) /\ then \in Thens => UsePlan(a, Azure!AskKey(a, <<call>>, then))
  <2>. SUFFICES ASSUME NEW call, NEW then, UseCall(call), then \in Thens
               PROVE  UsePlan(a, Azure!AskKey(a, <<call>>, then))
    OBVIOUS
  <2>1. \/ Azure!AskKey(a, <<call>>, then) = Fail
        \/ \E ref : RefersTo(a, ref) /\ Azure!AskKey(a, <<call>>, then) = Ask(ref, <<call>>, then)
    BY AzureVocabulary DEF Foreign, IsText, RefersTo, Raw, NoText, Text,
      Azure!AskKey, Azure!AskAbout, Azure!resolveAzureKeyReference
  <2>. QED
    BY Zenon, <2>1 DEF UsePlan
<1>2. /\ \A kind : \A do \in Computing : kind # "aes" => UseCall(Plain(do, kind))
      /\ UseCall(Lookup("GetPublicKey")) /\ UseCall(Needs(Lookup("GetPublicKey"), {"ecdh"}))
      /\ UseCall(Needs(Lookup("GetKey"), {"ecdh"}))
      /\ UseCall(Otherwise(Plain("DecryptInHardware", "ecdh"), "Derive"))
  BY DEF UseCall, Computing, Plain, Lookup, Call, Needs, Otherwise
<1>3. /\ \A kind, parses : UsePlan(a, Azure!Local!VerifyWith(kind, parses, a))
      /\ \A t, art : UsePlan(a, Azure!Local!OpenWithSecret(t, art))
  BY Zenon, ComputedPlans, AzureVocabulary DEF Azure!Local!VerifyWith, Azure!Local!OpenWithSecret
<1>4. UsePlan(a, Azure!HMAC(a))
  BY Zenon, ComputedPlans, ForeignForms, AzureVocabulary, <1>1, <1>2, <1>3 DEF
      Azure!HMAC, Azure!Local!HMAC, Azure!looksLikeAzureKeyReference, Computing, Thens
<1>5. UsePlan(a, Azure!Sha256Hex(a))
  BY Zenon, ComputedPlans, ForeignForms, AzureVocabulary, <1>1, <1>2, <1>3 DEF
      Azure!Sha256Hex, Azure!Local!Sha256Hex, Computing, Thens
<1>6. UsePlan(a, Azure!Blake3(a))
  BY Zenon, ComputedPlans, ForeignForms, AzureVocabulary, <1>1, <1>2, <1>3 DEF
      Azure!Blake3, Azure!Local!Blake3, Computing, Thens
<1>7. UsePlan(a, Azure!ECDH_Encode(a))
  BY Zenon, ComputedPlans, ForeignForms, AzureVocabulary, <1>1, <1>2, <1>3 DEF
      Azure!ECDH_Encode, Azure!Local!ECDH_Encode, Azure!parseECDHPublicKey, Azure!ParsePKIX,
      Azure!Local!parseECDHPublicKey, Azure!Local!ParsePKIX, Computing, Thens
<1>8. UsePlan(a, Azure!ECDH_Decode(a))
  BY Zenon, ComputedPlans, ForeignForms, AzureVocabulary, <1>1, <1>2, <1>3 DEF
      Azure!ECDH_Decode, Azure!Local!ECDH_Decode, Azure!parseECDHPrivateKey, Azure!ParsePKCS8,
      Azure!Local!parseECDHPrivateKey, Azure!Local!ParsePKCS8, Computing, Thens
<1>9. UsePlan(a, Azure!RSA_OAEP_Encode(a))
  BY Zenon, ComputedPlans, ForeignForms, AzureVocabulary, <1>1, <1>2, <1>3 DEF
      Azure!RSA_OAEP_Encode, Azure!Local!RSA_OAEP_Encode, Azure!ParseRSAPublicKeyFromBase64,
      Azure!ParsePKIX, Azure!Local!ParseRSAPublicKeyFromBase64, Azure!Local!ParsePKIX, Computing,
      Thens
<1>10. UsePlan(a, Azure!RSA_OAEP_Decode(a))
  BY Zenon, ComputedPlans, ForeignForms, AzureVocabulary, <1>1, <1>2, <1>3 DEF
      Azure!RSA_OAEP_Decode, Azure!Local!RSA_OAEP_Decode, Azure!ParseRSAPrivateKeyFromBase64,
      Azure!ParsePKCS8, Azure!Local!ParseRSAPrivateKeyFromBase64, Azure!Local!ParsePKCS8, Computing,
      Thens
<1>11. UsePlan(a, Azure!SignEd25519(a))
  BY Zenon, ComputedPlans, ForeignForms, AzureVocabulary, <1>1, <1>2, <1>3 DEF
      Azure!SignEd25519, Azure!Local!SignEd25519, Azure!ParseEd25519PrivateKeyFromBase64,
      Azure!ParsePKCS8, Azure!Local!ParseEd25519PrivateKeyFromBase64, Azure!Local!ParsePKCS8,
      Azure!Local!SignWith, Computing, Thens
<1>12. UsePlan(a, Azure!VerifyEd25519(a))
  BY Zenon, ComputedPlans, ForeignForms, AzureVocabulary, <1>1, <1>2, <1>3 DEF
      Azure!VerifyEd25519, Azure!Local!VerifyEd25519, Computing, Thens
<1>13. UsePlan(a, Azure!SignRSAPSS(a))
  BY Zenon, ComputedPlans, ForeignForms, AzureVocabulary, <1>1, <1>2, <1>3 DEF
      Azure!SignRSAPSS, Azure!Local!SignRSAPSS, Azure!ParseRSAPrivateKeyFromBase64,
      Azure!ParsePKCS8, Azure!Local!ParseRSAPrivateKeyFromBase64, Azure!Local!ParsePKCS8,
      Azure!Local!SignWith, Computing, Thens
<1>14. UsePlan(a, Azure!VerifyRSAPSS(a))
  BY Zenon, ComputedPlans, ForeignForms, AzureVocabulary, <1>1, <1>2, <1>3 DEF
      Azure!VerifyRSAPSS, Azure!Local!VerifyRSAPSS, Computing, Thens
<1>15. UsePlan(a, Azure!Sign_RSA_PKCS1v15_SHA256(a))
  BY Zenon, ComputedPlans, ForeignForms, AzureVocabulary, <1>1, <1>2, <1>3 DEF
      Azure!Sign_RSA_PKCS1v15_SHA256, Azure!Local!Sign_RSA_PKCS1v15_SHA256,
      Azure!ParseRSAPrivateKeyFromBase64, Azure!ParsePKCS8,
      Azure!Local!ParseRSAPrivateKeyFromBase64, Azure!Local!ParsePKCS8, Azure!Local!SignWith,
      Azure!looksLikeAzureKeyReference, Computing, Thens
<1>16. UsePlan(a, Azure!Verify_RSA_PKCS1v15_SHA256(a))
  BY Zenon, ComputedPlans, ForeignForms, AzureVocabulary, <1>1, <1>2, <1>3 DEF
      Azure!Verify_RSA_PKCS1v15_SHA256, Azure!Local!Verify_RSA_PKCS1v15_SHA256,
      Azure!looksLikeAzureKeyReference, Computing, Thens
<1>. QED
  BY <1>4, <1>5, <1>6, <1>7, <1>8, <1>9, <1>10, <1>11, <1>12, <1>13, <1>14, <1>15, <1>16

\* Azure Key Vault: the methods that seal and open.
LEMMA AzureSeals ==
  ASSUME NEW a, Foreign(a), Backend = "azure"
  PROVE  SealPlan(a, Azure!EncryptAES(a), "Encrypt") /\ SealPlan(a, Azure!DecryptAES(a), "Decrypt")
<1>1. \A do : SealPlan(a, Azure!AskKey(a, <<Call(do, "aes", Bind(a.uid, a.add))>>, "value"), do)
  <2>. SUFFICES ASSUME NEW do
               PROVE  SealPlan(a, Azure!AskKey(a, <<Call(do, "aes", Bind(a.uid, a.add))>>, "value"), do)
    OBVIOUS
  <2>. DEFINE calls_ == <<Call(do, "aes", Bind(a.uid, a.add))>>
             r == Azure!AskKey(a, calls_, "value")
  <2>. HIDE DEF calls_
  <2>1. \/ r = Fail
        \/ \E ref : r = Ask(ref, calls_, "value") /\ RefersTo(a, ref) /\ (Backend = "gcp" => ref.ver = 0)
    BY AzureVocabulary DEF Foreign, IsText, RefersTo, Raw, NoText, Text,
      Azure!AskKey, Azure!AskAbout, Azure!resolveAzureKeyReference
  <2>. QED
    BY Zenon, <2>1 DEF SealPlan, calls_
<1>2. Azure!azureAuthenticatedData(a.uid, a.add) = Bind(a.uid, a.add)
  BY DEF Bind
<1>3. \A do : SealPlan(a, Fail, do)
  BY Zenon DEF SealPlan
<1>. QED
  BY Zenon, ForeignForms, AzureVocabulary, <1>1, <1>2, <1>3 DEF Azure!EncryptAES, Azure!DecryptAES, Azure!IsLocalAESKey

\* Azure Key Vault: the methods that make keys.
LEMMA AzureMakes ==
  ASSUME NEW a, Backend = "azure"
  PROVE  /\ MakePlan("aes", Azure!GenerateSymetrycKeys(a)) /\ MakePlan("rsa", Azure!GenerateRSAKeys(a))
         /\ MakePlan("ecdh", Azure!GenerateECDHCurveKeys(a)) /\ MakePlan("ed25519", Azure!GenerateEd255Keys(a))
BY Zenon, AzureVocabulary DEF MakePlan,
    Azure!GenerateSymetrycKeys, Azure!GenerateRSAKeys, Azure!GenerateECDHCurveKeys,
    Azure!GenerateEd255Keys, Azure!CreateIn

\* Azure Key Vault: the methods that manage keys.
LEMMA AzureManages ==
  ASSUME NEW a, Foreign(a), Backend = "azure"
  PROVE  /\ ManagePlan(a, Azure!RotateKey(a), Rotation(a), "data")
         /\ ManagePlan(a, Azure!GetKey(a), Inspection, "data")
         /\ ManagePlan(a, Azure!DeactivateKey(a), Deactivation(a), "none")
<1>1. \A calls_, then : ManagePlan(a, Azure!AskLookup(a, calls_, then), calls_, then)
  <2>. SUFFICES ASSUME NEW calls_, NEW then
               PROVE  ManagePlan(a, Azure!AskLookup(a, calls_, then), calls_, then)
    OBVIOUS
  <2>1. \/ Azure!AskLookup(a, calls_, then) = Fail
        \/ \E ref : /\ Azure!AskLookup(a, calls_, then) = Ask(ref, calls_, then)
                    /\ RefersTo(a, ref) /\ ref.ver = Raw(a).ver
    BY AzureVocabulary DEF Foreign, IsText, RefersTo, Raw, NoText, Text,
      Azure!AskLookup, Azure!AskAbout, Azure!resolveAzureKeyLookupReference,
      Azure!resolveAzureKeyReference, Azure!resolveAzureVaultURL
  <2>. QED
    BY Zenon, <2>1 DEF ManagePlan
<1>2. Azure!RotateKey(a) = Azure!AskLookup(a, Rotation(a), "data")
  BY AzureVocabulary DEF Rotation, PublicHalf, Azure!RotateKey
<1>3. Azure!GetKey(a) = Azure!AskLookup(a, Inspection, "data")
  BY AzureVocabulary DEF Inspection, PublicHalf, Azure!GetKey
<1>4. Azure!DeactivateKey(a) = Azure!AskLookup(a, Deactivation(a), "none")
  <2>. DEFINE ref == Azure!resolveAzureKeyLookupReference(a)
  <2>1. CASE ref = NoText
    BY Zenon, <2>1, AzureVocabulary DEF Azure!DeactivateKey, Azure!AskLookup, Azure!AskAbout
  <2>2. CASE ref # NoText
    <3>1. ref.ver = Raw(a).ver
      BY <2>2, AzureVocabulary DEF Raw, NoText, Text, Azure!resolveAzureKeyLookupReference,
          Azure!resolveAzureKeyReference, Azure!resolveAzureVaultURL
    <3>2. Deactivation(a) = IF ref.ver = 0 THEN <<Lookup("GetKey"), Lookup("DisableKey")>> ELSE <<Lookup("DisableKey")>>
      BY <3>1 DEF Deactivation
    <3>3. (IF ref.ver = 0 THEN <<Lookup("GetKey")>> ELSE <<>>) \o <<Lookup("DisableKey")>> = Deactivation(a)
      BY Zenon, <3>2, OneAndOne, AndNone
    <3>4. Azure!Lookup("GetKey") = Lookup("GetKey") /\ Azure!Lookup("DisableKey") = Lookup("DisableKey")
      BY Zenon, AzureVocabulary
    <3>. QED
      BY Zenon, <3>3, <3>4 DEF Azure!DeactivateKey
  <2>. QED
    BY <2>1, <2>2
<1>. QED
  BY Zenon, <1>1, <1>2, <1>3, <1>4

\* What any method of the Azure repository yields.
LEMMA AzureMethods ==
  ASSUME NEW op, NEW a, Foreign(a), Backend = "azure"
  PROVE  Planned(op, a, Azure!Method(op, a))
<1>1. op \in Using => UsePlan(a, Azure!Method(op, a))
  BY AzureUses DEF Using, Azure!Method
<1>2. (op = "EncryptAES" => Azure!Method(op, a) = Azure!EncryptAES(a)) /\ (op = "DecryptAES" => Azure!Method(op, a) = Azure!DecryptAES(a))
  BY DEF Azure!Method
<1>3. op \in DOMAIN Makes => MakePlan(Makes[op], Azure!Method(op, a))
  BY AzureMakes DEF Makes, Azure!Method
<1>4. /\ op = "RotateKey" => Azure!Method(op, a) = Azure!RotateKey(a)
      /\ op = "GetKey" => Azure!Method(op, a) = Azure!GetKey(a)
      /\ op = "DeactivateKey" => Azure!Method(op, a) = Azure!DeactivateKey(a)
  BY DEF Azure!Method
<1>. QED
  BY Zenon, AzureSeals, AzureManages, <1>1, <1>2, <1>3, <1>4 DEF Planned

\* GCP KMS: the vocabulary of the instances is that of Keys.
LEMMA GcpVocabulary ==
  /\ Gcp!Fail = Fail /\ Gcp!Local!Fail = Fail /\ Gcp!NoText = NoText /\ Gcp!NoDigest = NoDigest /\ Gcp!Local!Verified = Verified
  /\ \A v : Gcp!Give(v) = Give(v) /\ Gcp!Local!Give(v) = Give(v)
  /\ \A m : Gcp!Digest(m) = Digest(m) /\ Gcp!Local!Digest(m) = Digest(m) /\ Gcp!Local!Message(m) = Message(m)
  /\ \A k, t, m, b : Gcp!Sealed(k, t, m, b) = Sealed(k, t, m, b) /\ Gcp!Local!Sealed(k, t, m, b) = Sealed(k, t, m, b)
  /\ \A do, k, b : Gcp!Call(do, k, b) = Call(do, k, b) /\ Gcp!Plain(do, k) = Plain(do, k) /\ Gcp!Lookup(do) = Lookup(do)
  /\ \A c, x : Gcp!Needs(c, x) = Needs(c, x) /\ Gcp!OnlyFor(c, x) = OnlyFor(c, x) /\ Gcp!Otherwise(c, x) = Otherwise(c, x)
  /\ \A k, s, u : Gcp!Create(k, s, u) = Create(k, s, u)
  /\ \A r, c, t : Gcp!Ask(r, c, t) = Ask(r, c, t)
  /\ Gcp!Asymmetric = Asymmetric
BY DEF Fail, Gcp!Fail, Gcp!Local!Fail, NoText, Gcp!NoText, Text, Gcp!Text, Give, Gcp!Give, Gcp!Local!Give, Digest, Gcp!Digest,
    Gcp!Local!Digest, Message, Gcp!Local!Message, NoDigest, Gcp!NoDigest, Verified, Gcp!Local!Verified, Sealed, Gcp!Sealed, Gcp!Local!Sealed,
    Call, Gcp!Call, Plain, Gcp!Plain, Lookup, Gcp!Lookup, Needs, Gcp!Needs, OnlyFor, Gcp!OnlyFor,
    Otherwise, Gcp!Otherwise, Create, Gcp!Create, Ask, Gcp!Ask, Algorithms, Gcp!Algorithms, Asymmetric, Gcp!Asymmetric

\* GCP KMS: the methods that use a key.
LEMMA GcpUses ==
  ASSUME NEW a, Foreign(a)
  PROVE  /\ UsePlan(a, Gcp!HMAC(a))
         /\ UsePlan(a, Gcp!Sha256Hex(a))
         /\ UsePlan(a, Gcp!Blake3(a))
         /\ UsePlan(a, Gcp!ECDH_Encode(a))
         /\ UsePlan(a, Gcp!ECDH_Decode(a))
         /\ UsePlan(a, Gcp!RSA_OAEP_Encode(a))
         /\ UsePlan(a, Gcp!RSA_OAEP_Decode(a))
         /\ UsePlan(a, Gcp!SignEd25519(a))
         /\ UsePlan(a, Gcp!VerifyEd25519(a))
         /\ UsePlan(a, Gcp!SignRSAPSS(a))
         /\ UsePlan(a, Gcp!VerifyRSAPSS(a))
         /\ UsePlan(a, Gcp!Sign_RSA_PKCS1v15_SHA256(a))
         /\ UsePlan(a, Gcp!Verify_RSA_PKCS1v15_SHA256(a))
<1>1. \A call, then : UseCall(call) /\ then \in Thens => UsePlan(a, Gcp!AskVersion(a, <<call>>, then))
  <2>. SUFFICES ASSUME NEW call, NEW then, UseCall(call), then \in Thens
               PROVE  UsePlan(a, Gcp!AskVersion(a, <<call>>, then))
    OBVIOUS
  <2>1. \/ Gcp!AskVersion(a, <<call>>, then) = Fail
        \/ \E ref : RefersTo(a, ref) /\ Gcp!AskVersion(a, <<call>>, then) = Ask(ref, <<call>>, then)
    BY GcpVocabulary DEF Foreign, IsText, RefersTo, Raw, NoText, Text,
      Gcp!AskVersion, Gcp!AskAbout, Gcp!resolveGCPCryptoKeyVersionName, Gcp!rawKey
  <2>. QED
    BY Zenon, <2>1 DEF UsePlan
<1>2. /\ \A kind : \A do \in Computing : kind # "aes" => UseCall(Plain(do, kind))
      /\ UseCall(Lookup("GetPublicKey")) /\ UseCall(Needs(Lookup("GetPublicKey"), {"ecdh"}))
      /\ UseCall(Needs(Lookup("GetKey"), {"ecdh"}))
      /\ UseCall(Otherwise(Plain("DecryptInHardware", "ecdh"), "Derive"))
  BY DEF UseCall, Computing, Plain, Lookup, Call, Needs, Otherwise
<1>3. /\ \A kind, parses : UsePlan(a, Gcp!Local!VerifyWith(kind, parses, a))
      /\ \A t, art : UsePlan(a, Gcp!Local!OpenWithSecret(t, art))
  BY Zenon, ComputedPlans, GcpVocabulary DEF Gcp!Local!VerifyWith, Gcp!Local!OpenWithSecret
<1>4. UsePlan(a, Gcp!HMAC(a))
  BY Zenon, ComputedPlans, ForeignForms, GcpVocabulary, <1>1, <1>2, <1>3 DEF
      Gcp!HMAC, Gcp!Local!HMAC, Gcp!looksLikeGCPKMSKeyReference, Computing, Thens
<1>5. UsePlan(a, Gcp!Sha256Hex(a))
  BY Zenon, ComputedPlans, ForeignForms, GcpVocabulary, <1>1, <1>2, <1>3 DEF
      Gcp!Sha256Hex, Gcp!Local!Sha256Hex, Computing, Thens
<1>6. UsePlan(a, Gcp!Blake3(a))
  BY Zenon, ComputedPlans, ForeignForms, GcpVocabulary, <1>1, <1>2, <1>3 DEF
      Gcp!Blake3, Gcp!Local!Blake3, Computing, Thens
<1>7. UsePlan(a, Gcp!ECDH_Encode(a))
  BY Zenon, ComputedPlans, ForeignForms, GcpVocabulary, <1>1, <1>2, <1>3 DEF
      Gcp!ECDH_Encode, Gcp!Local!ECDH_Encode, Gcp!parseECDHPublicKey, Gcp!ParsePKIX,
      Gcp!Local!parseECDHPublicKey, Gcp!Local!ParsePKIX, Gcp!encodeGCPKEMPayload,
      Gcp!fetchGCPKEMPublicKey, Computing, Thens
<1>8. UsePlan(a, Gcp!ECDH_Decode(a))
  BY Zenon, ComputedPlans, ForeignForms, GcpVocabulary, <1>1, <1>2, <1>3 DEF
      Gcp!ECDH_Decode, Gcp!Local!ECDH_Decode, Gcp!parseECDHPrivateKey, Gcp!ParsePKCS8,
      Gcp!Local!parseECDHPrivateKey, Gcp!Local!ParsePKCS8, Computing, Thens
<1>9. UsePlan(a, Gcp!RSA_OAEP_Encode(a))
  BY Zenon, ComputedPlans, ForeignForms, GcpVocabulary, <1>1, <1>2, <1>3 DEF
      Gcp!RSA_OAEP_Encode, Gcp!Local!RSA_OAEP_Encode, Gcp!ParseRSAPublicKeyFromBase64,
      Gcp!ParsePKIX, Gcp!Local!ParseRSAPublicKeyFromBase64, Gcp!Local!ParsePKIX,
      Gcp!fetchGCPPublicKey, Computing, Thens
<1>10. UsePlan(a, Gcp!RSA_OAEP_Decode(a))
  BY Zenon, ComputedPlans, ForeignForms, GcpVocabulary, <1>1, <1>2, <1>3 DEF
      Gcp!RSA_OAEP_Decode, Gcp!Local!RSA_OAEP_Decode, Gcp!ParseRSAPrivateKeyFromBase64,
      Gcp!ParsePKCS8, Gcp!Local!ParseRSAPrivateKeyFromBase64, Gcp!Local!ParsePKCS8, Computing, Thens
<1>11. UsePlan(a, Gcp!SignEd25519(a))
  BY Zenon, ComputedPlans, ForeignForms, GcpVocabulary, <1>1, <1>2, <1>3 DEF
      Gcp!SignEd25519, Gcp!Local!SignEd25519, Gcp!ParseEd25519PrivateKeyFromBase64, Gcp!ParsePKCS8,
      Gcp!Local!ParseEd25519PrivateKeyFromBase64, Gcp!Local!ParsePKCS8, Gcp!Local!SignWith,
      Computing, Thens
<1>12. UsePlan(a, Gcp!VerifyEd25519(a))
  BY Zenon, ComputedPlans, ForeignForms, GcpVocabulary, <1>1, <1>2, <1>3 DEF
      Gcp!VerifyEd25519, Gcp!Local!VerifyEd25519, Gcp!fetchGCPPublicKey, Computing, Thens
<1>13. UsePlan(a, Gcp!SignRSAPSS(a))
  BY Zenon, ComputedPlans, ForeignForms, GcpVocabulary, <1>1, <1>2, <1>3 DEF
      Gcp!SignRSAPSS, Gcp!Local!SignRSAPSS, Gcp!ParseRSAPrivateKeyFromBase64, Gcp!ParsePKCS8,
      Gcp!Local!ParseRSAPrivateKeyFromBase64, Gcp!Local!ParsePKCS8, Gcp!Local!SignWith, Computing,
      Thens
<1>14. UsePlan(a, Gcp!VerifyRSAPSS(a))
  BY Zenon, ComputedPlans, ForeignForms, GcpVocabulary, <1>1, <1>2, <1>3 DEF
      Gcp!VerifyRSAPSS, Gcp!Local!VerifyRSAPSS, Gcp!fetchGCPPublicKey, Computing, Thens
<1>15. UsePlan(a, Gcp!Sign_RSA_PKCS1v15_SHA256(a))
  BY Zenon, ComputedPlans, ForeignForms, GcpVocabulary, <1>1, <1>2, <1>3 DEF
      Gcp!Sign_RSA_PKCS1v15_SHA256, Gcp!Local!Sign_RSA_PKCS1v15_SHA256,
      Gcp!ParseRSAPrivateKeyFromBase64, Gcp!ParsePKCS8, Gcp!Local!ParseRSAPrivateKeyFromBase64,
      Gcp!Local!ParsePKCS8, Gcp!Local!SignWith, Gcp!looksLikeGCPKMSKeyReference, Computing, Thens
<1>16. UsePlan(a, Gcp!Verify_RSA_PKCS1v15_SHA256(a))
  BY Zenon, ComputedPlans, ForeignForms, GcpVocabulary, <1>1, <1>2, <1>3 DEF
      Gcp!Verify_RSA_PKCS1v15_SHA256, Gcp!Local!Verify_RSA_PKCS1v15_SHA256,
      Gcp!looksLikeGCPKMSKeyReference, Gcp!fetchGCPPublicKey, Computing, Thens
<1>. QED
  BY <1>4, <1>5, <1>6, <1>7, <1>8, <1>9, <1>10, <1>11, <1>12, <1>13, <1>14, <1>15, <1>16

\* GCP KMS: the methods that seal and open.
LEMMA GcpSeals ==
  ASSUME NEW a, Foreign(a), Backend = "gcp"
  PROVE  SealPlan(a, Gcp!EncryptAES(a), "Encrypt") /\ SealPlan(a, Gcp!DecryptAES(a), "Decrypt")
<1>1. \A do : SealPlan(a, Gcp!AskKey(a, <<Call(do, "aes", Bind(a.uid, a.add))>>, "value"), do)
  <2>. SUFFICES ASSUME NEW do
               PROVE  SealPlan(a, Gcp!AskKey(a, <<Call(do, "aes", Bind(a.uid, a.add))>>, "value"), do)
    OBVIOUS
  <2>. DEFINE calls_ == <<Call(do, "aes", Bind(a.uid, a.add))>>
             r == Gcp!AskKey(a, calls_, "value")
  <2>. HIDE DEF calls_
  <2>1. \/ r = Fail
        \/ \E ref : r = Ask(ref, calls_, "value") /\ RefersTo(a, ref) /\ (Backend = "gcp" => ref.ver = 0)
    BY GcpVocabulary DEF Foreign, IsText, RefersTo, Raw, NoText, Text,
      Gcp!AskKey, Gcp!AskAbout, Gcp!resolveGCPCryptoKeyName, Gcp!rawKey
  <2>. QED
    BY Zenon, <2>1 DEF SealPlan, calls_
<1>2. Gcp!gcpAuthenticatedData(a.uid, a.add) = Bind(a.uid, a.add)
  BY DEF Bind
<1>3. \A do : SealPlan(a, Fail, do)
  BY Zenon DEF SealPlan
<1>. QED
  BY Zenon, ForeignForms, GcpVocabulary, <1>1, <1>2, <1>3 DEF Gcp!EncryptAES, Gcp!DecryptAES, Gcp!IsLocalAESKey

\* GCP KMS: the methods that make keys.
LEMMA GcpMakes ==
  ASSUME NEW a, Backend = "gcp"
  PROVE  /\ MakePlan("aes", Gcp!GenerateSymetrycKeys(a)) /\ MakePlan("rsa", Gcp!GenerateRSAKeys(a))
         /\ MakePlan("ecdh", Gcp!GenerateECDHCurveKeys(a)) /\ MakePlan("ed25519", Gcp!GenerateEd255Keys(a))
<1>1. \A sized, alg, size, uses : MakePlan(alg, Gcp!GeneratePair(a, sized, alg, size, uses))
  <2>. SUFFICES ASSUME NEW sized, NEW alg, NEW size, NEW uses
               PROVE  MakePlan(alg, Gcp!GeneratePair(a, sized, alg, size, uses))
    OBVIOUS
  <2>1. \/ Gcp!GeneratePair(a, sized, alg, size, uses) = Fail
        \/ Gcp!GeneratePair(a, sized, alg, size, uses) =
             Ask(NoText, <<Create(alg, size, uses), OnlyFor(Lookup("CreateCryptoKeyVersion"), Asymmetric),
                           Lookup("GetPublicKey")>>, "data")
    BY GcpVocabulary DEF Gcp!GeneratePair, Gcp!ensureGCPVersion, Gcp!fetchGCPPublicKey
  <2>. QED
    BY Zenon, <2>1 DEF MakePlan
<1>2. MakePlan("aes", Gcp!GenerateSymetrycKeys(a))
  BY Zenon, GcpVocabulary DEF MakePlan, Gcp!GenerateSymetrycKeys
<1>3. MakePlan("rsa", Gcp!GenerateRSAKeys(a))
  BY Zenon, GcpVocabulary, <1>1 DEF Gcp!GenerateRSAKeys
<1>4. MakePlan("ecdh", Gcp!GenerateECDHCurveKeys(a))
  BY Zenon, GcpVocabulary, <1>1 DEF Gcp!GenerateECDHCurveKeys
<1>5. MakePlan("ed25519", Gcp!GenerateEd255Keys(a))
  BY Zenon, GcpVocabulary, <1>1 DEF Gcp!GenerateEd255Keys
<1>. QED
  BY <1>2, <1>3, <1>4, <1>5

\* GCP KMS: the methods that manage keys.
LEMMA GcpManages ==
  ASSUME NEW a, Foreign(a), Backend = "gcp"
  PROVE  /\ ManagePlan(a, Gcp!RotateKey(a), Rotation(a), "data")
         /\ ManagePlan(a, Gcp!GetKey(a), Inspection, "data")
         /\ ManagePlan(a, Gcp!DeactivateKey(a), Deactivation(a), "none")
<1>1. \A calls_, then : ManagePlan(a, Gcp!AskLookup(a, calls_, then), calls_, then)
  <2>. SUFFICES ASSUME NEW calls_, NEW then
               PROVE  ManagePlan(a, Gcp!AskLookup(a, calls_, then), calls_, then)
    OBVIOUS
  <2>1. \/ Gcp!AskLookup(a, calls_, then) = Fail
        \/ \E ref : /\ Gcp!AskLookup(a, calls_, then) = Ask(ref, calls_, then)
                    /\ RefersTo(a, ref) /\ ref.ver = Raw(a).ver
    BY GcpVocabulary DEF Foreign, IsText, RefersTo, Raw, NoText, Text,
      Gcp!AskLookup, Gcp!AskAbout, Gcp!resolveGCPKeyLookupNames, Gcp!resolveGCPKeyRingName,
      Gcp!rawKey
  <2>. QED
    BY Zenon, <2>1 DEF ManagePlan
<1>2. Gcp!RotateKey(a) = Gcp!AskLookup(a, Rotation(a), "data")
  BY GcpVocabulary DEF Rotation, PublicHalf, Gcp!RotateKey, Gcp!fetchGCPPublicKey
<1>3. Gcp!GetKey(a) = Gcp!AskLookup(a, Inspection, "data")
  BY GcpVocabulary DEF Inspection, PublicHalf, Gcp!GetKey, Gcp!fetchGCPPublicKey
<1>4. Gcp!DeactivateKey(a) = Gcp!AskLookup(a, Deactivation(a), "none")
  BY GcpVocabulary DEF Deactivation, Gcp!DeactivateKey
<1>. QED
  BY Zenon, <1>1, <1>2, <1>3, <1>4

\* What any method of the Google repository yields.
LEMMA GcpMethods ==
  ASSUME NEW op, NEW a, Foreign(a), Backend = "gcp"
  PROVE  Planned(op, a, Gcp!Method(op, a))
<1>1. op \in Using => UsePlan(a, Gcp!Method(op, a))
  BY GcpUses DEF Using, Gcp!Method
<1>2. (op = "EncryptAES" => Gcp!Method(op, a) = Gcp!EncryptAES(a)) /\ (op = "DecryptAES" => Gcp!Method(op, a) = Gcp!DecryptAES(a))
  BY DEF Gcp!Method
<1>3. op \in DOMAIN Makes => MakePlan(Makes[op], Gcp!Method(op, a))
  BY GcpMakes DEF Makes, Gcp!Method
<1>4. /\ op = "RotateKey" => Gcp!Method(op, a) = Gcp!RotateKey(a)
      /\ op = "GetKey" => Gcp!Method(op, a) = Gcp!GetKey(a)
      /\ op = "DeactivateKey" => Gcp!Method(op, a) = Gcp!DeactivateKey(a)
  BY DEF Gcp!Method
<1>. QED
  BY Zenon, GcpSeals, GcpManages, <1>1, <1>2, <1>3, <1>4 DEF Planned

\* PKCS#11: the vocabulary of the instances is that of Keys.
LEMMA TokenVocabulary ==
  /\ Token!Fail = Fail /\ Token!Local!Fail = Fail /\ Token!NoText = NoText /\ Token!NoDigest = NoDigest /\ Token!Local!Verified = Verified
  /\ \A v : Token!Give(v) = Give(v) /\ Token!Local!Give(v) = Give(v)
  /\ \A m : Token!Digest(m) = Digest(m) /\ Token!Local!Digest(m) = Digest(m) /\ Token!Local!Message(m) = Message(m)
  /\ \A k, t, m, b : Token!Sealed(k, t, m, b) = Sealed(k, t, m, b) /\ Token!Local!Sealed(k, t, m, b) = Sealed(k, t, m, b)
  /\ \A do, k, b : Token!Call(do, k, b) = Call(do, k, b) /\ Token!Plain(do, k) = Plain(do, k) /\ Token!Lookup(do) = Lookup(do)
  /\ \A c, x : Token!Needs(c, x) = Needs(c, x) /\ Token!OnlyFor(c, x) = OnlyFor(c, x) /\ Token!Otherwise(c, x) = Otherwise(c, x)
  /\ \A k, s, u : Token!Create(k, s, u) = Create(k, s, u)
  /\ \A r, c, t : Token!Ask(r, c, t) = Ask(r, c, t)
  /\ Token!Asymmetric = Asymmetric
BY DEF Fail, Token!Fail, Token!Local!Fail, NoText, Token!NoText, Text, Token!Text, Give, Token!Give, Token!Local!Give, Digest, Token!Digest,
    Token!Local!Digest, Message, Token!Local!Message, NoDigest, Token!NoDigest, Verified, Token!Local!Verified, Sealed, Token!Sealed, Token!Local!Sealed,
    Call, Token!Call, Plain, Token!Plain, Lookup, Token!Lookup, Needs, Token!Needs, OnlyFor, Token!OnlyFor,
    Otherwise, Token!Otherwise, Create, Token!Create, Ask, Token!Ask, Algorithms, Token!Algorithms, Asymmetric, Token!Asymmetric

\* PKCS#11: the methods that use a key.
LEMMA TokenUses ==
  ASSUME NEW a, Foreign(a)
  PROVE  /\ UsePlan(a, Token!HMAC(a))
         /\ UsePlan(a, Token!Sha256Hex(a))
         /\ UsePlan(a, Token!Blake3(a))
         /\ UsePlan(a, Token!ECDH_Encode(a))
         /\ UsePlan(a, Token!ECDH_Decode(a))
         /\ UsePlan(a, Token!RSA_OAEP_Encode(a))
         /\ UsePlan(a, Token!RSA_OAEP_Decode(a))
         /\ UsePlan(a, Token!SignEd25519(a))
         /\ UsePlan(a, Token!VerifyEd25519(a))
         /\ UsePlan(a, Token!SignRSAPSS(a))
         /\ UsePlan(a, Token!VerifyRSAPSS(a))
         /\ UsePlan(a, Token!Sign_RSA_PKCS1v15_SHA256(a))
         /\ UsePlan(a, Token!Verify_RSA_PKCS1v15_SHA256(a))
<1>1. \A call, then : UseCall(call) /\ then \in Thens => UsePlan(a, Token!AskKey(a, <<call>>, then))
  <2>. SUFFICES ASSUME NEW call, NEW then, UseCall(call), then \in Thens
               PROVE  UsePlan(a, Token!AskKey(a, <<call>>, then))
    OBVIOUS
  <2>1. \/ Token!AskKey(a, <<call>>, then) = Fail
        \/ \E ref : RefersTo(a, ref) /\ Token!AskKey(a, <<call>>, then) = Ask(ref, <<call>>, then)
    BY TokenVocabulary DEF Foreign, IsText, RefersTo, Raw, NoText, Text,
      Token!AskKey, Token!resolveKeyURI, Token!parseKeyURI, Token!isKeyURI
  <2>. QED
    BY Zenon, <2>1 DEF UsePlan
<1>2. /\ \A kind : \A do \in Computing : kind # "aes" => UseCall(Plain(do, kind))
      /\ UseCall(Lookup("GetPublicKey")) /\ UseCall(Needs(Lookup("GetPublicKey"), {"ecdh"}))
      /\ UseCall(Needs(Lookup("GetKey"), {"ecdh"}))
      /\ UseCall(Otherwise(Plain("DecryptInHardware", "ecdh"), "Derive"))
  BY DEF UseCall, Computing, Plain, Lookup, Call, Needs, Otherwise
<1>3. /\ \A kind, parses : UsePlan(a, Token!Local!VerifyWith(kind, parses, a))
      /\ \A t, art : UsePlan(a, Token!Local!OpenWithSecret(t, art))
  BY Zenon, ComputedPlans, TokenVocabulary DEF Token!Local!VerifyWith, Token!Local!OpenWithSecret
<1>4. UsePlan(a, Token!HMAC(a))
  BY Zenon, ComputedPlans, ForeignForms, TokenVocabulary, <1>1, <1>2, <1>3 DEF
      Token!HMAC, Token!Local!HMAC, Token!isKeyURI, Computing, Thens
<1>5. UsePlan(a, Token!Sha256Hex(a))
  BY Zenon, ComputedPlans, ForeignForms, TokenVocabulary, <1>1, <1>2, <1>3 DEF
      Token!Sha256Hex, Token!Local!Sha256Hex, Computing, Thens
<1>6. UsePlan(a, Token!Blake3(a))
  BY Zenon, ComputedPlans, ForeignForms, TokenVocabulary, <1>1, <1>2, <1>3 DEF
      Token!Blake3, Token!Local!Blake3, Computing, Thens
<1>7. UsePlan(a, Token!ECDH_Encode(a))
  BY Zenon, ComputedPlans, ForeignForms, TokenVocabulary, <1>1, <1>2, <1>3 DEF
      Token!ECDH_Encode, Token!Local!ECDH_Encode, Token!parseECDHPublicKey, Token!ParsePKIX,
      Token!Local!parseECDHPublicKey, Token!Local!ParsePKIX, Token!fetchPublicKey, Computing, Thens
<1>8. UsePlan(a, Token!ECDH_Decode(a))
  BY Zenon, ComputedPlans, ForeignForms, TokenVocabulary, <1>1, <1>2, <1>3 DEF
      Token!ECDH_Decode, Token!Local!ECDH_Decode, Token!parseECDHPrivateKey, Token!ParsePKCS8,
      Token!Local!parseECDHPrivateKey, Token!Local!ParsePKCS8, Token!ecdhCalls, Computing, Thens
<1>9. UsePlan(a, Token!RSA_OAEP_Encode(a))
  BY Zenon, ComputedPlans, ForeignForms, TokenVocabulary, <1>1, <1>2, <1>3 DEF
      Token!RSA_OAEP_Encode, Token!Local!RSA_OAEP_Encode, Token!ParseRSAPublicKeyFromBase64,
      Token!ParsePKIX, Token!Local!ParseRSAPublicKeyFromBase64, Token!Local!ParsePKIX,
      Token!fetchPublicKey, Computing, Thens
<1>10. UsePlan(a, Token!RSA_OAEP_Decode(a))
  BY Zenon, ComputedPlans, ForeignForms, TokenVocabulary, <1>1, <1>2, <1>3 DEF
      Token!RSA_OAEP_Decode, Token!Local!RSA_OAEP_Decode, Token!ParseRSAPrivateKeyFromBase64,
      Token!ParsePKCS8, Token!Local!ParseRSAPrivateKeyFromBase64, Token!Local!ParsePKCS8, Computing,
      Thens
<1>11. UsePlan(a, Token!SignEd25519(a))
  BY Zenon, ComputedPlans, ForeignForms, TokenVocabulary, <1>1, <1>2, <1>3 DEF
      Token!SignEd25519, Token!Local!SignEd25519, Token!ParseEd25519PrivateKeyFromBase64,
      Token!ParsePKCS8, Token!Local!ParseEd25519PrivateKeyFromBase64, Token!Local!ParsePKCS8,
      Token!Local!SignWith, Token!signWithToken, Computing, Thens
<1>12. UsePlan(a, Token!VerifyEd25519(a))
  BY Zenon, ComputedPlans, ForeignForms, TokenVocabulary, <1>1, <1>2, <1>3 DEF
      Token!VerifyEd25519, Token!Local!VerifyEd25519, Token!fetchVerificationKey,
      Token!fetchPublicKey, Computing, Thens
<1>13. UsePlan(a, Token!SignRSAPSS(a))
  BY Zenon, ComputedPlans, ForeignForms, TokenVocabulary, <1>1, <1>2, <1>3 DEF
      Token!SignRSAPSS, Token!Local!SignRSAPSS, Token!ParseRSAPrivateKeyFromBase64,
      Token!ParsePKCS8, Token!Local!ParseRSAPrivateKeyFromBase64, Token!Local!ParsePKCS8,
      Token!Local!SignWith, Token!signWithToken, Computing, Thens
<1>14. UsePlan(a, Token!VerifyRSAPSS(a))
  BY Zenon, ComputedPlans, ForeignForms, TokenVocabulary, <1>1, <1>2, <1>3 DEF
      Token!VerifyRSAPSS, Token!Local!VerifyRSAPSS, Token!fetchVerificationKey,
      Token!fetchPublicKey, Computing, Thens
<1>15. UsePlan(a, Token!Sign_RSA_PKCS1v15_SHA256(a))
  BY Zenon, ComputedPlans, ForeignForms, TokenVocabulary, <1>1, <1>2, <1>3 DEF
      Token!Sign_RSA_PKCS1v15_SHA256, Token!Local!Sign_RSA_PKCS1v15_SHA256,
      Token!ParseRSAPrivateKeyFromBase64, Token!ParsePKCS8,
      Token!Local!ParseRSAPrivateKeyFromBase64, Token!Local!ParsePKCS8, Token!Local!SignWith,
      Token!isKeyURI, Token!signWithToken, Computing, Thens
<1>16. UsePlan(a, Token!Verify_RSA_PKCS1v15_SHA256(a))
  BY Zenon, ComputedPlans, ForeignForms, TokenVocabulary, <1>1, <1>2, <1>3 DEF
      Token!Verify_RSA_PKCS1v15_SHA256, Token!Local!Verify_RSA_PKCS1v15_SHA256, Token!isKeyURI,
      Token!fetchVerificationKey, Token!fetchPublicKey, Computing, Thens
<1>. QED
  BY <1>4, <1>5, <1>6, <1>7, <1>8, <1>9, <1>10, <1>11, <1>12, <1>13, <1>14, <1>15, <1>16

\* PKCS#11: the methods that seal and open.
LEMMA TokenSeals ==
  ASSUME NEW a, Foreign(a), Backend = "pkcs11"
  PROVE  SealPlan(a, Token!EncryptAES(a), "Encrypt") /\ SealPlan(a, Token!DecryptAES(a), "Decrypt")
<1>1. \A do : SealPlan(a, Token!AskKey(a, <<Call(do, "aes", Bind(a.uid, a.add))>>, "value"), do)
  <2>. SUFFICES ASSUME NEW do
               PROVE  SealPlan(a, Token!AskKey(a, <<Call(do, "aes", Bind(a.uid, a.add))>>, "value"), do)
    OBVIOUS
  <2>. DEFINE calls_ == <<Call(do, "aes", Bind(a.uid, a.add))>>
             r == Token!AskKey(a, calls_, "value")
  <2>. HIDE DEF calls_
  <2>1. \/ r = Fail
        \/ \E ref : r = Ask(ref, calls_, "value") /\ RefersTo(a, ref) /\ (Backend = "gcp" => ref.ver = 0)
    BY TokenVocabulary DEF Foreign, IsText, RefersTo, Raw, NoText, Text,
      Token!AskKey, Token!resolveKeyURI, Token!parseKeyURI, Token!isKeyURI
  <2>. QED
    BY Zenon, <2>1 DEF SealPlan, calls_
<1>2. Token!BytesFromOptionalString(a.add) = Bind(a.uid, a.add)
  BY DEF Bind, Token!BytesFromOptionalString, BytesFromOptionalString
<1>3. \A do : SealPlan(a, Fail, do)
  BY Zenon DEF SealPlan
<1>. QED
  BY Zenon, ForeignForms, TokenVocabulary, <1>1, <1>2, <1>3 DEF Token!EncryptAES, Token!DecryptAES, Token!IsLocalAESKey

\* PKCS#11: the methods that make keys.
LEMMA TokenMakes ==
  ASSUME NEW a, Backend = "pkcs11"
  PROVE  /\ MakePlan("aes", Token!GenerateSymetrycKeys(a)) /\ MakePlan("rsa", Token!GenerateRSAKeys(a))
         /\ MakePlan("ecdh", Token!GenerateECDHCurveKeys(a)) /\ MakePlan("ed25519", Token!GenerateEd255Keys(a))
BY Zenon, TokenVocabulary DEF MakePlan,
    Token!GenerateSymetrycKeys, Token!GenerateRSAKeys, Token!GenerateECDHCurveKeys,
    Token!GenerateEd255Keys, Token!GeneratePair, Token!fetchPublicKey

\* PKCS#11: the methods that manage keys.
LEMMA TokenManages ==
  ASSUME NEW a, Foreign(a), Backend = "pkcs11"
  PROVE  /\ ManagePlan(a, Token!RotateKey(a), Rotation(a), "data")
         /\ ManagePlan(a, Token!GetKey(a), Inspection, "data")
         /\ ManagePlan(a, Token!DeactivateKey(a), Deactivation(a), "none")
<1>1. \A calls_, then : ManagePlan(a, Token!AskKey(a, calls_, then), calls_, then)
  <2>. SUFFICES ASSUME NEW calls_, NEW then
               PROVE  ManagePlan(a, Token!AskKey(a, calls_, then), calls_, then)
    OBVIOUS
  <2>1. \/ Token!AskKey(a, calls_, then) = Fail
        \/ \E ref : /\ Token!AskKey(a, calls_, then) = Ask(ref, calls_, then)
                    /\ RefersTo(a, ref) /\ ref.ver = Raw(a).ver
    BY TokenVocabulary DEF Foreign, IsText, RefersTo, Raw, NoText, Text,
      Token!AskKey, Token!resolveKeyURI, Token!parseKeyURI, Token!isKeyURI
  <2>. QED
    BY Zenon, <2>1 DEF ManagePlan
<1>2. Token!RotateKey(a) = Token!AskKey(a, Rotation(a), "data")
  <2>. DEFINE w == Needs(Lookup("GetAttributes"), {"aes"} \cup Asymmetric)
             x == Lookup("CreateReplacement")
             z == Lookup("DisablePrevious")
  <2>1. /\ Token!Needs(Token!Lookup("GetAttributes"), {"aes"} \cup Token!Asymmetric) = w
        /\ Token!Lookup("CreateReplacement") = x /\ Token!Lookup("DisablePrevious") = z
        /\ Token!OnlyFor(Token!fetchPublicKey, Token!Asymmetric) = PublicHalf
    BY Zenon, TokenVocabulary DEF PublicHalf, Token!fetchPublicKey
  <2>2. Rotation(a) = IF a.opts.rotateDisablesPrev THEN <<w, x, PublicHalf, z>> ELSE <<w, x, PublicHalf>>
    BY DEF Rotation
  <2>3. <<w, x, PublicHalf>> \o (IF a.opts.rotateDisablesPrev THEN <<z>> ELSE <<>>) = Rotation(a)
    <3>. HIDE DEF w, x, z
    <3>1. CASE a.opts.rotateDisablesPrev
      BY Zenon, <2>2, <3>1, ThreeAndOne
    <3>2. CASE ~a.opts.rotateDisablesPrev
      BY Zenon, <2>2, <3>2, AndNone
    <3>. QED
      BY <3>1, <3>2
  <2>. QED
    BY Zenon, <2>1, <2>3 DEF Token!RotateKey
<1>3. Token!GetKey(a) = Token!AskKey(a, Inspection, "data")
  BY TokenVocabulary DEF Inspection, PublicHalf, Token!GetKey, Token!fetchPublicKey
<1>4. Token!DeactivateKey(a) = Token!AskKey(a, Deactivation(a), "none")
  BY TokenVocabulary DEF Deactivation, Token!DeactivateKey, Token!disableObject
<1>. QED
  BY Zenon, <1>1, <1>2, <1>3, <1>4

\* What any method of the PKCS#11 repository yields.
LEMMA TokenMethods ==
  ASSUME NEW op, NEW a, Foreign(a), Backend = "pkcs11"
  PROVE  Planned(op, a, Token!Method(op, a))
<1>1. op \in Using => UsePlan(a, Token!Method(op, a))
  BY TokenUses DEF Using, Token!Method
<1>2. (op = "EncryptAES" => Token!Method(op, a) = Token!EncryptAES(a)) /\ (op = "DecryptAES" => Token!Method(op, a) = Token!DecryptAES(a))
  BY DEF Token!Method
<1>3. op \in DOMAIN Makes => MakePlan(Makes[op], Token!Method(op, a))
  BY TokenMakes DEF Makes, Token!Method
<1>4. /\ op = "RotateKey" => Token!Method(op, a) = Token!RotateKey(a)
      /\ op = "GetKey" => Token!Method(op, a) = Token!GetKey(a)
      /\ op = "DeactivateKey" => Token!Method(op, a) = Token!DeactivateKey(a)
  BY DEF Token!Method
<1>. QED
  BY Zenon, TokenSeals, TokenManages, <1>1, <1>2, <1>3, <1>4 DEF Planned
----------------------------------------------------------------------------
(* The local repository asks nobody: it fails, or gives what it computed.  *)

AllOps == Using \cup {"EncryptAES", "DecryptAES"} \cup DOMAIN Makes \cup Manages

LocalValue(op, a, v) ==
    /\ op = "DecryptAES" => a.art.bind = BytesFromOptionalString(a.add)
    /\ \/ Harmless(v)
       \/ \E x, y, z : v = KeyData(x, y, z)
       \/ \E kind, t, m, bind : /\ v = Sealed(kind, t, m, bind)
                                /\ kind = "aes" => bind = BytesFromOptionalString(a.add)
LocalPlan(op, a, r) == r = Fail \/ \E v : r = Give(v) /\ LocalValue(op, a, v)

\* Local keys: the vocabulary of the instance is that of Keys.
LEMMA MemVocabulary ==
  /\ Mem!Fail = Fail /\ Mem!Verified = Verified
  /\ \A v : Mem!Give(v) = Give(v)
  /\ \A m : Mem!Digest(m) = Digest(m) /\ Mem!Message(m) = Message(m)
  /\ \A x, y, z : Mem!KeyData(x, y, z) = KeyData(x, y, z)
  /\ \A k, t, m, b : Mem!Sealed(k, t, m, b) = Sealed(k, t, m, b)
  /\ \A s : Mem!BytesFromOptionalString(s) = BytesFromOptionalString(s)
BY DEF Fail, Mem!Fail, Verified, Mem!Verified, Give, Mem!Give, Digest, Mem!Digest, Message, Mem!Message, KeyData, Mem!KeyData,
    Sealed, Mem!Sealed, BytesFromOptionalString, Mem!BytesFromOptionalString

\* What any method of the local repository yields: an error or a value.
LEMMA MemMethods ==
  ASSUME NEW op \in AllOps, NEW a
  PROVE  LocalPlan(op, a, Mem!Method(op, a))
<1>1. /\ \A x : LocalPlan(x, a, Fail)
      /\ \A x, v : LocalValue(x, a, v) => LocalPlan(x, a, Give(v))
  BY Zenon DEF LocalPlan
<1>2. /\ \A x, m : x # "DecryptAES" => LocalValue(x, a, Message(m)) /\ LocalValue(x, a, Digest(m))
      /\ \A x : x # "DecryptAES" => LocalValue(x, a, Verified)
      /\ \A o, x, y, z : o # "DecryptAES" => LocalValue(o, a, KeyData(x, y, z))
      /\ \A x, k, t, m, b : x # "DecryptAES" /\ (k = "aes" => b = BytesFromOptionalString(a.add))
                              => LocalValue(x, a, Sealed(k, t, m, b))
      /\ a.art.bind = BytesFromOptionalString(a.add) => \A m : LocalValue("DecryptAES", a, Message(m))
  BY Zenon DEF LocalValue, Harmless
<1>3. \A x, y, o : o # "DecryptAES" => LocalPlan(o, a, Mem!Material(x, y))
  BY Zenon, <1>1, <1>2, MemVocabulary DEF Mem!Material
<1>4. \A o, kind, parses : o # "DecryptAES" /\ kind # "aes" =>
        LocalPlan(o, a, Mem!SignWith(kind, parses, a)) /\ LocalPlan(o, a, Mem!VerifyWith(kind, parses, a))
  BY Zenon, <1>1, <1>2, MemVocabulary DEF Mem!SignWith, Mem!VerifyWith
<1>5. \A o, t, art : o # "DecryptAES" => LocalPlan(o, a, Mem!OpenWithSecret(t, art))
  BY Zenon, <1>1, <1>2, MemVocabulary DEF Mem!OpenWithSecret
<1>6. /\ LocalPlan("GenerateSymetrycKeys", a, Mem!GenerateSymetrycKeys(a))
      /\ LocalPlan("GenerateRSAKeys", a, Mem!GenerateRSAKeys(a))
      /\ LocalPlan("GenerateECDHCurveKeys", a, Mem!GenerateECDHCurveKeys(a))
      /\ LocalPlan("GenerateEd255Keys", a, Mem!GenerateEd255Keys(a))
  BY Zenon, <1>1, <1>3, MemVocabulary
     DEF Mem!GenerateSymetrycKeys, Mem!GenerateRSAKeys, Mem!GenerateECDHCurveKeys, Mem!GenerateEd255Keys
<1>7. /\ LocalPlan("RotateKey", a, Mem!RotateKey(a)) /\ LocalPlan("GetKey", a, Mem!GetKey(a))
      /\ LocalPlan("DeactivateKey", a, Mem!DeactivateKey(a))
  BY Zenon, <1>1, MemVocabulary DEF Mem!RotateKey, Mem!GetKey, Mem!DeactivateKey
<1>8. /\ LocalPlan("EncryptAES", a, Mem!EncryptAES(a))
      /\ LocalPlan("DecryptAES", a, Mem!DecryptAES(a))
  BY Zenon, <1>1, <1>2, MemVocabulary DEF Mem!EncryptAES, Mem!encryptAES, Mem!DecryptAES, Mem!decryptAES
<1>9. /\ LocalPlan("HMAC", a, Mem!HMAC(a))
      /\ LocalPlan("Sha256Hex", a, Mem!Sha256Hex(a)) /\ LocalPlan("Blake3", a, Mem!Blake3(a))
      /\ LocalPlan("ECDH_Encode", a, Mem!ECDH_Encode(a)) /\ LocalPlan("ECDH_Decode", a, Mem!ECDH_Decode(a))
      /\ LocalPlan("RSA_OAEP_Encode", a, Mem!RSA_OAEP_Encode(a)) /\ LocalPlan("RSA_OAEP_Decode", a, Mem!RSA_OAEP_Decode(a))
  BY Zenon, <1>1, <1>2, <1>5, MemVocabulary
     DEF Mem!HMAC, Mem!Sha256Hex, Mem!Blake3, Mem!ECDH_Encode, Mem!ECDH_Decode, Mem!RSA_OAEP_Encode, Mem!RSA_OAEP_Decode
<1>10. /\ LocalPlan("SignEd25519", a, Mem!SignEd25519(a)) /\ LocalPlan("VerifyEd25519", a, Mem!VerifyEd25519(a))
       /\ LocalPlan("SignRSAPSS", a, Mem!SignRSAPSS(a)) /\ LocalPlan("VerifyRSAPSS", a, Mem!VerifyRSAPSS(a))
       /\ LocalPlan("Sign_RSA_PKCS1v15_SHA256", a, Mem!Sign_RSA_PKCS1v15_SHA256(a))
       /\ LocalPlan("Verify_RSA_PKCS1v15_SHA256", a, Mem!Verify_RSA_PKCS1v15_SHA256(a))
  BY Zenon, <1>4
     DEF Mem!SignEd25519, Mem!VerifyEd25519, Mem!SignRSAPSS, Mem!VerifyRSAPSS, Mem!Sign_RSA_PKCS1v15_SHA256, Mem!Verify_RSA_PKCS1v15_SHA256
<1>. QED
  BY <1>6, <1>7, <1>8, <1>9, <1>10 DEF Mem!Method, AllOps, Using, Makes, Manages
----------------------------------------------------------------------------
(* What is bound to a ciphertext: the invariant.                           *)

Remote == Backend # "local"

\* Key data that a service's description gives: it never holds material.
DataForms(d) ==
    /\ IsText(d.id) /\ d.id.form = "id"
    /\ IsText(d.ref) /\ d.ref.form = "ref"
    /\ IsText(d.pub) /\ (d.pub = NoText \/ d.pub.form \in {"pkix", "kem"})

Uids == {"", "x"}
Adds == {"nil", "x"}
BoundTo(art, uid, add) == art.kind = "aes" => art.bind = Bind(uid, add)

EnvOK ==
    /\ Backend \in Backends /\ Family \in Families
    /\ IsText(env.configured)
    /\ env.configured = NoText \/ env.configured.form = "ref"
HeldOK == Remote => \A d \in held : DataForms(d)
ArtOK(e) == e.uid \in Uids /\ e.add \in Adds /\ BoundTo(e.art, e.uid, e.add)

IsJob(j) ==
    j = [st |-> j.st, op |-> j.op, with |-> j.with, from |-> j.from, plan |-> j.plan, todo |-> j.todo,
         reg |-> j.reg, a |-> j.a, val |-> j.val, ok |-> j.ok, why |-> j.why, floor |-> j.floor]
IsArgs(a) ==
    a = [key |-> a.key, art |-> a.art, msg |-> a.msg, add |-> a.add, uid |-> a.uid, size |-> a.size,
         new |-> a.new, configured |-> a.configured, vault |-> a.vault, opts |-> a.opts]

\* A call that is under way or has returned.
Called(j) ==
    /\ j.op \in AllOps
    /\ ArtOK(j.from)
    /\ IsArgs(j.a) /\ j.a.art = j.from.art /\ j.a.uid \in Uids /\ j.a.add \in Adds
    /\ Remote => Foreign(j.a)

\* Calls to the service that seal nothing as AES does, whichever way they go.
Dos == Computing \cup {"CreateKey", "CreateReplacement", "DescribeKey", "GetAttributes", "GetCryptoKey", "GetKey",
                       "GetPublicKey", "RotateKey", "CreateCryptoKeyVersion", "UpdatePrimary", "DisableKey",
                       "DisablePrevious", "DestroyObject"}
Sealing == {"Encrypt", "Sign", "Mac"}
Quiet(call) ==
    /\ call.do \in Dos
    /\ call.else \in {"fail", "skip", "Derive", "DestroyObject"}
    /\ call.kind = "aes" => call.do \notin Sealing
Quietly(todo) == \E T : todo \in Seq(T) /\ \A call \in T : Quiet(call)

Seals == [EncryptAES |-> "Encrypt", DecryptAES |-> "Decrypt"]
Calling(j) ==
    /\ Remote /\ j.todo # << >> /\ IsText(j.reg) /\ IsText(j.plan.ref)
    /\ IF j.op \in DOMAIN Seals
       THEN j.plan.then = "value" /\ j.todo = <<Call(Seals[j.op], "aes", Bind(j.a.uid, j.a.add))>>
       ELSE Quietly(j.todo) /\ (j.plan.then \in {"data", "none"} \/ (j.plan.then \in Thens /\ j.op \in Using))

\* Only what the caller's identifier and additional data are bound to is sealed
\* for the caller, or opened.
ValueOK(a, v) ==
    /\ DOMAIN v = DOMAIN NoData /\ Remote => DataForms(v)
    /\ DOMAIN v = DOMAIN NoArt.art => BoundTo(v, a.uid, a.add)
Opened(op, a) == op = "DecryptAES" => a.art.bind = Bind(a.uid, a.add)
Outcome(j) == j.ok => ValueOK(j.a, j.val) /\ Opened(j.op, j.a)

JobOK(j) ==
    /\ IsJob(j)
    /\ j.st \in {"idle", "calling", "returned"}
    /\ j.st # "idle" => Called(j)
    /\ j.st = "calling" => Calling(j)
    /\ j.st = "returned" => Outcome(j)

BindingInv ==
    /\ EnvOK
    /\ HeldOK
    /\ \A e \in arts : ArtOK(e)
    /\ job = [c \in Clients |-> job[c]]
    /\ \A c \in Clients : JobOK(job[c])

----------------------------------------------------------------------------
\* The methods of a service, and those of the local repository.
LEMMA MethodPlanned ==
  ASSUME NEW op, NEW a, Foreign(a), Backend \in Backends, Remote
  PROVE  Planned(op, a, Method(op, a))
<1>1. CASE Backend = "aws"
  <2>1. Method(op, a) = Aws!Method(op, a)
    BY <1>1 DEF Method
  <2>. QED
    BY Zenon, <1>1, <2>1, AwsMethods
<1>2. CASE Backend = "azure"
  <2>1. Method(op, a) = Azure!Method(op, a)
    BY <1>2 DEF Method
  <2>. QED
    BY Zenon, <1>2, <2>1, AzureMethods
<1>3. CASE Backend = "gcp"
  <2>1. Method(op, a) = Gcp!Method(op, a)
    BY <1>3 DEF Method
  <2>. QED
    BY Zenon, <1>3, <2>1, GcpMethods
<1>4. CASE Backend = "pkcs11"
  <2>1. Method(op, a) = Token!Method(op, a)
    BY <1>4 DEF Method
  <2>. QED
    BY Zenon, <1>4, <2>1, TokenMethods
<1>. QED
  BY <1>1, <1>2, <1>3, <1>4 DEF Backends, Remote

\* The method that Keys runs when the backend is the local one.
LEMMA MethodLocal ==
  ASSUME NEW op \in AllOps, NEW a, ~Remote
  PROVE  LocalPlan(op, a, Method(op, a))
<1>1. Method(op, a) = Mem!Method(op, a)
  BY DEF Method, Remote
<1>. QED
  BY Zenon, <1>1, MemMethods

\* What a description gives.
LEMMA DataOfForms ==
  ASSUME NEW t, IsText(t), Backend \in Backends, Remote
  PROVE  DataForms(DataOf(t)) /\ DataOf(t) = KeyData(DataOf(t).id, DataOf(t).ref, DataOf(t).pub)
<1>1. CASE Backend = "aws"
  BY <1>1 DEF DataOf, DataForms, IsText, NoText, Text, KeyData, Asymmetric,
     Aws!awsKeyDataFromMetadata, Aws!awsKeySpecHasPublicKey, Aws!KeyData, Aws!NoText, Aws!Text, Aws!Asymmetric
<1>2. CASE Backend = "azure"
  BY <1>2 DEF DataOf, DataForms, IsText, NoText, Text, KeyData,
     Azure!azureKeyDataFromBundle, Azure!azureBundleHasRSAKey, Azure!azureBundleHasECKey,
     Azure!KeyData, Azure!NoText, Azure!Text
<1>3. CASE Backend = "gcp"
  BY <1>3 DEF DataOf, DataForms, IsText, NoText, Text, KeyData,
     Gcp!gcpKeyDataFromCryptoKey, Gcp!KeyData, Gcp!NoText, Gcp!Text, Gcp!Asymmetric
<1>4. CASE Backend = "pkcs11"
  BY <1>4 DEF DataOf, DataForms, IsText, NoText, Text, KeyData,
     Token!keyDataFor, Token!KeyData, Token!NoText, Token!Text, Token!Asymmetric
<1>. QED
  BY <1>1, <1>2, <1>3, <1>4 DEF Backends, Remote

----------------------------------------------------------------------------
\* An artefact or nothing of interest is what an answer of the service holds.
AnswerOK(call, a, ans) ==
    /\ IsText(ans.reg)
    /\ Harmless(ans.val) \/ (call.do \in Sealing /\ \E t, m : ans.val = Sealed(call.kind, t, m, call.bind))
    /\ ans.ok /\ call.do = "Decrypt" => a.art.bind = call.bind

\* An answer that only tells of a key is a good one.
LEMMA SimpleAnswers ==
  ASSUME NEW call, NEW a, call.do # "Decrypt"
  PROVE  \A reg, val, st : IsText(reg) /\ Harmless(val) => AnswerOK(call, a, Granted(reg, val, st))
<1>. SUFFICES ASSUME NEW reg, NEW val, NEW st, IsText(reg), Harmless(val)
             PROVE  AnswerOK(call, a, Granted(reg, val, st))
  OBVIOUS
<1>1. Granted(reg, val, st).reg = reg /\ Granted(reg, val, st).val = val
  BY DEF Granted
<1>. DEFINE ans == Granted(reg, val, st)
<1>2. IsText(ans.reg) /\ Harmless(ans.val)
  BY <1>1
<1>. HIDE DEF ans
<1>3. AnswerOK(call, a, ans)
  BY Zenon, <1>2 DEF AnswerOK
<1>. QED
  BY Zenon, <1>3 DEF ans

\* So is a refusal.
LEMMA Refusals ==
  ASSUME NEW call, NEW a
  PROVE  \A why : AnswerOK(call, a, Refused(why))
<1>1. \A why : /\ Refused(why).reg = NoText /\ Refused(why).val = NoDigest /\ ~Refused(why).ok
  BY DEF Refused
<1>2. IsText(NoText) /\ Harmless(NoDigest)
  BY DEF IsText, NoText, Text, Harmless, NoDigest, Digest
<1>. QED
  BY Zenon, <1>1, <1>2 DEF AnswerOK

\* The descriptions that the service gives are texts.
LEMMA TextForms ==
  /\ \A f, g, k, v, s : IsText(Text(f, g, k, v, s))
  /\ \A k, v : IsText(Told(k, v))
  /\ \A k, v, n, f : IsText([Told(k, v) EXCEPT !.ver = n]) /\ IsText([Told(k, v) EXCEPT !.form = f])
  /\ \A t, f : IsText(t) => IsText([t EXCEPT !.form = f])
  /\ IsText(NoText)
BY DEF IsText, Text, Told, NoText

\* Messages, digests and verdicts hold nothing sealed.
LEMMA Harmlessness ==
  Harmless(NoDigest) /\ Harmless(Verified) /\ \A m : Harmless(Message(m))
BY Zenon DEF Harmless, NoDigest, Digest

\* The calls that compute bind what they seal, and open what is bound alike.
LEMMA ComputeAnswers ==
  ASSUME NEW call, NEW t, NEW a, call.do \in Computing
  PROVE  AnswerOK(call, a, Compute(call, t, a))
<1>. DEFINE k    == store[t.key]
           v    == IF call.do = "Decrypt" THEN SealedBy(t, a.art) ELSE Version(t)
           fits == a.art.kind = call.kind /\ a.art.key = t.key /\ a.art.ver = v
<1>1. /\ \A reg, val, st : Granted(reg, val, st).reg = reg /\ Granted(reg, val, st).val = val
      /\ \A why : AnswerOK(call, a, Refused(why))
  BY Refusals DEF Granted
<1>. HIDE DEF k, v, fits
<1>2. CASE call.do \in Sealing
  <2>1. AnswerOK(call, a, Granted(Told(t.key, v), Sealed(call.kind, Told(t.key, v), a.msg, call.bind), store))
    <3>. DEFINE reg == Told(t.key, v)
               val == Sealed(call.kind, reg, a.msg, call.bind)
               ans == Granted(reg, val, store)
    <3>1. IsText(reg) /\ (\E u, m : val = Sealed(call.kind, u, m, call.bind)) /\ ans.reg = reg /\ ans.val = val
      BY Zenon, <1>1, TextForms
    <3>. HIDE DEF reg, val, ans
    <3>2. IsText(ans.reg) /\ (\E u, m : ans.val = Sealed(call.kind, u, m, call.bind)) /\ call.do # "Decrypt"
      BY <1>2, <3>1 DEF Sealing
    <3>3. AnswerOK(call, a, ans)
      BY Zenon, <1>2, <3>2 DEF AnswerOK
    <3>. QED
      BY Zenon, <3>3 DEF ans, val, reg
  <2>2. \/ Compute(call, t, a) = Refused("use") \/ Compute(call, t, a) = Refused("off")
        \/ Compute(call, t, a) = Granted(Told(t.key, v), Sealed(call.kind, Told(t.key, v), a.msg, call.bind), store)
    BY <1>2 DEF Compute, Sealing, k, v
  <2>. QED
    BY Zenon, <1>1, <2>1, <2>2
<1>3. CASE call.do = "Decrypt"
  <2>1. a.art.bind = call.bind => AnswerOK(call, a, Granted(Told(t.key, v), Message(a.art.msg), store))
    <3>. DEFINE reg == Told(t.key, v)
               val == Message(a.art.msg)
               ans == Granted(reg, val, store)
    <3>1. IsText(reg) /\ Harmless(val) /\ ans.reg = reg /\ ans.val = val
      BY Zenon, <1>1, TextForms, Harmlessness
    <3>. HIDE DEF reg, val, ans
    <3>2. IsText(ans.reg) /\ Harmless(ans.val)
      BY <3>1
    <3>3. a.art.bind = call.bind => AnswerOK(call, a, ans)
      BY Zenon, <3>2 DEF AnswerOK
    <3>. QED
      BY Zenon, <3>3 DEF ans, val, reg
  <2>2. \/ Compute(call, t, a) = Refused("use") \/ Compute(call, t, a) = Refused("off")
        \/ Compute(call, t, a) = Refused("mismatch")
        \/ a.art.bind = call.bind /\ Compute(call, t, a) = Granted(Told(t.key, v), Message(a.art.msg), store)
    BY <1>3 DEF Compute, k, v, fits
  <2>. QED
    BY Zenon, <1>1, <2>1, <2>2
<1>4. CASE call.do \in {"Verify", "Derive", "DecryptInHardware"}
  <2>1. /\ AnswerOK(call, a, Granted(Told(t.key, v), Verified, store))
        /\ AnswerOK(call, a, Granted(Told(t.key, v), NoDigest, store))
        /\ AnswerOK(call, a, Granted(NoText, NoDigest, store))
        /\ AnswerOK(call, a, Granted([Told(t.key, v) EXCEPT !.form = "plain"], NoDigest, store))
    <3>1. call.do # "Decrypt"
      BY <1>4
    <3>. QED
      BY Zenon, <3>1, SimpleAnswers, TextForms, Harmlessness
  <2>2. \/ Compute(call, t, a) = Refused("use") \/ Compute(call, t, a) = Refused("off")
        \/ Compute(call, t, a) = Refused("mismatch")
        \/ Compute(call, t, a) = Granted(Told(t.key, v), Verified, store)
        \/ Compute(call, t, a) = Granted(Told(t.key, v), NoDigest, store)
        \/ Compute(call, t, a) = Granted(NoText, NoDigest, store)
        \/ Compute(call, t, a) = Granted([Told(t.key, v) EXCEPT !.form = "plain"], NoDigest, store)
    BY <1>4 DEF Compute, k, v, fits
  <2>. QED
    BY Zenon, <1>1, <2>1, <2>2
<1>. QED
  BY <1>2, <1>3, <1>4 DEF Computing, Sealing

\* The calls that look at or change a key answer with a description of it.
LEMMA AdministerAnswers ==
  ASSUME NEW call, NEW t, NEW a, IsText(t),
         call.do \in Dos \ (Computing \cup {"CreateKey", "CreateReplacement"}),
         NEW ans \in Administer(call, t)
  PROVE  AnswerOK(call, a, ans)
<1>1. call.do # "Decrypt"
  BY DEF Computing
<1>2. \/ \E why : ans = Refused(why)
      \/ \E k, v, st : ans = Granted(Told(k, v), NoDigest, st)
      \/ \E k, v, n, st : ans = Granted([Told(k, v) EXCEPT !.ver = n], NoDigest, st)
      \/ \E st : ans = Granted(t, NoDigest, st)
  <2>1. CASE call.do \in {"DescribeKey", "GetAttributes", "GetCryptoKey"}
    BY Zenon, <2>1 DEF Administer
  <2>2. CASE call.do = "GetKey"
    BY Zenon, <2>2 DEF Administer
  <2>3. CASE call.do = "GetPublicKey"
    BY Zenon, <2>3 DEF Administer
  <2>4. CASE call.do = "RotateKey"
    BY Zenon, <2>4 DEF Administer
  <2>5. CASE call.do = "CreateCryptoKeyVersion"
    BY Zenon, <2>5 DEF Administer
  <2>6. CASE call.do = "UpdatePrimary"
    BY Zenon, <2>6 DEF Administer
  <2>7. CASE call.do \in {"DisableKey", "DisablePrevious", "DestroyObject"}
    BY Zenon, <2>7 DEF Administer
  <2>. QED
    BY <2>1, <2>2, <2>3, <2>4, <2>5, <2>6, <2>7 DEF Dos
<1>. QED
  <2>1. /\ \A reg, st : IsText(reg) => AnswerOK(call, a, Granted(reg, NoDigest, st))
        /\ \A why : AnswerOK(call, a, Refused(why))
    BY Zenon, <1>1, SimpleAnswers, Refusals, Harmlessness
  <2>2. ASSUME NEW reg, NEW st, IsText(reg), ans = Granted(reg, NoDigest, st)
        PROVE  AnswerOK(call, a, ans)
    BY Zenon, <2>1, <2>2
  <2>3. ASSUME NEW why, ans = Refused(why)
        PROVE  AnswerOK(call, a, ans)
    BY Zenon, <2>1, <2>3
  <2>. QED
    BY Zenon, <1>2, <2>2, <2>3, TextForms

\* Every answer of the service is a good one.
LEMMA AnswersOK ==
  ASSUME NEW call, NEW j, call.do \in Dos, IsText(j.reg), IsText(j.plan.ref),
         NEW ans \in Answers(call, j)
  PROVE  AnswerOK(call, j.a, ans)
<1>. DEFINE t == IF call.do = "DisablePrevious" \/ j.reg = NoText THEN j.plan.ref ELSE j.reg
<1>1. IsText(t)
  OBVIOUS
<1>. HIDE DEF t
<1>2. CASE call.do \in {"CreateKey", "CreateReplacement"}
  <2>1. \E f, g, k, v, s, st : ans = Granted(Text(f, g, k, v, s), NoDigest, st)
    <3>1. CASE call.do = "CreateKey"
      BY Zenon, <3>1 DEF Answers
    <3>2. CASE call.do = "CreateReplacement"
      <4>1. \E size : ans = Granted(Text("ref", t.alg, j.a.new, 1, size), NoDigest,
                        [store EXCEPT ![j.a.new] = NewKey(t.alg, size, Token!replacementUses(t.alg), t.key)])
        BY <3>2 DEF Answers, t
      <4>. QED
        BY Zenon, <4>1
    <3>. QED
      BY <1>2, <3>1, <3>2
  <2>2. call.do # "Decrypt"
    BY <1>2
  <2>. QED
    BY Zenon, <2>1, <2>2, SimpleAnswers, TextForms, Harmlessness
<1>3. CASE call.do \in Computing
  <2>1. call.do # "CreateKey" /\ call.do # "CreateReplacement"
    BY <1>3 DEF Computing
  <2>2. ans = Refused("mismatch") \/ ans = Compute(call, t, j.a)
    BY Zenon, <1>3, <2>1 DEF Answers, t
  <2>. QED
    BY Zenon, <1>3, <2>2, Refusals, ComputeAnswers
<1>4. CASE call.do \in Dos \ (Computing \cup {"CreateKey", "CreateReplacement"})
  <2>1. ans = Refused("mismatch") \/ ans \in Administer(call, t)
    BY Zenon, <1>4 DEF Answers, t
  <2>. QED
    BY Zenon, <1>1, <1>4, <2>1, Refusals, AdministerAnswers
<1>. QED
  BY Zenon, <1>2, <1>3, <1>4

----------------------------------------------------------------------------
\* What a method may end with.
ResultOK(op, a, r) == r = Fail \/ \E v : r = Give(v) /\ ValueOK(a, v) /\ Opened(op, a)

\* The values that a method may return.
LEMMA Values ==
  ASSUME NEW a
  PROVE  /\ \A v : Harmless(v) => ValueOK(a, v)
         /\ \A x, y, z : (Remote => DataForms(KeyData(x, y, z))) => ValueOK(a, KeyData(x, y, z))
         /\ \A kind, t, m, bind : (kind = "aes" => bind = Bind(a.uid, a.add)) => ValueOK(a, Sealed(kind, t, m, bind))
<1>1. ASSUME NEW v, Harmless(v)
      PROVE  ValueOK(a, v)
  <2>1. DOMAIN v = {"msg"} \/ DOMAIN v = {"verified"} \/ DOMAIN v = {"digest"}
    <3>1. ASSUME NEW m, v = Message(m) PROVE DOMAIN v = {"msg"}
      BY <3>1 DEF Message
    <3>2. ASSUME v = Verified PROVE DOMAIN v = {"verified"}
      BY <3>2 DEF Verified
    <3>3. ASSUME NEW m, v = Digest(m) PROVE DOMAIN v = {"digest"}
      BY <3>3 DEF Digest
    <3>. QED
      BY Zenon, <1>1, <3>1, <3>2, <3>3 DEF Harmless
  <2>2. "id" \in DOMAIN NoData /\ "kind" \in DOMAIN NoArt.art
    BY DEF NoData, KeyData, NoArt, Sealed
  <2>3. DOMAIN v # DOMAIN NoData /\ DOMAIN v # DOMAIN NoArt.art
    BY <2>1, <2>2
  <2>. QED
    BY Zenon, <2>3 DEF ValueOK
<1>2. ASSUME NEW x, NEW y, NEW z, Remote => DataForms(KeyData(x, y, z))
      PROVE  ValueOK(a, KeyData(x, y, z))
  <2>1. DOMAIN KeyData(x, y, z) # DOMAIN NoArt.art
    BY DEF KeyData, NoArt, Sealed
  <2>. QED
    BY Zenon, <1>2, <2>1 DEF ValueOK
<1>3. ASSUME NEW kind, NEW t, NEW m, NEW bind, kind = "aes" => bind = Bind(a.uid, a.add)
      PROVE  ValueOK(a, Sealed(kind, t, m, bind))
  <2>1. DOMAIN Sealed(kind, t, m, bind) # DOMAIN NoData
    BY DEF NoData, KeyData, Sealed
  <2>2. BoundTo(Sealed(kind, t, m, bind), a.uid, a.add)
    BY <1>3 DEF BoundTo, Sealed
  <2>. QED
    BY Zenon, <2>1, <2>2 DEF ValueOK
<1>. QED
  BY Zenon, <1>1, <1>2, <1>3

\* A method that has returned, field by field.
LEMMA ReturnedJob ==
  ASSUME NEW j, IsJob(j), NEW r, NEW why
  PROVE  /\ IsJob(Returned(j, r, why))
         /\ Returned(j, r, why).st = "returned" /\ Returned(j, r, why).todo = << >>
         /\ Returned(j, r, why).op = j.op /\ Returned(j, r, why).from = j.from /\ Returned(j, r, why).a = j.a
         /\ Returned(j, r, why).reg = j.reg /\ Returned(j, r, why).plan = j.plan
         /\ Returned(j, r, why).with = j.with /\ Returned(j, r, why).floor = j.floor
         /\ Returned(j, r, why).why = why
         /\ Returned(j, r, why).ok <=> r.step = "give" \/ j.op \in Hashes
         /\ r.step = "give" => Returned(j, r, why).val = r.val
         /\ r.step # "give" /\ j.op \in Hashes => Returned(j, r, why).val = NoDigest
<1>. DEFINE given == r.step = "give" \/ j.op \in Hashes
           value == IF r.step = "give" THEN r.val ELSE IF j.op \in Hashes THEN NoDigest ELSE j.val
           n == [st |-> "returned", op |-> j.op, with |-> j.with, from |-> j.from, plan |-> j.plan, todo |-> << >>,
                 reg |-> j.reg, a |-> j.a, val |-> value, ok |-> given, why |-> why, floor |-> j.floor]
<1>1. Returned(j, r, why) = n
  <2>. HIDE DEF given
  <2>1. Returned(j, r, why) = [j EXCEPT !.st = "returned", !.todo = << >>, !.why = why, !.ok = given, !.val = value]
    BY Zenon DEF Returned, given
  <2>. HIDE DEF value
  <2>. QED
    BY <2>1 DEF IsJob
<1>2. n.ok <=> given
  OBVIOUS
<1>3. n.val = value /\ n.st = "returned"
  OBVIOUS
<1>4. IsJob(n)
  BY DEF IsJob
<1>. QED
  BY <1>1, <1>2, <1>3, <1>4

\* A method that ends with a good result leaves a good job.
LEMMA Returns ==
  ASSUME NEW j, IsJob(j), Called(j), NEW r, NEW why, ResultOK(j.op, j.a, r)
  PROVE  JobOK(Returned(j, r, why))
<1>. DEFINE n == Returned(j, r, why)
<1>1. /\ IsJob(n) /\ n.st = "returned" /\ n.op = j.op /\ n.from = j.from /\ n.a = j.a
      /\ n.ok <=> r.step = "give" \/ j.op \in Hashes
      /\ r.step = "give" => n.val = r.val
      /\ r.step # "give" /\ j.op \in Hashes => n.val = NoDigest
  BY ReturnedJob
<1>. HIDE DEF n
<1>2. Called(n)
  BY <1>1 DEF Called
<1>3. Outcome(n)
  <2>1. CASE r = Fail
    <3>1. r.step # "give"
      BY <2>1 DEF Fail
    <3>2. n.ok => n.op \in Hashes /\ n.val = NoDigest
      BY <1>1, <3>1
    <3>3. n.op \in Hashes => Opened(n.op, n.a)
      BY DEF Opened, Hashes
    <3>4. ValueOK(n.a, NoDigest)
      BY Zenon, Values, Harmlessness
    <3>. QED
      BY <3>2, <3>3, <3>4 DEF Outcome
  <2>2. ASSUME NEW v, r = Give(v), ValueOK(j.a, v), Opened(j.op, j.a)
        PROVE  Outcome(n)
    <3>1. r.step = "give" /\ r.val = v
      BY <2>2 DEF Give
    <3>2. n.val = v /\ n.op = j.op /\ n.a = j.a
      BY <1>1, <3>1
    <3>. QED
      BY <2>2, <3>2 DEF Outcome
  <2>. QED
    BY Zenon, <2>1, <2>2 DEF ResultOK
<1>4. JobOK(n)
  BY <1>1, <1>2, <1>3 DEF JobOK
<1>. QED
  BY Zenon, <1>4 DEF n

\* The end of a method with the last answer.
LEMMA Concludes ==
  ASSUME NEW j, IsJob(j), Called(j), EnvOK, Remote, IsText(j.reg),
         NEW val, ValueOK(j.a, val), Opened(j.op, j.a),
         j.plan.then \in {"data", "none", "value"} \/ (j.plan.then \in Thens /\ j.op \in Using)
  PROVE  ResultOK(j.op, j.a, Step(Conclude(j, val)))
<1>1. ASSUME NEW v, ValueOK(j.a, v)
      PROVE  ResultOK(j.op, j.a, Step(Give(v)))
  <2>1. Step(Give(v)) = Give(v)
    BY DEF Step, Give
  <2>. QED
    BY Zenon, <1>1, <2>1 DEF ResultOK
<1>2. ResultOK(j.op, j.a, Step(Fail)) /\ ResultOK(j.op, j.a, Fail)
  <2>1. Step(Fail) = Fail
    BY DEF Step, Fail
  <2>. QED
    BY Zenon, <2>1 DEF ResultOK
<1>3. CASE j.plan.then = "data"
  <2>1. Conclude(j, val) = Give(DataOf(j.reg))
    BY <1>3 DEF Conclude
  <2>2. DataForms(DataOf(j.reg)) /\ DataOf(j.reg) = KeyData(DataOf(j.reg).id, DataOf(j.reg).ref, DataOf(j.reg).pub)
    BY Zenon, DataOfForms DEF EnvOK
  <2>3. ValueOK(j.a, DataOf(j.reg))
    <3>. DEFINE d == DataOf(j.reg)
    <3>1. DataForms(d) /\ d = KeyData(d.id, d.ref, d.pub)
      BY Zenon, <2>2
    <3>. HIDE DEF d
    <3>2. DataForms(KeyData(d.id, d.ref, d.pub))
      BY <3>1
    <3>3. ValueOK(j.a, KeyData(d.id, d.ref, d.pub))
      BY Zenon, <3>2, Values
    <3>4. ValueOK(j.a, d)
      BY <3>1, <3>3
    <3>. QED
      BY Zenon, <3>4 DEF d
  <2>. QED
    BY Zenon, <1>1, <2>1, <2>3
<1>4. CASE j.plan.then \in {"value", "digest"}
  <2>1. Conclude(j, val) = Give(val)
    BY <1>4 DEF Conclude
  <2>. QED
    BY Zenon, <1>1, <2>1
<1>5. CASE j.plan.then = "none"
  <2>1. Conclude(j, val) = Give(NoDigest)
    BY <1>5 DEF Conclude
  <2>. QED
    BY Zenon, <1>1, <2>1, Values, Harmlessness
<1>6. CASE j.plan.then = "local"
  <2>. DEFINE b == [j.a EXCEPT !.key = DataOf(j.reg).pub]
             r == Method(j.op, b)
  <2>1. Conclude(j, val) = r
    BY <1>6 DEF Conclude
  <2>2. j.op \in Using
    BY <1>6
  <2>3. Foreign(b)
    <3>1. DataForms(DataOf(j.reg))
      BY Zenon, DataOfForms DEF EnvOK
    <3>2. IsArgs(j.a) /\ Foreign(j.a)
      BY DEF Called
    <3>. QED
      BY <3>1, <3>2 DEF Foreign, IsArgs, DataForms
  <2>. HIDE DEF b
  <2>4. UsePlan(b, r)
    BY Zenon, <2>2, <2>3, MethodPlanned DEF EnvOK, Planned
  <2>. HIDE DEF r
  <2>5. ASSUME NEW v, Computed(b, v)
        PROVE  ValueOK(j.a, v)
    <3>1. ASSUME NEW kind, NEW bind, v = Sealed(kind, b.key, b.msg, bind), kind # "aes"
          PROVE  ValueOK(j.a, v)
      BY Zenon, <3>1, Values
    <3>. QED
      BY Zenon, <2>5, <3>1, Values DEF Computed
  <2>6. ASSUME NEW ref, NEW calls_, NEW then, r = Ask(ref, calls_, then)
        PROVE  Step(r) = Fail
    BY <2>6 DEF Ask, Step
  <2>7. ASSUME NEW v, r = Give(v), Computed(b, v)
        PROVE  ResultOK(j.op, j.a, Step(r))
    BY Zenon, <1>1, <2>5, <2>7
  <2>8. ResultOK(j.op, j.a, Step(r))
    BY Zenon, <1>2, <2>4, <2>6, <2>7 DEF UsePlan
  <2>. QED
    BY Zenon, <2>1, <2>8
<1>7. CASE j.plan.then = "open"
  <2>1. Conclude(j, val) = Fail \/ \E m : Conclude(j, val) = Give(Message(m))
    <3>1. \/ Conclude(j, val) = Give(Message(j.a.art.msg))
          \/ Conclude(j, val) = Mem!OpenWithSecret(j.reg, j.a.art)
      BY <1>7 DEF Conclude
    <3>. QED
      BY Zenon, <3>1, MemVocabulary DEF Mem!OpenWithSecret
  <2>2. \A m : ValueOK(j.a, Message(m))
    BY Zenon, Values, Harmlessness
  <2>3. ASSUME NEW m, Conclude(j, val) = Give(Message(m))
        PROVE  ResultOK(j.op, j.a, Step(Conclude(j, val)))
    BY Zenon, <1>1, <2>2, <2>3
  <2>. QED
    BY Zenon, <1>2, <2>1, <2>3
<1>. QED
  BY <1>3, <1>4, <1>5, <1>6, <1>7 DEF Thens

----------------------------------------------------------------------------
\* What is left of a plan is calls of the plan.
LEMMA RemainingCalls ==
  ASSUME NEW T, NEW s \in Seq(T), NEW reg
  PROVE  Remaining(s, reg) \in Seq(T)
<1>1. \A u \in Seq(T) : Skip(u, reg) \in Seq(T)
  BY DEF Skip
<1>. QED
  BY Zenon, <1>1 DEF Remaining

\* A call to the service that a method has under way.
LEMMA AfterAnswer ==
  ASSUME NEW j, JobOK(j), j.st = "calling", EnvOK, NEW ans, AnswerOK(Head(j.todo), j.a, ans)
  PROVE  JobOK(After(j, ans))
<1>. DEFINE call == Head(j.todo)
           reg  == IF ans.ok THEN ans.reg ELSE [j.reg EXCEPT !.form = "bare"]
           told == [j EXCEPT !.reg = reg]
           rest == IF call.do = "DisablePrevious" THEN << >> ELSE Remaining(Tail(j.todo), told.reg)
           kept == IF call.do = "DisablePrevious" /\ ans.ok THEN j ELSE told
           last == Step(Conclude(kept, ans.val))
           why  == IF last = Fail THEN "mismatch" ELSE "none"
<1>1. IsJob(j) /\ Called(j) /\ Calling(j) /\ Remote /\ IsText(j.reg)
  BY DEF JobOK, Calling
<1>2. IsText(reg)
  BY <1>1, TextForms DEF AnswerOK
<1>3. \/ After(j, ans) = Returned(j, Fail, ans.why)
      \/ After(j, ans) = Returned(j, Fail, "mismatch")
      \/ ~ans.ok /\ call.else \notin {"fail", "skip"} /\ After(j, ans) = [j EXCEPT !.todo = <<Plain(call.else, call.kind)>>]
      \/ rest # << >> /\ After(j, ans) = [kept EXCEPT !.todo = rest]
      \/ (ans.ok \/ call.else # "fail") /\ After(j, ans) = Returned(kept, last, why)
  BY DEF After
<1>4. /\ IsJob(kept) /\ kept.op = j.op /\ kept.from = j.from /\ kept.a = j.a /\ kept.plan = j.plan /\ kept.st = "calling"
      /\ IsText(kept.reg)
  BY <1>1, <1>2 DEF IsJob
<1>5. Called(kept)
  <2>. HIDE DEF kept
  <2>. QED
    BY <1>1, <1>4 DEF Called
<1>6. ResultOK(j.op, j.a, Fail)
  BY Zenon DEF ResultOK
<1>7. \A w : JobOK(Returned(j, Fail, w))
  BY Zenon, <1>1, <1>6, Returns
<1>. HIDE DEF kept, reg
<1>8. CASE j.op \in DOMAIN Seals
  <2>1. j.plan.then = "value" /\ j.todo = <<Call(Seals[j.op], "aes", Bind(j.a.uid, j.a.add))>>
    BY <1>1, <1>8 DEF Calling
  <2>2. /\ call = Call(Seals[j.op], "aes", Bind(j.a.uid, j.a.add))
        /\ call.kind = "aes" /\ call.bind = Bind(j.a.uid, j.a.add) /\ call.else = "fail" /\ call.do = Seals[j.op]
    BY <2>1 DEF Call
  <2>3. rest = << >>
    <3>1. Tail(j.todo) = << >>
      BY <2>1
    <3>2. \A x : Remaining(<< >>, x) = << >>
      BY DEF Remaining, Skip
    <3>. QED
      BY <3>1, <3>2
  <2>4. ans.ok => Opened(j.op, j.a)
    <3>1. Seals["DecryptAES"] = "Decrypt"
      BY DEF Seals
    <3>. QED
      BY <2>2, <3>1 DEF AnswerOK, Opened
  <2>5. ValueOK(j.a, ans.val)
    <3>1. ASSUME NEW t, NEW m, ans.val = Sealed(call.kind, t, m, call.bind)
          PROVE  ValueOK(j.a, ans.val)
      <4>1. ans.val = Sealed("aes", t, m, Bind(j.a.uid, j.a.add))
        BY <2>2, <3>1
      <4>. QED
        BY Zenon, <4>1, Values
    <3>. QED
      BY Zenon, <3>1, Values DEF AnswerOK
  <2>6. ASSUME ans.ok
        PROVE  JobOK(Returned(kept, last, why))
    <3>1. ResultOK(kept.op, kept.a, last)
      <4>1. ValueOK(kept.a, ans.val) /\ Opened(kept.op, kept.a) /\ kept.plan.then \in {"data", "none", "value"}
        BY <1>4, <2>1, <2>4, <2>5, <2>6
      <4>. QED
        BY Zenon, <1>1, <1>4, <1>5, <4>1, Concludes
    <3>. HIDE DEF last, why
    <3>. QED
      BY Zenon, <1>4, <1>5, <3>1, Returns
  <2>. HIDE DEF call, rest, last, why
  <2>. QED
    BY <1>3, <1>7, <2>2, <2>3, <2>6
<1>9. CASE j.op \notin DOMAIN Seals
  <2>1. /\ Quietly(j.todo) /\ j.todo # << >>
        /\ j.plan.then \in {"data", "none"} \/ (j.plan.then \in Thens /\ j.op \in Using)
    BY <1>1, <1>9 DEF Calling
  <2>2. PICK T : j.todo \in Seq(T) /\ \A x \in T : Quiet(x)
    BY Zenon, <2>1 DEF Quietly
  <2>3. call \in T /\ Tail(j.todo) \in Seq(T)
    BY <2>1, <2>2
  <2>4. rest \in Seq(T)
    <3>1. << >> \in Seq(T)
      OBVIOUS
    <3>. QED
      BY Zenon, <2>3, <3>1, RemainingCalls
  <2>5. Quiet(call)
    BY Zenon, <2>2, <2>3
  <2>6. ASSUME NEW n, NEW todo, n = [kept EXCEPT !.todo = todo] \/ n = [j EXCEPT !.todo = todo],
               todo # << >>, Quietly(todo)
        PROVE  JobOK(n)
    <3>1. /\ IsJob(n) /\ n.st = "calling" /\ n.op = j.op /\ n.from = j.from /\ n.a = j.a /\ n.plan = j.plan
          /\ IsText(n.reg) /\ n.todo = todo
      BY <1>1, <1>4, <2>6 DEF IsJob
    <3>2. Called(n)
      BY <1>1, <3>1 DEF Called
    <3>3. Calling(n)
      BY <1>1, <1>9, <2>1, <2>6, <3>1 DEF Calling
    <3>. QED
      BY <3>1, <3>2, <3>3 DEF JobOK
  <2>7. ASSUME ~ans.ok, call.else \notin {"fail", "skip"}
        PROVE  JobOK([j EXCEPT !.todo = <<Plain(call.else, call.kind)>>])
    <3>. DEFINE p == Plain(call.else, call.kind)
    <3>1. Quiet(p)
      BY <2>5, <2>7 DEF Quiet, Plain, Call, Dos, Computing, Sealing
    <3>. HIDE DEF p
    <3>. DEFINE P == {p}
    <3>2. <<p>> \in Seq(P) /\ <<p>> # << >>
      OBVIOUS
    <3>3. \A x \in P : Quiet(x)
      BY <3>1
    <3>. HIDE DEF P
    <3>4. Quietly(<<p>>)
      BY Zenon, <3>2, <3>3 DEF Quietly
    <3>5. JobOK([j EXCEPT !.todo = <<p>>])
      BY Zenon, <2>6, <3>2, <3>4
    <3>. QED
      BY Zenon, <3>5 DEF p
  <2>8. ASSUME rest # << >>
        PROVE  JobOK([kept EXCEPT !.todo = rest])
    <3>1. Quietly(rest)
      BY Zenon, <2>2, <2>4 DEF Quietly
    <3>. HIDE DEF rest
    <3>. QED
      BY Zenon, <2>6, <2>8, <3>1
  <2>9. JobOK(Returned(kept, last, why))
    <3>1. ValueOK(j.a, ans.val)
      <4>1. ASSUME NEW t, NEW m, call.do \in Sealing, ans.val = Sealed(call.kind, t, m, call.bind)
            PROVE  ValueOK(j.a, ans.val)
        <5>1. call.kind # "aes"
          BY <2>5, <4>1 DEF Quiet
        <5>. QED
          BY Zenon, <4>1, <5>1, Values
      <4>. QED
        BY Zenon, <4>1, Values DEF AnswerOK
    <3>2. Opened(j.op, j.a)
      BY <1>9 DEF Opened, Seals
    <3>3. ResultOK(kept.op, kept.a, last)
      <4>1. ValueOK(kept.a, ans.val) /\ Opened(kept.op, kept.a)
        BY <1>4, <3>1, <3>2
      <4>2. kept.plan.then \in {"data", "none", "value"} \/ (kept.plan.then \in Thens /\ kept.op \in Using)
        BY <1>4, <2>1
      <4>. QED
        BY Zenon, <1>1, <1>4, <1>5, <4>1, <4>2, Concludes
    <3>. HIDE DEF last, why
    <3>. QED
      BY Zenon, <1>4, <1>5, <3>3, Returns
  <2>. HIDE DEF call, rest, last, why
  <2>. QED
    BY <1>3, <1>7, <2>7, <2>8, <2>9
<1>. QED
  BY <1>8, <1>9

\* A call to the service is answered as AnswerOK says.
LEMMA CallAnswered ==
  ASSUME NEW j, JobOK(j), j.st = "calling", NEW ans \in Answers(Head(j.todo), j)
  PROVE  AnswerOK(Head(j.todo), j.a, ans)
<1>1. Calling(j) /\ IsText(j.reg) /\ IsText(j.plan.ref)
  BY DEF JobOK, Calling
<1>2. Head(j.todo).do \in Dos
  <2>1. CASE j.op \in DOMAIN Seals
    BY <1>1, <2>1 DEF Calling, Call, Seals, Dos, Computing
  <2>2. CASE j.op \notin DOMAIN Seals
    <3>1. PICK T : j.todo \in Seq(T) /\ \A x \in T : Quiet(x)
      BY Zenon, <1>1, <2>2 DEF Calling, Quietly
    <3>2. Head(j.todo) \in T
      BY <1>1, <3>1 DEF Calling
    <3>. QED
      BY <3>1, <3>2 DEF Quiet
  <2>. QED
    BY <2>1, <2>2
<1>. QED
  BY Zenon, <1>1, <1>2, AnswersOK

\* The plans that make or manage keys seal nothing.
LEMMA QuietPlans ==
  /\ \A w : Quiet(w) => Quietly(<<w>>) /\ <<w>> # << >>
  /\ \A w, x : Quiet(w) /\ Quiet(x) => Quietly(<<w, x>>) /\ <<w, x>> # << >>
  /\ \A w, x, y : Quiet(w) /\ Quiet(x) /\ Quiet(y) => Quietly(<<w, x, y>>) /\ <<w, x, y>> # << >>
  /\ \A w, x, y, z : Quiet(w) /\ Quiet(x) /\ Quiet(y) /\ Quiet(z) => Quietly(<<w, x, y, z>>) /\ <<w, x, y, z>> # << >>
<1>1. \A s, T : s \in Seq(T) /\ (\A call \in T : Quiet(call)) => Quietly(s)
  BY Zenon DEF Quietly
<1>2. ASSUME NEW w, NEW x, NEW y, NEW z, Quiet(w), Quiet(x), Quiet(y), Quiet(z)
      PROVE  /\ Quietly(<<w>>) /\ Quietly(<<w, x>>) /\ Quietly(<<w, x, y>>) /\ Quietly(<<w, x, y, z>>)
             /\ <<w>> # << >> /\ <<w, x>> # << >> /\ <<w, x, y>> # << >> /\ <<w, x, y, z>> # << >>
  <2>. DEFINE T == {w, x, y, z}
  <2>1. \A call \in T : Quiet(call)
    BY <1>2
  <2>2. <<w>> \in Seq(T) /\ <<w, x>> \in Seq(T) /\ <<w, x, y>> \in Seq(T) /\ <<w, x, y, z>> \in Seq(T)
    OBVIOUS
  <2>3. <<w>> # << >> /\ <<w, x>> # << >> /\ <<w, x, y>> # << >> /\ <<w, x, y, z>> # << >>
    OBVIOUS
  <2>. HIDE DEF T
  <2>. QED
    BY Zenon, <1>1, <2>1, <2>2, <2>3
<1>. QED
  BY Zenon, <1>2

\* The plans that generate a key seal nothing,
LEMMA MakePlansQuiet ==
  ASSUME NEW alg, NEW size, NEW uses
  PROVE  LET create == Create(alg, size, uses)
             public == Lookup("GetPublicKey")
             version == OnlyFor(Lookup("CreateCryptoKeyVersion"), Asymmetric)
         IN  /\ Quietly(<<create>>) /\ <<create>> # << >>
             /\ Quietly(<<create, public>>) /\ <<create, public>> # << >>
             /\ Quietly(<<create, version, public>>) /\ <<create, version, public>> # << >>
<1>1. Quiet(Create(alg, size, uses)) /\ Quiet(Lookup("GetPublicKey"))
      /\ Quiet(OnlyFor(Lookup("CreateCryptoKeyVersion"), Asymmetric))
  BY DEF Quiet, Create, Lookup, Call, OnlyFor, Dos, Sealing
<1>. QED
  BY Zenon, <1>1, QuietPlans

\* ... nor do those that rotate, inspect or deactivate one.
LEMMA ManagePlansQuiet ==
  ASSUME NEW a
  PROVE  \A calls_ \in {Rotation(a), Inspection, Deactivation(a)} : Quietly(calls_) /\ calls_ # << >>
<1>1. /\ \A do \in Dos : Quiet(Lookup(do))
      /\ \A algs : \A do \in Dos : Quiet(Needs(Lookup(do), algs)) /\ Quiet(OnlyFor(Lookup(do), algs))
      /\ \A do \in Dos : Quiet(Otherwise(Lookup(do), "skip")) /\ Quiet(Otherwise(Lookup(do), "DestroyObject"))
  BY DEF Quiet, Lookup, Call, Needs, OnlyFor, Otherwise, Dos, Sealing
<1>2. {"DescribeKey", "RotateKey", "GetKey", "GetCryptoKey", "CreateCryptoKeyVersion", "UpdatePrimary", "GetAttributes",
       "CreateReplacement", "DisablePrevious", "DisableKey", "GetPublicKey"} \subseteq Dos
  BY DEF Dos
<1>3. Quiet(PublicHalf)
  BY Zenon, <1>1, <1>2 DEF PublicHalf
<1>4. Quietly(Rotation(a)) /\ Rotation(a) # << >>
  BY Zenon, <1>1, <1>2, <1>3, QuietPlans DEF Rotation
<1>5. Quietly(Inspection) /\ Inspection # << >>
  BY Zenon, <1>1, <1>2, <1>3, QuietPlans DEF Inspection
<1>6. Quietly(Deactivation(a)) /\ Deactivation(a) # << >>
  BY Zenon, <1>1, <1>2, <1>3, QuietPlans DEF Deactivation
<1>. QED
  BY Zenon, <1>4, <1>5, <1>6

----------------------------------------------------------------------------
\* The methods that a client calls.
LEMMA CalledMethods ==
  ASSUME NEW c, Family \in Families, NEW op \in Ops(c)
  PROVE  op \in AllOps
<1>1. op \in Manages \/ op \in {p[1] : p \in Pairs[Family]} \/ op \in {p[2] : p \in Pairs[Family]}
      \/ op \in Hashes \/ (Family # "mac" /\ op = Generator[Family])
  BY DEF Ops, Manages
<1>2. CASE op \in Manages \cup Hashes
  BY <1>2 DEF AllOps, Using, Hashes
<1>3. CASE Family # "mac" /\ op = Generator[Family]
  BY <1>3 DEF Families, Generator, AllOps, Makes
<1>4. CASE op \in {p[1] : p \in Pairs[Family]} \cup {p[2] : p \in Pairs[Family]}
  <2>1. CASE Family = "aes"
    BY <1>4, <2>1 DEF Pairs, AllOps
  <2>2. CASE Family = "rsa"
    BY <1>4, <2>2 DEF Pairs, AllOps, Using
  <2>3. CASE Family = "ecdh"
    BY <1>4, <2>3 DEF Pairs, AllOps, Using
  <2>4. CASE Family = "ed25519"
    BY <1>4, <2>4 DEF Pairs, AllOps, Using
  <2>5. CASE Family = "mac"
    BY <1>4, <2>5 DEF Pairs, AllOps, Using
  <2>. QED
    BY <2>1, <2>2, <2>3, <2>4, <2>5 DEF Families
<1>. QED
  BY <1>1, <1>2, <1>3, <1>4

\* A method that ends at once ends as it may, one that does not plans its calls.
LEMMA MethodBegins ==
  ASSUME NEW j, IsJob(j), Called(j), EnvOK, NEW r, r = Fail \/ r = Method(j.op, j.a)
  PROVE  /\ r.step # "ask" => ResultOK(j.op, j.a, r)
         /\ r.step = "ask" => /\ Remote /\ IsText(r.ref) /\ r.calls # << >>
                              /\ IF j.op \in DOMAIN Seals
                                 THEN r.then = "value" /\ r.calls = <<Call(Seals[j.op], "aes", Bind(j.a.uid, j.a.add))>>
                                 ELSE /\ Quietly(r.calls)
                                      /\ r.then \in {"data", "none"} \/ (r.then \in Thens /\ j.op \in Using)
<1>. DEFINE a == j.a
<1>1. CASE r = Fail
  <2>1. r.step # "ask"
    BY <1>1 DEF Fail
  <2>. QED
    BY Zenon, <1>1, <2>1 DEF ResultOK
<1>2. CASE ~Remote /\ r # Fail
  <2>1. PICK v : r = Give(v) /\ LocalValue(j.op, a, v)
    BY Zenon, <1>2, MethodLocal DEF Called, LocalPlan
  <2>2. r.step = "give"
    BY <2>1 DEF Give
  <2>3. \A uid, add : Bind(uid, add) = BytesFromOptionalString(add)
    BY <1>2 DEF Remote, Bind
  <2>4. Opened(j.op, a)
    BY <2>1, <2>3 DEF LocalValue, Opened
  <2>5. ValueOK(a, v)
    <3>1. ASSUME NEW x, NEW y, NEW z, v = KeyData(x, y, z)
          PROVE  ValueOK(a, v)
      BY Zenon, <1>2, <3>1, Values
    <3>2. ASSUME NEW kind, NEW t, NEW m, NEW bind, v = Sealed(kind, t, m, bind),
                 kind = "aes" => bind = BytesFromOptionalString(a.add)
          PROVE  ValueOK(a, v)
      BY Zenon, <2>3, <3>2, Values
    <3>. QED
      BY Zenon, <2>1, <3>1, <3>2, Values DEF LocalValue
  <2>6. ResultOK(j.op, a, r)
    BY Zenon, <2>1, <2>4, <2>5 DEF ResultOK
  <2>. QED
    BY <2>2, <2>6
<1>3. CASE Remote /\ r # Fail
  <2>1. Planned(j.op, a, r)
    BY Zenon, <1>3, MethodPlanned DEF Called, EnvOK
  <2>2. \A ref, calls_, then : LET p == Ask(ref, calls_, then)
                               IN  p.step = "ask" /\ p.ref = ref /\ p.calls = calls_ /\ p.then = then
    BY DEF Ask
  <2>3. j.op \in AllOps
    BY DEF Called
  <2>4. CASE j.op \in Using
    <3>1. UsePlan(a, r) /\ j.op \notin DOMAIN Seals
      BY <2>1, <2>4 DEF Planned, Seals, Using
    <3>2. ASSUME NEW v, r = Give(v), Computed(a, v)
          PROVE  r.step # "ask" /\ ResultOK(j.op, a, r)
      <4>1. ValueOK(a, v)
        <5>1. ASSUME NEW kind, NEW bind, v = Sealed(kind, a.key, a.msg, bind), kind # "aes"
              PROVE  ValueOK(a, v)
          BY Zenon, <5>1, Values
        <5>. QED
          BY Zenon, <3>2, <5>1, Values DEF Computed
      <4>2. Opened(j.op, a)
        BY <2>4 DEF Opened, Using
      <4>3. r.step # "ask"
        BY <3>2 DEF Give
      <4>. QED
        BY Zenon, <3>2, <4>1, <4>2, <4>3 DEF ResultOK
    <3>3. ASSUME NEW ref, NEW call, NEW then, r = Ask(ref, <<call>>, then), RefersTo(a, ref), UseCall(call), then \in Thens
          PROVE  /\ r.step = "ask" /\ IsText(r.ref) /\ r.calls # << >> /\ r.then \in Thens
                 /\ Quietly(r.calls)
      <4>. DEFINE P == {call}
      <4>1. Quiet(call)
        BY <3>3 DEF UseCall, Quiet, Dos
      <4>2. <<call>> \in Seq(P) /\ <<call>> # << >> /\ \A x \in P : Quiet(x)
        BY <4>1
      <4>. HIDE DEF P
      <4>3. Quietly(<<call>>)
        BY Zenon, <4>2 DEF Quietly
      <4>4. IsText(ref)
        BY Zenon, <3>3 DEF RefersTo
      <4>. QED
        BY <2>2, <3>3, <4>2, <4>3, <4>4
    <3>4. \/ \E v : r = Give(v) /\ Computed(a, v)
          \/ \E ref, call, then :
                r = Ask(ref, <<call>>, then) /\ RefersTo(a, ref) /\ UseCall(call) /\ then \in Thens
      BY Zenon, <1>3, <3>1 DEF UsePlan
    <3>5. CASE \E v : r = Give(v) /\ Computed(a, v)
      <4>1. r.step # "ask" /\ ResultOK(j.op, a, r)
        BY Zenon, <3>2, <3>5
      <4>. QED
        BY <4>1
    <3>6. CASE \E ref, call, then :
                r = Ask(ref, <<call>>, then) /\ RefersTo(a, ref) /\ UseCall(call) /\ then \in Thens
      <4>1. r.step = "ask" /\ IsText(r.ref) /\ r.calls # << >> /\ r.then \in Thens /\ Quietly(r.calls)
        BY Zenon, <3>3, <3>6
      <4>. QED
        BY <1>3, <2>4, <3>1, <4>1
    <3>. QED
      BY Zenon, <3>4, <3>5, <3>6
  <2>5. CASE j.op \in DOMAIN Seals
    <3>1. SealPlan(a, r, Seals[j.op])
      <4>1. CASE j.op = "EncryptAES"
        BY <2>1, <4>1 DEF Planned, Seals
      <4>2. CASE j.op = "DecryptAES"
        BY <2>1, <4>2 DEF Planned, Seals
      <4>. QED
        BY <2>5, <4>1, <4>2 DEF Seals
    <3>. DEFINE calls_ == <<Call(Seals[j.op], "aes", Bind(a.uid, a.add))>>
    <3>2. PICK ref : r = Ask(ref, calls_, "value") /\ RefersTo(a, ref)
      BY Zenon, <1>3, <3>1 DEF SealPlan
    <3>0. calls_ # << >>
      OBVIOUS
    <3>. HIDE DEF calls_
    <3>3. r.step = "ask" /\ r.ref = ref /\ r.then = "value" /\ r.calls = calls_
      BY <3>2 DEF Ask
    <3>4. IsText(r.ref) /\ r.calls # << >> /\ r.calls = <<Call(Seals[j.op], "aes", Bind(a.uid, a.add))>>
      BY <3>0, <3>2, <3>3 DEF RefersTo, calls_
    <3>. QED
      BY <1>3, <2>5, <3>3, <3>4
  <2>6. CASE j.op \in DOMAIN Makes \cup Manages
    <3>1. j.op \notin DOMAIN Seals
      BY <2>6 DEF Makes, Manages, Seals
    <3>2. ASSUME NEW ref, NEW calls_, NEW then, r = Ask(ref, calls_, then), IsText(ref), calls_ # << >>, Quietly(calls_),
                 then \in {"data", "none"}
          PROVE  r.step = "ask" /\ IsText(r.ref) /\ r.calls # << >> /\ Quietly(r.calls) /\ r.then \in {"data", "none"}
      BY <2>2, <3>2
    <3>3. \E ref, calls_, then : /\ r = Ask(ref, calls_, then) /\ IsText(ref) /\ calls_ # << >> /\ Quietly(calls_)
                                 /\ then \in {"data", "none"}
      <4>1. CASE j.op \in DOMAIN Makes
        <5>1. MakePlan(Makes[j.op], r)
          BY <2>1, <4>1 DEF Planned
        <5>. QED
          BY Zenon, <1>3, <5>1, MakePlansQuiet, TextForms DEF MakePlan
      <4>2. CASE j.op \in Manages
        <5>1. \/ ManagePlan(a, r, Rotation(a), "data") \/ ManagePlan(a, r, Inspection, "data")
              \/ ManagePlan(a, r, Deactivation(a), "none")
          BY <2>1, <4>2 DEF Planned, Manages
        <5>2. \E ref, calls_, then : /\ r = Ask(ref, calls_, then) /\ RefersTo(a, ref)
                                     /\ calls_ \in {Rotation(a), Inspection, Deactivation(a)} /\ then \in {"data", "none"}
          BY Zenon, <1>3, <5>1 DEF ManagePlan
        <5>3. \A ref : RefersTo(a, ref) => IsText(ref)
          BY Zenon DEF RefersTo
        <5>. QED
          BY Zenon, <5>2, <5>3, ManagePlansQuiet
      <4>. QED
        BY <2>6, <4>1, <4>2
    <3>4. r.step = "ask" /\ IsText(r.ref) /\ r.calls # << >> /\ Quietly(r.calls) /\ r.then \in {"data", "none"}
      BY Zenon, <3>2, <3>3
    <3>. QED
      BY <1>3, <3>1, <3>4
  <2>. QED
    BY <2>3, <2>4, <2>5, <2>6 DEF AllOps, Seals
<1>. QED
  BY <1>1, <1>2, <1>3

\* Joining with the separator is never one part alone.
LEMMA ThreeParts ==
  /\ <<"x">> # <<"x", "\\0">> \o <<"x">>
  /\ <<"x">> # <<"x", "\\0">> \o << >>
<1>1. Len(<<"x", "\\0">> \o <<"x">>) = 3 /\ Len(<<"x", "\\0">> \o << >>) = 2 /\ Len(<<"x">>) = 1
  <2>. DEFINE S == {"x", "\\0"}
             s == <<"x", "\\0">>
             t == <<"x">>
             u == << >>
  <2>1. s \in Seq(S) /\ t \in Seq(S) /\ u \in Seq(S) /\ Len(s) = 2 /\ Len(t) = 1 /\ Len(u) = 0
    OBVIOUS
  <2>2. Len(s \o t) = 3 /\ Len(s \o u) = 2
    <3>. HIDE DEF S, s, t, u
    <3>1. Len(s \o t) = Len(s) + Len(t) /\ Len(s \o u) = Len(s) + Len(u)
      BY Zenon, <2>1, ConcatProperties
    <3>. QED
      BY <2>1, <3>1
  <2>. QED
    BY <2>1, <2>2
<1>. QED
  BY <1>1

----------------------------------------------------------------------------
\* Whether a call or an artefact is as it must be depends on the environment only.
LEMMA SameEnv ==
  ASSUME env' = env
  PROVE  /\ EnvOK' <=> EnvOK
         /\ Remote' <=> Remote
         /\ \A e : ArtOK(e)' <=> ArtOK(e)
         /\ \A j : JobOK(j)' <=> JobOK(j)
<1>1. (Backend' = Backend) /\ (Family' = Family)
  BY DEF Backend, Family
<1>2. \A uid, add : Bind(uid, add)' = Bind(uid, add)
  BY <1>1 DEF Bind
<1>3. (EnvOK' <=> EnvOK) /\ (Remote' <=> Remote)
  BY <1>1 DEF EnvOK, Remote
<1>4. /\ \A art, uid, add : BoundTo(art, uid, add)' <=> BoundTo(art, uid, add)
      /\ \A op, a : Opened(op, a)' <=> Opened(op, a)
  BY Zenon, <1>2 DEF BoundTo, Opened
<1>5. \A e : ArtOK(e)' <=> ArtOK(e)
  BY Zenon, <1>4 DEF ArtOK
<1>6. \A a, v : ValueOK(a, v)' <=> ValueOK(a, v)
  BY Zenon, <1>3, <1>4 DEF ValueOK
<1>7. \A j : Outcome(j)' <=> Outcome(j)
  BY Zenon, <1>4, <1>6 DEF Outcome
<1>8. \A j : Called(j)' <=> Called(j)
  BY Zenon, <1>3, <1>5 DEF Called
<1>9. \A j : Calling(j)' <=> Calling(j)
  BY <1>2, <1>3 DEF Calling
<1>10. \A j : JobOK(j)' <=> JobOK(j)
  BY Zenon, <1>7, <1>8, <1>9 DEF JobOK
<1>. QED
  BY <1>3, <1>5, <1>10

\* A client that has called nothing.
LEMMA IdleOK == JobOK(Idle)
BY DEF JobOK, IsJob, Idle

\* The invariant holds at first.
LEMMA BindingInit ==
  ASSUME Init
  PROVE  BindingInv
<1>. USE KeysAssumption
<1>1. PICK i \in Instances : \E o \in Options(i[1], i[2]) : \E configured \in BOOLEAN :
         /\ configured => i[1] # "local"
         /\ i[1] = "gcp" => configured
         /\ env = [backend |-> i[1], family |-> i[2], opts |-> o, vault |-> TRUE,
                   configured |-> IF configured THEN ConfiguredText(i[1], i[2]) ELSE NoText]
  BY Zenon DEF Init
<1>2. PICK configured \in BOOLEAN :
         /\ configured => i[1] # "local"
         /\ Backend = i[1] /\ Family = i[2]
         /\ env.configured = IF configured THEN ConfiguredText(i[1], i[2]) ELSE NoText
  BY <1>1 DEF Backend, Family
<1>3. i[1] \in Backends /\ i[2] \in Families
  <2>1. i \in Backends \X Families
    BY DEF KeysAssumption
  <2>. QED
    BY <2>1
<1>4. ConfiguredText(i[1], i[2]).form = "ref" /\ IsText(ConfiguredText(i[1], i[2])) /\ IsText(NoText)
  BY DEF ConfiguredText, IsText, Text, NoText
<1>5. EnvOK
  BY <1>2, <1>3, <1>4 DEF EnvOK
<1>6. HeldOK
  <2>1. IsText([env.configured EXCEPT !.ver = 1])
    BY <1>5 DEF EnvOK, IsText, Text
  <2>2. Remote => DataForms(DataOf([env.configured EXCEPT !.ver = 1]))
    BY Zenon, <1>5, <2>1, DataOfForms DEF EnvOK
  <2>3. held = {} \/ held = {DataOf([env.configured EXCEPT !.ver = 1])}
    BY Zenon DEF Init
  <2>. HIDE DEF Init
  <2>. QED
    BY <2>2, <2>3 DEF HeldOK
<1>7. arts = {} /\ job = [c \in Clients |-> Idle]
  BY DEF Init
<1>8. \A c \in Clients : JobOK(job[c])
  BY <1>7, IdleOK
<1>. QED
  BY <1>5, <1>6, <1>7, <1>8 DEF BindingInv

\* One client's call changes, and nothing that an artefact or key data is held by.
LEMMA OneJob ==
  ASSUME BindingInv, NEW c \in Clients, NEW n, JobOK(n),
         env' = env, held' = held, arts' = arts, job' = [job EXCEPT ![c] = n]
  PROVE  BindingInv'
<1>1. /\ EnvOK' <=> EnvOK
      /\ Remote' <=> Remote
      /\ \A e : ArtOK(e)' <=> ArtOK(e)
      /\ \A j : JobOK(j)' <=> JobOK(j)
  BY SameEnv
<1>2. EnvOK /\ HeldOK /\ (\A e \in arts : ArtOK(e)) /\ job = [d \in Clients |-> job[d]] /\ \A d \in Clients : JobOK(job[d])
  BY DEF BindingInv
<1>3. EnvOK' /\ HeldOK' /\ \A e \in arts' : ArtOK(e)'
  BY <1>1, <1>2 DEF HeldOK
<1>4. job' = [d \in Clients |-> job'[d]] /\ job'[c] = n /\ \A d \in Clients \ {c} : job'[d] = job[d]
  BY <1>2
<1>5. \A d \in Clients : JobOK(job'[d])
  BY <1>2, <1>4
<1>6. \A d \in Clients : JobOK(job[d])'
  BY Zenon, <1>1, <1>5
<1>. QED
  BY <1>3, <1>4, <1>6 DEF BindingInv

\* The parts of Call_: the method op is called with the arguments x and the
\* text key.
Creates(op) == op = "RotateKey" \/ (Family # "mac" /\ op = Generator[Family])
Named(key) == IF key = NoText THEN env.configured.key ELSE key.key
ArgsOf(op, x, key) ==
    [key |-> key, art |-> x.from.art, msg |-> IF x.from = NoArt THEN x.msg ELSE x.from.art.msg,
     add |-> x.add, uid |-> x.uid, size |-> x.size,
     new |-> IF Creates(op) THEN CHOOSE n \in Fresh : TRUE ELSE "none",
     configured |-> env.configured, vault |-> env.vault, opts |-> env.opts]
JobOf(op, x, key) ==
    [Idle EXCEPT !.op = op, !.with = x.with, !.from = x.from, !.a = ArgsOf(op, x, key),
                 !.floor = IF Named(key) \in AllNames THEN acked[Named(key)] ELSE 0]
Started(j, r, why) ==
    IF r.step = "ask" THEN [j EXCEPT !.st = "calling", !.plan = r, !.todo = r.calls] ELSE Returned(j, r, why)
Outcomes(r) == IF r.step = "give" THEN Mem!runWithContext("ends", r) ELSE {r}
Begins(c, op, x, key) ==
    /\ Creates(op) => Fresh # {}
    /\ \E r \in Outcomes(Method(op, ArgsOf(op, x, key))) :
          job' = [job EXCEPT ![c] =
                    Started(JobOf(op, x, key), r,
                            IF r = Fail /\ Method(op, ArgsOf(op, x, key)) = Fail THEN "mismatch"
                            ELSE IF r = Fail THEN "fault" ELSE "none")]
    /\ retired' = IF op = "DeactivateKey" THEN retired \cup {Named(key)} ELSE retired

\* Call_ by its parts.
LEMMA CallBegins ==
  ASSUME NEW c, Call_(c)
  PROVE  \E op \in Ops(c) : \E x \in Arguments(op) : \E key \in KeyTexts(op, x.with) : Begins(c, op, x, key)
BY Zenon DEF Call_, Begins, Creates, Named, ArgsOf, JobOf, Started, Outcomes

\* The job that a call begins is that of the method or, if the context is over, of an error.
LEMMA BeginsJob ==
  ASSUME NEW c, NEW op, NEW x, NEW key, Begins(c, op, x, key)
  PROVE  \E r, why : /\ r = Fail \/ r = Method(op, ArgsOf(op, x, key))
                     /\ job' = [job EXCEPT ![c] = Started(JobOf(op, x, key), r, why)]
<1>1. \A r, s : r \in Outcomes(s) => r = Fail \/ r = s
  BY MemVocabulary DEF Outcomes, Mem!runWithContext
<1>2. PICK r \in Outcomes(Method(op, ArgsOf(op, x, key))) :
         job' = [job EXCEPT ![c] =
                   Started(JobOf(op, x, key), r,
                           IF r = Fail /\ Method(op, ArgsOf(op, x, key)) = Fail THEN "mismatch"
                           ELSE IF r = Fail THEN "fault" ELSE "none")]
  BY Zenon DEF Begins
<1>3. r = Fail \/ r = Method(op, ArgsOf(op, x, key))
  BY Zenon, <1>1
<1>. QED
  BY Zenon, <1>2, <1>3

\* The job of a call before its first step, field by field.
LEMMA BegunJob ==
  ASSUME NEW op, NEW x, NEW key
  PROVE  LET a == ArgsOf(op, x, key)
             j == JobOf(op, x, key)
         IN  /\ IsJob(j) /\ j.op = op /\ j.from = x.from /\ j.a = a /\ j.reg = NoText
             /\ IsArgs(a) /\ a.art = x.from.art /\ a.uid = x.uid /\ a.add = x.add /\ a.key = key
             /\ a.configured = env.configured
<1>. DEFINE a == ArgsOf(op, x, key)
           j == JobOf(op, x, key)
           floor == IF Named(key) \in AllNames THEN acked[Named(key)] ELSE 0
<1>1. /\ IsArgs(a) /\ a.art = x.from.art /\ a.uid = x.uid /\ a.add = x.add /\ a.key = key
      /\ a.configured = env.configured
  BY DEF IsArgs, ArgsOf
<1>2. IsJob(j) /\ j.op = op /\ j.from = x.from /\ j.a = a /\ j.reg = NoText
  <2>1. j = [Idle EXCEPT !.op = op, !.with = x.with, !.from = x.from, !.a = a, !.floor = floor]
    BY Zenon DEF JobOf
  <2>. HIDE DEF a, floor, j
  <2>2. j = [st |-> "idle", op |-> op, with |-> x.with, from |-> x.from, plan |-> Fail, todo |-> <<>>,
             reg |-> NoText, a |-> a, val |-> NoDigest, ok |-> TRUE, why |-> "none", floor |-> floor]
    BY <2>1 DEF Idle
  <2>. QED
    BY <2>2 DEF IsJob
<1>. QED
  BY <1>1, <1>2

\* Beginning a method keeps the invariant,
LEMMA CallBinds ==
  ASSUME BindingInv, NEW c \in Clients, Call_(c)
  PROVE  BindingInv'
<1>1. EnvOK /\ HeldOK /\ \A e \in arts : ArtOK(e)
  BY DEF BindingInv
<1>2. PICK op \in Ops(c) : \E x \in Arguments(op) : \E key \in KeyTexts(op, x.with) : Begins(c, op, x, key)
  BY Zenon, CallBegins
<1>3. PICK x \in Arguments(op) : \E key \in KeyTexts(op, x.with) : Begins(c, op, x, key)
  BY Zenon, <1>2
<1>4. PICK key \in KeyTexts(op, x.with) : Begins(c, op, x, key)
  BY Zenon, <1>3
<1>. DEFINE a == ArgsOf(op, x, key)
           j == JobOf(op, x, key)
<1>5. PICK r, why : (r = Fail \/ r = Method(op, a)) /\ job' = [job EXCEPT ![c] = Started(j, r, why)]
  <2>. HIDE DEF a, j
  <2>1. \E s, w : /\ s = Fail \/ s = Method(op, a)
                  /\ job' = [job EXCEPT ![c] = Started(j, s, w)]
    BY <1>4, BeginsJob DEF a, j
  <2>. QED
    BY Zenon, <2>1
<1>. DEFINE n == Started(j, r, why)
<1>5a. job' = [job EXCEPT ![c] = n]
  BY Zenon, <1>5
<1>6. /\ IsJob(j) /\ j.op = op /\ j.from = x.from /\ j.a = a /\ j.reg = NoText
      /\ IsArgs(a) /\ a.art = x.from.art /\ a.uid = x.uid /\ a.add = x.add /\ a.key = key /\ a.configured = env.configured
  BY BegunJob
<1>6a. /\ x.with \in held \cup {NoData} /\ x.from \in arts \cup {NoArt}
      /\ x.uid \in Uids /\ x.add \in Adds
  BY DEF Arguments, Uids, Adds
<1>7. ArtOK(x.from)
  <2>1. ArtOK(NoArt)
    BY DEF ArtOK, NoArt, Uids, Adds, BoundTo, Sealed
  <2>. QED
    BY <1>1, <1>6a, <2>1
<1>8. Remote => Foreign(a)
  <2>. SUFFICES ASSUME Remote PROVE Foreign(a)
    OBVIOUS
  <2>1. key \in {x.with.id, x.with.ref, x.with.pub}
    BY DEF KeyTexts
  <2>2. x.with = NoData \/ DataForms(x.with)
    BY <1>1, <1>6a DEF HeldOK
  <2>3. x.with = NoData => key = NoText
    BY <2>1 DEF NoData, KeyData
  <2>. HIDE DEF a
  <2>. QED
    BY <1>1, <1>6, <2>1, <2>2, <2>3, TextForms DEF Foreign, DataForms, EnvOK
<1>9. op \in AllOps
  BY Zenon, <1>1, CalledMethods DEF EnvOK
<1>. HIDE DEF a, j
<1>10. Called(j)
  BY <1>6, <1>6a, <1>7, <1>8, <1>9 DEF Called
<1>11. /\ r.step # "ask" => ResultOK(j.op, j.a, r)
       /\ r.step = "ask" => /\ Remote /\ IsText(r.ref) /\ r.calls # << >>
                            /\ IF j.op \in DOMAIN Seals
                               THEN r.then = "value" /\ r.calls = <<Call(Seals[j.op], "aes", Bind(j.a.uid, j.a.add))>>
                               ELSE /\ Quietly(r.calls)
                                    /\ r.then \in {"data", "none"} \/ (r.then \in Thens /\ j.op \in Using)
  <2>1. r = Fail \/ r = Method(j.op, j.a)
    BY <1>5, <1>6
  <2>. QED
    BY Zenon, <1>1, <1>6, <1>10, <2>1, MethodBegins
<1>12. JobOK(n)
  <2>1. CASE r.step # "ask"
    <3>1. JobOK(Returned(j, r, why))
      BY Zenon, <1>6, <1>10, <1>11, <2>1, Returns
    <3>. QED
      BY <2>1, <3>1 DEF Started
  <2>2. CASE r.step = "ask"
    <3>1. n = [j EXCEPT !.st = "calling", !.plan = r, !.todo = r.calls]
      BY <2>2 DEF Started
    <3>2. /\ IsJob(n) /\ n.st = "calling" /\ n.op = j.op /\ n.from = j.from /\ n.a = j.a /\ n.reg = NoText
          /\ n.plan = r /\ n.todo = r.calls
      BY <1>6, <3>1 DEF IsJob
    <3>. HIDE DEF n
    <3>3. Called(n)
      BY <1>10, <3>2 DEF Called
    <3>4. Calling(n)
      BY <1>11, <2>2, <3>2, TextForms DEF Calling
    <3>. QED
      BY <3>2, <3>3, <3>4 DEF JobOK
  <2>. QED
    BY <2>1, <2>2
<1>13. env' = env /\ held' = held /\ arts' = arts
  BY DEF Call_
<1>. HIDE DEF n
<1>. QED
  BY Zenon, <1>5a, <1>12, <1>13, OneJob

\* ... a call to the service does,
LEMMA ServiceBinds ==
  ASSUME BindingInv, NEW c \in Clients, ServiceCall(c)
  PROVE  BindingInv'
<1>1. EnvOK /\ JobOK(job[c]) /\ job[c].st = "calling"
  BY DEF BindingInv, ServiceCall
<1>2. PICK ans \in Answers(Head(job[c].todo), job[c]) :
         \/ job' = [job EXCEPT ![c] = After(job[c], ans)]
         \/ job' = [job EXCEPT ![c] = After(job[c], Refused("fault"))]
  BY Zenon DEF ServiceCall
<1>3. AnswerOK(Head(job[c].todo), job[c].a, ans) /\ AnswerOK(Head(job[c].todo), job[c].a, Refused("fault"))
  BY Zenon, <1>1, CallAnswered, Refusals
<1>4. JobOK(After(job[c], ans)) /\ JobOK(After(job[c], Refused("fault")))
  BY Zenon, <1>1, <1>3, AfterAnswer
<1>5. env' = env /\ held' = held /\ arts' = arts
  BY DEF ServiceCall
<1>. QED
  BY Zenon, <1>2, <1>4, <1>5, OneJob

\* ... and so does taking the result.
LEMMA TakeBinds ==
  ASSUME BindingInv, NEW c \in Clients, Take(c)
  PROVE  BindingInv'
<1>. DEFINE j == job[c]
           e == [art |-> j.val, with |-> j.with, uid |-> j.a.uid, add |-> j.a.add]
<1>1. /\ EnvOK' <=> EnvOK
      /\ Remote' <=> Remote
      /\ \A x : ArtOK(x)' <=> ArtOK(x)
      /\ \A x : JobOK(x)' <=> JobOK(x)
  BY SameEnv DEF Take
<1>2. EnvOK /\ HeldOK /\ (\A x \in arts : ArtOK(x)) /\ job = [d \in Clients |-> job[d]] /\ \A d \in Clients : JobOK(job[d])
  BY DEF BindingInv
<1>3. Called(j) /\ Outcome(j)
  BY <1>2 DEF Take, JobOK
<1>4. HeldOK'
  <2>1. \A d \in held' : d \in held \/ (j.ok /\ DOMAIN j.val = DOMAIN NoData /\ d = j.val)
    BY DEF Take
  <2>2. Remote /\ j.ok /\ DOMAIN j.val = DOMAIN NoData => DataForms(j.val)
    BY Zenon, <1>3 DEF Outcome, ValueOK
  <2>. HIDE DEF j
  <2>. QED
    BY <1>1, <1>2, <2>1, <2>2 DEF HeldOK
<1>5. \A x \in arts' : ArtOK(x)
  <2>1. \A x \in arts' : x \in arts \/ (j.ok /\ DOMAIN j.val = DOMAIN NoArt.art /\ x = e)
    BY DEF Take
  <2>2. ASSUME j.ok, DOMAIN j.val = DOMAIN NoArt.art
        PROVE  ArtOK(e)
    <3>1. BoundTo(j.val, j.a.uid, j.a.add)
      BY Zenon, <1>3, <2>2 DEF Outcome, ValueOK
    <3>2. j.a.uid \in Uids /\ j.a.add \in Adds
      BY <1>3 DEF Called
    <3>3. e.uid = j.a.uid /\ e.add = j.a.add /\ e.art = j.val
      OBVIOUS
    <3>. HIDE DEF e, j
    <3>. QED
      BY <3>1, <3>2, <3>3 DEF ArtOK
  <2>. HIDE DEF e
  <2>. QED
    BY <1>2, <2>1, <2>2
<1>6. job' = [d \in Clients |-> job'[d]] /\ \A d \in Clients : JobOK(job'[d])
  BY <1>2, IdleOK DEF Take
<1>7. \A d \in Clients : JobOK(job[d])'
  BY Zenon, <1>1, <1>6
<1>8. \A x \in arts' : ArtOK(x)'
  BY Zenon, <1>1, <1>5
<1>. QED
  BY <1>1, <1>2, <1>4, <1>6, <1>7, <1>8 DEF BindingInv

\* What was authenticated tells the identifier and the additional data apart.
LEMMA BindSeparates ==
  ASSUME Backend \in Backends, NEW u \in Uids, NEW v \in Uids, NEW a \in Adds, NEW b \in Adds, Bind(u, a) = Bind(v, b)
  PROVE  /\ Backend \in {"local", "pkcs11"} \/ u = v => a = b
         /\ Backend = "aws" => u = v
<1>1. CASE Backend \in {"local", "pkcs11"}
  BY <1>1 DEF Bind, BytesFromOptionalString, Adds
<1>2. CASE Backend = "aws"
  <2>1. ASSUME NEW p \in Uids, NEW q \in Adds
        PROVE  /\ <<"uid", "x">> \in Bind(p, q) <=> p = "x"
               /\ <<"additional", "x">> \in Bind(p, q) <=> q = "x"
    BY <1>2 DEF Bind, Aws!awsKMSEncryptionContext, Adds, Uids
  <2>2. (u = "x" <=> v = "x") /\ (a = "x" <=> b = "x")
    BY Zenon, <2>1
  <2>. QED
    BY <1>2, <2>2 DEF Adds, Uids
<1>3. CASE Backend = "azure"
  <2>1. <<"x">> # <<"x", "\\0">> \o <<"x">>
    BY ThreeParts
  <2>. QED
    BY <1>3, <2>1 DEF Bind, Azure!azureAuthenticatedData, Azure!BytesFromOptionalString, Adds, Uids
<1>4. CASE Backend = "gcp"
  <2>1. <<"x">> # <<"x", "\\0">> \o <<"x">>
    BY ThreeParts
  <2>. QED
    BY <1>4, <2>1 DEF Bind, Gcp!gcpAuthenticatedData, Gcp!BytesFromOptionalString, Adds, Uids
<1>. QED
  BY <1>1, <1>2, <1>3, <1>4 DEF Backends

\* The invariant from which the binding of ciphertexts follows, for every
\* backend, any number of clients and any interleaving of their calls: key data
\* of a service is never material, and every ciphertext of an AES method has
\* been sealed with the caller's identifier and additional data.
THEOREM CiphertextsAreBound == Spec => []BindingInv
<1>1. Init => BindingInv
  BY BindingInit
<1>2. BindingInv /\ [Next]_vars => BindingInv'
  <2>. SUFFICES ASSUME BindingInv, [Next]_vars
               PROVE  BindingInv'
    OBVIOUS
  <2>1. CASE UNCHANGED vars
    <3>1. /\ EnvOK' <=> EnvOK
          /\ Remote' <=> Remote
          /\ \A x : ArtOK(x)' <=> ArtOK(x)
          /\ \A x : JobOK(x)' <=> JobOK(x)
      BY <2>1, SameEnv DEF vars
    <3>. QED
      BY <2>1, <3>1 DEF vars, BindingInv, HeldOK
  <2>2. ASSUME NEW c \in Clients, Call_(c) PROVE BindingInv'
    BY Zenon, <2>2, CallBinds
  <2>3. ASSUME NEW c \in Clients, ServiceCall(c) PROVE BindingInv'
    BY Zenon, <2>3, ServiceBinds
  <2>4. ASSUME NEW c \in Clients, Take(c) PROVE BindingInv'
    BY Zenon, <2>4, TakeBinds
  <2>. QED
    BY Zenon, <2>1, <2>2, <2>3, <2>4 DEF Next
<1>. QED
  BY <1>1, <1>2, PTL DEF Spec

\* AuthBinding of the run, for every value of the constants: DecryptAES of any
\* repository returns a plaintext only for the additional data that EncryptAES
\* was given, and of AWS KMS only for the caller's identifier too.
THEOREM OpensOnlyAsSealed == Spec => []AuthBinding
<1>1. BindingInv => AuthBinding
  <2>. SUFFICES ASSUME BindingInv, NEW c \in Clients, Opening(job[c]), job[c].op = "DecryptAES", job[c].ok
               PROVE  LET j == job[c]
                          sameUID == j.from.uid = j.a.uid
                      IN  /\ (Backend \in {"local", "pkcs11"} \/ sameUID) => j.from.add = j.a.add
                          /\ Backend = "aws" => sameUID
    BY DEF AuthBinding
  <2>. DEFINE j == job[c]
  <2>1. JobOK(j) /\ Backend \in Backends /\ j.st = "returned" /\ j.from.art.kind = "aes"
    BY DEF BindingInv, EnvOK, Opening, KindOf
  <2>. HIDE DEF j
  <2>2. Called(j) /\ Outcome(j)
    BY <2>1 DEF JobOK
  <2>3. j.op = "DecryptAES" /\ j.ok
    BY DEF j
  <2>4. j.from.art.bind = Bind(j.a.uid, j.a.add)
    BY <2>2, <2>3 DEF Outcome, Opened, Called
  <2>5. j.from.art.bind = Bind(j.from.uid, j.from.add) /\ j.from.uid \in Uids /\ j.from.add \in Adds
        /\ j.a.uid \in Uids /\ j.a.add \in Adds
    BY <2>1, <2>2 DEF Called, ArtOK, BoundTo
  <2>6. /\ (Backend \in {"local", "pkcs11"} \/ j.from.uid = j.a.uid) => j.from.add = j.a.add
        /\ Backend = "aws" => j.from.uid = j.a.uid
    <3>1. Bind(j.from.uid, j.from.add) = Bind(j.a.uid, j.a.add)
      BY <2>4, <2>5
    <3>. QED
      BY <2>1, <2>5, <3>1, BindSeparates
  <2>. QED
    BY <2>6 DEF j
<1>. QED
  BY <1>1, CiphertextsAreBound, PTL

----------------------------------------------------------------------------
(* What the service keeps: the invariant.  st, rt and ak stand for values  *)
(* of store, retired and acked.                                            *)

\* Texts that name a key of the service, one of its versions, or either.
Within(st, t) == t.key \in AllNames /\ st[t.key] # NoKey /\ (t.ver = 0 \/ t.ver \in DOMAIN st[t.key].on)
Exists(st, t) == t.key \in AllNames /\ st[t.key] # NoKey /\ t.alg = st[t.key].alg
Points(st, t) == Exists(st, t) /\ t.ver \in DOMAIN st[t.key].on
Addresses(st, t) == Points(st, t) \/ (Exists(st, t) /\ t.ver = 0 /\ Backend # "pkcs11")
Nil(t) == t = NoText

KeyOK(k) ==
    \/ k = NoKey
    \/ /\ k = [alg |-> k.alg, size |-> k.size, uses |-> k.uses, on |-> k.on, prim |-> k.prim, after |-> k.after]
       /\ k.on \in Seq(BOOLEAN) /\ k.on # << >>
       /\ k.alg \in Algorithms
       /\ k.prim \in 0..Len(k.on)
       /\ Backend # "gcp" => k.prim # 0
       /\ Backend = "pkcs11" => Len(k.on) = 1
       /\ Backend # "pkcs11" => k.alg = Family
KeysOK(st) == st = [k \in AllNames |-> st[k]] /\ \A k \in AllNames : KeyOK(st[k])

Replaced(st, k) == env.opts.rotateDisablesPrev /\ \E n \in Names : st[n].after = k
\* A version is off only for a reason.
VersionsKept(st, rt) ==
    \A k \in AllNames : \A v \in DOMAIN st[k].on : st[k].on[v] \/ k \in rt \/ Replaced(st, k)

\* Where acknowledged rotations bind encryption.
Versioned == Backend \in {"aws", "gcp"} /\ Family = "aes"
Acknowledged(st, ak) == Versioned => \A k \in AllNames : ak[k] \in Nat /\ ak[k] <= st[k].prim

DataPoints(st, d) == Addresses(st, d.id) /\ Addresses(st, d.ref) /\ (Nil(d.pub) \/ Points(st, d.pub))
ArtReal(st, art) == art.key \in AllNames => st[art.key] # NoKey /\ art.ver \in DOMAIN st[art.key].on


\* What a call was given.
Given(st, rt, ak, j) ==
    /\ j.a.opts = env.opts /\ j.a.configured = env.configured
    /\ Nil(j.a.key) \/ Addresses(st, j.a.key)
    /\ j.op \notin Manages /\ j.a.key.form # "ref" => Nil(j.a.key) \/ Points(st, j.a.key)
    /\ IF Creates(j.op) THEN j.a.new \in Names ELSE j.a.new = "none"
    /\ j.op \in DOMAIN Makes => Creates(j.op) /\ Makes[j.op] = Family
    /\ j.op = "DeactivateKey" => Raw(j.a).key \in rt
    /\ j.op = "EncryptAES" => Family = "aes"
    /\ j.op = "EncryptAES" /\ Versioned =>
          j.floor \in Nat /\ (Raw(j.a).key \in AllNames => j.floor <= ak[Raw(j.a).key])

\* How far a call is: the calls still to be made, and what has been done.
Reading == Computing \cup {"DescribeKey", "GetAttributes", "GetCryptoKey", "GetKey", "GetPublicKey"}
UseStage(j) == \E call : j.todo = <<call>> /\ call.do \in Reading /\ call.else \in {"fail", "Derive"}
SealStage(j) == Nil(j.reg) /\ RefersTo(j.a, j.plan.ref) /\ (Backend = "gcp" => j.plan.ref.ver = 0)

Creation(size, uses) == Create(Family, size, uses)
PublicKey == Lookup("GetPublicKey")
NewVersion == OnlyFor(Lookup("CreateCryptoKeyVersion"), Asymmetric)
MakeStage(st, j) ==
    \/ /\ st[j.a.new] = NoKey
       /\ \E size, uses :
            \/ j.todo = <<Creation(size, uses)>>
            \/ j.todo = <<Creation(size, uses), PublicKey>>
            \/ Backend = "gcp" /\ j.todo = <<Creation(size, uses), NewVersion, PublicKey>>
    \/ ~Nil(j.reg) /\ (j.todo = <<PublicKey>> \/ (Backend = "gcp" /\ j.todo = <<NewVersion, PublicKey>>))

LastLook == IF Backend = "pkcs11" THEN Otherwise(PublicKey, "skip") ELSE PublicHalf
InspectStage(j) == j.todo = Inspection \/ (~Nil(j.reg) /\ Backend # "azure" /\ j.todo = <<LastLook>>)

\* A rotation: AWS and Azure in one call, Google in two, a token by a replacement.
AwsRotation(j) == j.todo \in {Rotation(j.a), <<Lookup("RotateKey"), Lookup("DescribeKey"), PublicHalf>>,
                              <<Lookup("DescribeKey"), PublicHalf>>, <<PublicHalf>>}
AzureRotation(j) == j.todo \in {Rotation(j.a), <<Lookup("GetKey")>>}
Promote == OnlyFor(Lookup("UpdatePrimary"), {"aes"})
GcpRotation(ak, j) ==
    \/ j.todo = Rotation(j.a)
    \/ ~Nil(j.reg) /\ j.todo = <<Lookup("CreateCryptoKeyVersion"), Promote, PublicHalf>>
    \/ ~Nil(j.reg) /\ j.todo = <<Promote, PublicHalf>> /\ (Versioned => ak[j.reg.key] < j.reg.ver)
    \/ ~Nil(j.reg) /\ j.todo = <<PublicHalf>> /\ Family # "aes"
TokenRotation(st, j) ==
    \/ /\ st[j.a.new] = NoKey
       /\ Nil(j.reg) \/ j.reg.key = j.plan.ref.key
       /\ \/ j.todo = Rotation(j.a)
          \/ ~Nil(j.reg) /\ j.todo = Tail(Rotation(j.a))
    \/ /\ ~Nil(j.reg)
       /\ \E n \in Names : st[n].after = j.plan.ref.key
       /\ \/ j.todo = <<PublicHalf>> 
          \/ j.a.opts.rotateDisablesPrev /\ j.todo \in {<<PublicHalf, Lookup("DisablePrevious")>>, <<Lookup("DisablePrevious")>>}
RotateStage(st, ak, j) ==
    /\ Backend = "aws" => AwsRotation(j)
    /\ Backend = "azure" => AzureRotation(j)
    /\ Backend = "gcp" => GcpRotation(ak, j)
    /\ Backend = "pkcs11" => TokenRotation(st, j)

\* A deactivation is about the version that its reference names.
DisableStage(j) ==
    \/ Nil(j.reg) /\ j.todo = Deactivation(j.a)
    \/ /\ Backend \in {"azure", "gcp"}
       /\ ~Nil(j.reg) /\ j.reg.key = j.plan.ref.key /\ (j.plan.ref.ver # 0 => j.reg.ver = j.plan.ref.ver)
       /\ j.todo = <<Lookup("DisableKey")>>
    \/ /\ Backend = "pkcs11" /\ Nil(j.reg)
       /\ j.todo = <<Plain("DestroyObject", "none")>>

Progress(st, ak, j) ==
    /\ Nil(j.reg) \/ Points(st, j.reg)
    /\ Nil(j.plan.ref) \/ Within(st, j.plan.ref)
    /\ j.op \in Using => UseStage(j) /\ j.plan.then \in Thens
    /\ j.op \in DOMAIN Seals => SealStage(j)
    /\ j.op \in DOMAIN Makes => MakeStage(st, j) /\ j.plan.then = "data"
    /\ j.op \in Manages => /\ RefersTo(j.a, j.plan.ref) /\ j.plan.ref.ver = Raw(j.a).ver
                           /\ j.plan.then = IF j.op = "DeactivateKey" THEN "none" ELSE "data"
    /\ j.op = "GetKey" => InspectStage(j)
    /\ j.op = "RotateKey" => RotateStage(st, ak, j)
    /\ j.op = "DeactivateKey" => DisableStage(j)

\* What a call has returned.
OffNow(st, j) ==
    LET t == Raw(j.a)
        v == IF t.ver # 0 THEN t.ver ELSE j.reg.ver
    IN  Exists(st, t) /\ v \in DOMAIN st[t.key].on /\ ~st[t.key].on[v]
Result(st, j) ==
    j.ok => /\ DOMAIN j.val = DOMAIN NoData => DataPoints(st, j.val)
            /\ DOMAIN j.val = DOMAIN NoArt.art => ArtReal(st, j.val)
            /\ j.op = "DeactivateKey" => OffNow(st, j)
            /\ j.op = "EncryptAES" /\ Versioned => j.floor <= j.val.ver /\ j.val.ver \in Nat

JobKept(st, rt, ak, j) ==
    /\ j.st # "idle" => Given(st, rt, ak, j)
    /\ j.st = "calling" => Progress(st, ak, j)
    /\ j.st = "returned" => Result(st, j)

\* No two calls under way would create the same key.
OwnNames ==
    \A c, d \in Clients : c # d /\ job[c].st # "idle" /\ job[d].st # "idle" =>
        job[c].a.new = "none" \/ job[c].a.new # job[d].a.new

RetentionInv ==
    /\ KeysOK(store)
    /\ acked = [k \in AllNames |-> acked[k]]
    /\ VersionsKept(store, retired)
    /\ Acknowledged(store, acked)
    /\ Nil(env.configured) \/ Addresses(store, env.configured)
    /\ \A d \in held : DataPoints(store, d)
    /\ \A e \in arts : ArtReal(store, e.art)
    /\ OwnNames
    /\ \A c \in Clients : JobKept(store, retired, acked, job[c])

\* The local repository has no service, and deactivates nothing.
Nowhere ==
    /\ store = [k \in AllNames |-> NoKey]
    /\ \A c \in Clients : job[c].op = "DeactivateKey" => job[c].st # "calling" /\ (job[c].st = "returned" => ~job[c].ok)

KeptInv == IF Remote THEN RetentionInv ELSE Nowhere

----------------------------------------------------------------------------
\* The service's keys from one state to a later one: nothing is forgotten, and
\* nothing that is off is turned on again.
Grows(s, t) ==
    \A k \in AllNames : s[k] # NoKey =>
        /\ t[k] # NoKey /\ t[k].alg = s[k].alg /\ t[k].after = s[k].after
        /\ \A v \in DOMAIN s[k].on : v \in DOMAIN t[k].on /\ (~s[k].on[v] => ~t[k].on[v])

\* The name that no text names is no name of a key.
LEMMA NoneIsNoName == "none" \notin AllNames /\ Names \subseteq AllNames
BY KeysAssumption DEF AllNames, Configured

\* What is said of a key stays true as the service goes on.
LEMMA GrowsKeeps ==
  ASSUME NEW s, NEW t, Grows(s, t)
  PROVE  /\ \A x : Exists(s, x) => Exists(t, x)
         /\ \A x : Points(s, x) => Points(t, x)
         /\ \A x : Within(s, x) => Within(t, x)
         /\ \A x : Addresses(s, x) => Addresses(t, x)
         /\ \A d : DataPoints(s, d) => DataPoints(t, d)
         /\ \A art : ArtReal(s, art) => ArtReal(t, art)
         /\ \A j : OffNow(s, j) => OffNow(t, j)
<1>1. \A x : Exists(s, x) => Exists(t, x)
  BY DEF Grows, Exists
<1>2. \A x : Points(s, x) => Points(t, x)
  <2>. SUFFICES ASSUME NEW x, Points(s, x) PROVE Points(t, x)
    OBVIOUS
  <2>1. Exists(t, x)
    BY <1>1 DEF Points
  <2>2. x.key \in AllNames /\ s[x.key] # NoKey /\ x.ver \in DOMAIN s[x.key].on
    BY DEF Points, Exists
  <2>. QED
    BY <2>1, <2>2 DEF Points, Grows
<1>3. \A x : Addresses(s, x) => Addresses(t, x)
  BY Zenon, <1>1, <1>2 DEF Addresses
<1>7. \A x : Within(s, x) => Within(t, x)
  BY DEF Grows, Within
<1>4. \A d : DataPoints(s, d) => DataPoints(t, d)
  BY Zenon, <1>2, <1>3 DEF DataPoints
<1>5. \A art : ArtReal(s, art) => ArtReal(t, art)
  BY DEF ArtReal, Grows
<1>6. \A j : OffNow(s, j) => OffNow(t, j)
  <2>. SUFFICES ASSUME NEW j, OffNow(s, j) PROVE OffNow(t, j)
    OBVIOUS
  <2>. DEFINE x == Raw(j.a)
             v == IF x.ver # 0 THEN x.ver ELSE j.reg.ver
  <2>1. Exists(s, x) /\ v \in DOMAIN s[x.key].on /\ ~s[x.key].on[v]
    BY Zenon DEF OffNow
  <2>. HIDE DEF x, v
  <2>2. Exists(t, x)
    BY <1>1, <2>1
  <2>3. v \in DOMAIN t[x.key].on /\ ~t[x.key].on[v]
    BY <2>1 DEF Grows, Exists
  <2>. QED
    BY Zenon, <2>2, <2>3 DEF OffNow, x, v
<1>. QED
  BY Zenon, <1>1, <1>2, <1>3, <1>4, <1>5, <1>6, <1>7

\* A replacement stays the replacement of what it replaced.
LEMMA GrowsAfter ==
  ASSUME NEW s, NEW t, Grows(s, t), NEW n \in Names, s[n].after \in AllNames
  PROVE  t[n].after = s[n].after
<1>1. s[n] # NoKey
  BY NoneIsNoName DEF NoKey
<1>. QED
  BY <1>1, NoneIsNoName DEF Grows

\* What a call has returned stays true.
LEMMA GrowsResult ==
  ASSUME NEW s, NEW t, Grows(s, t), NEW j, Result(s, j)
  PROVE  Result(t, j)
BY Zenon, GrowsKeeps DEF Result

\* What a call was given stays true.
LEMMA GrowsGiven ==
  ASSUME NEW s, NEW t, Grows(s, t), NEW rt, NEW rt2, rt \subseteq rt2, NEW ak, NEW ak2,
         Versioned => \A k \in AllNames : ak[k] \in Nat /\ ak2[k] \in Nat /\ ak[k] <= ak2[k],
         NEW j, Given(s, rt, ak, j)
  PROVE  Given(t, rt2, ak2, j)
<1>1. /\ Nil(j.a.key) \/ Addresses(t, j.a.key)
      /\ j.op \notin Manages /\ j.a.key.form # "ref" => Nil(j.a.key) \/ Points(t, j.a.key)
  <2>1. /\ Nil(j.a.key) \/ Addresses(s, j.a.key)
        /\ j.op \notin Manages /\ j.a.key.form # "ref" => Nil(j.a.key) \/ Points(s, j.a.key)
    BY Zenon DEF Given
  <2>2. \A x : (Addresses(s, x) => Addresses(t, x)) /\ (Points(s, x) => Points(t, x))
    BY Zenon, GrowsKeeps
  <2>. QED
    BY Zenon, <2>1, <2>2
<1>2. j.op = "DeactivateKey" => Raw(j.a).key \in rt2
  BY DEF Given
<1>3. j.op = "EncryptAES" /\ Versioned =>
          j.floor \in Nat /\ (Raw(j.a).key \in AllNames => j.floor <= ak2[Raw(j.a).key])
  <2>1. j.op = "EncryptAES" /\ Versioned =>
          j.floor \in Nat /\ (Raw(j.a).key \in AllNames => j.floor <= ak[Raw(j.a).key])
    BY Zenon DEF Given
  <2>. QED
    BY <2>1
<1>. QED
  BY Zenon, <1>1, <1>2, <1>3 DEF Given

\* A call under way is where it was, whatever the others do.
LEMMA GrowsProgress ==
  ASSUME NEW s, NEW t, Grows(s, t), NEW ak, NEW ak2, NEW j, Progress(s, ak, j), Remote, Backend \in Backends,
         j.op \in DOMAIN Makes \cup {"RotateKey"} /\ s[j.a.new] = NoKey => t[j.a.new] = NoKey,
         j.op = "RotateKey" => ak2 = ak
  PROVE  Progress(t, ak2, j)
<1>1. /\ Nil(j.reg) \/ Points(t, j.reg)
      /\ Nil(j.plan.ref) \/ Within(t, j.plan.ref)
  <2>1. /\ Nil(j.reg) \/ Points(s, j.reg)
        /\ Nil(j.plan.ref) \/ Within(s, j.plan.ref)
    BY Zenon DEF Progress
  <2>2. \A x : (Within(s, x) => Within(t, x)) /\ (Points(s, x) => Points(t, x))
    BY Zenon, GrowsKeeps
  <2>. QED
    BY Zenon, <2>1, <2>2
<1>2. j.op \in DOMAIN Makes => MakeStage(t, j)
  BY Zenon DEF Progress, MakeStage
<1>3. j.op = "RotateKey" => RotateStage(t, ak2, j)
  <2>. SUFFICES ASSUME j.op = "RotateKey" PROVE RotateStage(t, ak2, j)
    OBVIOUS
  <2>1. RotateStage(s, ak, j) /\ ak2 = ak
    BY DEF Progress
  <2>2. ASSUME TokenRotation(s, j)
        PROVE  TokenRotation(t, j)
    <3>1. j.plan.ref.key \in AllNames
      <4>1. RefersTo(j.a, j.plan.ref) /\ (Nil(j.plan.ref) \/ Within(s, j.plan.ref))
        BY DEF Progress, Manages
      <4>. QED
        BY <4>1 DEF RefersTo, Nil, Within
    <3>2. (\E n \in Names : s[n].after = j.plan.ref.key) => \E n \in Names : t[n].after = j.plan.ref.key
      <4>1. ASSUME NEW n \in Names, s[n].after = j.plan.ref.key
            PROVE  t[n].after = j.plan.ref.key
        BY <3>1, <4>1, GrowsAfter
      <4>. QED
        BY Zenon, <4>1
    <3>3. s[j.a.new] = NoKey => t[j.a.new] = NoKey
      OBVIOUS
    <3>. QED
      BY Zenon, <2>2, <3>2, <3>3 DEF TokenRotation
  <2>. QED
    BY Zenon, <2>1, <2>2 DEF RotateStage
<1>. QED
  BY Zenon, <1>1, <1>2, <1>3 DEF Progress

\* A call stays as it must be, whatever the service does for the others.
LEMMA GrowsJob ==
  ASSUME NEW s, NEW t, Grows(s, t), NEW rt, NEW rt2, rt \subseteq rt2, NEW ak, NEW ak2,
         Versioned => \A k \in AllNames : ak[k] \in Nat /\ ak2[k] \in Nat /\ ak[k] <= ak2[k],
         NEW j, JobKept(s, rt, ak, j), Remote, Backend \in Backends,
         j.st # "idle" /\ j.op \in DOMAIN Makes \cup {"RotateKey"} /\ s[j.a.new] = NoKey => t[j.a.new] = NoKey,
         j.st # "idle" /\ j.op = "RotateKey" => ak2 = ak
  PROVE  JobKept(t, rt2, ak2, j)
<1>1. j.st # "idle" => Given(t, rt2, ak2, j)
  BY Zenon, GrowsGiven DEF JobKept
<1>2. j.st = "calling" => Progress(t, ak2, j)
  <2>1. j.st = "calling" => j.st # "idle"
    OBVIOUS
  <2>. QED
    BY Zenon, <2>1, GrowsProgress DEF JobKept
<1>3. j.st = "returned" => Result(t, j)
  BY Zenon, GrowsResult DEF JobKept
<1>. QED
  BY Zenon, <1>1, <1>2, <1>3 DEF JobKept

----------------------------------------------------------------------------
(* What the service answers, and what it does to its keys.                 *)

\* The service's side of the invariant.
Keeping ==
    /\ Remote /\ Backend \in Backends /\ Family \in Families
    /\ KeysOK(store) /\ VersionsKept(store, retired) /\ Acknowledged(store, acked)
    /\ Nil(env.configured) \/ Addresses(store, env.configured)

\* The text that a call to the service is about.
Aim(call, j) == IF call.do = "DisablePrevious" \/ j.reg = NoText THEN j.plan.ref ELSE j.reg

\* A key that exists, field by field.
LEMMA KeyThere ==
  ASSUME NEW st, KeysOK(st), NEW k \in AllNames, st[k] # NoKey
  PROVE  /\ st[k] = [alg |-> st[k].alg, size |-> st[k].size, uses |-> st[k].uses, on |-> st[k].on,
                     prim |-> st[k].prim, after |-> st[k].after]
         /\ st[k].on \in Seq(BOOLEAN) /\ DOMAIN st[k].on = 1..Len(st[k].on) /\ Len(st[k].on) \in Nat \ {0}
         /\ st[k].alg \in Algorithms
         /\ st[k].prim \in 0..Len(st[k].on)
         /\ Backend # "gcp" => st[k].prim # 0
         /\ Backend = "pkcs11" => Len(st[k].on) = 1
         /\ Backend # "pkcs11" => st[k].alg = Family
<1>1. KeyOK(st[k])
  BY DEF KeysOK
<1>2. /\ st[k] = [alg |-> st[k].alg, size |-> st[k].size, uses |-> st[k].uses, on |-> st[k].on,
                  prim |-> st[k].prim, after |-> st[k].after]
      /\ st[k].on \in Seq(BOOLEAN) /\ st[k].on # << >>
      /\ st[k].alg \in Algorithms
      /\ st[k].prim \in 0..Len(st[k].on)
      /\ Backend # "gcp" => st[k].prim # 0
      /\ Backend = "pkcs11" => Len(st[k].on) = 1
      /\ Backend # "pkcs11" => st[k].alg = Family
  BY Zenon, <1>1 DEF KeyOK
<1>3. \A s \in Seq(BOOLEAN) : s # << >> => DOMAIN s = 1..Len(s) /\ Len(s) \in Nat \ {0}
  OBVIOUS
<1>. QED
  BY Zenon, <1>2, <1>3

\* The version that a call is about exists.
LEMMA VersionReal ==
  ASSUME Keeping, NEW t, Within(store, t)
  PROVE  /\ Version(t) \in DOMAIN store[t.key].on /\ Version(t) \in Nat \ {0}
         /\ Backend \in {"azure", "gcp"} /\ t.ver # 0 => Version(t) = t.ver
         /\ Backend \in {"aws", "pkcs11"} => Version(t) = store[t.key].prim
         /\ Backend = "gcp" /\ t.ver = 0 => Version(t) = IF store[t.key].prim # 0 THEN store[t.key].prim ELSE 1
<1>1. /\ DOMAIN store[t.key].on = 1..Len(store[t.key].on) /\ Len(store[t.key].on) \in Nat \ {0}
      /\ store[t.key].prim \in 0..Len(store[t.key].on)
      /\ Backend # "gcp" => store[t.key].prim # 0
      /\ t.ver = 0 \/ t.ver \in DOMAIN store[t.key].on
  <2>1. t.key \in AllNames /\ store[t.key] # NoKey /\ (t.ver = 0 \/ t.ver \in DOMAIN store[t.key].on)
    BY DEF Within
  <2>2. KeysOK(store)
    BY DEF Keeping
  <2>. QED
    BY Zenon, <2>1, <2>2, KeyThere
<1>2. Backend \in {"aws", "azure", "gcp", "pkcs11"}
  BY DEF Keeping, Remote, Backends
<1>. DEFINE k == store[t.key]
<1>3. CASE Backend = "gcp"
  <2>1. Version(t) = Gcp!gcpPublicVersionName(t.ver, k.prim)
    BY <1>3 DEF Version, Current
  <2>. QED
    BY <1>1, <1>3, <2>1 DEF Gcp!gcpPublicVersionName
<1>4. CASE Backend = "azure"
  <2>1. Version(t) = IF t.ver # 0 THEN t.ver ELSE Len(k.on)
    BY <1>4 DEF Version, Current
  <2>. QED
    BY <1>1, <1>4, <2>1
<1>5. CASE Backend \in {"aws", "pkcs11"}
  <2>1. Version(t) = k.prim
    BY <1>5 DEF Version, Current
  <2>. QED
    BY <1>1, <1>5, <2>1
<1>. QED
  BY <1>2, <1>3, <1>4, <1>5

\* What an answer that only tells of a key looks like.
Tells(call, j, ans) ==
    LET t == Aim(call, j)
    IN  \/ \E why : ans = Refused(why)
        \/ /\ Within(store, t)
           /\ \E v, val :
                /\ ans = Granted(Told(t.key, v), val, store)
                /\ v \in DOMAIN store[t.key].on
                /\ call.do # "Decrypt" => v = Version(t)
                /\ \/ call.do \notin Sealing /\ Harmless(val)
                   \/ call.do \in Sealing /\ val = Sealed(call.kind, Told(t.key, v), j.a.msg, call.bind)
                /\ call.do = "GetPublicKey" => store[t.key].alg \in Asymmetric
        \/ /\ Within(store, t) /\ call.do = "DecryptInHardware"
           /\ ans \in {Granted(NoText, NoDigest, store),
                       Granted([Told(t.key, Version(t)) EXCEPT !.form = "plain"], NoDigest, store)}

\* A text that the service knows is the text of a key.
LEMMA KnownWithin ==
  ASSUME NEW t, Nil(t) \/ Within(store, t), Known(t)
  PROVE  Within(store, t)
BY DEF Known, Nil, NoText, Text

\* The answers of the calls that change nothing.
LEMMA ReadingTells ==
  ASSUME Keeping, NEW call, NEW j, call.do \in Reading,
         Nil(Aim(call, j)) \/ Within(store, Aim(call, j)),
         NEW ans \in Answers(call, j)
  PROVE  Tells(call, j, ans)
<1>. DEFINE t == Aim(call, j)
<1>1. call.do # "CreateKey" /\ call.do # "CreateReplacement"
  BY DEF Reading, Computing
<1>2. \/ ~Known(t) /\ ans = Refused("mismatch")
      \/ Known(t) /\ call.do \in Computing /\ ans = Compute(call, t, j.a)
      \/ Known(t) /\ call.do \notin Computing /\ ans \in Administer(call, t)
  BY Zenon, <1>1 DEF Answers, Aim
<1>. HIDE DEF t
<1>3. ASSUME Known(t)
      PROVE  Within(store, t) /\ Version(t) \in DOMAIN store[t.key].on
  <2>1. Within(store, t)
    BY Zenon, <1>3, KnownWithin DEF t
  <2>. QED
    BY Zenon, <2>1, VersionReal
<1>4. ASSUME Known(t), call.do \in Computing, ans = Compute(call, t, j.a)
      PROVE  Tells(call, j, ans)
  <2>. DEFINE k    == store[t.key]
             v    == IF call.do = "Decrypt" THEN SealedBy(t, j.a.art) ELSE Version(t)
             fits == j.a.art.kind = call.kind /\ j.a.art.key = t.key /\ j.a.art.ver = v
  <2>1. \/ \E why : ans = Refused(why)
        \/ /\ On(t, v)
           /\ \/ call.do \notin Sealing /\ \E m : ans = Granted(Told(t.key, v), Message(m), store)
              \/ call.do \notin Sealing /\ ans = Granted(Told(t.key, v), Verified, store)
              \/ call.do \notin Sealing /\ ans = Granted(Told(t.key, v), NoDigest, store)
              \/ /\ call.do \in Sealing
                 /\ ans = Granted(Told(t.key, v), Sealed(call.kind, Told(t.key, v), j.a.msg, call.bind), store)
              \/ call.do = "DecryptInHardware" /\ ans = Granted(NoText, NoDigest, store)
              \/ call.do = "DecryptInHardware" /\ ans = Granted([Told(t.key, v) EXCEPT !.form = "plain"], NoDigest, store)
    <3>1. ans = IF UseOf(call.do) \notin k.uses THEN Refused("use")
        ELSE IF ~On(t, v) THEN Refused("off")
        ELSE CASE call.do \in {"Encrypt", "Sign", "Mac"} ->
                    Granted(Told(t.key, v), Sealed(call.kind, Told(t.key, v), j.a.msg, call.bind), store)
               [] call.do = "Decrypt" ->
                    IF fits /\ j.a.art.bind = call.bind
                    THEN Granted(Told(t.key, v), Message(j.a.art.msg), store) ELSE Refused("mismatch")
               [] call.do = "Verify" ->
                    IF fits /\ j.a.art.msg = j.a.msg THEN Granted(Told(t.key, v), Verified, store) ELSE Refused("mismatch")
               [] call.do = "Derive" ->
                    IF j.a.art.size = k.size THEN Granted(Told(t.key, v), NoDigest, store) ELSE Refused("mismatch")
               [] call.do = "DecryptInHardware" ->
                    IF ~fits THEN Refused("mismatch")
                    ELSE IF j.a.art.msg = "" THEN Granted(NoText, NoDigest, store)
                    ELSE Granted([Told(t.key, v) EXCEPT !.form = "plain"], NoDigest, store)
      BY Zenon, <1>4 DEF Compute
    <3>. HIDE DEF k, v, fits
    <3>2. call.do \in {"Encrypt", "Sign", "Mac"} \/ call.do \in {"Decrypt", "Verify", "Derive", "DecryptInHardware"}
      BY <1>4 DEF Computing
    <3>3. CASE call.do \in {"Encrypt", "Sign", "Mac"}
      BY Zenon, <3>1, <3>3 DEF Sealing
    <3>4. CASE call.do = "Decrypt"
      <4>1. call.do \notin Sealing /\ call.do \notin {"Encrypt", "Sign", "Mac"} /\ call.do # "Verify" /\ call.do # "Derive" /\ call.do # "DecryptInHardware"
        BY <3>4 DEF Sealing
      <4>. QED
        BY Zenon, <3>1, <3>4, <4>1
    <3>5. CASE call.do = "Verify"
      <4>1. call.do \notin Sealing /\ call.do \notin {"Encrypt", "Sign", "Mac"} /\ call.do # "Decrypt" /\ call.do # "Derive" /\ call.do # "DecryptInHardware"
        BY <3>5 DEF Sealing
      <4>. QED
        BY Zenon, <3>1, <3>5, <4>1
    <3>6. CASE call.do = "Derive"
      <4>1. call.do \notin Sealing /\ call.do \notin {"Encrypt", "Sign", "Mac"} /\ call.do # "Decrypt" /\ call.do # "Verify" /\ call.do # "DecryptInHardware"
        BY <3>6 DEF Sealing
      <4>. QED
        BY Zenon, <3>1, <3>6, <4>1
    <3>7. CASE call.do = "DecryptInHardware"
      <4>1. call.do \notin Sealing /\ call.do \notin {"Encrypt", "Sign", "Mac"} /\ call.do # "Decrypt" /\ call.do # "Verify" /\ call.do # "Derive"
        BY <3>7 DEF Sealing
      <4>. QED
        BY Zenon, <3>1, <3>7, <4>1
    <3>. QED
      BY Zenon, <3>2, <3>3, <3>4, <3>5, <3>6, <3>7
  <2>2. call.do # "Decrypt" => v = Version(t)
    OBVIOUS
  <2>3. call.do = "DecryptInHardware" => call.do # "Decrypt"
    OBVIOUS
  <2>4. call.do # "GetPublicKey"
    BY <1>4 DEF Computing
  <2>. HIDE DEF k, v, fits
  <2>5. On(t, v) => v \in DOMAIN store[t.key].on
    BY DEF On
  <2>6. ASSUME NEW val, On(t, v), ans = Granted(Told(t.key, v), val, store),
               (call.do \notin Sealing /\ Harmless(val)) \/ (call.do \in Sealing /\ val = Sealed(call.kind, Told(t.key, v), j.a.msg, call.bind))
        PROVE  Tells(call, j, ans)
    BY Zenon, <1>3, <1>4, <2>2, <2>4, <2>5, <2>6 DEF Tells, t
  <2>7. ASSUME call.do = "DecryptInHardware",
               ans \in {Granted(NoText, NoDigest, store), Granted([Told(t.key, v) EXCEPT !.form = "plain"], NoDigest, store)}
        PROVE  Tells(call, j, ans)
    BY Zenon, <1>3, <1>4, <2>2, <2>3, <2>7 DEF Tells, t
  <2>8. (\E why : ans = Refused(why)) => Tells(call, j, ans)
    BY Zenon DEF Tells
  <2>. QED
    BY Zenon, <2>1, <2>6, <2>7, <2>8, Harmlessness
<1>5. ASSUME Known(t), call.do \notin Computing, ans \in Administer(call, t)
      PROVE  Tells(call, j, ans)
  <2>. DEFINE given == Granted(Told(t.key, Version(t)), NoDigest, store)
  <2>1. call.do \in {"DescribeKey", "GetAttributes", "GetCryptoKey", "GetKey", "GetPublicKey"}
    BY <1>5 DEF Reading
  <2>2. /\ ans = given \/ \E why : ans = Refused(why)
        /\ call.do = "GetPublicKey" /\ ans = given => store[t.key].alg \in Asymmetric \/ \E why : ans = Refused(why)
    <3>1. CASE call.do \in {"DescribeKey", "GetAttributes", "GetCryptoKey"}
      BY <1>5, <3>1 DEF Administer
    <3>2. CASE call.do = "GetKey"
      BY <1>5, <3>2 DEF Administer
    <3>3. CASE call.do = "GetPublicKey"
      BY <1>5, <3>3 DEF Administer
    <3>. QED
      BY <2>1, <3>1, <3>2, <3>3
  <2>5. call.do \notin Sealing
    BY <2>1 DEF Sealing
  <2>3. ASSUME ans = given, call.do = "GetPublicKey" => store[t.key].alg \in Asymmetric
        PROVE  Tells(call, j, ans)
    BY Zenon, <1>3, <1>5, <2>3, <2>5, Harmlessness DEF Tells, t
  <2>4. (\E why : ans = Refused(why)) => Tells(call, j, ans)
    BY Zenon DEF Tells
  <2>. QED
    BY Zenon, <2>2, <2>3, <2>4
<1>6. ans = Refused("mismatch") => Tells(call, j, ans)
  BY Zenon DEF Tells
<1>. QED
  BY Zenon, <1>2, <1>4, <1>5, <1>6

\* A key as one step leaves it, that was old before: better for no version, off
\* only for a reason.
Follows(x, n) ==
    /\ KeyOK(n) /\ n # NoKey
    /\ store[x] # NoKey =>
          /\ n.alg = store[x].alg /\ n.after = store[x].after
          /\ \A v \in DOMAIN store[x].on : v \in DOMAIN n.on /\ (~store[x].on[v] => ~n.on[v])
    /\ \A v \in DOMAIN n.on : n.on[v] \/ x \in retired \/ Replaced(store, x)
    /\ Versioned => acked[x] <= n.prim

\* What a step that may only create new does to the service's keys.
Effected(st, new) ==
    /\ Grows(store, st) /\ KeysOK(st) /\ VersionsKept(st, retired) /\ Acknowledged(st, acked)
    /\ \A n \in Names : n # new /\ store[n] = NoKey => st[n] = NoKey

\* Nothing is forgotten when nothing happens.
LEMMA GrowsItself == \A s : Grows(s, s)
BY DEF Grows

\* Nothing happens to the keys.
LEMMA NothingEffected ==
  ASSUME Keeping, NEW new
  PROVE  Effected(store, new)
BY Zenon, GrowsItself DEF Keeping, Effected

\* A version that is off stays off for its reason.
LEMMA ReplacedGrows ==
  ASSUME NEW s, NEW t, Grows(s, t), NEW k \in AllNames, Replaced(s, k)
  PROVE  Replaced(t, k)
<1>1. PICK n \in Names : s[n].after = k
  BY DEF Replaced
<1>2. t[n].after = k
  BY <1>1, GrowsAfter
<1>. QED
  BY <1>1, <1>2 DEF Replaced

\* One key changes.
LEMMA OneKey ==
  ASSUME Keeping, NEW x \in AllNames, NEW n, Follows(x, n), NEW new, store[x] = NoKey => x = new
  PROVE  Effected([store EXCEPT ![x] = n], new)
<1>. DEFINE st == [store EXCEPT ![x] = n]
<1>1. KeysOK(store) /\ VersionsKept(store, retired) /\ Acknowledged(store, acked)
  BY DEF Keeping
<1>2. store = [k \in AllNames |-> store[k]] /\ \A k \in AllNames : KeyOK(store[k])
  BY Zenon, <1>1 DEF KeysOK
<1>3. st[x] = n /\ \A k \in AllNames : k # x => st[k] = store[k]
  BY <1>2
<1>4. st = [k \in AllNames |-> st[k]]
  BY <1>2
<1>. HIDE DEF st
<1>5. KeyOK(n) /\ n # NoKey
  BY Zenon DEF Follows
<1>6. KeysOK(st)
  BY Zenon, <1>2, <1>3, <1>4, <1>5 DEF KeysOK
<1>7. Grows(store, st)
  <2>1. store[x] # NoKey =>
          /\ n.alg = store[x].alg /\ n.after = store[x].after
          /\ \A v \in DOMAIN store[x].on : v \in DOMAIN n.on /\ (~store[x].on[v] => ~n.on[v])
    BY Zenon DEF Follows
  <2>2. ASSUME NEW k \in AllNames, store[k] # NoKey
        PROVE  /\ st[k] # NoKey /\ st[k].alg = store[k].alg /\ st[k].after = store[k].after
               /\ \A v \in DOMAIN store[k].on : v \in DOMAIN st[k].on /\ (~store[k].on[v] => ~st[k].on[v])
    <3>1. CASE k = x
      BY <1>3, <1>5, <2>1, <2>2, <3>1
    <3>2. CASE k # x
      BY <1>3, <2>2, <3>2
    <3>. QED
      BY Zenon, <3>1, <3>2
  <2>. QED
    BY Zenon, <2>2 DEF Grows
<1>8. VersionsKept(st, retired)
  <2>1. \A v \in DOMAIN n.on : n.on[v] \/ x \in retired \/ Replaced(store, x)
    BY Zenon DEF Follows
  <2>2. \A k \in AllNames : Replaced(store, k) => Replaced(st, k)
    BY Zenon, <1>7, ReplacedGrows
  <2>3. ASSUME NEW k \in AllNames, NEW v \in DOMAIN st[k].on
        PROVE  st[k].on[v] \/ k \in retired \/ Replaced(st, k)
    <3>1. CASE k = x
      BY <1>3, <2>1, <2>2, <3>1
    <3>2. CASE k # x
      BY <1>1, <1>3, <2>2, <3>2 DEF VersionsKept
    <3>. QED
      BY Zenon, <3>1, <3>2
  <2>. QED
    BY Zenon, <2>3 DEF VersionsKept
<1>9. Acknowledged(st, acked)
  <2>. SUFFICES ASSUME Versioned, NEW k \in AllNames PROVE acked[k] \in Nat /\ acked[k] <= st[k].prim
    BY Zenon DEF Acknowledged
  <2>1. acked[k] \in Nat /\ acked[k] <= store[k].prim
    BY <1>1 DEF Acknowledged
  <2>2. acked[x] <= n.prim
    BY DEF Follows
  <2>. QED
    BY <1>3, <2>1, <2>2
<1>10. \A m \in Names : m # new /\ store[m] = NoKey => st[m] = NoKey
  BY <1>3, NoneIsNoName
<1>. QED
  BY Zenon, <1>6, <1>7, <1>8, <1>9, <1>10 DEF Effected, st

\* A key that is made is one that follows nothing.
LEMMA NewFollows ==
  ASSUME Keeping, NEW x \in AllNames, store[x] = NoKey, NEW alg \in Algorithms, NEW size, NEW uses, NEW after,
         Backend # "pkcs11" => alg = Family
  PROVE  Follows(x, NewKey(alg, size, uses, after)) /\ NewKey(alg, size, uses, after).after = after
<1>. DEFINE p == IF Backend = "gcp" /\ alg # "aes" THEN 0 ELSE 1
           n == [alg |-> alg, size |-> size, uses |-> uses, on |-> <<TRUE>>, prim |-> p, after |-> after]
<1>1. NewKey(alg, size, uses, after) = n
  BY DEF NewKey
<1>2. p \in {0, 1} /\ (Backend # "gcp" => p # 0) /\ (alg = "aes" => p = 1)
  OBVIOUS
<1>. HIDE DEF p
<1>3. n.on = <<TRUE>> /\ n.alg = alg /\ n.prim = p /\ n.after = after
  OBVIOUS
<1>4. /\ <<TRUE>> \in Seq(BOOLEAN) /\ <<TRUE>> # << >> /\ Len(<<TRUE>>) = 1
      /\ \A v \in DOMAIN <<TRUE>> : <<TRUE>>[v]
  <2>1. <<TRUE>> \in Seq(BOOLEAN) /\ Len(<<TRUE>>) = 1 /\ DOMAIN <<TRUE>> = {1} /\ <<TRUE>>[1] = TRUE
    OBVIOUS
  <2>2. <<TRUE>> # << >>
    OBVIOUS
  <2>. QED
    BY <2>1, <2>2
<1>5. n # NoKey
  BY <1>3, <1>4 DEF NoKey
<1>6. KeyOK(n)
  <2>1. /\ n = [alg |-> n.alg, size |-> n.size, uses |-> n.uses, on |-> n.on, prim |-> n.prim, after |-> n.after]
        /\ n.on = <<TRUE>> /\ n.alg = alg /\ n.prim = p
    BY <1>3
  <2>. HIDE DEF n
  <2>2. n.on \in Seq(BOOLEAN) /\ n.on # << >> /\ n.prim \in 0..Len(n.on) /\ Len(n.on) = 1
    BY <1>2, <1>4, <2>1
  <2>. QED
    BY <1>2, <2>1, <2>2 DEF KeyOK
<1>7. Versioned => acked[x] <= n.prim
  <2>. SUFFICES ASSUME Versioned PROVE acked[x] <= p
    BY <1>3
  <2>1. acked[x] \in Nat /\ acked[x] <= NoKey.prim
    BY DEF Keeping, Acknowledged
  <2>2. NoKey.prim = 0
    BY DEF NoKey
  <2>. QED
    BY <1>2, <2>1, <2>2
<1>. HIDE DEF n
<1>8. Follows(x, n)
  BY <1>3, <1>4, <1>5, <1>6, <1>7 DEF Follows
<1>. QED
  BY <1>1, <1>3, <1>8

\* A key with changed versions or a changed primary one.
Allowed(x, on, prim) ==
    /\ on \in Seq(BOOLEAN) /\ on # << >> /\ prim \in 0..Len(on)
    /\ Backend # "gcp" => prim # 0
    /\ Backend = "pkcs11" => Len(on) = 1
    /\ \A v \in DOMAIN store[x].on : v \in DOMAIN on /\ (~store[x].on[v] => ~on[v])
    /\ \A v \in DOMAIN on : on[v] \/ x \in retired \/ Replaced(store, x)
    /\ Versioned => acked[x] <= prim

Edited(x, on, prim) == [store[x] EXCEPT !.on = on, !.prim = prim]

\* A key with its versions and its primary one replaced, field by field.
LEMMA EditedKey ==
  ASSUME Keeping, NEW x \in AllNames, store[x] # NoKey, NEW on, NEW prim, NEW n, n = Edited(x, on, prim)
  PROVE  n = [alg |-> store[x].alg, size |-> store[x].size, uses |-> store[x].uses, on |-> on, prim |-> prim,
              after |-> store[x].after]
<1>1. PICK k : k = store[x]
  OBVIOUS
<1>2. k = [alg |-> k.alg, size |-> k.size, uses |-> k.uses, on |-> k.on, prim |-> k.prim, after |-> k.after]
  BY Zenon, <1>1, KeyThere DEF Keeping
<1>3. n = [k EXCEPT !.on = on, !.prim = prim]
  BY Zenon, <1>1 DEF Edited
<1>4. n = [alg |-> k.alg, size |-> k.size, uses |-> k.uses, on |-> on, prim |-> prim, after |-> k.after]
  BY <1>2, <1>3
<1>. QED
  BY Zenon, <1>1, <1>4

\* Such a change is one that a step may make.
LEMMA ChangedFollows ==
  ASSUME Keeping, NEW x \in AllNames, store[x] # NoKey, NEW on, NEW prim, Allowed(x, on, prim),
         NEW n, n = Edited(x, on, prim)
  PROVE  Follows(x, n)
<1>1. store[x].alg \in Algorithms /\ (Backend # "pkcs11" => store[x].alg = Family)
  BY Zenon, KeyThere DEF Keeping
<1>2. n = [alg |-> store[x].alg, size |-> store[x].size, uses |-> store[x].uses, on |-> on, prim |-> prim,
           after |-> store[x].after]
  BY Zenon, EditedKey
<1>3. n.alg = store[x].alg /\ n.on = on /\ n.prim = prim /\ n.after = store[x].after /\ n.size = store[x].size
      /\ n.uses = store[x].uses
  BY <1>2
<1>4. n # NoKey
  BY <1>3 DEF NoKey, Allowed
<1>5. KeyOK(n)
  BY <1>1, <1>2, <1>3 DEF KeyOK, Allowed
<1>. QED
  BY <1>3, <1>4, <1>5 DEF Follows, Allowed

----------------------------------------------------------------------------
(* The calls that change a key.                                            *)

\* The fields of an answer,
LEMMA GrantedFields ==
  \A reg, val, st : /\ Granted(reg, val, st).ok /\ Granted(reg, val, st).reg = reg
                    /\ Granted(reg, val, st).val = val /\ Granted(reg, val, st).st = st
BY DEF Granted

\* ... of a refusal,
LEMMA RefusedFields ==
  \A why : /\ ~Refused(why).ok /\ Refused(why).reg = NoText /\ Refused(why).val = NoDigest
           /\ Refused(why).st = store /\ Refused(why).why = why
BY DEF Refused

\* ... and of a text.
LEMMA TextFields ==
  /\ \A f, g, k, v, s : /\ Text(f, g, k, v, s).form = f /\ Text(f, g, k, v, s).alg = g
                        /\ Text(f, g, k, v, s).key = k /\ Text(f, g, k, v, s).ver = v
  /\ \A k, v : /\ Told(k, v).form = "ref" /\ Told(k, v).alg = store[k].alg
               /\ Told(k, v).key = k /\ Told(k, v).ver = v
BY DEF Text, Told

\* A sequence of versions and one more.
Longer(s) == Append(s, TRUE)

LongerOf(s, u) ==
    /\ u \in Seq(BOOLEAN) /\ Len(u) = Len(s) + 1 /\ DOMAIN u = 1..Len(u) /\ u # << >>
    /\ \A v \in 1..Len(s) : s[v] <=> u[v]
    /\ u[Len(s) + 1]

\* What a new version leaves of the old ones.
LEMMA Appended ==
  ASSUME NEW s \in Seq(BOOLEAN), NEW u, u = Longer(s)
  PROVE  LongerOf(s, u)
<1>1. u = Append(s, TRUE)
  BY DEF Longer
<1>2. u \in Seq(BOOLEAN) /\ Len(u) = Len(s) + 1
  BY <1>1
<1>3. \A v \in 1..Len(s) : s[v] <=> u[v]
  BY <1>1
<1>4. u[Len(s) + 1]
  BY <1>1
<1>5. DOMAIN u = 1..Len(u) /\ u # << >>
  BY <1>2
<1>. QED
  BY Zenon, <1>2, <1>3, <1>4, <1>5 DEF LongerOf

\* A key's new versions.
LEMMA Appends ==
  ASSUME Keeping, NEW x \in AllNames, store[x] # NoKey, Backend # "pkcs11",
         NEW p \in {store[x].prim, Len(store[x].on) + 1},
         NEW on, on = Longer(store[x].on), NEW n, n = Edited(x, on, p)
  PROVE  /\ Follows(x, n) /\ n.prim = p /\ n.alg = store[x].alg
         /\ Len(store[x].on) + 1 \in DOMAIN n.on
         /\ Versioned => acked[x] \in Nat /\ acked[x] < Len(store[x].on) + 1
<1>1. /\ store[x].on \in Seq(BOOLEAN) /\ DOMAIN store[x].on = 1..Len(store[x].on) /\ Len(store[x].on) \in Nat \ {0}
      /\ store[x].prim \in 0..Len(store[x].on)
      /\ Backend # "gcp" => store[x].prim # 0
  BY Zenon, KeyThere DEF Keeping
<1>1a. LongerOf(store[x].on, on)
  BY Zenon, <1>1, Appended
<1>2. /\ on \in Seq(BOOLEAN) /\ Len(on) = Len(store[x].on) + 1 /\ DOMAIN on = 1..Len(on) /\ on # << >>
      /\ \A v \in 1..Len(store[x].on) : store[x].on[v] <=> on[v]
      /\ on[Len(store[x].on) + 1]
  BY <1>1a DEF LongerOf
<1>3. p \in 0..Len(on) /\ (Backend # "gcp" => p # 0)
  BY <1>1, <1>2
<1>4. \A v \in DOMAIN store[x].on : v \in DOMAIN on /\ (~store[x].on[v] => ~on[v])
  BY <1>1, <1>2
<1>5. \A v \in DOMAIN on : on[v] \/ x \in retired \/ Replaced(store, x)
  <2>. SUFFICES ASSUME NEW v \in DOMAIN on PROVE on[v] \/ x \in retired \/ Replaced(store, x)
    OBVIOUS
  <2>1. v \in DOMAIN store[x].on \/ v = Len(store[x].on) + 1
    BY <1>1, <1>2
  <2>2. \A w \in DOMAIN store[x].on : store[x].on[w] \/ x \in retired \/ Replaced(store, x)
    BY DEF Keeping, VersionsKept
  <2>3. v \in DOMAIN store[x].on => (store[x].on[v] <=> on[v])
    BY <1>1, <1>2
  <2>. QED
    BY <1>2, <2>1, <2>2, <2>3
<1>6. Versioned => acked[x] \in Nat /\ acked[x] <= store[x].prim
  BY DEF Keeping, Acknowledged
<1>7. Versioned => acked[x] <= p /\ acked[x] < Len(store[x].on) + 1
  BY <1>1, <1>6
<1>8. Allowed(x, on, p)
  BY <1>2, <1>3, <1>4, <1>5, <1>7 DEF Allowed
<1>9. Follows(x, n)
  BY Zenon, <1>8, ChangedFollows
<1>10. n = [alg |-> store[x].alg, size |-> store[x].size, uses |-> store[x].uses, on |-> on, prim |-> p,
            after |-> store[x].after]
  BY Zenon, EditedKey
<1>11. n.prim = p /\ n.on = on /\ n.alg = store[x].alg
  BY <1>10
<1>12. Len(store[x].on) + 1 \in DOMAIN n.on
  BY <1>1, <1>2, <1>11
<1>. QED
  BY <1>6, <1>7, <1>9, <1>11, <1>12

\* The service makes a key.
LEMMA CreateKeyAnswers ==
  ASSUME Keeping, NEW j, NEW size, NEW uses, j.a.new \in Names, store[j.a.new] = NoKey,
         NEW ans \in Answers(Creation(size, uses), j)
  PROVE  /\ ans.ok /\ Effected(ans.st, j.a.new) /\ Points(ans.st, ans.reg) /\ ~Nil(ans.reg)
         /\ ans.reg.alg = Family
<1>. DEFINE new == j.a.new
           n   == NewKey(Family, size, uses, "none")
           reg == Text("ref", Family, new, 1, size)
           st  == [store EXCEPT ![new] = n]
<1>1. Creation(size, uses).do = "CreateKey" /\ Creation(size, uses).kind = Family
      /\ Creation(size, uses).size = size /\ Creation(size, uses).bind = uses
  BY DEF Creation, Create, Call
<1>2. ans = Granted(reg, NoDigest, st)
  BY Zenon, <1>1 DEF Answers
<1>3. new \in AllNames /\ Family \in Algorithms
  <2>1. Family \in Families
    BY DEF Keeping
  <2>. QED
    BY NoneIsNoName, <2>1 DEF Families, Algorithms
<1>4. Follows(new, n)
  BY Zenon, <1>3, NewFollows
<1>5. n.alg = Family /\ n.on = <<TRUE>>
  BY DEF NewKey
<1>6. n # NoKey
  BY <1>4 DEF Follows
<1>7. store = [k \in AllNames |-> store[k]]
  BY DEF Keeping, KeysOK
<1>. HIDE DEF n
<1>8. st[new] = n
  BY <1>3, <1>7
<1>9. Effected(st, new)
  BY Zenon, <1>3, <1>4, OneKey
<1>10. reg.form = "ref" /\ reg.alg = Family /\ reg.key = new /\ reg.ver = 1
  BY TextFields
<1>11. 1 \in DOMAIN n.on
  BY <1>5
<1>. HIDE DEF reg, st, new
<1>12. Points(st, reg)
  BY Zenon, <1>3, <1>5, <1>6, <1>8, <1>10, <1>11 DEF Points, Exists
<1>13. ~Nil(reg)
  BY <1>10 DEF Nil, NoText, Text
<1>14. ans.ok /\ ans.reg = reg /\ ans.st = st
  BY <1>2, GrantedFields
<1>. QED
  BY <1>9, <1>10, <1>12, <1>13, <1>14 DEF new
\* One key is made or changed, and the answer tells of one of its versions.
Changed(st, x, n, new) ==
    /\ Effected(st, new) /\ st[x] = n
    /\ \A reg : reg.alg = n.alg /\ reg.key = x /\ reg.ver \in DOMAIN n.on => Points(st, reg)

\* A step that may be made of one key, and its effect on all of them.
LEMMA KeyChanged ==
  ASSUME Keeping, NEW x \in AllNames, NEW n, Follows(x, n), NEW new, store[x] = NoKey => x = new,
         NEW st, st = [store EXCEPT ![x] = n]
  PROVE  Changed(st, x, n, new)
<1>1. store = [k \in AllNames |-> store[k]]
  BY Zenon DEF Keeping, KeysOK
<1>2. st[x] = n
  BY <1>1
<1>3. Effected(st, new)
  BY Zenon, OneKey
<1>4. n # NoKey
  BY Zenon DEF Follows
<1>5. ASSUME NEW reg, reg.alg = n.alg, reg.key = x, reg.ver \in DOMAIN n.on
      PROVE  Points(st, reg)
  BY Zenon, <1>2, <1>4, <1>5 DEF Points, Exists
<1>. QED
  BY Zenon, <1>2, <1>3, <1>5 DEF Changed

\* What a step makes of one key, in the forms in which the service's answers have it.
LEMMA Edits ==
  ASSUME Keeping, NEW x \in AllNames, store[x] # NoKey
  PROVE  /\ \A on : [store EXCEPT ![x].on = on] = [store EXCEPT ![x] = Edited(x, on, store[x].prim)]
         /\ \A p : [store EXCEPT ![x].prim = p] = [store EXCEPT ![x] = Edited(x, store[x].on, p)]
         /\ \A on, p : [[store EXCEPT ![x].on = on] EXCEPT ![x].prim = p] = [store EXCEPT ![x] = Edited(x, on, p)]
<1>1. PICK k : k = store[x]
  OBVIOUS
<1>2. k = [alg |-> k.alg, size |-> k.size, uses |-> k.uses, on |-> k.on, prim |-> k.prim, after |-> k.after]
  BY Zenon, <1>1, KeyThere DEF Keeping
<1>3. store = [y \in AllNames |-> store[y]]
  BY Zenon DEF Keeping, KeysOK
<1>4. ASSUME NEW on
      PROVE  [store EXCEPT ![x].on = on] = [store EXCEPT ![x] = Edited(x, on, store[x].prim)]
  <2>1. PICK n : n = [k EXCEPT !.on = on]
    OBVIOUS
  <2>2. PICK m : m = [k EXCEPT !.on = on, !.prim = k.prim]
    OBVIOUS
  <2>3. n = m
    BY <1>2, <2>1, <2>2
  <2>4. [store EXCEPT ![x].on = on] = [store EXCEPT ![x] = [store[x] EXCEPT !.on = on]]
    BY Zenon, <1>3
  <2>. QED
    BY Zenon, <1>1, <2>1, <2>2, <2>3, <2>4 DEF Edited
<1>5. ASSUME NEW p
      PROVE  [store EXCEPT ![x].prim = p] = [store EXCEPT ![x] = Edited(x, store[x].on, p)]
  <2>1. PICK n : n = [k EXCEPT !.prim = p]
    OBVIOUS
  <2>2. PICK m : m = [k EXCEPT !.on = k.on, !.prim = p]
    OBVIOUS
  <2>3. n = m
    BY <1>2, <2>1, <2>2
  <2>4. [store EXCEPT ![x].prim = p] = [store EXCEPT ![x] = [store[x] EXCEPT !.prim = p]]
    BY Zenon, <1>3
  <2>. QED
    BY Zenon, <1>1, <2>1, <2>2, <2>3, <2>4 DEF Edited
<1>6. ASSUME NEW on, NEW p
      PROVE  [[store EXCEPT ![x].on = on] EXCEPT ![x].prim = p] = [store EXCEPT ![x] = Edited(x, on, p)]
  <2>1. PICK n : n = [k EXCEPT !.on = on]
    OBVIOUS
  <2>2. PICK m : m = [n EXCEPT !.prim = p]
    OBVIOUS
  <2>3. PICK l : l = [k EXCEPT !.on = on, !.prim = p]
    OBVIOUS
  <2>4. m = l
    BY <1>2, <2>1, <2>2, <2>3
  <2>5. PICK s : s = [store EXCEPT ![x].on = on]
    OBVIOUS
  <2>6. s[x] = n /\ DOMAIN s = AllNames /\ \A y \in AllNames : y # x => s[y] = store[y]
    BY <1>1, <1>3, <2>1, <2>5
  <2>7. s = [y \in AllNames |-> s[y]]
    BY <1>3, <2>5
  <2>8. [s EXCEPT ![x].prim = p] = [y \in AllNames |-> IF y = x THEN m ELSE s[y]]
    BY <2>2, <2>6, <2>7
  <2>9. [store EXCEPT ![x] = l] = [y \in AllNames |-> IF y = x THEN l ELSE store[y]]
    BY <1>3
  <2>10. [y \in AllNames |-> IF y = x THEN m ELSE s[y]] = [y \in AllNames |-> IF y = x THEN l ELSE store[y]]
    BY <2>4, <2>6
  <2>. QED
    BY Zenon, <1>1, <2>3, <2>5, <2>8, <2>9, <2>10 DEF Edited
<1>. QED
  BY Zenon, <1>4, <1>5, <1>6

\* The calls that manage a key know it, or are refused.
LEMMA Administers ==
  ASSUME NEW call, NEW j, call.do \notin Computing \cup {"CreateKey", "CreateReplacement"},
         NEW ans \in Answers(call, j), Nil(Aim(call, j)) \/ Within(store, Aim(call, j)),
         ans.ok
  PROVE  Within(store, Aim(call, j)) /\ ans \in Administer(call, Aim(call, j))
<1>. DEFINE t == Aim(call, j)
<1>1. call.do # "CreateKey" /\ call.do # "CreateReplacement" /\ call.do \notin Computing
  OBVIOUS
<1>2. ans = Refused("mismatch") \/ (Known(t) /\ ans \in Administer(call, t))
  BY Zenon, <1>1 DEF Answers, Aim
<1>3. ans # Refused("mismatch")
  BY RefusedFields
<1>. HIDE DEF t
<1>4. Known(t) => Within(store, t)
  BY Zenon, KnownWithin DEF t
<1>. QED
  BY Zenon, <1>2, <1>3, <1>4 DEF t

\* What an answer tells of a key.
TellsOf(reg, k, n) == reg.key = k /\ reg.alg = store[k].alg /\ reg.ver = n

\* The answer that tells of a new version.
LEMMA ToldNext ==
  ASSUME NEW k, NEW v, NEW n, NEW reg, reg = [Told(k, v) EXCEPT !.ver = n]
  PROVE  TellsOf(reg, k, n)
<1>1. PICK t : t = Told(k, v)
  OBVIOUS
<1>2. t = [form |-> "ref", alg |-> store[k].alg, key |-> k, ver |-> v, size |-> store[k].size]
  BY Zenon, <1>1 DEF Told, Text
<1>3. reg = [t EXCEPT !.ver = n]
  BY Zenon, <1>1
<1>. QED
  BY <1>2, <1>3 DEF TellsOf

\* No text of a key is empty.
LEMMA PointsThere == \A st, t : Points(st, t) => ~Nil(t) /\ t.key \in AllNames /\ st[t.key] # NoKey
<1>1. NoText.key = "none"
  BY DEF NoText, Text
<1>. QED
  BY <1>1, NoneIsNoName DEF Points, Exists, Nil

\* A rotation in one call.
LEMMA RotateKeyAnswers ==
  ASSUME Keeping, Backend # "pkcs11", NEW call, call.do = "RotateKey", NEW j, NEW new,
         NEW ans \in Answers(call, j), Nil(Aim(call, j)) \/ Within(store, Aim(call, j)), ans.ok
  PROVE  Effected(ans.st, new) /\ Points(ans.st, ans.reg)
<1>. DEFINE t == Aim(call, j)
           x == t.key
           l == Len(store[x].on) + 1
           on == Longer(store[x].on)
           n == Edited(x, on, l)
           reg == [Told(x, Version(t)) EXCEPT !.ver = l]
           st == [[store EXCEPT ![x].on = on] EXCEPT ![x].prim = l]
<1>1. call.do \notin Computing \cup {"CreateKey", "CreateReplacement"}
  BY DEF Computing
<1>2. Within(store, t) /\ ans \in Administer(call, t)
  BY Zenon, <1>1, Administers
<1>3. ans = Granted(reg, NoDigest, st) \/ ans = Refused("off")
  <2>1. call.do \notin {"DescribeKey", "GetAttributes", "GetCryptoKey"} /\ call.do # "GetKey" /\ call.do # "GetPublicKey"
    OBVIOUS
  <2>2. \/ ans = Granted(reg, NoDigest, [WithVersion(t) EXCEPT ![x].prim = l])
        \/ ans = Refused("off")
    BY Zenon, <1>2, <2>1 DEF Administer
  <2>. QED
    BY Zenon, <2>2 DEF WithVersion, Longer
<1>4. ans = Granted(reg, NoDigest, st)
  BY <1>3, RefusedFields
<1>5. x \in AllNames /\ store[x] # NoKey
  BY Zenon, <1>2 DEF Within
<1>. HIDE DEF t, x
<1>6. TellsOf(reg, x, l)
  BY Zenon, ToldNext
<1>7. st = [store EXCEPT ![x] = n]
  <2>1. \A s, p : [[store EXCEPT ![x].on = s] EXCEPT ![x].prim = p] = [store EXCEPT ![x] = Edited(x, s, p)]
    BY Zenon, <1>5, Edits
  <2>. HIDE DEF on, l
  <2>. QED
    BY Zenon, <2>1
<1>. HIDE DEF reg, st
<1>8. ans.reg = reg
  BY Zenon, <1>4, GrantedFields
<1>8a. ans.st = st
  BY <1>4, GrantedFields
<1>9. Follows(x, n) /\ n.alg = store[x].alg /\ l \in DOMAIN n.on
  <2>1. l \in {store[x].prim, Len(store[x].on) + 1}
    OBVIOUS
  <2>. HIDE DEF l, n
  <2>2. n = Edited(x, on, l)
    BY DEF n
  <2>. HIDE DEF on
  <2>3. on = Longer(store[x].on)
    BY DEF on
  <2>4. /\ Follows(x, n) /\ n.prim = l /\ n.alg = store[x].alg
        /\ Len(store[x].on) + 1 \in DOMAIN n.on
        /\ Versioned => acked[x] \in Nat /\ acked[x] < Len(store[x].on) + 1
    BY Zenon, <1>5, <2>1, <2>2, <2>3, Appends
  <2>. QED
    BY Zenon, <2>4 DEF l
<1>. HIDE DEF n, l, on
<1>10. Changed(st, x, n, new)
  BY Zenon, <1>5, <1>7, <1>9, KeyChanged
<1>11. Points(st, reg)
  BY Zenon, <1>6, <1>9, <1>10 DEF Changed, TellsOf
<1>. QED
  BY Zenon, <1>8, <1>8a, <1>10, <1>11 DEF Changed

\* A new version that is not the primary one.
LEMMA NewVersionAnswers ==
  ASSUME Keeping, Backend # "pkcs11", NEW call, call.do = "CreateCryptoKeyVersion", NEW j, NEW new,
         NEW ans \in Answers(call, j), Nil(Aim(call, j)) \/ Within(store, Aim(call, j)), ans.ok
  PROVE  /\ Effected(ans.st, new) /\ Points(ans.st, ans.reg)
         /\ Versioned => acked[ans.reg.key] < ans.reg.ver
<1>. DEFINE t == Aim(call, j)
           x == t.key
           l == Len(store[x].on) + 1
           p == store[x].prim
           on == Longer(store[x].on)
           n == Edited(x, on, p)
           reg == [Told(x, Version(t)) EXCEPT !.ver = l]
           st == [store EXCEPT ![x].on = on]
<1>1. call.do \notin Computing \cup {"CreateKey", "CreateReplacement"}
  BY DEF Computing
<1>2. Within(store, t) /\ ans \in Administer(call, t)
  BY Zenon, <1>1, Administers
<1>3. ans = Granted(reg, NoDigest, st)
  <2>1. /\ call.do \notin {"DescribeKey", "GetAttributes", "GetCryptoKey"} /\ call.do # "GetKey"
        /\ call.do # "GetPublicKey" /\ call.do # "RotateKey"
    OBVIOUS
  <2>2. ans = Granted(reg, NoDigest, WithVersion(t))
    BY Zenon, <1>2, <2>1 DEF Administer
  <2>. QED
    BY Zenon, <2>2 DEF WithVersion, Longer
<1>4. x \in AllNames /\ store[x] # NoKey
  BY Zenon, <1>2 DEF Within
<1>. HIDE DEF t, x
<1>5. TellsOf(reg, x, l)
  BY Zenon, ToldNext
<1>6. st = [store EXCEPT ![x] = n]
  <2>1. \A s : [store EXCEPT ![x].on = s] = [store EXCEPT ![x] = Edited(x, s, store[x].prim)]
    BY Zenon, <1>4, Edits
  <2>. HIDE DEF on
  <2>. QED
    BY Zenon, <2>1
<1>. HIDE DEF reg, st
<1>7. ans.reg = reg
  BY Zenon, <1>3, GrantedFields
<1>8. ans.st = st
  BY <1>3, GrantedFields
<1>9. Follows(x, n) /\ n.alg = store[x].alg /\ l \in DOMAIN n.on /\ (Versioned => acked[x] < l)
  <2>1. p \in {store[x].prim, Len(store[x].on) + 1}
    OBVIOUS
  <2>. HIDE DEF l, n, p
  <2>2. n = Edited(x, on, p)
    BY DEF n
  <2>. HIDE DEF on
  <2>3. on = Longer(store[x].on)
    BY DEF on
  <2>4. /\ Follows(x, n) /\ n.prim = p /\ n.alg = store[x].alg
        /\ Len(store[x].on) + 1 \in DOMAIN n.on
        /\ Versioned => acked[x] \in Nat /\ acked[x] < Len(store[x].on) + 1
    BY Zenon, <1>4, <2>1, <2>2, <2>3, Appends
  <2>. QED
    BY Zenon, <2>4 DEF l
<1>. HIDE DEF n, l, on, p
<1>10. Changed(st, x, n, new)
  BY Zenon, <1>4, <1>6, <1>9, KeyChanged
<1>11. Points(st, reg)
  BY Zenon, <1>5, <1>9, <1>10 DEF Changed, TellsOf
<1>12. Versioned => acked[reg.key] < reg.ver
  BY Zenon, <1>5, <1>9 DEF TellsOf
<1>. QED
  BY Zenon, <1>7, <1>8, <1>10, <1>11, <1>12 DEF Changed

\* The version that a rotation made becomes the primary one.
LEMMA UpdatePrimaryAnswers ==
  ASSUME Keeping, Backend = "gcp", NEW call, call.do = "UpdatePrimary", NEW j, NEW new,
         NEW ans \in Answers(call, j), Points(store, Aim(call, j)), ans.ok,
         Versioned => acked[Aim(call, j).key] < Aim(call, j).ver
  PROVE  /\ Effected(ans.st, new) /\ ans.reg = Aim(call, j) /\ Points(ans.st, ans.reg)
         /\ ans.st[ans.reg.key].prim = ans.reg.ver
<1>. DEFINE t == Aim(call, j)
           x == t.key
           p == t.ver
           on == store[x].on
           n == Edited(x, on, p)
           st == [store EXCEPT ![x].prim = p]
<1>1. call.do \notin Computing \cup {"CreateKey", "CreateReplacement"}
  BY DEF Computing
<1>2. Points(store, t)
  OBVIOUS
<1>3. x \in AllNames /\ store[x] # NoKey /\ p \in DOMAIN on /\ t.alg = store[x].alg
  BY Zenon, <1>2 DEF Points, Exists
<1>4. Within(store, t)
  BY Zenon, <1>3 DEF Within
<1>5. ans \in Administer(call, t)
  BY Zenon, <1>1, <1>4, Administers
<1>6. ans = Granted(t, NoDigest, st)
  <2>1. /\ call.do \notin {"DescribeKey", "GetAttributes", "GetCryptoKey"} /\ call.do # "GetKey"
        /\ call.do # "GetPublicKey" /\ call.do # "RotateKey" /\ call.do # "CreateCryptoKeyVersion"
    OBVIOUS
  <2>. QED
    BY Zenon, <1>5, <2>1 DEF Administer
<1>7. Versioned => acked[x] < p
  OBVIOUS
<1>. HIDE DEF t
<1>8. ans.reg = t
  BY <1>6, GrantedFields
<1>9. st = [store EXCEPT ![x] = n]
  <2>1. \A q : [store EXCEPT ![x].prim = q] = [store EXCEPT ![x] = Edited(x, store[x].on, q)]
    BY Zenon, <1>3, Edits
  <2>. QED
    BY Zenon, <2>1
<1>. HIDE DEF st
<1>10. ans.st = st
  BY <1>6, GrantedFields
<1>11. Allowed(x, on, p)
  <2>1. on \in Seq(BOOLEAN) /\ on # << >> /\ DOMAIN on = 1..Len(on) /\ Len(on) \in Nat
        /\ (Backend = "pkcs11" => Len(on) = 1)
    BY <1>3, KeyThere DEF Keeping
  <2>2. \A v \in DOMAIN on : on[v] \/ x \in retired \/ Replaced(store, x)
    BY <1>3 DEF Keeping, VersionsKept
  <2>3. Versioned => acked[x] <= p
    <3>1. Versioned => acked[x] \in Nat
      BY <1>3 DEF Keeping, Acknowledged
    <3>. QED
      BY <1>3, <1>7, <2>1, <3>1
  <2>4. p \in 0..Len(on)
    BY <1>3, <2>1
  <2>. HIDE DEF on, p
  <2>5. \A v \in DOMAIN store[x].on : v \in DOMAIN on /\ (~store[x].on[v] => ~on[v])
    BY DEF on
  <2>. QED
    BY <2>1, <2>2, <2>3, <2>4, <2>5 DEF Allowed
<1>12. Follows(x, n)
  BY Zenon, <1>3, <1>11, ChangedFollows
<1>13. n = [alg |-> store[x].alg, size |-> store[x].size, uses |-> store[x].uses, on |-> on, prim |-> p,
            after |-> store[x].after]
  <2>1. n = Edited(x, on, p) /\ x \in AllNames /\ store[x] # NoKey
    BY <1>3
  <2>. HIDE DEF n, on, p, x
  <2>. QED
    BY Zenon, <2>1, EditedKey
<1>. HIDE DEF n
<1>14. n.alg = store[x].alg /\ n.on = on /\ n.prim = p
  BY <1>13
<1>15. Changed(st, x, n, new)
  BY Zenon, <1>3, <1>9, <1>12, KeyChanged
<1>16. Points(st, t)
  BY Zenon, <1>3, <1>14, <1>15 DEF Changed
<1>17. st[t.key].prim = t.ver
  BY Zenon, <1>14, <1>15 DEF Changed
<1>. QED
  BY Zenon, <1>8, <1>10, <1>15, <1>16, <1>17 DEF Changed, t

\* A version that is turned off, or, of AWS, the key.
OffBy(st, t) ==
    \A v \in DOMAIN store[t.key].on : Backend \in {"aws", "pkcs11"} \/ v = Version(t) => ~st[t.key].on[v]

\* What turning a version off leaves of the others.
TurnedOff(t) == [v \in DOMAIN store[t.key].on |-> store[t.key].on[v] /\ Backend # "aws" /\ v # Version(t)]

\* Turning a version off, for a reason, is a change that a step may make.
LEMMA TurnedOffVersions ==
  ASSUME Keeping, NEW t, Within(store, t), t.key \in retired \/ Replaced(store, t.key),
         NEW on, on = TurnedOff(t)
  PROVE  /\ Allowed(t.key, on, store[t.key].prim)
         /\ \A v \in DOMAIN store[t.key].on : Backend \in {"aws", "pkcs11"} \/ v = Version(t) => ~on[v]
<1>. DEFINE x == t.key
           s == store[x].on
<1>1. x \in AllNames /\ store[x] # NoKey
  BY Zenon DEF Within
<1>2. /\ s \in Seq(BOOLEAN) /\ DOMAIN s = 1..Len(s) /\ Len(s) \in Nat \ {0}
      /\ store[x].prim \in 0..Len(s)
      /\ Backend # "gcp" => store[x].prim # 0
      /\ Backend = "pkcs11" => Len(s) = 1
  BY Zenon, <1>1, KeyThere DEF Keeping
<1>3. /\ DOMAIN on = DOMAIN s
      /\ \A v \in DOMAIN s : on[v] <=> s[v] /\ Backend # "aws" /\ v # Version(t)
      /\ \A v \in DOMAIN s : on[v] \in BOOLEAN
  BY DEF TurnedOff
<1>4. on = [v \in DOMAIN s |-> on[v]]
  BY DEF TurnedOff
<1>5. on \in Seq(BOOLEAN) /\ Len(on) = Len(s)
  <2>1. on \in [1..Len(s) -> BOOLEAN]
    BY <1>2, <1>3, <1>4
  <2>2. on \in Seq(BOOLEAN)
    <3>1. Seq(BOOLEAN) = UNION {[1..m -> BOOLEAN] : m \in Nat}
      BY Zenon, SeqDef
    <3>. HIDE DEF s
    <3>. QED
      BY <1>2, <2>1, <3>1
  <2>3. DOMAIN on = 1..Len(on) /\ Len(on) \in Nat
    BY <2>2
  <2>. QED
    BY <1>2, <1>3, <2>2, <2>3
<1>6. \A v \in DOMAIN s : v \in DOMAIN on /\ (~s[v] => ~on[v])
  BY Zenon, <1>3
<1>7. \A v \in DOMAIN on : on[v] \/ x \in retired \/ Replaced(store, x)
  BY Zenon
<1>8. Versioned => acked[x] <= store[x].prim
  BY Zenon, <1>1 DEF Keeping, Acknowledged
<1>9. Backend = "pkcs11" => \A v \in DOMAIN s : v = Version(t)
  <2>1. Version(t) \in DOMAIN s
    BY Zenon, VersionReal
  <2>2. DOMAIN s = 1..Len(s) /\ (Backend = "pkcs11" => Len(s) = 1)
    BY Zenon, <1>2
  <2>. HIDE DEF s
  <2>. QED
    BY <2>1, <2>2
<1>10. \A v \in DOMAIN s : Backend \in {"aws", "pkcs11"} \/ v = Version(t) => ~on[v]
  BY <1>3, <1>9
<1>. HIDE DEF s, x
<1>11. on # << >>
  BY <1>2, <1>5
<1>12. \A v \in DOMAIN store[x].on : v \in DOMAIN on /\ (~store[x].on[v] => ~on[v])
  BY Zenon, <1>6 DEF s
<1>13. Allowed(x, on, store[x].prim)
  BY <1>2, <1>5, <1>7, <1>8, <1>11, <1>12 DEF Allowed
<1>. QED
  BY Zenon, <1>10, <1>13 DEF x, s

\* A version is turned off.
Disabling == {"DisableKey", "DisablePrevious", "DestroyObject"}

\* The service turns a version off.
LEMMA TurnOffAnswers ==
  ASSUME Keeping, NEW call, call.do \in Disabling, NEW j, NEW new,
         NEW ans \in Answers(call, j), Nil(Aim(call, j)) \/ Within(store, Aim(call, j)), ans.ok,
         Aim(call, j).key \in retired \/ Replaced(store, Aim(call, j).key)
  PROVE  /\ Effected(ans.st, new) /\ Points(ans.st, ans.reg) /\ OffBy(ans.st, Aim(call, j))
         /\ ans.reg = Told(Aim(call, j).key, Version(Aim(call, j)))
<1>. DEFINE t == Aim(call, j)
           x == t.key
           p == store[x].prim
           on == TurnedOff(t)
           n == Edited(x, on, p)
           reg == Told(x, Version(t))
           st == [store EXCEPT ![x].on = on]
<1>1. call.do \notin Computing \cup {"CreateKey", "CreateReplacement"}
  BY DEF Computing, Disabling
<1>2. Within(store, t) /\ ans \in Administer(call, t)
  BY Zenon, <1>1, Administers
<1>3. ans = Granted(reg, NoDigest, st)
  <2>1. /\ call.do \notin {"DescribeKey", "GetAttributes", "GetCryptoKey"} /\ call.do # "GetKey"
        /\ call.do # "GetPublicKey" /\ call.do # "RotateKey" /\ call.do # "CreateCryptoKeyVersion"
        /\ call.do # "UpdatePrimary"
        /\ call.do \in {"DisableKey", "DisablePrevious", "DestroyObject"}
    BY DEF Disabling
  <2>2. ans \in {Granted(reg, NoDigest, TurnOff(t))} \cup {Refused("use")}
    <3>1. ans \in {Granted(reg, NoDigest, TurnOff(t))}
                  \cup (IF Backend = "pkcs11" /\ call.do # "DestroyObject" THEN {Refused("use")} ELSE {})
      BY Zenon, <1>2, <2>1 DEF Administer
    <3>. QED
      BY Zenon, <3>1
  <2>3. ans # Refused("use")
    BY RefusedFields
  <2>4. TurnOff(t) = st
    BY DEF TurnOff, TurnedOff
  <2>. QED
    BY Zenon, <2>2, <2>3, <2>4
<1>4. x \in AllNames /\ store[x] # NoKey
  BY Zenon, <1>2 DEF Within
<1>5. Version(t) \in DOMAIN store[x].on
  BY Zenon, <1>2, VersionReal
<1>6. t.key \in retired \/ Replaced(store, t.key)
  OBVIOUS
<1>. HIDE DEF t
<1>7. Allowed(x, on, p)
  BY Zenon, <1>2, <1>6, TurnedOffVersions
<1>8. \A v \in DOMAIN store[t.key].on : Backend \in {"aws", "pkcs11"} \/ v = Version(t) => ~on[v]
  BY Zenon, <1>2, <1>6, TurnedOffVersions
<1>. HIDE DEF x, p, on
<1>9. st = [store EXCEPT ![x] = n]
  <2>1. \A s : [store EXCEPT ![x].on = s] = [store EXCEPT ![x] = Edited(x, s, store[x].prim)]
    BY Zenon, <1>4, Edits
  <2>. QED
    BY Zenon, <2>1 DEF p
<1>. HIDE DEF st
<1>10. ans.reg = reg /\ ans.st = st
  BY <1>3, GrantedFields
<1>11. Follows(x, n)
  BY Zenon, <1>4, <1>7, ChangedFollows
<1>12. n = [alg |-> store[x].alg, size |-> store[x].size, uses |-> store[x].uses, on |-> on, prim |-> p,
            after |-> store[x].after]
  <2>1. n = Edited(x, on, p)
    OBVIOUS
  <2>. HIDE DEF n
  <2>. QED
    BY Zenon, <1>4, <2>1, EditedKey
<1>. HIDE DEF n
<1>13. n.alg = store[x].alg /\ n.on = on
  BY <1>12
<1>14. Changed(st, x, n, new)
  BY Zenon, <1>4, <1>9, <1>11, KeyChanged
<1>15. reg.alg = store[x].alg /\ reg.key = x /\ reg.ver = Version(t)
  BY TextFields
<1>. HIDE DEF reg
<1>16. Version(t) \in DOMAIN n.on
  BY Zenon, <1>4, <1>5, <1>11 DEF Follows
<1>17. Points(st, reg)
  BY Zenon, <1>13, <1>14, <1>15, <1>16 DEF Changed
<1>18. OffBy(st, t)
  <2>1. st[t.key].on = on
    BY Zenon, <1>13, <1>14 DEF Changed, x
  <2>. QED
    BY Zenon, <1>8, <2>1 DEF OffBy
<1>. QED
  BY Zenon, <1>10, <1>14, <1>17, <1>18 DEF Changed, t, reg, x

\* A token's replacement of a key.
LEMMA ReplacementAnswers ==
  ASSUME Keeping, Backend = "pkcs11", NEW call, call.do = "CreateReplacement", NEW j,
         j.a.new \in Names, store[j.a.new] = NoKey, Points(store, Aim(call, j)),
         NEW ans \in Answers(call, j)
  PROVE  /\ Effected(ans.st, j.a.new) /\ Points(ans.st, ans.reg)
         /\ ans.st[j.a.new].after = Aim(call, j).key
<1>. DEFINE t == Aim(call, j)
           new == j.a.new
           uses == Token!replacementUses(t.alg)
<1>1. PICK size : ans = Granted(Text("ref", t.alg, new, 1, size), NoDigest,
                                [store EXCEPT ![new] = NewKey(t.alg, size, uses, t.key)])
  <2>1. call.do # "CreateKey"
    OBVIOUS
  <2>2. ans \in {Granted(Text("ref", t.alg, new, 1, size), NoDigest,
                         [store EXCEPT ![new] = NewKey(t.alg, size, uses, t.key)])
                   : size \in Token!generateReplacement(t)}
    BY Zenon, <2>1 DEF Answers, Aim
  <2>. QED
    BY Zenon, <2>2
<1>. DEFINE reg == Text("ref", t.alg, new, 1, size)
           n == NewKey(t.alg, size, uses, t.key)
           st == [store EXCEPT ![new] = n]
<1>2. ans.reg = reg /\ ans.st = st
  BY <1>1, GrantedFields
<1>3. new \in AllNames /\ t.key \in AllNames /\ store[t.key] # NoKey /\ t.alg = store[t.key].alg
  BY NoneIsNoName DEF Points, Exists
<1>4. store[new] = NoKey
  OBVIOUS
<1>5. t.alg \in Algorithms
  BY <1>3, KeyThere DEF Keeping
<1>. HIDE DEF t, new, uses
<1>. Backend # "pkcs11" => t.alg = Family
  OBVIOUS
<1>6. Follows(new, n)
  BY Zenon, <1>3, <1>4, <1>5, NewFollows
<1>6a. n.after = t.key
  BY DEF NewKey
<1>7. n.alg = t.alg /\ n.on = <<TRUE>>
  BY DEF NewKey
<1>8. 1 \in DOMAIN n.on
  BY <1>7
<1>9. reg.alg = t.alg /\ reg.key = new /\ reg.ver = 1
  BY TextFields
<1>. HIDE DEF n, reg
<1>10. Changed(st, new, n, new)
  BY Zenon, <1>3, <1>6, KeyChanged
<1>11. Points(st, reg)
  BY Zenon, <1>7, <1>8, <1>9, <1>10 DEF Changed
<1>12. st[new].after = t.key
  BY Zenon, <1>6a, <1>10 DEF Changed
<1>. QED
  BY Zenon, <1>2, <1>10, <1>11, <1>12 DEF Changed, new, t

\* What a look at a key tells.
Looking == {"DescribeKey", "GetAttributes", "GetCryptoKey", "GetKey", "GetPublicKey"}

\* What a look at a key answers.
LEMMA LookAnswers ==
  ASSUME Keeping, NEW call, call.do \in Looking, NEW j, Nil(Aim(call, j)) \/ Within(store, Aim(call, j)),
         NEW ans \in Answers(call, j), ans.ok
  PROVE  /\ Within(store, Aim(call, j)) /\ ans.st = store
         /\ ans.reg = Told(Aim(call, j).key, Version(Aim(call, j))) /\ Points(store, ans.reg)
         /\ call.do = "GetPublicKey" => ans.reg.alg \in Asymmetric
<1>. DEFINE t == Aim(call, j)
<1>1. call.do \in Reading /\ call.do # "Decrypt" /\ call.do # "DecryptInHardware"
  BY DEF Reading, Looking
<1>2. Tells(call, j, ans)
  BY Zenon, <1>1, ReadingTells
<1>3. ~\E why : ans = Refused(why)
  BY RefusedFields
<1>4. PICK v, val : /\ Within(store, t) /\ ans = Granted(Told(t.key, v), val, store)
                    /\ v \in DOMAIN store[t.key].on /\ v = Version(t)
                    /\ call.do = "GetPublicKey" => store[t.key].alg \in Asymmetric
  BY Zenon, <1>1, <1>2, <1>3 DEF Tells
<1>. HIDE DEF t
<1>5. ans.reg = Told(t.key, v) /\ ans.st = store
  BY <1>4, GrantedFields
<1>6. ans.reg.alg = store[t.key].alg /\ ans.reg.key = t.key /\ ans.reg.ver = v
  BY <1>5, TextFields
<1>7. Points(store, ans.reg)
  BY Zenon, <1>4, <1>6 DEF Points, Exists, Within
<1>. QED
  BY Zenon, <1>4, <1>5, <1>6, <1>7 DEF t

\* A text of the same key that may leave the version out, and one that does not.
Same(t, u)  == u.key = t.key /\ u.alg = t.alg /\ u.ver = t.ver
Short(t, u) == u.key = t.key /\ u.alg = t.alg /\ u.ver = 0
DataOn(t, d) ==
    /\ Same(t, d.id) \/ (Short(t, d.id) /\ Backend # "pkcs11")
    /\ Same(t, d.ref) \/ (Short(t, d.ref) /\ Backend # "pkcs11")
    /\ Nil(d.pub) \/ Same(t, d.pub)

\* A text in another form.
LEMMA FormsOf ==
  ASSUME NEW t, IsText(t), NEW f
  PROVE  Same(t, [t EXCEPT !.form = f]) /\ Short(t, [t EXCEPT !.form = f, !.ver = 0])
BY DEF IsText, Text, Same, Short

\* Key data from its texts.
LEMMA DataMade ==
  ASSUME NEW t, NEW x, NEW y, NEW z, NEW d, d = KeyData(x, y, z),
         Same(t, x) \/ (Short(t, x) /\ Backend # "pkcs11"),
         Same(t, y) \/ (Short(t, y) /\ Backend # "pkcs11"),
         Nil(z) \/ Same(t, z)
  PROVE  DataOn(t, d)
<1>1. d.id = x /\ d.ref = y /\ d.pub = z
  BY DEF KeyData
<1>. QED
  BY Zenon, <1>1 DEF DataOn

\* A text of the same version names a version that is there.
LEMMA SamePoints ==
  ASSUME NEW st, NEW t, Points(st, t), NEW u
  PROVE  /\ Same(t, u) => Points(st, u)
         /\ Short(t, u) /\ Backend # "pkcs11" => Addresses(st, u)
BY Zenon DEF Points, Exists, Addresses, Same, Short

\* The key data of AWS is about the key it was made of.
LEMMA AwsDataOn ==
  ASSUME Backend = "aws", NEW t, IsText(t)
  PROVE  DataOn(t, DataOf(t))
<1>. DEFINE id == [t EXCEPT !.form = "id", !.ver = 0]
           ref == [t EXCEPT !.form = "ref"]
           name == [t EXCEPT !.form = "ref", !.ver = 0]
           pkix == [t EXCEPT !.form = "pkix"]
           kem == [t EXCEPT !.form = "kem"]
<1>1. Backend \notin {"azure", "gcp"} /\ Backend # "pkcs11"
  OBVIOUS
<1>2. Short(t, id) /\ Same(t, ref) /\ Short(t, name) /\ Same(t, pkix) /\ Same(t, kem)
  BY Zenon, FormsOf
<1>3. CASE t.alg \in Asymmetric
  <2>1. DataOf(t) = KeyData(id, name, pkix)
    BY <1>1, <1>3 DEF DataOf, Aws!awsKeyDataFromMetadata, Aws!awsKeySpecHasPublicKey, Aws!KeyData, KeyData,
                     Aws!Asymmetric, Asymmetric, Aws!NoText, NoText, Aws!Text, Text
  <2>2. Nil(NoText)
    BY DEF Nil
  <2>. HIDE DEF id, ref, name, pkix, kem
  <2>. QED
    BY Zenon, <1>1, <1>2, <2>1, <2>2, DataMade
<1>4. CASE t.alg \notin Asymmetric
  <2>1. DataOf(t) = KeyData(id, name, NoText)
    BY <1>1, <1>4 DEF DataOf, Aws!awsKeyDataFromMetadata, Aws!awsKeySpecHasPublicKey, Aws!KeyData, KeyData,
                     Aws!Asymmetric, Asymmetric, Aws!NoText, NoText, Aws!Text, Text
  <2>2. Nil(NoText)
    BY DEF Nil
  <2>. HIDE DEF id, ref, name, pkix, kem
  <2>. QED
    BY Zenon, <1>1, <1>2, <2>1, <2>2, DataMade
<1>. QED
  BY <1>3, <1>4

\* The key data of Azure is about the key it was made of.
LEMMA AzureDataOn ==
  ASSUME Backend = "azure", NEW t, IsText(t)
  PROVE  DataOn(t, DataOf(t))
<1>. DEFINE id == [t EXCEPT !.form = "id", !.ver = 0]
           ref == [t EXCEPT !.form = "ref"]
           name == [t EXCEPT !.form = "ref", !.ver = 0]
           pkix == [t EXCEPT !.form = "pkix"]
           kem == [t EXCEPT !.form = "kem"]
<1>1. Backend \notin {"aws", "gcp"} /\ Backend # "pkcs11"
  OBVIOUS
<1>2. Short(t, id) /\ Same(t, ref) /\ Short(t, name) /\ Same(t, pkix) /\ Same(t, kem)
  BY Zenon, FormsOf
<1>3. CASE t.alg \in {"rsa", "ecdh"}
  <2>1. DataOf(t) = KeyData(id, ref, pkix)
    BY <1>1, <1>3 DEF DataOf, Azure!azureKeyDataFromBundle, Azure!azureBundleHasRSAKey, Azure!azureBundleHasECKey,
                     Azure!KeyData, KeyData, Azure!NoText, NoText, Azure!Text, Text
  <2>2. Nil(NoText)
    BY DEF Nil
  <2>. HIDE DEF id, ref, name, pkix, kem
  <2>. QED
    BY Zenon, <1>1, <1>2, <2>1, <2>2, DataMade
<1>4. CASE t.alg \notin {"rsa", "ecdh"}
  <2>1. DataOf(t) = KeyData(id, ref, NoText)
    BY <1>1, <1>4 DEF DataOf, Azure!azureKeyDataFromBundle, Azure!azureBundleHasRSAKey, Azure!azureBundleHasECKey,
                     Azure!KeyData, KeyData, Azure!NoText, NoText, Azure!Text, Text
  <2>2. Nil(NoText)
    BY DEF Nil
  <2>. HIDE DEF id, ref, name, pkix, kem
  <2>. QED
    BY Zenon, <1>1, <1>2, <2>1, <2>2, DataMade
<1>. QED
  BY <1>3, <1>4

\* The key data of Google is about the key it was made of.
LEMMA GcpDataOn ==
  ASSUME Backend = "gcp", NEW t, IsText(t)
  PROVE  DataOn(t, DataOf(t))
<1>. DEFINE id == [t EXCEPT !.form = "id", !.ver = 0]
           ref == [t EXCEPT !.form = "ref"]
           name == [t EXCEPT !.form = "ref", !.ver = 0]
           pkix == [t EXCEPT !.form = "pkix"]
           kem == [t EXCEPT !.form = "kem"]
<1>1. Backend \notin {"aws", "azure"} /\ Backend # "pkcs11"
  OBVIOUS
<1>2. Short(t, id) /\ Same(t, ref) /\ Short(t, name) /\ Same(t, pkix) /\ Same(t, kem)
  BY Zenon, FormsOf
<1>3. CASE t.alg = "ecdh"
  <2>1. DataOf(t) = KeyData(id, ref, kem)
    BY <1>1, <1>3 DEF DataOf, Gcp!gcpKeyDataFromCryptoKey, Gcp!KeyData, KeyData, Gcp!Asymmetric,
                     Gcp!NoText, NoText, Gcp!Text, Text
  <2>2. Nil(NoText)
    BY DEF Nil
  <2>. HIDE DEF id, ref, name, pkix, kem
  <2>. QED
    BY Zenon, <1>1, <1>2, <2>1, <2>2, DataMade
<1>4. CASE t.alg \in {"rsa", "ed25519"}
  <2>1. DataOf(t) = KeyData(id, ref, pkix)
    BY <1>1, <1>4 DEF DataOf, Gcp!gcpKeyDataFromCryptoKey, Gcp!KeyData, KeyData, Gcp!Asymmetric,
                     Gcp!NoText, NoText, Gcp!Text, Text
  <2>2. Nil(NoText)
    BY DEF Nil
  <2>. HIDE DEF id, ref, name, pkix, kem
  <2>. QED
    BY Zenon, <1>1, <1>2, <2>1, <2>2, DataMade
<1>5. CASE t.alg \notin {"ecdh", "rsa", "ed25519"}
  <2>1. DataOf(t) = KeyData(id, name, NoText)
    BY <1>1, <1>5 DEF DataOf, Gcp!gcpKeyDataFromCryptoKey, Gcp!KeyData, KeyData, Gcp!Asymmetric,
                     Gcp!NoText, NoText, Gcp!Text, Text
  <2>2. Nil(NoText)
    BY DEF Nil
  <2>. HIDE DEF id, ref, name, pkix, kem
  <2>. QED
    BY Zenon, <1>1, <1>2, <2>1, <2>2, DataMade
<1>. QED
  BY <1>3, <1>4, <1>5

\* The key data of a token is about the key it was made of.
LEMMA TokenDataOn ==
  ASSUME Backend = "pkcs11", NEW t, IsText(t)
  PROVE  DataOn(t, DataOf(t))
<1>. DEFINE id == [t EXCEPT !.form = "id"]
           ref == [t EXCEPT !.form = "ref"]
           name == [t EXCEPT !.form = "ref", !.ver = 0]
           pkix == [t EXCEPT !.form = "pkix"]
           kem == [t EXCEPT !.form = "kem"]
<1>1. Backend \notin {"aws", "azure", "gcp"}
  OBVIOUS
<1>2. Same(t, id) /\ Same(t, ref) /\ Short(t, name) /\ Same(t, pkix) /\ Same(t, kem)
  BY Zenon, FormsOf
<1>3. CASE t.alg \in Asymmetric /\ t.form # "bare"
  <2>1. DataOf(t) = KeyData(id, ref, pkix)
    BY <1>1, <1>3 DEF DataOf, Token!keyDataFor, Token!KeyData, KeyData, Token!NoText, NoText, Token!Text, Text,
                     Token!Asymmetric, Asymmetric
  <2>2. Nil(NoText)
    BY DEF Nil
  <2>. HIDE DEF id, ref, name, pkix, kem
  <2>. QED
    BY Zenon, <1>1, <1>2, <2>1, <2>2, DataMade
<1>4. CASE ~(t.alg \in Asymmetric /\ t.form # "bare")
  <2>1. DataOf(t) = KeyData(id, ref, NoText)
    BY <1>1, <1>4 DEF DataOf, Token!keyDataFor, Token!KeyData, KeyData, Token!NoText, NoText, Token!Text, Text,
                     Token!Asymmetric, Asymmetric
  <2>2. Nil(NoText)
    BY DEF Nil
  <2>. HIDE DEF id, ref, name, pkix, kem
  <2>. QED
    BY Zenon, <1>1, <1>2, <2>1, <2>2, DataMade
<1>. QED
  BY <1>3, <1>4

\* The key data that is made of a text of a key's version.
LEMMA DataPointsOf ==
  ASSUME Remote, Backend \in Backends, NEW st, NEW t, IsText(t), Points(st, t)
  PROVE  DataPoints(st, DataOf(t))
<1>1. DataOn(t, DataOf(t))
  <2>1. Backend \in {"aws", "azure", "gcp", "pkcs11"}
    BY DEF Remote, Backends
  <2>. QED
    BY Zenon, <2>1, AwsDataOn, AzureDataOn, GcpDataOn, TokenDataOn
<1>. QED
  BY Zenon, <1>1, SamePoints DEF DataOn, DataPoints, Addresses

----------------------------------------------------------------------------
(* Where an answer leaves a call.                                          *)

\* The call goes on with the calls of todo, or ends with r; reg is what it
\* knows of its key.
Moved(j, n, reg, todo) ==
    /\ n.st = "calling" /\ n.op = j.op /\ n.a = j.a /\ n.plan = j.plan /\ n.floor = j.floor
    /\ n.reg = reg /\ n.todo = todo
Ended(j, n, reg, r) ==
    /\ n.st = "returned" /\ n.op = j.op /\ n.a = j.a /\ n.plan = j.plan /\ n.floor = j.floor /\ n.reg = reg
    /\ n.ok <=> r.step = "give" \/ j.op \in Hashes
    /\ r.step = "give" => n.val = r.val
    /\ r.step # "give" /\ j.op \in Hashes => n.val = NoDigest

\* What a method makes of its last answer.
Ending(j, reg, val, r) ==
    /\ j.plan.then = "data" => r = Give(DataOf(reg))
    /\ j.plan.then \in {"value", "digest"} => r = Give(val)
    /\ j.plan.then = "none" => r = Give(NoDigest)
    /\ j.plan.then = "local" => r = Step(Method(j.op, [j.a EXCEPT !.key = DataOf(reg).pub]))
    /\ j.plan.then = "open" => r = Fail \/ \E m : r = Give(Message(m))

\* How a method ends.
LEMMA EndsSo ==
  ASSUME NEW j, IsJob(j), NEW r, NEW why
  PROVE  Ended(j, Returned(j, r, why), j.reg, r)
<1>. DEFINE n == Returned(j, r, why)
<1>1. /\ n.st = "returned" /\ n.op = j.op /\ n.a = j.a /\ n.reg = j.reg /\ n.plan = j.plan /\ n.floor = j.floor
      /\ n.ok <=> r.step = "give" \/ j.op \in Hashes
      /\ r.step = "give" => n.val = r.val
      /\ r.step # "give" /\ j.op \in Hashes => n.val = NoDigest
  BY ReturnedJob
<1>. HIDE DEF n
<1>2. Ended(j, n, j.reg, r)
  BY <1>1 DEF Ended
<1>. QED
  BY Zenon, <1>2 DEF n

\* What it ends with.
LEMMA Endings ==
  ASSUME NEW j, NEW k, k.op = j.op, k.plan = j.plan, k.a = j.a, NEW val
  PROVE  Ending(j, k.reg, val, Step(Conclude(k, val)))
<1>1. (\A v : Step(Give(v)) = Give(v)) /\ Step(Fail) = Fail
  BY DEF Step, Give, Fail
<1>2. ASSUME j.plan.then = "data" PROVE Step(Conclude(k, val)) = Give(DataOf(k.reg))
  <2>1. Conclude(k, val) = Give(DataOf(k.reg))
    BY <1>2 DEF Conclude
  <2>. QED
    BY Zenon, <1>1, <2>1
<1>3. ASSUME j.plan.then \in {"value", "digest"} PROVE Step(Conclude(k, val)) = Give(val)
  <2>1. Conclude(k, val) = Give(val)
    BY <1>3 DEF Conclude
  <2>. QED
    BY Zenon, <1>1, <2>1
<1>4. ASSUME j.plan.then = "none" PROVE Step(Conclude(k, val)) = Give(NoDigest)
  <2>1. Conclude(k, val) = Give(NoDigest)
    BY <1>4 DEF Conclude
  <2>. QED
    BY Zenon, <1>1, <2>1
<1>5. ASSUME j.plan.then = "local"
      PROVE  Step(Conclude(k, val)) = Step(Method(j.op, [j.a EXCEPT !.key = DataOf(k.reg).pub]))
  BY <1>5 DEF Conclude
<1>6. ASSUME j.plan.then = "open"
      PROVE  Step(Conclude(k, val)) = Fail \/ \E m : Step(Conclude(k, val)) = Give(Message(m))
  <2>1. \/ Conclude(k, val) = Give(Message(k.a.art.msg))
        \/ Conclude(k, val) = Mem!OpenWithSecret(k.reg, k.a.art)
    BY <1>6 DEF Conclude
  <2>2. Conclude(k, val) = Fail \/ \E m : Conclude(k, val) = Give(Message(m))
    BY Zenon, <2>1, MemVocabulary DEF Mem!OpenWithSecret
  <2>. QED
    BY Zenon, <1>1, <2>2
<1>. QED
  BY Zenon, <1>2, <1>3, <1>4, <1>5, <1>6 DEF Ending

\* After an answer that tells of a key.
LEMMA AfterOk ==
  ASSUME NEW j, IsJob(j), j.st = "calling", NEW ans, ans.ok, Head(j.todo).do # "DisablePrevious"
  PROVE  LET n == After(j, ans)
             rest == Remaining(Tail(j.todo), ans.reg)
         IN  \/ Ended(j, n, j.reg, Fail)
             \/ rest # << >> /\ Moved(j, n, ans.reg, rest)
             \/ rest = << >> /\ \E r : Ending(j, ans.reg, ans.val, r) /\ Ended(j, n, ans.reg, r)
<1>. DEFINE told == [j EXCEPT !.reg = ans.reg]
           rest == Remaining(Tail(j.todo), ans.reg)
           last == Step(Conclude(told, ans.val))
           why  == IF last = Fail THEN "mismatch" ELSE "none"
           n    == After(j, ans)
<1>1. IsJob(told) /\ told.op = j.op /\ told.plan = j.plan /\ told.a = j.a /\ told.reg = ans.reg
      /\ told.st = "calling" /\ told.floor = j.floor
  BY DEF IsJob
<1>2. \/ n = Returned(j, Fail, "mismatch")
      \/ rest # << >> /\ n = [told EXCEPT !.todo = rest]
      \/ rest = << >> /\ n = Returned(told, last, why)
  <2>1. told.reg = ans.reg
    BY <1>1
  <2>. QED
    BY <2>1 DEF After
<1>. HIDE DEF told, n
<1>3. ASSUME n = Returned(j, Fail, "mismatch") PROVE Ended(j, n, j.reg, Fail)
  BY Zenon, <1>3, EndsSo
<1>4. ASSUME n = [told EXCEPT !.todo = rest] PROVE Moved(j, n, ans.reg, rest)
  <2>. HIDE DEF rest
  <2>. QED
    BY <1>1, <1>4 DEF Moved, IsJob
<1>5. ASSUME n = Returned(told, last, why) PROVE Ending(j, ans.reg, ans.val, last) /\ Ended(j, n, ans.reg, last)
  <2>1. Ending(j, told.reg, ans.val, last)
    BY Zenon, <1>1, Endings
  <2>2. Ended(told, n, told.reg, last)
    <3>. HIDE DEF last, why
    <3>. QED
      BY Zenon, <1>1, <1>5, EndsSo
  <2>. HIDE DEF last
  <2>3. Ended(j, n, told.reg, last)
    BY Zenon, <1>1, <2>2 DEF Ended
  <2>. QED
    BY Zenon, <1>1, <2>1, <2>3
<1>. QED
  BY Zenon, <1>2, <1>3, <1>4, <1>5 DEF n

\* After a token has disabled the key that was replaced.
LEMMA AfterDisabling ==
  ASSUME NEW j, IsJob(j), NEW ans, ans.ok, Head(j.todo).do = "DisablePrevious"
  PROVE  LET n == After(j, ans)
         IN  \/ Ended(j, n, j.reg, Fail)
             \/ \E r : Ending(j, j.reg, ans.val, r) /\ Ended(j, n, j.reg, r)
<1>. DEFINE last == Step(Conclude(j, ans.val))
           why  == IF last = Fail THEN "mismatch" ELSE "none"
           n    == After(j, ans)
<1>1. n = Returned(j, Fail, "mismatch") \/ n = Returned(j, last, why)
  BY DEF After
<1>2. Ending(j, j.reg, ans.val, last)
  BY Zenon, Endings
<1>. HIDE DEF last, why, n
<1>. QED
  BY Zenon, <1>1, <1>2, EndsSo DEF n

\* After a refusal.
LEMMA AfterRefusal ==
  ASSUME NEW j, IsJob(j), j.st = "calling", NEW why
  PROVE  LET call == Head(j.todo)
             n == After(j, Refused(why))
             bare == [j.reg EXCEPT !.form = "bare"]
         IN  /\ call.else = "fail" => Ended(j, n, j.reg, Fail)
             /\ call.else \notin {"fail", "skip"} => Moved(j, n, j.reg, <<Plain(call.else, call.kind)>>)
             /\ call.else = "skip" /\ call.do # "DisablePrevious" /\ Tail(j.todo) = << >>
                   => \E r : Ending(j, bare, NoDigest, r) /\ Ended(j, n, bare, r)
<1>. DEFINE call == Head(j.todo)
           bare == [j.reg EXCEPT !.form = "bare"]
           told == [j EXCEPT !.reg = bare]
           last == Step(Conclude(told, NoDigest))
           w    == IF last = Fail THEN "mismatch" ELSE "none"
           n    == After(j, Refused(why))
<1>1. IsJob(told) /\ told.op = j.op /\ told.plan = j.plan /\ told.a = j.a /\ told.reg = bare
      /\ told.st = "calling" /\ told.floor = j.floor
  <2>. HIDE DEF bare
  <2>. QED
    BY DEF IsJob
<1>2. /\ ~Refused(why).ok /\ Refused(why).why = why /\ Refused(why).val = NoDigest
  BY RefusedFields
<1>3. ASSUME call.else = "fail" PROVE Ended(j, n, j.reg, Fail)
  <2>1. n = Returned(j, Fail, why)
    BY <1>2, <1>3 DEF After
  <2>. QED
    BY Zenon, <2>1, EndsSo
<1>4. ASSUME call.else \notin {"fail", "skip"} PROVE Moved(j, n, j.reg, <<Plain(call.else, call.kind)>>)
  <2>. DEFINE p == Plain(call.else, call.kind)
  <2>1. n = [j EXCEPT !.todo = <<p>>]
    BY <1>2, <1>4 DEF After
  <2>. HIDE DEF p, n
  <2>2. Moved(j, n, j.reg, <<p>>)
    BY <2>1 DEF Moved, IsJob
  <2>. QED
    BY Zenon, <2>2 DEF p
<1>5. ASSUME call.else = "skip", call.do # "DisablePrevious", Tail(j.todo) = << >>
      PROVE  \E r : Ending(j, bare, NoDigest, r) /\ Ended(j, n, bare, r)
  <2>1. \A x : Remaining(<< >>, x) = << >>
    BY DEF Remaining, Skip
  <2>2. n = Returned(told, last, w)
    BY <1>2, <1>5, <2>1 DEF After
  <2>3. Ending(j, told.reg, NoDigest, last)
    <3>. HIDE DEF told
    <3>. QED
      BY Zenon, <1>1, Endings
  <2>. HIDE DEF told, last, w, n, bare
  <2>4. Ended(told, n, told.reg, last)
    BY Zenon, <1>1, <2>2, EndsSo
  <2>5. Ended(j, n, told.reg, last)
    BY Zenon, <1>1, <2>4 DEF Ended
  <2>. QED
    BY Zenon, <1>1, <2>3, <2>5
<1>. QED
  BY Zenon, <1>3, <1>4, <1>5

----------------------------------------------------------------------------
(* A call that is under way: what its next answer may leave.               *)

Due(j) ==
    /\ Keeping /\ EnvOK
    /\ IsJob(j) /\ j.st = "calling" /\ Called(j) /\ Calling(j)
    /\ Given(store, retired, acked, j) /\ Progress(store, acked, j)

\* Where a call is that goes on.
Stage(st, j) ==
    /\ j.op \in Using => UseStage(j)
    /\ j.op \in DOMAIN Seals => SealStage(j)
    /\ j.op \in DOMAIN Makes => MakeStage(st, j)
    /\ j.op = "GetKey" => InspectStage(j)
    /\ j.op = "RotateKey" => RotateStage(st, acked, j)
    /\ j.op = "DeactivateKey" => DisableStage(j)

\* The fields of the calls.
LEMMA CallFields ==
  /\ \A do, kind, bind : LET c == Call(do, kind, bind)
                         IN  c.do = do /\ c.kind = kind /\ c.bind = bind /\ c.else = "fail" /\ c.for = Algorithms
  /\ \A do, kind : LET c == Plain(do, kind) IN c.do = do /\ c.kind = kind /\ c.else = "fail" /\ c.for = Algorithms
  /\ \A do : LET c == Lookup(do) IN c.do = do /\ c.kind = "none" /\ c.else = "fail" /\ c.for = Algorithms
  /\ \A do, S : LET c == OnlyFor(Lookup(do), S) IN c.do = do /\ c.else = "fail" /\ c.for = S
  /\ \A do, S : LET c == Needs(Lookup(do), S) IN c.do = do /\ c.else = "fail" /\ c.for = Algorithms
  /\ \A do, x : LET c == Otherwise(Lookup(do), x) IN c.do = do /\ c.kind = "none" /\ c.else = x /\ c.for = Algorithms
  /\ \A size, uses : LET c == Creation(size, uses) IN c.do = "CreateKey" /\ c.else = "fail" /\ c.for = Algorithms
BY DEF Call, Plain, Lookup, OnlyFor, Needs, Otherwise, Creation, Create

\* The first call of a plan, and the calls left.
LEMMA Heads ==
  /\ \A w : Head(<<w>>) = w /\ Tail(<<w>>) = << >> /\ <<w>> # << >>
  /\ \A w, x : Head(<<w, x>>) = w /\ Tail(<<w, x>>) = <<x>> /\ <<w, x>> # << >>
  /\ \A w, x, y : Head(<<w, x, y>>) = w /\ Tail(<<w, x, y>>) = <<x, y>> /\ <<w, x, y>> # << >>
  /\ \A w, x, y, z : Head(<<w, x, y, z>>) = w /\ Tail(<<w, x, y, z>>) = <<x, y, z>> /\ <<w, x, y, z>> # << >>
OBVIOUS

\* What a call under way is.
LEMMA DueOp ==
  ASSUME NEW j, Due(j)
  PROVE  j.op \in AllOps /\ IsText(j.reg) /\ IsText(j.plan.ref) /\ j.todo # << >> /\ Remote /\ Backend \in Backends
BY Zenon DEF Due, Called, Calling, Keeping

\* The key of the next call is there, or there is none.
LEMMA AimWithin ==
  ASSUME NEW j, NEW ak, Progress(store, ak, j), NEW call
  PROVE  Nil(Aim(call, j)) \/ Within(store, Aim(call, j))
BY Zenon DEF Progress, Aim, Points, Exists, Within, Nil

\* The same arguments, later.
LEMMA StillGiven ==
  ASSUME NEW j, Due(j), NEW st, Grows(store, st), NEW n, n.op = j.op, n.a = j.a, n.floor = j.floor
  PROVE  Given(st, retired, acked, n)
<1>1. Given(store, retired, acked, j)
  BY Zenon DEF Due
<1>2. Versioned => \A k \in AllNames : acked[k] \in Nat /\ acked[k] <= acked[k]
  BY DEF Due, Keeping, Acknowledged
<1>3. Given(st, retired, acked, j)
  BY Zenon, <1>1, <1>2, GrowsGiven
<1>. QED
  BY Zenon, <1>3 DEF Given

\* A call that ends with what it may return is as it must be.
LEMMA EndedKept ==
  ASSUME NEW j, Due(j), NEW st, Grows(store, st), NEW n, NEW reg, NEW r, Ended(j, n, reg, r),
         r.step = "give" => Result(st, n)
  PROVE  JobKept(st, retired, acked, n)
<1>1. Given(st, retired, acked, n)
  BY Zenon, StillGiven DEF Ended
<1>2. Result(st, n)
  <2>1. CASE r.step = "give"
    BY Zenon, <2>1
  <2>2. CASE r.step # "give"
    <3>1. n.ok => n.op \in Hashes /\ n.val = NoDigest
      BY Zenon, <2>2 DEF Ended
    <3>2. DOMAIN NoDigest # DOMAIN NoData /\ DOMAIN NoDigest # DOMAIN NoArt.art
      BY DEF NoDigest, NoData, KeyData, NoArt, Sealed
    <3>3. n.op \in Hashes => n.op # "DeactivateKey" /\ n.op # "EncryptAES"
      BY DEF Hashes
    <3>. QED
      BY Zenon, <3>1, <3>2, <3>3 DEF Result
  <2>. QED
    BY Zenon, <2>1, <2>2
<1>3. n.st = "returned" /\ n.st # "calling"
  BY DEF Ended
<1>. QED
  BY Zenon, <1>1, <1>2, <1>3 DEF JobKept

\* A call that goes on to its next stage is as it must be.
LEMMA MovedKept ==
  ASSUME NEW j, Due(j), NEW st, Grows(store, st), NEW n, NEW reg, NEW todo, Moved(j, n, reg, todo),
         Nil(reg) \/ Points(st, reg), Stage(st, n)
  PROVE  JobKept(st, retired, acked, n)
<1>1. Given(st, retired, acked, n)
  BY Zenon, StillGiven DEF Moved
<1>2. Progress(store, acked, j)
  BY Zenon DEF Due
<1>3. Nil(n.plan.ref) \/ Within(st, n.plan.ref)
  <2>1. Nil(j.plan.ref) \/ Within(store, j.plan.ref)
    BY Zenon, <1>2 DEF Progress
  <2>2. \A x : Within(store, x) => Within(st, x)
    BY Zenon, GrowsKeeps
  <2>3. n.plan.ref = j.plan.ref
    BY Zenon DEF Moved
  <2>. QED
    BY Zenon, <2>1, <2>2, <2>3
<1>4. n.op = j.op /\ n.plan = j.plan /\ n.a = j.a /\ n.reg = reg
  BY Zenon DEF Moved
<1>5. Progress(st, acked, n)
  <2>1. n.op \in Using => n.plan.then \in Thens
    BY Zenon, <1>2, <1>4 DEF Progress
  <2>2. n.op \in DOMAIN Makes => n.plan.then = "data"
    BY Zenon, <1>2, <1>4 DEF Progress
  <2>3. n.op \in Manages => /\ RefersTo(n.a, n.plan.ref) /\ n.plan.ref.ver = Raw(n.a).ver
                            /\ n.plan.then = IF n.op = "DeactivateKey" THEN "none" ELSE "data"
    BY Zenon, <1>2, <1>4 DEF Progress
  <2>4. Nil(n.reg) \/ Points(st, n.reg)
    BY <1>4
  <2>. QED
    BY Zenon, <1>3, <2>1, <2>2, <2>3, <2>4 DEF Progress, Stage
<1>6. n.st = "calling" /\ n.st # "returned"
  BY DEF Moved
<1>. QED
  BY Zenon, <1>1, <1>5, <1>6 DEF JobKept

\* A method that ends with the data of a key that is there.
LEMMA DataKept ==
  ASSUME NEW j, Due(j), NEW st, Grows(store, st), NEW n, NEW reg, NEW val, NEW r,
         Ending(j, reg, val, r), Ended(j, n, reg, r), j.plan.then = "data", IsText(reg), Points(st, reg),
         j.op \notin {"DeactivateKey", "EncryptAES"}
  PROVE  JobKept(st, retired, acked, n)
<1>1. Remote /\ Backend \in Backends
  BY Zenon, DueOp
<1>2. r = Give(DataOf(reg))
  BY Zenon DEF Ending
<1>3. DataPoints(st, DataOf(reg))
  BY Zenon, <1>1, DataPointsOf
<1>4. r.step = "give" /\ r.val = DataOf(reg)
  BY <1>2 DEF Give
<1>5. n.val = DataOf(reg) /\ n.op = j.op
  BY Zenon, <1>4 DEF Ended
<1>6. DOMAIN n.val = DOMAIN NoData
  <2>1. DataOf(reg) = KeyData(DataOf(reg).id, DataOf(reg).ref, DataOf(reg).pub)
    BY Zenon, <1>1, DataOfForms
  <2>. QED
    BY <1>5, <2>1 DEF NoData, KeyData
<1>7. DOMAIN NoData # DOMAIN NoArt.art
  BY DEF NoData, KeyData, NoArt, Sealed
<1>8. n.op # "DeactivateKey" /\ n.op # "EncryptAES"
  BY <1>5
<1>9. Result(st, n)
  BY Zenon, <1>3, <1>5, <1>6, <1>7, <1>8 DEF Result
<1>. QED
  BY Zenon, <1>9, EndedKept

\* Every method is of one kind.
LEMMA Kinds ==
  ASSUME NEW op \in AllOps
  PROVE  /\ op \in Using \/ op \in DOMAIN Seals \/ op \in DOMAIN Makes \/ op = "GetKey" \/ op = "RotateKey"
            \/ op = "DeactivateKey"
         /\ op \in Using => op \notin DOMAIN Seals \cup DOMAIN Makes \cup Manages
         /\ op \in DOMAIN Seals => op \notin Using \cup DOMAIN Makes \cup Manages
         /\ op \in DOMAIN Makes => op \notin Using \cup DOMAIN Seals \cup Manages
         /\ op \in Manages => op \notin Using \cup DOMAIN Seals \cup DOMAIN Makes
BY DEF AllOps, Using, Seals, Makes, Manages

\* Most calls end a method when they fail.
LEMMA Otherwises ==
  ASSUME NEW j, Due(j)
  PROVE  LET call == Head(j.todo)
         IN  \/ call.else = "fail"
             \/ j.op \in Using /\ call.else = "Derive"
             \/ /\ j.op = "GetKey" /\ call.else = "skip" /\ call.do # "DisablePrevious"
                /\ ~Nil(j.reg) /\ Tail(j.todo) = << >>
             \/ /\ j.op = "DeactivateKey" /\ call.else = "DestroyObject" /\ call.kind = "none"
                /\ Backend = "pkcs11" /\ Nil(j.reg)
<1>. DEFINE call == Head(j.todo)
<1>1. Progress(store, acked, j) /\ j.op \in AllOps
  BY Zenon, DueOp DEF Due
<1>2. CASE j.op \in Using
  <2>1. PICK w : j.todo = <<w>> /\ w.else \in {"fail", "Derive"}
    BY Zenon, <1>1, <1>2 DEF Progress, UseStage
  <2>2. call = w
    BY <2>1
  <2>. HIDE DEF call
  <2>3. call.else = "fail" \/ call.else = "Derive"
    BY <2>1, <2>2
  <2>. QED
    BY Zenon, <1>2, <2>3 DEF call
<1>3. CASE j.op \in DOMAIN Seals
  <2>1. j.todo = <<Call(Seals[j.op], "aes", Bind(j.a.uid, j.a.add))>>
    BY Zenon, <1>3 DEF Due, Calling
  <2>2. call = Call(Seals[j.op], "aes", Bind(j.a.uid, j.a.add))
    BY Zenon, <2>1, Heads
  <2>3. call.else = "fail"
    BY <2>2, CallFields
  <2>. QED
    BY Zenon, <2>3
<1>4. CASE j.op \in DOMAIN Makes
  <2>1. MakeStage(store, j)
    BY Zenon, <1>1, <1>4 DEF Progress
  <2>2. (\E size, uses : call = Creation(size, uses)) \/ call = PublicKey \/ call = NewVersion
    BY <2>1 DEF MakeStage
  <2>3. call.else = "fail"
    BY <2>2, CallFields DEF PublicKey, NewVersion
  <2>. QED
    BY Zenon, <2>3
<1>5. CASE j.op = "GetKey"
  <2>1. InspectStage(j)
    BY Zenon, <1>1, <1>5 DEF Progress
  <2>2. CASE j.todo = Inspection
    <3>1. call \in {Lookup("DescribeKey"), Lookup("GetKey"), Lookup("GetCryptoKey"), Lookup("GetAttributes")}
      BY <2>2 DEF Inspection
    <3>2. call.else = "fail"
      BY <3>1, CallFields
    <3>. QED
      BY Zenon, <3>2
  <2>3. CASE ~Nil(j.reg) /\ j.todo = <<LastLook>>
    <3>1. call = LastLook /\ Tail(j.todo) = << >>
      BY Zenon, <2>3, Heads
    <3>2. call = PublicHalf \/ call = Otherwise(Lookup("GetPublicKey"), "skip")
      BY Zenon, <3>1 DEF LastLook, PublicKey
    <3>3. call.else = "fail" \/ (call.else = "skip" /\ call.do = "GetPublicKey")
      BY <3>2, CallFields DEF PublicHalf
    <3>4. call.do = "GetPublicKey" => call.do # "DisablePrevious"
      OBVIOUS
    <3>. QED
      BY Zenon, <1>5, <2>3, <3>1, <3>3, <3>4
  <2>. QED
    BY Zenon, <2>1, <2>2, <2>3 DEF InspectStage
<1>6. CASE j.op = "RotateKey"
  <2>1. RotateStage(store, acked, j)
    BY Zenon, <1>1, <1>6 DEF Progress
  <2>. DEFINE Calls == {Lookup("RotateKey"), Lookup("DescribeKey"), Lookup("GetKey"), Lookup("GetCryptoKey"),
                        Lookup("CreateCryptoKeyVersion"), Lookup("CreateReplacement"), Lookup("DisablePrevious"),
                        Needs(Lookup("DescribeKey"), {"aes"}), Needs(Lookup("GetAttributes"), {"aes"} \cup Asymmetric),
                        OnlyFor(Lookup("UpdatePrimary"), {"aes"}), PublicHalf}
  <2>2. call \in Calls
    <3>1. CASE Backend = "aws"
      <4>1. AwsRotation(j)
        BY Zenon, <2>1, <3>1 DEF RotateStage
      <4>. QED
        BY <3>1, <4>1 DEF AwsRotation, Rotation
    <3>2. CASE Backend = "azure"
      <4>1. AzureRotation(j)
        BY Zenon, <2>1, <3>2 DEF RotateStage
      <4>. QED
        BY <3>2, <4>1 DEF AzureRotation, Rotation
    <3>3. CASE Backend = "gcp"
      <4>1. GcpRotation(acked, j)
        BY Zenon, <2>1, <3>3 DEF RotateStage
      <4>. QED
        BY <3>3, <4>1 DEF GcpRotation, Rotation, Promote
    <3>4. CASE Backend = "pkcs11"
      <4>1. TokenRotation(store, j)
        BY Zenon, <2>1, <3>4 DEF RotateStage
      <4>. QED
        BY <3>4, <4>1 DEF TokenRotation, Rotation
    <3>. QED
      BY <3>1, <3>2, <3>3, <3>4, DueOp DEF Remote, Backends
  <2>3. call.else = "fail"
    <3>. HIDE DEF call
    <3>. QED
      BY <2>2, CallFields DEF PublicHalf
  <2>. QED
    BY Zenon, <2>3
<1>7. CASE j.op = "DeactivateKey"
  <2>1. DisableStage(j)
    BY Zenon, <1>1, <1>7 DEF Progress
  <2>2. \/ call \in {Lookup("DisableKey"), Lookup("GetKey"), Lookup("GetCryptoKey"), Plain("DestroyObject", "none")}
        \/ Backend = "pkcs11" /\ Nil(j.reg) /\ call = Otherwise(Lookup("DisableKey"), "DestroyObject")
    <3>1. CASE Nil(j.reg) /\ j.todo = Deactivation(j.a)
      BY <3>1, DueOp DEF Deactivation, Remote, Backends
    <3>2. CASE j.todo = <<Lookup("DisableKey")>>
      BY <3>2
    <3>3. CASE j.todo = <<Plain("DestroyObject", "none")>>
      BY <3>3
    <3>. QED
      BY Zenon, <2>1, <3>1, <3>2, <3>3 DEF DisableStage
  <2>3. \/ call.else = "fail"
        \/ Backend = "pkcs11" /\ Nil(j.reg) /\ call.else = "DestroyObject" /\ call.kind = "none"
    <3>. HIDE DEF call
    <3>. QED
      BY <2>2, CallFields
  <2>. QED
    BY Zenon, <1>7, <2>3
<1>. QED
  BY Zenon, <1>1, <1>2, <1>3, <1>4, <1>5, <1>6, <1>7, Kinds

\* A method that fails, or that goes on without the answer.
LEMMA RefusedKept ==
  ASSUME NEW j, Due(j), NEW st, Grows(store, st), NEW why
  PROVE  JobKept(st, retired, acked, After(j, Refused(why)))
<1>. DEFINE call == Head(j.todo)
           n == After(j, Refused(why))
           bare == [j.reg EXCEPT !.form = "bare"]
<1>1. /\ call.else = "fail" => Ended(j, n, j.reg, Fail)
      /\ call.else \notin {"fail", "skip"} => Moved(j, n, j.reg, <<Plain(call.else, call.kind)>>)
      /\ call.else = "skip" /\ call.do # "DisablePrevious" /\ Tail(j.todo) = << >>
            => \E r : Ending(j, bare, NoDigest, r) /\ Ended(j, n, bare, r)
  <2>1. IsJob(j) /\ j.st = "calling"
    BY Zenon DEF Due
  <2>. QED
    BY Zenon, <2>1, AfterRefusal
<1>2. Progress(store, acked, j) /\ j.op \in AllOps /\ IsText(j.reg) /\ Remote /\ Backend \in Backends
  BY Zenon, DueOp DEF Due
<1>3. Nil(j.reg) \/ Points(st, j.reg)
  <2>1. Nil(j.reg) \/ Points(store, j.reg)
    BY Zenon, <1>2 DEF Progress
  <2>. QED
    BY Zenon, <2>1, GrowsKeeps
<1>. HIDE DEF n
<1>4. CASE call.else = "fail"
  <2>1. Ended(j, n, j.reg, Fail)
    BY Zenon, <1>1, <1>4
  <2>2. Fail.step # "give"
    BY DEF Fail
  <2>. QED
    BY Zenon, <2>1, <2>2, EndedKept DEF n
<1>5. CASE j.op \in Using /\ call.else = "Derive"
  <2>. DEFINE p == Plain(call.else, call.kind)
  <2>1. Moved(j, n, j.reg, <<p>>)
    <3>1. call.else \notin {"fail", "skip"}
      BY <1>5
    <3>. QED
      BY Zenon, <1>1, <3>1
  <2>2. p.do \in Reading /\ p.else \in {"fail", "Derive"}
    <3>1. p.do = "Derive" /\ p.else = "fail"
      BY <1>5, CallFields
    <3>. HIDE DEF p
    <3>. QED
      BY <3>1 DEF Reading, Computing
  <2>. HIDE DEF p
  <2>3. UseStage(n)
    BY Zenon, <2>1, <2>2 DEF UseStage, Moved
  <2>4. n.op = j.op
    BY Zenon, <2>1 DEF Moved
  <2>5. Stage(st, n)
    <3>1. j.op \notin DOMAIN Seals \cup DOMAIN Makes \cup Manages
      BY Zenon, <1>2, <1>5, Kinds
    <3>. QED
      BY Zenon, <2>3, <2>4, <3>1 DEF Stage, Manages
  <2>. QED
    BY Zenon, <1>3, <2>1, <2>5, MovedKept DEF n
<1>6. CASE j.op = "GetKey" /\ call.else = "skip" /\ call.do # "DisablePrevious" /\ ~Nil(j.reg) /\ Tail(j.todo) = << >>
  <2>1. PICK r : Ending(j, bare, NoDigest, r) /\ Ended(j, n, bare, r)
    BY Zenon, <1>1, <1>6
  <2>2. j.plan.then = "data"
    <3>1. j.op \in Manages /\ j.op # "DeactivateKey"
      BY <1>6 DEF Manages
    <3>. QED
      BY Zenon, <1>2, <3>1 DEF Progress
  <2>3. Same(j.reg, bare) /\ IsText(bare)
    BY <1>2, FormsOf, TextForms
  <2>4. Points(st, bare)
    BY Zenon, <1>3, <1>6, <2>3, SamePoints
  <2>5. j.op \notin {"DeactivateKey", "EncryptAES"}
    BY <1>6
  <2>. HIDE DEF bare
  <2>. QED
    BY Zenon, <2>1, <2>2, <2>3, <2>4, <2>5, DataKept DEF n
<1>7. CASE /\ j.op = "DeactivateKey" /\ call.else = "DestroyObject" /\ call.kind = "none"
           /\ Backend = "pkcs11" /\ Nil(j.reg)
  <2>1. Moved(j, n, j.reg, <<Plain("DestroyObject", "none")>>)
    <3>1. call.else \notin {"fail", "skip"}
      BY <1>7
    <3>. QED
      BY Zenon, <1>1, <1>7, <3>1
  <2>2. DisableStage(n)
    BY Zenon, <1>7, <2>1 DEF DisableStage, Moved
  <2>3. n.op = "DeactivateKey" /\ n.op # "GetKey" /\ n.op # "RotateKey"
    BY <1>7, <2>1 DEF Moved
  <2>4. Stage(st, n)
    <3>1. n.op \notin Using \cup DOMAIN Seals \cup DOMAIN Makes
      BY <2>3 DEF Using, Seals, Makes
    <3>. QED
      BY Zenon, <2>2, <2>3, <3>1 DEF Stage
  <2>. QED
    BY Zenon, <1>3, <2>1, <2>4, MovedKept DEF n
<1>. QED
  BY Zenon, <1>4, <1>5, <1>6, <1>7, Otherwises

----------------------------------------------------------------------------
\* A rotation that is about to be acknowledged has made the version that it tells of.
Acks(st, n) ==
    n.op = "RotateKey" /\ n.st = "returned" /\ n.ok /\ Versioned =>
        \A k \in AllNames : n.reg.key = k => n.reg.ver \in Nat /\ acked[k] <= n.reg.ver /\ n.reg.ver <= st[k].prim

\* What an answer does to the service's keys and to the call that asked.
Answered(j, ans) ==
    /\ Effected(ans.st, j.a.new)
    /\ JobKept(ans.st, retired, acked, After(j, ans))
    /\ Acks(ans.st, After(j, ans))

\* A call is granted or refused.
LEMMA AnswerKinds ==
  ASSUME NEW call, NEW j, call.do \in Dos, NEW ans \in Answers(call, j)
  PROVE  ans.ok \/ \E why : ans = Refused(why)
<1>. DEFINE t == Aim(call, j)
           P(x) == x.ok \/ \E why : x = Refused(why)
<1>1. \A reg, val, st : P(Granted(reg, val, st))
  BY Zenon, GrantedFields
<1>2. \A why : P(Refused(why))
  BY Zenon
<1>. HIDE DEF P
<1>3. CASE call.do = "CreateKey"
  <2>1. PICK u, at : ans = Granted(u, NoDigest, at)
    BY Zenon, <1>3 DEF Answers
  <2>2. P(ans)
    BY Zenon, <1>1, <2>1
  <2>. QED
    BY Zenon, <2>2 DEF P
<1>4. CASE call.do = "CreateReplacement"
  <2>1. call.do # "CreateKey"
    BY <1>4
  <2>2. PICK u, size, at : ans = Granted(Text("ref", u.alg, j.a.new, 1, size), NoDigest, at)
    BY Zenon, <1>4, <2>1 DEF Answers
  <2>3. P(ans)
    BY Zenon, <1>1, <2>2
  <2>. QED
    BY Zenon, <2>3 DEF P
<1>5. CASE call.do \notin {"CreateKey", "CreateReplacement"}
  <2>1. CASE ans = Refused("mismatch")
    BY Zenon, <2>1
  <2>2. CASE call.do \in Computing /\ ans = Compute(call, t, j.a)
    <3>1. P(Compute(call, t, j.a))
      BY Zenon, <1>1, <1>2, <2>2 DEF Compute, Computing
    <3>. QED
      BY Zenon, <2>2, <3>1 DEF P
  <2>3. CASE call.do \notin Computing /\ ans \in Administer(call, t)
    <3>1. P(ans)
      <4>1. CASE call.do \in {"DescribeKey", "GetAttributes", "GetCryptoKey"}
        BY Zenon, <1>1, <1>2, <2>3, <4>1 DEF Administer
      <4>2. CASE call.do = "GetKey"
        BY <1>1, <1>2, <2>3, <4>2 DEF Administer
      <4>3. CASE call.do = "GetPublicKey"
        BY <1>1, <1>2, <2>3, <4>3 DEF Administer
      <4>4. CASE call.do = "RotateKey"
        BY <1>1, <1>2, <2>3, <4>4 DEF Administer
      <4>5. CASE call.do = "CreateCryptoKeyVersion"
        BY <1>1, <1>2, <2>3, <4>5 DEF Administer
      <4>6. CASE call.do = "UpdatePrimary"
        BY <1>1, <1>2, <2>3, <4>6 DEF Administer
      <4>7. CASE call.do \in {"DisableKey", "DisablePrevious", "DestroyObject"}
        BY <1>1, <1>2, <2>3, <4>7 DEF Administer
      <4>. QED
        BY <1>5, <2>3, <4>1, <4>2, <4>3, <4>4, <4>5, <4>6, <4>7 DEF Dos
    <3>. QED
      BY Zenon, <3>1 DEF P
  <2>4. call.do # "CreateKey" /\ call.do # "CreateReplacement"
    BY <1>5
  <2>. QED
    BY Zenon, <2>1, <2>2, <2>3, <2>4 DEF Answers, Aim
<1>. QED
  BY <1>3, <1>4, <1>5

\* The next call of a method, and what its answer tells.
LEMMA NextCall ==
  ASSUME NEW j, Due(j), NEW ans \in Answers(Head(j.todo), j)
  PROVE  /\ Head(j.todo).do \in Dos /\ IsText(ans.reg)
         /\ ans.ok \/ \E why : ans = Refused(why)
         /\ Nil(Aim(Head(j.todo), j)) \/ Within(store, Aim(Head(j.todo), j))
         /\ Keeping
<1>1. JobOK(j) /\ j.st = "calling"
  BY DEF Due, JobOK
<1>2. IsText(ans.reg)
  BY Zenon, <1>1, CallAnswered DEF AnswerOK
<1>3. Calling(j)
  BY Zenon DEF Due
<1>4. Head(j.todo).do \in Dos
  <2>1. CASE j.op \in DOMAIN Seals
    BY <1>3, <2>1 DEF Calling, Call, Seals, Dos, Computing
  <2>2. CASE j.op \notin DOMAIN Seals
    <3>1. PICK T : j.todo \in Seq(T) /\ \A x \in T : Quiet(x)
      BY Zenon, <1>3, <2>2 DEF Calling, Quietly
    <3>2. Head(j.todo) \in T
      BY <1>3, <3>1 DEF Calling
    <3>. QED
      BY <3>1, <3>2 DEF Quiet
  <2>. QED
    BY <2>1, <2>2
<1>5. ans.ok \/ \E why : ans = Refused(why)
  BY Zenon, <1>4, AnswerKinds
<1>. QED
  BY Zenon, <1>2, <1>4, <1>5, AimWithin DEF Due

\* A refusal by the service.
LEMMA RefusedAnswered ==
  ASSUME NEW j, Due(j), NEW why
  PROVE  Answered(j, Refused(why))
<1>1. Refused(why).st = store
  BY RefusedFields
<1>2. Effected(store, j.a.new) /\ Grows(store, store)
  BY Zenon, NothingEffected, GrowsItself DEF Due
<1>3. JobKept(store, retired, acked, After(j, Refused(why)))
  BY Zenon, <1>2, RefusedKept
<1>4. Acks(store, After(j, Refused(why)))
  <2>. DEFINE n == After(j, Refused(why))
             call == Head(j.todo)
             bare == [j.reg EXCEPT !.form = "bare"]
  <2>1. /\ call.else = "fail" => Ended(j, n, j.reg, Fail)
        /\ call.else \notin {"fail", "skip"} => Moved(j, n, j.reg, <<Plain(call.else, call.kind)>>)
        /\ call.else = "skip" /\ call.do # "DisablePrevious" /\ Tail(j.todo) = << >>
              => \E r : Ending(j, bare, NoDigest, r) /\ Ended(j, n, bare, r)
    <3>1. IsJob(j) /\ j.st = "calling"
      BY Zenon DEF Due
    <3>. QED
      BY Zenon, <3>1, AfterRefusal
  <2>2. \/ call.else = "fail"
        \/ j.op \in Using /\ call.else = "Derive"
        \/ j.op = "GetKey" /\ call.else = "skip" /\ call.do # "DisablePrevious" /\ Tail(j.todo) = << >>
        \/ j.op = "DeactivateKey" /\ call.else = "DestroyObject"
    BY Zenon, Otherwises
  <2>. HIDE DEF n, call, bare
  <2>3. \/ Ended(j, n, j.reg, Fail)
        \/ j.op # "RotateKey" /\ n.op = j.op
    BY <2>1, <2>2 DEF Moved, Ended, Using
  <2>4. Fail.step # "give" /\ "RotateKey" \notin Hashes
    BY DEF Fail, Hashes
  <2>5. n.op = "RotateKey" => ~n.ok
    BY <2>3, <2>4 DEF Ended
  <2>6. Acks(store, n)
    BY Zenon, <2>5 DEF Acks
  <2>. QED
    BY Zenon, <2>6 DEF n
<1>. QED
  BY Zenon, <1>1, <1>2, <1>3, <1>4 DEF Answered

\* A method that ends with an error although the service has answered.
LEMMA FailedAnswered ==
  ASSUME NEW j, Due(j), NEW ans, Effected(ans.st, j.a.new), Ended(j, After(j, ans), j.reg, Fail)
  PROVE  Answered(j, ans)
<1>. DEFINE n == After(j, ans)
<1>1. Fail.step # "give" /\ "RotateKey" \notin Hashes
  BY DEF Fail, Hashes
<1>2. JobKept(ans.st, retired, acked, n)
  BY Zenon, <1>1, EndedKept DEF Effected
<1>. HIDE DEF n
<1>3. n.op = "RotateKey" => ~n.ok
  BY <1>1 DEF Ended, n
<1>4. Acks(ans.st, n)
  BY Zenon, <1>3 DEF Acks
<1>. QED
  BY Zenon, <1>2, <1>4 DEF Answered, n

\* An answer that a method goes on from.
LEMMA MovedAnswered ==
  ASSUME NEW j, Due(j), NEW ans, Effected(ans.st, j.a.new), NEW todo, Moved(j, After(j, ans), ans.reg, todo),
         Points(ans.st, ans.reg), Stage(ans.st, After(j, ans))
  PROVE  Answered(j, ans)
<1>. DEFINE n == After(j, ans)
<1>1. JobKept(ans.st, retired, acked, n)
  BY Zenon, MovedKept DEF Effected
<1>2. n.st # "returned"
  BY DEF Moved
<1>3. Acks(ans.st, n)
  BY Zenon, <1>2 DEF Acks
<1>. QED
  BY Zenon, <1>1, <1>3 DEF Answered

\* A method that ends with what it was told last of a key.
LEMMA DataAnswered ==
  ASSUME NEW j, Due(j), NEW ans, Effected(ans.st, j.a.new), NEW reg, NEW r,
         Ending(j, reg, ans.val, r), Ended(j, After(j, ans), reg, r), j.plan.then = "data",
         IsText(reg), Points(ans.st, reg), j.op \notin {"DeactivateKey", "EncryptAES"},
         j.op = "RotateKey" /\ Versioned =>
            reg.ver \in Nat /\ acked[reg.key] <= reg.ver /\ reg.ver <= ans.st[reg.key].prim
  PROVE  Answered(j, ans)
<1>. DEFINE n == After(j, ans)
<1>1. JobKept(ans.st, retired, acked, n)
  BY Zenon, DataKept DEF Effected
<1>2. n.reg = reg /\ n.op = j.op
  BY Zenon DEF Ended
<1>. HIDE DEF n
<1>3. Acks(ans.st, n)
  BY Zenon, <1>2 DEF Acks
<1>. QED
  BY Zenon, <1>1, <1>3 DEF Answered, n

----------------------------------------------------------------------------
(* The methods that use a key.                                             *)

\* A text that, if it names a key of the service, names a version of it.
Real(st, t) == t.key \in AllNames => Points(st, t)

\* An artefact of a version that is there.
LEMMA SealedReal ==
  ASSUME NEW st, NEW t, Real(st, t), NEW kind, NEW m, NEW bind
  PROVE  ArtReal(st, Sealed(kind, t, m, bind))
<1>. DEFINE art == Sealed(kind, t, m, bind)
<1>1. art.key = t.key /\ art.ver = t.ver
  BY DEF Sealed
<1>. HIDE DEF art
<1>2. ArtReal(st, art)
  BY <1>1 DEF ArtReal, Real, Points, Exists
<1>. QED
  BY Zenon, <1>2 DEF art

\* Nothing that a method computes by itself is key data, or an artefact.
LEMMA HarmlessResult ==
  ASSUME NEW st, NEW n, Harmless(n.val), n.op \notin {"DeactivateKey", "EncryptAES"}
  PROVE  Result(st, n)
<1>1. DOMAIN n.val # DOMAIN NoData /\ DOMAIN n.val # DOMAIN NoArt.art
  <2>1. DOMAIN NoData = {"id", "ref", "pub"} /\ DOMAIN NoArt.art = {"kind", "key", "ver", "size", "msg", "bind"}
    BY DEF NoData, KeyData, NoArt, Sealed
  <2>2. DOMAIN n.val \in {{"msg"}, {"verified"}, {"digest"}}
    <3>1. (\A m : DOMAIN Message(m) = {"msg"} /\ DOMAIN Digest(m) = {"digest"}) /\ DOMAIN Verified = {"verified"}
      BY DEF Message, Verified, Digest
    <3>. QED
      BY <3>1 DEF Harmless
  <2>3. "id" \notin DOMAIN n.val /\ "kind" \notin DOMAIN n.val
    BY <2>2
  <2>4. "id" \in DOMAIN NoData /\ "kind" \in DOMAIN NoArt.art
    BY <2>1
  <2>. QED
    BY Zenon, <2>3, <2>4
<1>2. n.op # "DeactivateKey" /\ n.op # "EncryptAES"
  OBVIOUS
<1>. QED
  BY Zenon, <1>1, <1>2 DEF Result

\* A method that ends with such an artefact.
LEMMA SealedResult ==
  ASSUME NEW st, NEW n, NEW t, Real(st, t), NEW kind, NEW m, NEW bind, n.val = Sealed(kind, t, m, bind),
         n.op \notin {"DeactivateKey", "EncryptAES"}
  PROVE  Result(st, n)
<1>1. ArtReal(st, n.val)
  BY Zenon, SealedReal
<1>2. DOMAIN n.val # DOMAIN NoData
  BY DEF NoData, KeyData, Sealed
<1>3. n.op # "DeactivateKey" /\ n.op # "EncryptAES"
  OBVIOUS
<1>. QED
  BY Zenon, <1>1, <1>2, <1>3 DEF Result

\* The public half that data of a text names.
LEMMA PublicReal ==
  ASSUME Remote, Backend \in Backends, NEW st, NEW t, IsText(t), Real(st, t)
  PROVE  Real(st, DataOf(t).pub)
<1>1. DataOn(t, DataOf(t))
  <2>1. Backend \in {"aws", "azure", "gcp", "pkcs11"}
    BY DEF Remote, Backends
  <2>. QED
    BY Zenon, <2>1, AwsDataOn, AzureDataOn, GcpDataOn, TokenDataOn
<1>2. CASE Nil(DataOf(t).pub)
  BY <1>2, NoneIsNoName DEF Real, Nil, NoText, Text
<1>3. CASE Same(t, DataOf(t).pub)
  <2>1. DataOf(t).pub.key = t.key
    BY Zenon, <1>3 DEF Same
  <2>. QED
    BY Zenon, <1>3, <2>1, SamePoints DEF Real
<1>. QED
  BY Zenon, <1>1, <1>2, <1>3 DEF DataOn

\* What the method of the local repository makes of the public half fetched.
LEMMA LocalResult ==
  ASSUME NEW j, Due(j), j.op \in Using, NEW reg, IsText(reg), Real(store, reg), NEW n, n.op = j.op,
         NEW r, r = Step(Method(j.op, [j.a EXCEPT !.key = DataOf(reg).pub])),
         r.step = "give" => n.val = r.val
  PROVE  r.step = "give" => Result(store, n)
<1>. DEFINE b == [j.a EXCEPT !.key = DataOf(reg).pub]
           q == Method(j.op, b)
<1>1. Remote /\ Backend \in Backends /\ IsArgs(j.a) /\ Foreign(j.a)
  BY DEF Due, Called, Keeping
<1>2. DataForms(DataOf(reg)) /\ Real(store, DataOf(reg).pub)
  BY Zenon, <1>1, DataOfForms, PublicReal
<1>3. Foreign(b) /\ b.key = DataOf(reg).pub
  BY <1>1, <1>2 DEF Foreign, IsArgs, DataForms
<1>. HIDE DEF b
<1>4. UsePlan(b, q)
  BY Zenon, <1>1, <1>3, MethodPlanned DEF Planned
<1>. HIDE DEF q
<1>5. r = Step(q)
  BY DEF q, b
<1>6. n.op \notin {"DeactivateKey", "EncryptAES"}
  BY DEF Using
<1>7. ASSUME NEW v, q = Give(v), Computed(b, v)
      PROVE  Result(store, n)
  <2>1. r.step = "give" /\ r.val = v
    BY <1>5, <1>7 DEF Step, Give
  <2>2. n.val = v
    BY <2>1
  <2>3. CASE Harmless(v)
    BY Zenon, <1>6, <2>2, <2>3, HarmlessResult
  <2>4. ASSUME NEW kind, NEW bind, v = Sealed(kind, b.key, b.msg, bind)
        PROVE  Result(store, n)
    <3>1. Real(store, b.key) /\ n.val = Sealed(kind, b.key, b.msg, bind)
      BY <1>2, <1>3, <2>2, <2>4
    <3>. QED
      BY Zenon, <1>6, <3>1, SealedResult
  <2>. QED
    BY Zenon, <1>7, <2>3, <2>4 DEF Computed
<1>8. ASSUME q = Fail \/ \E ref, calls_, then : q = Ask(ref, calls_, then)
      PROVE  r.step # "give"
  BY <1>5, <1>8 DEF Step, Fail, Ask
<1>. QED
  BY Zenon, <1>4, <1>7, <1>8 DEF UsePlan

\* Any answer to a method that uses a key leaves the invariant.
LEMMA UseAnswered ==
  ASSUME NEW j, Due(j), j.op \in Using, NEW ans \in Answers(Head(j.todo), j)
  PROVE  Answered(j, ans)
<1>. DEFINE call == Head(j.todo)
           n == After(j, ans)
           t == Aim(call, j)
<1>1. /\ Progress(store, acked, j) /\ IsJob(j) /\ j.st = "calling" /\ Keeping
      /\ IsText(ans.reg) /\ (ans.ok \/ \E why : ans = Refused(why))
      /\ Nil(t) \/ Within(store, t)
  BY Zenon, NextCall DEF Due
<1>2. j.todo = <<call>> /\ call.do \in Reading /\ j.plan.then \in Thens
  <2>1. PICK w : j.todo = <<w>> /\ w.do \in Reading
    BY Zenon, <1>1 DEF Progress, UseStage
  <2>2. call = w
    BY <2>1
  <2>3. j.plan.then \in Thens
    BY Zenon, <1>1 DEF Progress
  <2>. QED
    BY Zenon, <2>1, <2>2, <2>3
<1>3. Tells(call, j, ans)
  BY Zenon, <1>1, <1>2, ReadingTells
<1>4. ASSUME NEW why, ans = Refused(why) PROVE Answered(j, ans)
  BY Zenon, <1>4, RefusedAnswered
<1>5. ASSUME ans.ok PROVE Answered(j, ans)
  <2>1. ~\E why : ans = Refused(why)
    BY <1>5, RefusedFields
  <2>2. /\ ans.st = store /\ Real(store, ans.reg)
        /\ \/ Harmless(ans.val)
           \/ \E v, kind, bind : v \in DOMAIN store[t.key].on /\ Within(store, t)
                                 /\ ans.val = Sealed(kind, Told(t.key, v), j.a.msg, bind)
    <3>1. ASSUME NEW v, NEW val, Within(store, t), ans = Granted(Told(t.key, v), val, store),
                 v \in DOMAIN store[t.key].on,
                 Harmless(val) \/ val = Sealed(call.kind, Told(t.key, v), j.a.msg, call.bind)
          PROVE  /\ ans.st = store /\ Real(store, ans.reg)
                 /\ \/ Harmless(ans.val)
                    \/ \E w, kind, bind : w \in DOMAIN store[t.key].on /\ Within(store, t)
                                          /\ ans.val = Sealed(kind, Told(t.key, w), j.a.msg, bind)
      <4>. HIDE DEF t, call
      <4>1. ans.st = store /\ ans.reg = Told(t.key, v) /\ ans.val = val
        BY <3>1, GrantedFields
      <4>2. Told(t.key, v).alg = store[t.key].alg /\ Told(t.key, v).key = t.key /\ Told(t.key, v).ver = v
        BY TextFields
      <4>3. Points(store, Told(t.key, v))
        BY Zenon, <3>1, <4>2 DEF Points, Exists, Within
      <4>4. Real(store, ans.reg)
        BY Zenon, <4>1, <4>3 DEF Real
      <4>. QED
        BY Zenon, <3>1, <4>1, <4>4
    <3>2. ASSUME ans = Granted(NoText, NoDigest, store)
          PROVE  ans.st = store /\ Real(store, ans.reg) /\ Harmless(ans.val)
      <4>1. ans.st = store /\ ans.reg = NoText /\ ans.val = NoDigest
        BY <3>2, GrantedFields
      <4>2. NoText.key = "none"
        BY DEF NoText, Text
      <4>. QED
        BY <4>1, <4>2, NoneIsNoName, Harmlessness DEF Real
    <3>3. ASSUME Within(store, t),
                 ans = Granted([Told(t.key, Version(t)) EXCEPT !.form = "plain"], NoDigest, store)
          PROVE  ans.st = store /\ Real(store, ans.reg) /\ Harmless(ans.val)
      <4>. HIDE DEF t
      <4>1. ans.st = store /\ ans.reg = [Told(t.key, Version(t)) EXCEPT !.form = "plain"] /\ ans.val = NoDigest
        BY <3>3, GrantedFields
      <4>2. Told(t.key, Version(t)).alg = store[t.key].alg /\ Told(t.key, Version(t)).key = t.key
            /\ Told(t.key, Version(t)).ver = Version(t)
        BY TextFields
      <4>3. Same(Told(t.key, Version(t)), ans.reg)
        <5>. DEFINE told == Told(t.key, Version(t))
        <5>1. IsText(told)
          BY TextForms
        <5>. HIDE DEF told
        <5>2. Same(told, [told EXCEPT !.form = "plain"])
          BY Zenon, <5>1, FormsOf
        <5>. QED
          BY Zenon, <4>1, <5>2 DEF told
      <4>4. Version(t) \in DOMAIN store[t.key].on
        BY Zenon, <1>1, <3>3, VersionReal
      <4>5. Points(store, Told(t.key, Version(t)))
        BY Zenon, <3>3, <4>2, <4>4 DEF Points, Exists, Within
      <4>6. Points(store, ans.reg)
        BY Zenon, <4>3, <4>5, SamePoints
      <4>. QED
        BY <4>1, <4>6, Harmlessness DEF Real
    <3>. QED
      BY Zenon, <1>3, <2>1, <3>1, <3>2, <3>3 DEF Tells
  <2>3. Effected(ans.st, j.a.new) /\ Grows(store, store)
    BY Zenon, <1>1, <2>2, NothingEffected, GrowsItself
  <2>4. Remaining(Tail(j.todo), ans.reg) = << >>
    <3>1. Tail(j.todo) = << >>
      BY Zenon, <1>2, Heads
    <3>2. \A x : Remaining(<< >>, x) = << >>
      BY DEF Remaining, Skip
    <3>. QED
      BY <3>1, <3>2
  <2>5. call.do # "DisablePrevious"
    BY <1>2 DEF Reading, Computing
  <2>6. Ended(j, n, j.reg, Fail) \/ \E r : Ending(j, ans.reg, ans.val, r) /\ Ended(j, n, ans.reg, r)
    BY Zenon, <1>1, <1>5, <2>4, <2>5, AfterOk
  <2>7. CASE Ended(j, n, j.reg, Fail)
    BY Zenon, <2>3, <2>7, FailedAnswered
  <2>8. ASSUME NEW r, Ending(j, ans.reg, ans.val, r), Ended(j, n, ans.reg, r)
        PROVE  Answered(j, ans)
    <3>. HIDE DEF n
    <3>1. n.op = j.op /\ n.op \notin {"DeactivateKey", "EncryptAES"} /\ n.op # "RotateKey"
      BY <2>8 DEF Ended, Using
    <3>2. r.step = "give" => n.val = r.val
      BY Zenon, <2>8 DEF Ended
    <3>3. r.step = "give" => Result(store, n)
      <4>1. CASE j.plan.then \in {"value", "digest"}
        <5>1. r = Give(ans.val)
          BY Zenon, <2>8, <4>1 DEF Ending
        <5>2. r.step = "give" /\ r.val = ans.val
          BY <5>1 DEF Give
        <5>3. n.val = ans.val
          BY <3>2, <5>2
        <5>4. CASE Harmless(ans.val)
          BY Zenon, <3>1, <5>3, <5>4, HarmlessResult
        <5>5. ASSUME NEW v, NEW kind, NEW bind, v \in DOMAIN store[t.key].on, Within(store, t),
                     ans.val = Sealed(kind, Told(t.key, v), j.a.msg, bind)
              PROVE  Result(store, n)
          <6>1. Told(t.key, v).alg = store[t.key].alg /\ Told(t.key, v).key = t.key /\ Told(t.key, v).ver = v
            BY TextFields
          <6>2. Real(store, Told(t.key, v))
            BY Zenon, <5>5, <6>1 DEF Real, Points, Exists, Within
          <6>. QED
            BY Zenon, <3>1, <5>3, <5>5, <6>2, SealedResult
        <5>. QED
          BY Zenon, <2>2, <5>4, <5>5
      <4>2. CASE j.plan.then = "local"
        <5>1. r = Step(Method(j.op, [j.a EXCEPT !.key = DataOf(ans.reg).pub]))
          BY Zenon, <2>8, <4>2 DEF Ending
        <5>. QED
          BY Zenon, <1>1, <2>2, <3>1, <3>2, <5>1, LocalResult
      <4>3. CASE j.plan.then = "open"
        <5>1. r = Fail \/ \E m : r = Give(Message(m))
          BY Zenon, <2>8, <4>3 DEF Ending
        <5>2. ASSUME NEW m, r = Give(Message(m)) PROVE Result(store, n)
          <6>1. r.step = "give" /\ r.val = Message(m)
            BY <5>2 DEF Give
          <6>2. Harmless(n.val)
            BY Zenon, <3>2, <6>1, Harmlessness
          <6>. QED
            BY Zenon, <3>1, <6>2, HarmlessResult
        <5>3. r = Fail => r.step # "give"
          BY DEF Fail
        <5>. QED
          BY Zenon, <5>1, <5>2, <5>3
      <4>. QED
        BY <1>2, <4>1, <4>2, <4>3 DEF Thens
    <3>4. JobKept(store, retired, acked, n)
      BY Zenon, <2>3, <2>8, <3>3, EndedKept
    <3>5. Acks(ans.st, n)
      BY Zenon, <3>1 DEF Acks
    <3>. QED
      BY Zenon, <2>2, <2>3, <3>4, <3>5 DEF Answered, n
  <2>. QED
    BY Zenon, <2>6, <2>7, <2>8
<1>. QED
  BY Zenon, <1>1, <1>4, <1>5

----------------------------------------------------------------------------
(* The methods that seal and open.                                         *)

\* The version under which a symmetric key seals, for a text that names none.
LEMMA SealsWithPrimary ==
  ASSUME NEW j, Due(j), j.op = "EncryptAES", Versioned, NEW t, t = j.plan.ref, Within(store, t), SealStage(j)
  PROVE  j.floor \in Nat /\ j.floor <= Version(t) /\ Version(t) \in Nat
<1>1. Given(store, retired, acked, j) /\ Keeping
  BY Zenon DEF Due
<1>2. t.key = Raw(j.a).key /\ t.key \in AllNames /\ (Backend = "gcp" => t.ver = 0)
  BY Zenon DEF SealStage, RefersTo, Within
<1>3. j.floor \in Nat /\ (Raw(j.a).key \in AllNames => j.floor <= acked[Raw(j.a).key])
  BY Zenon, <1>1 DEF Given
<1>4. j.floor <= acked[t.key]
  BY Zenon, <1>2, <1>3
<1>5. acked[t.key] \in Nat /\ acked[t.key] <= store[t.key].prim
  BY Zenon, <1>1, <1>2 DEF Keeping, Acknowledged
<1>6. /\ Version(t) \in Nat \ {0}
      /\ Backend \in {"aws", "pkcs11"} => Version(t) = store[t.key].prim
      /\ Backend = "gcp" /\ t.ver = 0 => Version(t) = IF store[t.key].prim # 0 THEN store[t.key].prim ELSE 1
  BY Zenon, <1>1, VersionReal
<1>7. store[t.key].prim \in Nat
  <2>1. store[t.key].prim \in 0..Len(store[t.key].on) /\ Len(store[t.key].on) \in Nat
    BY <1>1, <1>2, KeyThere DEF Keeping, Within
  <2>. QED
    BY <2>1
<1>. QED
  BY <1>2, <1>3, <1>4, <1>5, <1>6, <1>7 DEF Versioned

\* Any answer to EncryptAES or DecryptAES leaves the invariant.
LEMMA SealAnswered ==
  ASSUME NEW j, Due(j), j.op \in DOMAIN Seals, NEW ans \in Answers(Head(j.todo), j)
  PROVE  Answered(j, ans)
<1>. DEFINE call == Head(j.todo)
           n == After(j, ans)
           t == Aim(call, j)
<1>1. /\ Progress(store, acked, j) /\ IsJob(j) /\ j.st = "calling" /\ Keeping /\ Calling(j)
      /\ IsText(ans.reg) /\ (ans.ok \/ \E why : ans = Refused(why))
      /\ Nil(t) \/ Within(store, t)
  BY Zenon, NextCall DEF Due
<1>2. j.plan.then = "value" /\ j.todo = <<Call(Seals[j.op], "aes", Bind(j.a.uid, j.a.add))>>
  BY Zenon, <1>1 DEF Calling
<1>3. call = Call(Seals[j.op], "aes", Bind(j.a.uid, j.a.add)) /\ Tail(j.todo) = << >>
  BY Zenon, <1>2, Heads
<1>4. call.do = Seals[j.op]
  BY <1>3, CallFields
<1>5. (j.op = "EncryptAES" /\ call.do = "Encrypt") \/ (j.op = "DecryptAES" /\ call.do = "Decrypt")
  <2>. HIDE DEF call
  <2>. QED
    BY <1>4 DEF Seals
<1>6. call.do \in Reading /\ call.do # "DisablePrevious" /\ call.do # "DecryptInHardware"
  BY <1>5 DEF Reading, Computing
<1>7. Tells(call, j, ans)
  BY Zenon, <1>1, <1>6, ReadingTells
<1>8. SealStage(j)
  BY Zenon, <1>1 DEF Progress
<1>9. t = j.plan.ref
  BY Zenon, <1>6, <1>8 DEF Aim, SealStage, Nil
<1>10. ASSUME NEW why, ans = Refused(why) PROVE Answered(j, ans)
  BY Zenon, <1>10, RefusedAnswered
<1>11. ASSUME ans.ok PROVE Answered(j, ans)
  <2>1. ~\E why : ans = Refused(why)
    BY <1>11, RefusedFields
  <2>2. PICK v, val :
           /\ Within(store, t) /\ ans = Granted(Told(t.key, v), val, store) /\ v \in DOMAIN store[t.key].on
           /\ call.do # "Decrypt" => v = Version(t)
           /\ \/ call.do \notin Sealing /\ Harmless(val)
              \/ call.do \in Sealing /\ val = Sealed(call.kind, Told(t.key, v), j.a.msg, call.bind)
    BY Zenon, <1>6, <1>7, <2>1 DEF Tells
  <2>3. ans.st = store /\ ans.val = val
    <3>. HIDE DEF t, call
    <3>. QED
      BY <2>2, GrantedFields
  <2>4. Effected(ans.st, j.a.new) /\ Grows(store, store)
    BY Zenon, <1>1, <2>3, NothingEffected, GrowsItself
  <2>5. Remaining(Tail(j.todo), ans.reg) = << >>
    BY <1>3 DEF Remaining, Skip
  <2>6. Ended(j, n, j.reg, Fail) \/ \E r : Ending(j, ans.reg, ans.val, r) /\ Ended(j, n, ans.reg, r)
    BY Zenon, <1>1, <1>6, <1>11, <2>5, AfterOk
  <2>7. CASE Ended(j, n, j.reg, Fail)
    BY Zenon, <2>4, <2>7, FailedAnswered
  <2>8. ASSUME NEW r, Ending(j, ans.reg, ans.val, r), Ended(j, n, ans.reg, r)
        PROVE  Answered(j, ans)
    <3>1. r = Give(val)
      <4>1. j.plan.then \in {"value", "digest"}
        BY <1>2
      <4>. QED
        BY Zenon, <2>3, <2>8, <4>1 DEF Ending
    <3>2. n.val = val /\ n.op = j.op /\ n.floor = j.floor
      <4>1. r.step = "give" /\ r.val = val
        BY <3>1 DEF Give
      <4>. QED
        BY Zenon, <2>8, <4>1 DEF Ended
    <3>. HIDE DEF n
    <3>3. Result(store, n)
      <4>1. CASE j.op = "DecryptAES"
        <5>1. call.do \notin Sealing
          BY <1>5, <4>1 DEF Sealing
        <5>2. Harmless(n.val)
          BY Zenon, <2>2, <3>2, <5>1
        <5>3. n.op \notin {"DeactivateKey", "EncryptAES"}
          BY <3>2, <4>1
        <5>. QED
          BY Zenon, <5>2, <5>3, HarmlessResult
      <4>2. CASE j.op = "EncryptAES"
        <5>1. call.do \in Sealing /\ call.do # "Decrypt"
          BY <1>5, <4>2 DEF Sealing
        <5>2. v = Version(t) /\ val = Sealed(call.kind, Told(t.key, v), j.a.msg, call.bind)
          BY Zenon, <2>2, <5>1
        <5>. HIDE DEF call, t
        <5>3. Told(t.key, v).alg = store[t.key].alg /\ Told(t.key, v).key = t.key /\ Told(t.key, v).ver = v
          BY TextFields
        <5>4. Real(store, Told(t.key, v))
          BY Zenon, <2>2, <5>3 DEF Real, Points, Exists, Within
        <5>5. ArtReal(store, n.val)
          BY Zenon, <3>2, <5>2, <5>4, SealedReal
        <5>6. n.val.ver = v
          BY <3>2, <5>2, <5>3 DEF Sealed
        <5>7. DOMAIN n.val # DOMAIN NoData
          BY <3>2, <5>2 DEF NoData, KeyData, Sealed
        <5>8. Versioned => n.floor <= n.val.ver /\ n.val.ver \in Nat
          BY Zenon, <1>8, <1>9, <2>2, <3>2, <4>2, <5>2, <5>6, SealsWithPrimary
        <5>9. n.op # "DeactivateKey"
          BY <3>2, <4>2
        <5>. QED
          BY Zenon, <5>5, <5>7, <5>8, <5>9 DEF Result
      <4>. QED
        BY Zenon, <1>5, <4>1, <4>2
    <3>4. JobKept(store, retired, acked, n)
      BY Zenon, <2>4, <2>8, <3>3, EndedKept
    <3>5. n.op # "RotateKey"
      BY <1>5, <3>2
    <3>6. Acks(ans.st, n)
      BY Zenon, <3>5 DEF Acks
    <3>. QED
      BY Zenon, <2>3, <2>4, <3>4, <3>6 DEF Answered, n
  <2>. QED
    BY Zenon, <2>6, <2>7, <2>8
<1>. QED
  BY Zenon, <1>1, <1>10, <1>11

----------------------------------------------------------------------------
(* The methods that make keys, and those that look at one.                 *)

\* What is left of the calls that follow one, when there are none,
LEMMA RemainsNone ==
  ASSUME NEW reg, ~Nil(reg), reg.alg \in Algorithms
  PROVE  Remaining(<< >>, reg) = << >>
BY DEF Remaining, Skip

\* ... one,
LEMMA RemainsOne ==
  ASSUME NEW reg, ~Nil(reg), reg.alg \in Algorithms, NEW w
  PROVE  /\ reg.alg \in w.for => Remaining(<<w>>, reg) = <<w>>
         /\ reg.alg \notin w.for => Remaining(<<w>>, reg) = << >>
<1>1. /\ Skip(<< >>, reg) = << >>
      /\ reg.alg \in w.for => Skip(<<w>>, reg) = <<w>>
      /\ reg.alg \notin w.for => Skip(<<w>>, reg) = << >>
  BY Heads DEF Skip, Nil
<1>. QED
  BY Zenon, <1>1 DEF Remaining

\* ... two,
LEMMA RemainsTwo ==
  ASSUME NEW reg, ~Nil(reg), reg.alg \in Algorithms, NEW w, NEW x
  PROVE  /\ reg.alg \in w.for => Remaining(<<w, x>>, reg) = <<w, x>>
         /\ reg.alg \notin w.for /\ reg.alg \in x.for => Remaining(<<w, x>>, reg) = <<x>>
         /\ reg.alg \notin w.for /\ reg.alg \notin x.for => Remaining(<<w, x>>, reg) = << >>
<1>1. /\ reg.alg \in x.for => Skip(<<x>>, reg) = <<x>>
      /\ reg.alg \notin x.for => Skip(<<x>>, reg) = << >>
      /\ reg.alg \in w.for => Skip(<<w, x>>, reg) = <<w, x>>
      /\ reg.alg \notin w.for => Skip(<<w, x>>, reg) = <<x>>
  BY Heads DEF Skip, Nil
<1>. QED
  BY Zenon, <1>1 DEF Remaining

\* ... or three.
LEMMA RemainsThree ==
  ASSUME NEW reg, ~Nil(reg), reg.alg \in Algorithms, NEW w, NEW x, NEW y, reg.alg \in w.for
  PROVE  Remaining(<<w, x, y>>, reg) = <<w, x, y>>
<1>1. Skip(<<w, x, y>>, reg) = <<w, x, y>>
  BY Heads DEF Skip, Nil
<1>. QED
  BY Zenon, <1>1 DEF Remaining

\* The algorithm of a text that names a key.
LEMMA PointsAlg ==
  ASSUME NEW st, KeysOK(st), NEW reg, Points(st, reg)
  PROVE  reg.alg \in Algorithms /\ ~Nil(reg) /\ (Backend # "pkcs11" => reg.alg = Family)
<1>1. reg.key \in AllNames /\ st[reg.key] # NoKey /\ reg.alg = st[reg.key].alg
  BY Zenon DEF Points, Exists
<1>2. st[reg.key].alg \in Algorithms /\ (Backend # "pkcs11" => st[reg.key].alg = Family)
  BY Zenon, <1>1, KeyThere
<1>. QED
  BY Zenon, <1>1, <1>2, PointsThere

\* An answer that tells of a key that is there, to a method that ends with key data.
LEMMA OkAnswered ==
  ASSUME NEW j, Due(j), NEW ans, ans.ok, Head(j.todo).do # "DisablePrevious",
         Effected(ans.st, j.a.new), IsText(ans.reg), Points(ans.st, ans.reg),
         j.plan.then = "data", j.op \notin {"DeactivateKey", "EncryptAES"},
         NEW rest, rest = Remaining(Tail(j.todo), ans.reg),
         \A n : rest # << >> /\ Moved(j, n, ans.reg, rest) => Stage(ans.st, n),
         rest = << >> /\ j.op = "RotateKey" /\ Versioned =>
            ans.reg.ver \in Nat /\ acked[ans.reg.key] <= ans.reg.ver /\ ans.reg.ver <= ans.st[ans.reg.key].prim
  PROVE  Answered(j, ans)
<1>. DEFINE n == After(j, ans)
<1>1. IsJob(j) /\ j.st = "calling"
  BY Zenon DEF Due
<1>2. \/ Ended(j, n, j.reg, Fail)
      \/ rest # << >> /\ Moved(j, n, ans.reg, rest)
      \/ rest = << >> /\ \E r : Ending(j, ans.reg, ans.val, r) /\ Ended(j, n, ans.reg, r)
  BY Zenon, <1>1, AfterOk
<1>3. CASE Ended(j, n, j.reg, Fail)
  BY Zenon, <1>3, FailedAnswered
<1>4. CASE rest # << >> /\ Moved(j, n, ans.reg, rest)
  <2>1. Stage(ans.st, n)
    BY Zenon, <1>4
  <2>. QED
    BY Zenon, <1>4, <2>1, MovedAnswered
<1>5. ASSUME rest = << >>, NEW r, Ending(j, ans.reg, ans.val, r), Ended(j, n, ans.reg, r)
      PROVE  Answered(j, ans)
  BY Zenon, <1>5, DataAnswered
<1>. QED
  BY Zenon, <1>2, <1>3, <1>4, <1>5

\* Any answer to a method that makes a key leaves the invariant.
LEMMA MakeAnswered ==
  ASSUME NEW j, Due(j), j.op \in DOMAIN Makes, NEW ans \in Answers(Head(j.todo), j)
  PROVE  Answered(j, ans)
<1>. DEFINE call == Head(j.todo)
           t == Aim(call, j)
           rest == Remaining(Tail(j.todo), ans.reg)
<1>1. /\ Progress(store, acked, j) /\ IsJob(j) /\ j.st = "calling" /\ Keeping
      /\ Given(store, retired, acked, j) /\ j.op \in AllOps
      /\ IsText(ans.reg) /\ (ans.ok \/ \E why : ans = Refused(why))
      /\ Nil(t) \/ Within(store, t)
  BY Zenon, NextCall, DueOp DEF Due
<1>2. MakeStage(store, j) /\ j.plan.then = "data"
  BY Zenon, <1>1 DEF Progress
<1>3. j.op \notin Using \cup DOMAIN Seals \cup Manages
  BY Zenon, <1>1, Kinds
<1>4. j.op \notin {"DeactivateKey", "EncryptAES"} /\ j.op # "RotateKey"
  BY <1>3 DEF Manages, Seals
<1>5. j.a.new \in Names
  BY Zenon, <1>1 DEF Given
<1>6. ASSUME NEW why, ans = Refused(why) PROVE Answered(j, ans)
  BY Zenon, <1>6, RefusedAnswered
  \* It suffices that the answer tells of a key, and that a stage of a creation is left.
<1>7. ASSUME ans.ok, call.do # "DisablePrevious", Effected(ans.st, j.a.new), Points(ans.st, ans.reg),
             rest = << >> \/ rest = <<PublicKey>> \/ (Backend = "gcp" /\ rest = <<NewVersion, PublicKey>>)
      PROVE  Answered(j, ans)
  <2>. HIDE DEF rest
  <2>1. ASSUME NEW n, rest # << >>, Moved(j, n, ans.reg, rest)
        PROVE  Stage(ans.st, n)
    <3>1. n.reg = ans.reg /\ n.todo = rest /\ n.op = j.op
      BY Zenon, <2>1 DEF Moved
    <3>2. ~Nil(n.reg)
      BY Zenon, <1>7, <3>1, PointsThere
    <3>3. MakeStage(ans.st, n)
      BY Zenon, <1>7, <2>1, <3>1, <3>2 DEF MakeStage
    <3>4. n.op \notin Using \cup DOMAIN Seals \cup Manages
      BY <1>3, <3>1
    <3>. QED
      BY Zenon, <3>3, <3>4 DEF Stage, Manages
  <2>2. rest = Remaining(Tail(j.todo), ans.reg)
    BY DEF rest
  <2>. HIDE DEF call
  <2>. QED
    BY Zenon, <1>1, <1>2, <1>4, <1>7, <2>1, <2>2, OkAnswered DEF call
<1>8. ASSUME NEW size, NEW uses, store[j.a.new] = NoKey, call = Creation(size, uses),
             Tail(j.todo) = << >> \/ Tail(j.todo) = <<PublicKey>>
             \/ (Backend = "gcp" /\ Tail(j.todo) = <<NewVersion, PublicKey>>)
      PROVE  Answered(j, ans)
  <2>1. ans \in Answers(Creation(size, uses), j)
    BY Zenon, <1>8
  <2>2. /\ ans.ok /\ Effected(ans.st, j.a.new) /\ Points(ans.st, ans.reg) /\ ~Nil(ans.reg)
        /\ ans.reg.alg = Family
    BY <1>1, <1>5, <1>8, <2>1, CreateKeyAnswers
  <2>3. ans.reg.alg \in Algorithms
    BY Zenon, <2>2, PointsAlg DEF Effected
  <2>4. PublicKey.for = Algorithms
    BY CallFields DEF PublicKey
  <2>5. rest = << >> \/ rest = <<PublicKey>> \/ (Backend = "gcp" /\ rest = <<NewVersion, PublicKey>>)
    <3>1. CASE Tail(j.todo) = << >>
      BY Zenon, <2>2, <2>3, <3>1, RemainsNone
    <3>2. CASE Tail(j.todo) = <<PublicKey>>
      BY Zenon, <2>2, <2>3, <2>4, <3>2, RemainsOne
    <3>3. CASE Backend = "gcp" /\ Tail(j.todo) = <<NewVersion, PublicKey>>
      <4>1. rest = Remaining(<<NewVersion, PublicKey>>, ans.reg)
        BY <3>3
      <4>2. ans.reg.alg \in PublicKey.for
        BY Zenon, <2>3, <2>4
      <4>3. rest = <<NewVersion, PublicKey>> \/ rest = <<PublicKey>>
        <5>. HIDE DEF rest
        <5>. QED
          BY Zenon, <2>2, <2>3, <4>1, <4>2, RemainsTwo
      <4>. QED
        BY Zenon, <3>3, <4>3
    <3>. QED
      BY Zenon, <1>8, <3>1, <3>2, <3>3
  <2>6. call.do = "CreateKey"
    BY <1>8, CallFields
  <2>. HIDE DEF call, rest
  <2>7. call.do # "DisablePrevious"
    BY <2>6
  <2>. QED
    BY Zenon, <1>7, <2>2, <2>5, <2>7
<1>9. ASSUME call = PublicKey, Tail(j.todo) = << >>, ans.ok
      PROVE  Answered(j, ans)
  <2>1. call.do = "GetPublicKey"
    BY <1>9, CallFields DEF PublicKey
  <2>. HIDE DEF call
  <2>2. call.do \in Looking /\ call.do # "DisablePrevious"
    BY <2>1 DEF Looking
  <2>3. ans.st = store /\ Points(store, ans.reg)
    BY Zenon, <1>1, <1>9, <2>2, LookAnswers DEF call
  <2>4. Effected(ans.st, j.a.new)
    BY Zenon, <1>1, <2>3, NothingEffected
  <2>5. rest = << >>
    BY <1>9 DEF Remaining, Skip
  <2>. HIDE DEF rest
  <2>. QED
    BY Zenon, <1>7, <1>9, <2>2, <2>3, <2>4, <2>5
<1>10. ASSUME Backend = "gcp", call = NewVersion, Tail(j.todo) = <<PublicKey>>, ans.ok
      PROVE  Answered(j, ans)
  <2>1. call.do = "CreateCryptoKeyVersion"
    BY <1>10, CallFields DEF NewVersion
  <2>2. call.do # "DisablePrevious" /\ Backend # "pkcs11"
    BY <1>10, <2>1
  <2>. HIDE DEF call
  <2>3. Effected(ans.st, j.a.new) /\ Points(ans.st, ans.reg)
    BY Zenon, <1>1, <1>10, <2>1, <2>2, NewVersionAnswers DEF call
  <2>4. ans.reg.alg \in Algorithms /\ ~Nil(ans.reg)
    BY Zenon, <2>3, PointsAlg DEF Effected
  <2>5. PublicKey.for = Algorithms
    BY CallFields DEF PublicKey
  <2>6. rest = <<PublicKey>>
    BY Zenon, <1>10, <2>4, <2>5, RemainsOne
  <2>. HIDE DEF rest
  <2>. QED
    BY Zenon, <1>7, <1>10, <2>2, <2>3, <2>6
<1>11. CASE ans.ok
  <2>1. ASSUME NEW size, NEW uses, store[j.a.new] = NoKey,
               \/ j.todo = <<Creation(size, uses)>>
               \/ j.todo = <<Creation(size, uses), PublicKey>>
               \/ Backend = "gcp" /\ j.todo = <<Creation(size, uses), NewVersion, PublicKey>>
        PROVE  Answered(j, ans)
    <3>1. call = Creation(size, uses)
      BY <2>1, Heads
    <3>2. Tail(j.todo) = << >> \/ Tail(j.todo) = <<PublicKey>>
          \/ (Backend = "gcp" /\ Tail(j.todo) = <<NewVersion, PublicKey>>)
      <4>1. CASE j.todo = <<Creation(size, uses)>>
        BY Zenon, <4>1, Heads
      <4>2. CASE j.todo = <<Creation(size, uses), PublicKey>>
        BY Zenon, <4>2, Heads
      <4>3. CASE Backend = "gcp" /\ j.todo = <<Creation(size, uses), NewVersion, PublicKey>>
        <5>1. \A w, x, y : Tail(<<w, x, y>>) = <<x, y>>
          BY Zenon, Heads
        <5>2. Tail(j.todo) = <<NewVersion, PublicKey>>
          BY <4>3, <5>1
        <5>. QED
          BY Zenon, <4>3, <5>2
      <4>. QED
        BY Zenon, <2>1, <4>1, <4>2, <4>3
    <3>. QED
      BY Zenon, <1>8, <2>1, <3>1, <3>2
  <2>2. CASE j.todo = <<PublicKey>>
    BY Zenon, <1>9, <1>11, <2>2, Heads
  <2>3. CASE Backend = "gcp" /\ j.todo = <<NewVersion, PublicKey>>
    BY Zenon, <1>10, <1>11, <2>3, Heads
  <2>. QED
    BY Zenon, <1>2, <2>1, <2>2, <2>3 DEF MakeStage
<1>. QED
  BY Zenon, <1>1, <1>6, <1>11

\* Any answer to GetKey leaves the invariant.
LEMMA InspectAnswered ==
  ASSUME NEW j, Due(j), j.op = "GetKey", NEW ans \in Answers(Head(j.todo), j)
  PROVE  Answered(j, ans)
<1>. DEFINE call == Head(j.todo)
           t == Aim(call, j)
           rest == Remaining(Tail(j.todo), ans.reg)
<1>1. /\ Progress(store, acked, j) /\ IsJob(j) /\ j.st = "calling" /\ Keeping
      /\ Remote /\ Backend \in Backends
      /\ IsText(ans.reg) /\ (ans.ok \/ \E why : ans = Refused(why))
      /\ Nil(t) \/ Within(store, t)
  BY Zenon, NextCall, DueOp DEF Due
<1>2. j.op \notin Using \cup DOMAIN Seals \cup DOMAIN Makes \cup {"RotateKey", "DeactivateKey", "EncryptAES"}
      /\ j.op \in Manages /\ j.op # "DeactivateKey"
  BY DEF Using, Seals, Makes, Manages
<1>3. InspectStage(j) /\ j.plan.then = "data"
  BY Zenon, <1>1, <1>2 DEF Progress
<1>4. ASSUME NEW why, ans = Refused(why) PROVE Answered(j, ans)
  BY Zenon, <1>4, RefusedAnswered
<1>5. /\ call.do \in Looking
      /\ Tail(j.todo) = << >> \/ (Tail(j.todo) = <<LastLook>> /\ Backend # "azure")
  <2>1. \/ call = Lookup("DescribeKey") \/ call = Lookup("GetKey") \/ call = Lookup("GetCryptoKey")
        \/ call = Lookup("GetAttributes") \/ call = PublicHalf \/ call = Otherwise(PublicKey, "skip")
    <3>1. CASE j.todo = Inspection
      BY <3>1 DEF Inspection
    <3>2. CASE j.todo = <<LastLook>>
      BY <3>2 DEF LastLook
    <3>. QED
      BY Zenon, <1>3, <3>1, <3>2 DEF InspectStage
  <2>2. Tail(j.todo) = << >> \/ (Tail(j.todo) = <<LastLook>> /\ Backend # "azure")
    <3>1. CASE j.todo = <<LastLook>>
      BY Zenon, <3>1, Heads
    <3>2. CASE j.todo = Inspection
      BY <1>1, <3>2, Heads DEF Inspection, LastLook, PublicKey, Remote, Backends
    <3>. QED
      BY Zenon, <1>3, <3>1, <3>2 DEF InspectStage
  <2>3. call.do \in Looking
    <3>. HIDE DEF call
    <3>. QED
      BY <2>1, CallFields DEF PublicHalf, PublicKey, Looking
  <2>. QED
    BY Zenon, <2>2, <2>3
<1>6. CASE ans.ok
  <2>1. ans.st = store /\ Points(store, ans.reg)
    <3>. HIDE DEF call
    <3>. QED
      BY Zenon, <1>1, <1>5, <1>6, LookAnswers DEF call
  <2>2. Effected(ans.st, j.a.new)
    BY Zenon, <1>1, <2>1, NothingEffected
  <2>3. ans.reg.alg \in Algorithms /\ ~Nil(ans.reg)
    BY Zenon, <1>1, <2>1, PointsAlg DEF Keeping
  <2>4. rest = << >> \/ (rest = <<LastLook>> /\ Backend # "azure")
    <3>1. CASE Tail(j.todo) = << >>
      BY Zenon, <2>3, <3>1, RemainsNone
    <3>2. CASE Tail(j.todo) = <<LastLook>> /\ Backend # "azure"
      <4>1. rest = Remaining(<<LastLook>>, ans.reg)
        BY <3>2
      <4>2. rest = <<LastLook>> \/ rest = << >>
        <5>. HIDE DEF rest
        <5>. QED
          BY Zenon, <2>3, <4>1, RemainsOne
      <4>. QED
        BY Zenon, <3>2, <4>2
    <3>. QED
      BY Zenon, <1>5, <3>1, <3>2
  <2>5. ASSUME NEW n, rest # << >>, Moved(j, n, ans.reg, rest)
        PROVE  Stage(ans.st, n)
    <3>. HIDE DEF rest
    <3>1. n.reg = ans.reg /\ n.todo = rest /\ n.op = j.op
      BY Zenon, <2>5 DEF Moved
    <3>2. InspectStage(n)
      BY Zenon, <2>3, <2>4, <2>5, <3>1 DEF InspectStage
    <3>. QED
      BY Zenon, <1>2, <3>1, <3>2 DEF Stage
  <2>6. call.do # "DisablePrevious" /\ j.op \notin {"DeactivateKey", "EncryptAES"} /\ j.op # "RotateKey"
    BY <1>5 DEF Looking
  <2>7. rest = Remaining(Tail(j.todo), ans.reg)
    OBVIOUS
  <2>8. Points(ans.st, ans.reg)
    BY Zenon, <2>1
  <2>. HIDE DEF rest, call
  <2>. QED
    BY Zenon, <1>1, <1>3, <1>6, <2>2, <2>5, <2>6, <2>7, <2>8, OkAnswered DEF call
<1>. QED
  BY Zenon, <1>1, <1>4, <1>6

----------------------------------------------------------------------------
(* DeactivateKey.                                                          *)

\* The text that a method goes by names a key that is there.
LEMMA RawThere ==
  ASSUME NEW j, Due(j), j.op \in Manages
  PROVE  /\ RefersTo(j.a, j.plan.ref) /\ j.plan.ref.ver = Raw(j.a).ver /\ j.plan.ref.key = Raw(j.a).key
         /\ Within(store, j.plan.ref)
         /\ Exists(store, Raw(j.a)) /\ (Raw(j.a).ver # 0 => Points(store, Raw(j.a)))
<1>1. Progress(store, acked, j) /\ Given(store, retired, acked, j) /\ Keeping
  BY Zenon DEF Due
<1>2. RefersTo(j.a, j.plan.ref) /\ j.plan.ref.ver = Raw(j.a).ver
  BY Zenon, <1>1 DEF Progress
<1>3. j.plan.ref.key = Raw(j.a).key /\ ~Nil(j.plan.ref)
  BY Zenon, <1>2 DEF RefersTo, Nil
<1>4. Within(store, j.plan.ref)
  BY Zenon, <1>1, <1>3 DEF Progress
<1>5. Raw(j.a).key \in AllNames
  BY Zenon, <1>3, <1>4 DEF Within
<1>6. ~Nil(Raw(j.a))
  BY <1>5, NoneIsNoName DEF Nil, NoText, Text
<1>7. Addresses(store, Raw(j.a))
  <2>1. CASE Nil(j.a.key)
    <3>1. Raw(j.a) = env.configured
      BY Zenon, <1>1, <2>1 DEF Raw, Given, Nil
    <3>. QED
      BY Zenon, <1>1, <1>6, <3>1 DEF Keeping
  <2>2. CASE ~Nil(j.a.key)
    <3>1. Raw(j.a) = j.a.key
      BY Zenon, <2>2 DEF Raw, Nil
    <3>. QED
      BY Zenon, <1>1, <2>2, <3>1 DEF Given
  <2>. QED
    BY Zenon, <2>1, <2>2
<1>8. Exists(store, Raw(j.a)) /\ (Raw(j.a).ver # 0 => Points(store, Raw(j.a)))
  BY Zenon, <1>7 DEF Addresses, Points
<1>. QED
  BY Zenon, <1>2, <1>3, <1>4, <1>8

\* A deactivation first looks at the key, or turns the version that it is about off.
LEMMA DisableCalls ==
  ASSUME NEW j, Due(j), j.op = "DeactivateKey"
  PROVE  LET call == Head(j.todo)
             t == Aim(call, j)
         IN  \/ /\ call.do \in Looking /\ Nil(j.reg) /\ Backend \in {"azure", "gcp"}
                /\ Tail(j.todo) = <<Lookup("DisableKey")>>
             \/ /\ call.do \in {"DisableKey", "DestroyObject"} /\ Tail(j.todo) = << >>
                /\ t.key = j.plan.ref.key
                /\ Backend \in {"azure", "gcp"} /\ j.plan.ref.ver # 0 => t.ver = j.plan.ref.ver
<1>. DEFINE call == Head(j.todo)
           t == Aim(call, j)
<1>1. Progress(store, acked, j) /\ Remote /\ Backend \in Backends
  BY Zenon, DueOp DEF Due
<1>2. DisableStage(j)
  BY Zenon, <1>1 DEF Progress
<1>3. \/ call \in {Lookup("GetKey"), Lookup("GetCryptoKey")} /\ Nil(j.reg) /\ Backend \in {"azure", "gcp"}
         /\ Tail(j.todo) = <<Lookup("DisableKey")>>
      \/ call \in {Lookup("DisableKey"), Otherwise(Lookup("DisableKey"), "DestroyObject"), Plain("DestroyObject", "none")}
         /\ Tail(j.todo) = << >>
  <2>1. CASE j.todo = Deactivation(j.a) /\ Nil(j.reg)
    BY <1>1, <2>1 DEF Deactivation, Remote, Backends
  <2>2. CASE j.todo = <<Lookup("DisableKey")>>
    BY <2>2
  <2>3. CASE j.todo = <<Plain("DestroyObject", "none")>>
    BY <2>3
  <2>. QED
    BY Zenon, <1>2, <2>1, <2>2, <2>3 DEF DisableStage
<1>4. \/ call.do \in Looking /\ Nil(j.reg) /\ Backend \in {"azure", "gcp"} /\ Tail(j.todo) = <<Lookup("DisableKey")>>
      \/ call.do \in {"DisableKey", "DestroyObject"} /\ Tail(j.todo) = << >>
  <2>. HIDE DEF call
  <2>. QED
    BY <1>3, CallFields DEF Looking
<1>5. \/ Nil(j.reg)
      \/ ~Nil(j.reg) /\ j.reg.key = j.plan.ref.key /\ (j.plan.ref.ver # 0 => j.reg.ver = j.plan.ref.ver)
  BY Zenon, <1>2 DEF DisableStage
<1>6. call.do \in {"DisableKey", "DestroyObject"} => call.do # "DisablePrevious"
  OBVIOUS
<1>7. call.do \in {"DisableKey", "DestroyObject"} =>
        t.key = j.plan.ref.key /\ (j.plan.ref.ver # 0 => t.ver = j.plan.ref.ver)
  BY Zenon, <1>5, <1>6 DEF Aim, Nil
<1>. QED
  BY Zenon, <1>4, <1>7

\* Any answer to DeactivateKey leaves the invariant.
LEMMA DeactivateAnswered ==
  ASSUME NEW j, Due(j), j.op = "DeactivateKey", NEW ans \in Answers(Head(j.todo), j)
  PROVE  Answered(j, ans)
<1>. DEFINE call == Head(j.todo)
           t == Aim(call, j)
           n == After(j, ans)
           raw == Raw(j.a)
<1>1. /\ Progress(store, acked, j) /\ IsJob(j) /\ j.st = "calling" /\ Keeping
      /\ Given(store, retired, acked, j) /\ j.op \in AllOps
      /\ IsText(ans.reg) /\ (ans.ok \/ \E why : ans = Refused(why))
      /\ Nil(t) \/ Within(store, t)
  BY Zenon, NextCall, DueOp DEF Due
<1>2. j.op \in Manages /\ j.op \notin Using \cup DOMAIN Seals \cup DOMAIN Makes /\ j.op # "GetKey" /\ j.op # "RotateKey"
  BY DEF Using, Seals, Makes, Manages
<1>3. j.plan.then = "none" /\ raw.key \in retired
  BY Zenon, <1>1, <1>2 DEF Progress, Given
<1>4. /\ j.plan.ref.ver = raw.ver /\ j.plan.ref.key = raw.key /\ Within(store, j.plan.ref)
      /\ Exists(store, raw) /\ (raw.ver # 0 => Points(store, raw))
  BY Zenon, <1>2, RawThere
<1>5. ASSUME NEW why, ans = Refused(why) PROVE Answered(j, ans)
  BY Zenon, <1>5, RefusedAnswered
<1>6. ASSUME ans.ok, call.do \in Looking, Nil(j.reg), Tail(j.todo) = <<Lookup("DisableKey")>>, Backend \in {"azure", "gcp"}
      PROVE  Answered(j, ans)
  <2>1. call.do # "DisablePrevious"
    BY <1>6 DEF Looking
  <2>2. t = j.plan.ref
    BY Zenon, <1>6 DEF Aim, Nil
  <2>3. ans.st = store /\ ans.reg = Told(t.key, Version(t)) /\ Points(store, ans.reg)
    <3>. HIDE DEF call
    <3>. QED
      BY Zenon, <1>1, <1>6, LookAnswers DEF call
  <2>4. Effected(ans.st, j.a.new) /\ Points(ans.st, ans.reg)
    BY Zenon, <1>1, <2>3, NothingEffected
  <2>5. ans.reg.alg \in Algorithms /\ ~Nil(ans.reg)
    BY Zenon, <1>1, <2>3, PointsAlg DEF Keeping
  <2>6. Lookup("DisableKey").for = Algorithms
    BY CallFields
  <2>7. Remaining(Tail(j.todo), ans.reg) = <<Lookup("DisableKey")>>
    <3>1. Remaining(<<Lookup("DisableKey")>>, ans.reg) = <<Lookup("DisableKey")>>
      BY Zenon, <2>5, <2>6, RemainsOne
    <3>. QED
      BY Zenon, <1>6, <3>1
  <2>8. <<Lookup("DisableKey")>> # << >>
    OBVIOUS
  <2>9. Ended(j, n, j.reg, Fail) \/ Moved(j, n, ans.reg, <<Lookup("DisableKey")>>)
    BY Zenon, <1>1, <1>6, <2>1, <2>7, <2>8, AfterOk
  <2>. HIDE DEF n
  <2>10. CASE Ended(j, n, j.reg, Fail)
    BY Zenon, <2>4, <2>10, FailedAnswered DEF n
  <2>11. CASE Moved(j, n, ans.reg, <<Lookup("DisableKey")>>)
    <3>1. n.reg = ans.reg /\ n.plan = j.plan /\ n.todo = <<Lookup("DisableKey")>> /\ n.op = j.op
      BY Zenon, <2>11 DEF Moved
    <3>2. ans.reg.key = t.key /\ ans.reg.ver = Version(t)
      <4>. HIDE DEF t
      <4>. QED
        BY <2>3, TextFields
    <3>3. n.plan.ref.ver # 0 => Version(t) = n.plan.ref.ver
      BY Zenon, <1>1, <1>4, <1>6, <2>2, <3>1, VersionReal
    <3>4. DisableStage(n)
      BY Zenon, <1>6, <2>2, <2>5, <3>1, <3>2, <3>3 DEF DisableStage
    <3>5. Stage(ans.st, n)
      BY Zenon, <1>2, <3>1, <3>4 DEF Stage
    <3>. QED
      BY Zenon, <2>4, <2>11, <3>5, MovedAnswered DEF n
  <2>. QED
    BY Zenon, <2>9, <2>10, <2>11
<1>7. ASSUME ans.ok, call.do \in {"DisableKey", "DestroyObject"}, Tail(j.todo) = << >>, t.key = j.plan.ref.key,
             Backend \in {"azure", "gcp"} /\ j.plan.ref.ver # 0 => t.ver = j.plan.ref.ver
      PROVE  Answered(j, ans)
  <2>1. call.do # "DisablePrevious" /\ call.do \in Disabling
    BY <1>7 DEF Disabling
  <2>2. t.key = raw.key /\ t.key \in retired /\ t.key \in AllNames
    BY Zenon, <1>3, <1>4, <1>7 DEF Within
  <2>3. ~Nil(t)
    BY <2>2, NoneIsNoName DEF Nil, NoText, Text
  <2>4. Within(store, t)
    BY Zenon, <1>1, <2>3
  <2>5. /\ Effected(ans.st, j.a.new) /\ Points(ans.st, ans.reg) /\ OffBy(ans.st, t)
        /\ ans.reg = Told(t.key, Version(t))
    <3>1. Aim(call, j).key \in retired \/ Replaced(store, Aim(call, j).key)
      BY Zenon, <2>2
    <3>2. ans \in Answers(call, j) /\ (Nil(Aim(call, j)) \/ Within(store, Aim(call, j)))
      BY Zenon, <1>1
    <3>3. Keeping /\ ans.ok /\ call.do \in Disabling
      BY Zenon, <1>1, <1>7, <2>1
    <3>. HIDE DEF call
    <3>4. Effected(ans.st, j.a.new)
      BY Zenon, <3>1, <3>2, <3>3, TurnOffAnswers
    <3>5. Points(ans.st, ans.reg) /\ OffBy(ans.st, t)
      BY Zenon, <3>1, <3>2, <3>3, TurnOffAnswers
    <3>6. ans.reg = Told(t.key, Version(t))
      BY Zenon, <3>1, <3>2, <3>3, TurnOffAnswers
    <3>. QED
      BY Zenon, <3>4, <3>5, <3>6
  <2>6. ans.reg.key = t.key /\ ans.reg.ver = Version(t)
    <3>. HIDE DEF t
    <3>. QED
      BY <2>5, TextFields
  <2>7. Remaining(Tail(j.todo), ans.reg) = << >>
    BY <1>7 DEF Remaining, Skip
  <2>8. Ended(j, n, j.reg, Fail) \/ \E r : Ending(j, ans.reg, ans.val, r) /\ Ended(j, n, ans.reg, r)
    BY Zenon, <1>1, <1>7, <2>1, <2>7, AfterOk
  <2>. HIDE DEF n
  <2>9. CASE Ended(j, n, j.reg, Fail)
    BY Zenon, <2>5, <2>9, FailedAnswered DEF n
  <2>10. ASSUME NEW r, Ending(j, ans.reg, ans.val, r), Ended(j, n, ans.reg, r)
        PROVE  Answered(j, ans)
    <3>1. r = Give(NoDigest)
      BY Zenon, <1>3, <2>10 DEF Ending
    <3>2. r.step = "give" /\ r.val = NoDigest
      BY <3>1 DEF Give
    <3>3. n.val = NoDigest /\ n.op = j.op /\ n.a = j.a /\ n.reg = ans.reg
      BY Zenon, <2>10, <3>2 DEF Ended
    <3>4. Grows(store, ans.st)
      BY Zenon, <2>5 DEF Effected
    <3>5. OffNow(ans.st, n)
      <4>. DEFINE v == IF raw.ver # 0 THEN raw.ver ELSE n.reg.ver
      <4>1. Exists(ans.st, raw)
        BY Zenon, <1>4, <3>4, GrowsKeeps
      <4>2. /\ Version(t) \in DOMAIN store[t.key].on
            /\ Backend \in {"azure", "gcp"} /\ t.ver # 0 => Version(t) = t.ver
        BY Zenon, <1>1, <2>4, VersionReal
      <4>3. v \in DOMAIN store[raw.key].on
        <5>1. CASE raw.ver # 0
          BY Zenon, <1>4, <5>1 DEF Points
        <5>2. CASE raw.ver = 0
          BY Zenon, <2>2, <2>6, <3>3, <4>2, <5>2
        <5>. QED
          BY Zenon, <5>1, <5>2
      <4>4. Backend \in {"aws", "pkcs11"} \/ v = Version(t)
        <5>1. CASE raw.ver # 0
          <6>1. Backend \in {"azure", "gcp"} => t.ver = raw.ver /\ t.ver # 0
            BY Zenon, <1>4, <1>7, <5>1
          <6>2. Backend \in {"azure", "gcp"} \/ Backend \in {"aws", "pkcs11"}
            BY <1>1 DEF Keeping, Remote, Backends
          <6>. QED
            BY Zenon, <4>2, <5>1, <6>1, <6>2
        <5>2. CASE raw.ver = 0
          BY Zenon, <2>6, <3>3, <5>2
        <5>. QED
          BY Zenon, <5>1, <5>2
      <4>. HIDE DEF v
      <4>5. ~ans.st[raw.key].on[v]
        BY Zenon, <2>2, <2>5, <4>3, <4>4 DEF OffBy
      <4>6. v \in DOMAIN ans.st[raw.key].on
        BY Zenon, <1>4, <3>4, <4>3 DEF Grows, Exists
      <4>. QED
        BY Zenon, <3>3, <4>1, <4>5, <4>6 DEF OffNow, v
    <3>6. DOMAIN n.val # DOMAIN NoData /\ DOMAIN n.val # DOMAIN NoArt.art /\ n.op # "EncryptAES"
      BY <3>3 DEF NoData, KeyData, NoArt, Sealed, NoDigest
    <3>7. Result(ans.st, n)
      BY Zenon, <3>5, <3>6 DEF Result
    <3>8. JobKept(ans.st, retired, acked, n)
      BY Zenon, <2>10, <3>4, <3>7, EndedKept
    <3>9. Acks(ans.st, n)
      BY Zenon, <1>2, <3>3 DEF Acks
    <3>. QED
      BY Zenon, <2>5, <3>8, <3>9 DEF Answered, n
  <2>. QED
    BY Zenon, <2>8, <2>9, <2>10
<1>8. CASE ans.ok
  <2>. HIDE DEF call, t
  <2>1. \/ /\ call.do \in Looking /\ Nil(j.reg) /\ Backend \in {"azure", "gcp"}
           /\ Tail(j.todo) = <<Lookup("DisableKey")>>
        \/ /\ call.do \in {"DisableKey", "DestroyObject"} /\ Tail(j.todo) = << >>
           /\ t.key = j.plan.ref.key
           /\ Backend \in {"azure", "gcp"} /\ j.plan.ref.ver # 0 => t.ver = j.plan.ref.ver
    BY Zenon, DisableCalls DEF call, t
  <2>. QED
    BY Zenon, <1>6, <1>7, <1>8, <2>1
<1>. QED
  BY Zenon, <1>1, <1>5, <1>8

----------------------------------------------------------------------------
(* RotateKey.                                                              *)

\* A rotation that is told of a key that is there, and goes on or ends.
LEMMA RotationGoesOn ==
  ASSUME NEW j, Due(j), j.op = "RotateKey", NEW ans, ans.ok, Head(j.todo).do # "DisablePrevious",
         Effected(ans.st, j.a.new), IsText(ans.reg), Points(ans.st, ans.reg),
         NEW rest, rest = Remaining(Tail(j.todo), ans.reg),
         \A n : rest # << >> /\ Moved(j, n, ans.reg, rest) => RotateStage(ans.st, acked, n),
         rest = << >> /\ Versioned =>
            ans.reg.ver \in Nat /\ acked[ans.reg.key] <= ans.reg.ver /\ ans.reg.ver <= ans.st[ans.reg.key].prim
  PROVE  Answered(j, ans)
<1>1. /\ j.op \in Manages /\ j.op \notin Using \cup DOMAIN Seals \cup DOMAIN Makes
      /\ j.op # "DeactivateKey" /\ j.op # "GetKey" /\ j.op \notin {"DeactivateKey", "EncryptAES"}
  BY DEF Using, Seals, Makes, Manages
<1>2. j.plan.then = "data"
  <2>1. Progress(store, acked, j)
    BY Zenon DEF Due
  <2>. QED
    BY Zenon, <1>1, <2>1 DEF Progress
<1>3. ASSUME NEW n, rest # << >>, Moved(j, n, ans.reg, rest)
      PROVE  Stage(ans.st, n)
  <2>1. n.op = j.op /\ RotateStage(ans.st, acked, n)
    BY Zenon, <1>3 DEF Moved
  <2>. QED
    BY Zenon, <1>1, <2>1 DEF Stage
<1>. QED
  BY Zenon, <1>1, <1>2, <1>3, OkAnswered

\* What is left after a call whose successors are for some algorithms only.
LEMMA LeftOne ==
  ASSUME NEW reg, ~Nil(reg), reg.alg \in Algorithms, NEW w, NEW rest, rest = Remaining(<<w>>, reg)
  PROVE  (rest = <<w>> /\ reg.alg \in w.for) \/ (rest = << >> /\ reg.alg \notin w.for)
<1>1. reg.alg \in w.for => Remaining(<<w>>, reg) = <<w>>
  BY Zenon, RemainsOne
<1>2. reg.alg \notin w.for => Remaining(<<w>>, reg) = << >>
  BY Zenon, RemainsOne
<1>. QED
  BY Zenon, <1>1, <1>2

\* ... when two are left,
LEMMA LeftTwo ==
  ASSUME NEW reg, ~Nil(reg), reg.alg \in Algorithms, NEW w, NEW x, NEW rest, rest = Remaining(<<w, x>>, reg)
  PROVE  \/ rest = <<w, x>> /\ reg.alg \in w.for
         \/ rest = <<x>> /\ reg.alg \notin w.for /\ reg.alg \in x.for
         \/ rest = << >> /\ reg.alg \notin w.for /\ reg.alg \notin x.for
<1>1. reg.alg \in w.for => Remaining(<<w, x>>, reg) = <<w, x>>
  BY Zenon, RemainsTwo
<1>2. reg.alg \notin w.for /\ reg.alg \in x.for => Remaining(<<w, x>>, reg) = <<x>>
  BY Zenon, RemainsTwo
<1>3. reg.alg \notin w.for /\ reg.alg \notin x.for => Remaining(<<w, x>>, reg) = << >>
  BY Zenon, RemainsTwo
<1>. QED
  BY Zenon, <1>1, <1>2, <1>3

\* ... and when three are.
LEMMA LeftThree ==
  ASSUME NEW reg, ~Nil(reg), reg.alg \in Algorithms, NEW w, NEW x, NEW y, NEW rest, rest = Remaining(<<w, x, y>>, reg),
         w.for = Algorithms
  PROVE  rest = <<w, x, y>>
<1>1. reg.alg \in w.for
  BY Zenon
<1>2. Remaining(<<w, x, y>>, reg) = <<w, x, y>>
  BY Zenon, <1>1, RemainsThree
<1>. QED
  BY Zenon, <1>2

\* Looks of a rotation.
LEMMA RotationLooks ==
  ASSUME NEW j, Due(j), NEW call, call = Head(j.todo), NEW ans \in Answers(call, j), ans.ok, call.do \in Looking
  PROVE  /\ call.do # "DisablePrevious" /\ ans.st = store /\ Effected(ans.st, j.a.new) /\ IsText(ans.reg)
         /\ Points(ans.st, ans.reg) /\ ~Nil(ans.reg) /\ ans.reg.alg \in Algorithms
         /\ Within(store, Aim(call, j))
         /\ ans.reg.key = Aim(call, j).key /\ ans.reg.ver = Version(Aim(call, j))
<1>1. Keeping /\ IsText(ans.reg) /\ (Nil(Aim(call, j)) \/ Within(store, Aim(call, j)))
  BY Zenon, NextCall
<1>2. /\ Within(store, Aim(call, j)) /\ ans.st = store
      /\ ans.reg = Told(Aim(call, j).key, Version(Aim(call, j))) /\ Points(store, ans.reg)
  BY Zenon, <1>1, LookAnswers
<1>3. ans.reg.alg \in Algorithms /\ ~Nil(ans.reg)
  BY Zenon, <1>1, <1>2, PointsAlg DEF Keeping
<1>4. call.do # "DisablePrevious"
  BY DEF Looking
<1>5. Effected(ans.st, j.a.new)
  BY Zenon, <1>1, <1>2, NothingEffected
<1>6. ans.reg.key = Aim(call, j).key /\ ans.reg.ver = Version(Aim(call, j))
  <2>. DEFINE t == Aim(call, j)
  <2>. HIDE DEF t
  <2>1. ans.reg = Told(t.key, Version(t))
    BY <1>2 DEF t
  <2>2. ans.reg.key = t.key /\ ans.reg.ver = Version(t)
    BY <2>1, TextFields
  <2>. QED
    BY <2>2 DEF t
<1>. QED
  BY Zenon, <1>1, <1>2, <1>3, <1>4, <1>5, <1>6

\* Any answer to RotateKey of AWS leaves the invariant.
LEMMA AwsRotated ==
  ASSUME NEW j, Due(j), j.op = "RotateKey", Backend = "aws", NEW ans \in Answers(Head(j.todo), j), ans.ok
  PROVE  Answered(j, ans)
<1>. DEFINE call == Head(j.todo)
           t == Aim(call, j)
           rest == Remaining(Tail(j.todo), ans.reg)
           D == Lookup("DescribeKey")
           R == Lookup("RotateKey")
<1>1. /\ Progress(store, acked, j) /\ Keeping /\ IsText(ans.reg) /\ (Nil(t) \/ Within(store, t))
  BY Zenon, NextCall DEF Due
<1>2. AwsRotation(j) /\ Rotation(j.a) = <<Needs(D, {"aes"}), R, D, PublicHalf>>
  BY Zenon, <1>1 DEF Progress, RotateStage, Rotation
<1>3. D.for = Algorithms /\ R.for = Algorithms /\ D.do = "DescribeKey" /\ R.do = "RotateKey"
      /\ Needs(D, {"aes"}).do = "DescribeKey" /\ PublicHalf.do = "GetPublicKey"
  BY CallFields DEF PublicHalf
<1>. HIDE DEF D, R
  \* It suffices that the key is there and that some of the calls are left.
<1>4. ASSUME call.do # "DisablePrevious", Effected(ans.st, j.a.new), Points(ans.st, ans.reg),
             \/ rest = <<R, D, PublicHalf>> \/ rest = <<D, PublicHalf>>
             \/ call.do \in Looking /\ (rest = <<PublicHalf>> \/ rest = << >>)
      PROVE  Answered(j, ans)
  <2>1. ASSUME NEW n, rest # << >>, Moved(j, n, ans.reg, rest)
        PROVE  RotateStage(ans.st, acked, n)
    <3>. HIDE DEF rest
    <3>1. n.todo = rest
      BY Zenon, <2>1 DEF Moved
    <3>2. n.todo = <<R, D, PublicHalf>> \/ n.todo = <<D, PublicHalf>> \/ n.todo = <<PublicHalf>>
      BY Zenon, <1>4, <2>1, <3>1
    <3>3. AwsRotation(n)
      BY Zenon, <3>2 DEF AwsRotation, D, R
    <3>. QED
      BY <3>3 DEF RotateStage
  <2>2. ASSUME rest = << >>, Versioned
        PROVE  ans.reg.ver \in Nat /\ acked[ans.reg.key] <= ans.reg.ver /\ ans.reg.ver <= ans.st[ans.reg.key].prim
    <3>1. call.do \in Looking
      <4>1. <<R, D, PublicHalf>> # << >> /\ <<D, PublicHalf>> # << >>
        OBVIOUS
      <4>. HIDE DEF rest
      <4>. QED
        BY Zenon, <1>4, <2>2, <4>1
    <3>. HIDE DEF call
    <3>2. ans.reg.key = t.key /\ ans.reg.ver = Version(t) /\ ans.st = store /\ Within(store, t)
      BY Zenon, <3>1, RotationLooks DEF call
    <3>3. Backend \in {"aws", "pkcs11"}
      OBVIOUS
    <3>4. Version(t) = store[t.key].prim /\ Version(t) \in Nat \ {0}
      BY Zenon, <1>1, <3>2, <3>3, VersionReal
    <3>5. acked[t.key] \in Nat /\ acked[t.key] <= store[t.key].prim
      BY Zenon, <1>1, <2>2, <3>2 DEF Keeping, Acknowledged, Within
    <3>. HIDE DEF t
    <3>. QED
      BY <3>2, <3>4, <3>5
  <2>3. rest = Remaining(Tail(j.todo), ans.reg)
    OBVIOUS
  <2>. HIDE DEF rest, call
  <2>. QED
    BY Zenon, <1>1, <1>4, <2>1, <2>2, <2>3, RotationGoesOn DEF call
<1>5. ASSUME call.do \in Looking
      PROVE  /\ call.do # "DisablePrevious" /\ Effected(ans.st, j.a.new) /\ Points(ans.st, ans.reg)
             /\ ~Nil(ans.reg) /\ ans.reg.alg \in Algorithms
  <2>. HIDE DEF call
  <2>. QED
    BY Zenon, <1>5, RotationLooks DEF call
<1>6. CASE j.todo = <<Needs(D, {"aes"}), R, D, PublicHalf>>
  <2>1. call = Needs(D, {"aes"}) /\ Tail(j.todo) = <<R, D, PublicHalf>>
    BY <1>6
  <2>2. call.do \in Looking
    BY <1>3, <2>1 DEF Looking
  <2>3. rest = Remaining(<<R, D, PublicHalf>>, ans.reg)
    BY <2>1
  <2>. HIDE DEF rest, call
  <2>4. rest = <<R, D, PublicHalf>>
    <3>1. ~Nil(ans.reg) /\ ans.reg.alg \in Algorithms
      BY Zenon, <1>5, <2>2
    <3>2. R.for = Algorithms
      BY <1>3
    <3>. QED
      BY SMT, <2>3, <3>1, <3>2, LeftThree
  <2>. QED
    BY Zenon, <1>4, <1>5, <2>2, <2>4
<1>7. CASE j.todo = <<R, D, PublicHalf>>
  <2>1. call = R /\ Tail(j.todo) = <<D, PublicHalf>>
    BY <1>7
  <2>2. call.do = "RotateKey" /\ call.do # "DisablePrevious" /\ Backend # "pkcs11"
    BY <1>3, <2>1
  <2>3. rest = Remaining(<<D, PublicHalf>>, ans.reg)
    BY <2>1
  <2>. HIDE DEF rest, call
  <2>4. Effected(ans.st, j.a.new) /\ Points(ans.st, ans.reg)
    BY Zenon, <1>1, <2>2, RotateKeyAnswers DEF call
  <2>5. ans.reg.alg \in Algorithms /\ ~Nil(ans.reg)
    BY Zenon, <2>4, PointsAlg DEF Effected
  <2>6. rest = <<D, PublicHalf>>
    BY Zenon, <1>3, <2>3, <2>5, LeftTwo
  <2>. QED
    BY Zenon, <1>4, <2>2, <2>4, <2>6
<1>8. CASE j.todo = <<D, PublicHalf>>
  <2>1. call = D /\ Tail(j.todo) = <<PublicHalf>>
    BY <1>8
  <2>2. call.do \in Looking
    BY <1>3, <2>1 DEF Looking
  <2>3. rest = Remaining(<<PublicHalf>>, ans.reg)
    BY <2>1
  <2>. HIDE DEF rest, call
  <2>4. rest = <<PublicHalf>> \/ rest = << >>
    BY Zenon, <1>5, <2>2, <2>3, LeftOne
  <2>. QED
    BY Zenon, <1>4, <1>5, <2>2, <2>4
<1>9. CASE j.todo = <<PublicHalf>>
  <2>1. call = PublicHalf /\ Tail(j.todo) = << >>
    BY <1>9
  <2>2. call.do \in Looking
    BY <1>3, <2>1 DEF Looking
  <2>3. rest = << >>
    BY <2>1 DEF Remaining, Skip
  <2>. HIDE DEF rest, call
  <2>. QED
    BY Zenon, <1>4, <1>5, <2>2, <2>3
<1>. QED
  <2>1. \/ j.todo = <<Needs(D, {"aes"}), R, D, PublicHalf>> \/ j.todo = <<R, D, PublicHalf>>
        \/ j.todo = <<D, PublicHalf>> \/ j.todo = <<PublicHalf>>
    BY Zenon, <1>2 DEF AwsRotation, D, R
  <2>. QED
    BY Zenon, <2>1, <1>6, <1>7, <1>8, <1>9

\* Any answer to RotateKey of Azure leaves the invariant.
LEMMA AzureRotated ==
  ASSUME NEW j, Due(j), j.op = "RotateKey", Backend = "azure", NEW ans \in Answers(Head(j.todo), j), ans.ok
  PROVE  Answered(j, ans)
<1>. DEFINE call == Head(j.todo)
           rest == Remaining(Tail(j.todo), ans.reg)
           G == Lookup("GetKey")
           R == Lookup("RotateKey")
<1>1. /\ Progress(store, acked, j) /\ Keeping /\ IsText(ans.reg) /\ (Nil(Aim(call, j)) \/ Within(store, Aim(call, j)))
  BY Zenon, NextCall DEF Due
<1>2. AzureRotation(j) /\ Rotation(j.a) = <<R, G>>
  BY <1>1 DEF Progress, RotateStage, Rotation
<1>3. G.for = Algorithms /\ G.do = "GetKey" /\ R.do = "RotateKey"
  BY CallFields
<1>4. ~Versioned
  BY DEF Versioned
<1>. HIDE DEF G, R
<1>5. ASSUME call.do # "DisablePrevious", Effected(ans.st, j.a.new), Points(ans.st, ans.reg),
             rest = <<G>> \/ rest = << >>
      PROVE  Answered(j, ans)
  <2>1. ASSUME NEW n, rest # << >>, Moved(j, n, ans.reg, rest)
        PROVE  RotateStage(ans.st, acked, n)
    <3>. HIDE DEF rest
    <3>1. n.todo = <<G>>
      BY Zenon, <1>5, <2>1 DEF Moved
    <3>2. AzureRotation(n)
      BY Zenon, <3>1 DEF AzureRotation, G
    <3>. QED
      BY <3>2 DEF RotateStage
  <2>2. rest = Remaining(Tail(j.todo), ans.reg)
    OBVIOUS
  <2>. HIDE DEF rest, call
  <2>. QED
    BY Zenon, <1>1, <1>4, <1>5, <2>1, <2>2, RotationGoesOn DEF call
<1>6. CASE j.todo = <<R, G>>
  <2>1. call = R /\ Tail(j.todo) = <<G>>
    BY <1>6
  <2>2. call.do = "RotateKey" /\ call.do # "DisablePrevious" /\ Backend # "pkcs11"
    BY <1>3, <2>1
  <2>3. rest = Remaining(<<G>>, ans.reg)
    BY <2>1
  <2>. HIDE DEF rest, call
  <2>4. Effected(ans.st, j.a.new) /\ Points(ans.st, ans.reg)
    BY Zenon, <1>1, <2>2, RotateKeyAnswers DEF call
  <2>5. ans.reg.alg \in Algorithms /\ ~Nil(ans.reg)
    BY Zenon, <2>4, PointsAlg DEF Effected
  <2>6. rest = <<G>> \/ rest = << >>
    BY Zenon, <2>3, <2>5, LeftOne
  <2>. QED
    BY Zenon, <1>5, <2>2, <2>4, <2>6
<1>7. CASE j.todo = <<G>>
  <2>1. call = G /\ Tail(j.todo) = << >>
    BY <1>7
  <2>2. call.do \in Looking
    BY <1>3, <2>1 DEF Looking
  <2>3. rest = << >>
    BY <2>1 DEF Remaining, Skip
  <2>. HIDE DEF rest, call
  <2>4. call.do # "DisablePrevious" /\ Effected(ans.st, j.a.new) /\ Points(ans.st, ans.reg)
    BY Zenon, <2>2, RotationLooks DEF call
  <2>. QED
    BY Zenon, <1>5, <2>3, <2>4
<1>. QED
  <2>1. j.todo = <<R, G>> \/ j.todo = <<G>>
    BY Zenon, <1>2 DEF AzureRotation, G
  <2>. QED
    BY Zenon, <2>1, <1>6, <1>7

\* Any answer to RotateKey of Google leaves the invariant.
LEMMA GcpRotated ==
  ASSUME NEW j, Due(j), j.op = "RotateKey", Backend = "gcp", NEW ans \in Answers(Head(j.todo), j), ans.ok
  PROVE  Answered(j, ans)
<1>. DEFINE call == Head(j.todo)
           t == Aim(call, j)
           rest == Remaining(Tail(j.todo), ans.reg)
           G == Lookup("GetCryptoKey")
           V == Lookup("CreateCryptoKeyVersion")
           Acked == ans.reg.ver \in Nat /\ acked[ans.reg.key] <= ans.reg.ver /\ ans.reg.ver <= ans.st[ans.reg.key].prim
<1>1. Progress(store, acked, j) /\ Keeping /\ IsText(ans.reg) /\ (Nil(t) \/ Within(store, t)) /\ Backend # "pkcs11"
  <2>1. Backend # "pkcs11"
    OBVIOUS
  <2>. QED
    BY Zenon, <2>1, NextCall DEF Due
<1>2. GcpRotation(acked, j) /\ Rotation(j.a) = <<G, V, Promote, PublicHalf>>
  BY <1>1 DEF Progress, RotateStage, Rotation, Promote
<1>3. /\ V.for = Algorithms /\ G.do = "GetCryptoKey" /\ V.do = "CreateCryptoKeyVersion"
      /\ Promote.do = "UpdatePrimary" /\ Promote.for = {"aes"}
      /\ PublicHalf.do = "GetPublicKey" /\ PublicHalf.for = Asymmetric
  BY CallFields DEF PublicHalf, Promote
<1>4. Versioned <=> Family = "aes"
  BY DEF Versioned
<1>. HIDE DEF G, V
<1>5. ASSUME call.do # "DisablePrevious", Effected(ans.st, j.a.new), Points(ans.st, ans.reg),
             \/ rest = <<V, Promote, PublicHalf>>
             \/ rest = <<Promote, PublicHalf>> /\ (Versioned => acked[ans.reg.key] < ans.reg.ver)
             \/ rest = <<PublicHalf>> /\ Family # "aes"
             \/ rest = << >> /\ (Versioned => Acked)
      PROVE  Answered(j, ans)
  <2>1. ASSUME NEW n, rest # << >>, Moved(j, n, ans.reg, rest)
        PROVE  RotateStage(ans.st, acked, n)
    <3>. HIDE DEF rest
    <3>1. n.todo = rest /\ n.reg = ans.reg /\ ~Nil(ans.reg)
      BY Zenon, <1>5, <2>1, PointsThere DEF Moved
    <3>2. GcpRotation(acked, n)
      BY Zenon, <1>5, <2>1, <3>1 DEF GcpRotation, V
    <3>. QED
      BY <3>2 DEF RotateStage
  <2>2. rest = << >> /\ Versioned => Acked
    <3>1. <<V, Promote, PublicHalf>> # << >> /\ <<Promote, PublicHalf>> # << >> /\ <<PublicHalf>> # << >>
      OBVIOUS
    <3>. HIDE DEF rest, Acked
    <3>. QED
      BY Zenon, <1>5, <3>1
  <2>3. rest = Remaining(Tail(j.todo), ans.reg)
    OBVIOUS
  <2>. HIDE DEF rest, call
  <2>. QED
    BY Zenon, <1>1, <1>5, <2>1, <2>2, <2>3, RotationGoesOn DEF call
<1>6. ASSUME call.do \in Looking
      PROVE  /\ call.do # "DisablePrevious" /\ Effected(ans.st, j.a.new) /\ Points(ans.st, ans.reg)
             /\ ~Nil(ans.reg) /\ ans.reg.alg \in Algorithms
  <2>. HIDE DEF call
  <2>. QED
    BY Zenon, <1>6, RotationLooks DEF call
<1>7. ASSUME Effected(ans.st, j.a.new), Points(ans.st, ans.reg)
      PROVE  ans.reg.alg \in Algorithms /\ ~Nil(ans.reg) /\ ans.reg.alg = Family
  BY Zenon, <1>1, <1>7, PointsAlg DEF Effected
<1>8. CASE j.todo = <<G, V, Promote, PublicHalf>>
  <2>1. call = G /\ Tail(j.todo) = <<V, Promote, PublicHalf>>
    BY <1>8
  <2>2. call.do \in Looking
    BY <1>3, <2>1 DEF Looking
  <2>3. rest = Remaining(<<V, Promote, PublicHalf>>, ans.reg)
    BY <2>1
  <2>. HIDE DEF rest, call
  <2>4. ~Nil(ans.reg) /\ ans.reg.alg \in Algorithms /\ V.for = Algorithms
    BY Zenon, <1>3, <1>6, <2>2
  <2>5. rest = <<V, Promote, PublicHalf>>
    BY SMT, <2>3, <2>4, LeftThree
  <2>. QED
    BY Zenon, <1>5, <1>6, <2>2, <2>5
<1>9. CASE j.todo = <<V, Promote, PublicHalf>>
  <2>1. call = V /\ Tail(j.todo) = <<Promote, PublicHalf>>
    BY <1>9
  <2>2. call.do = "CreateCryptoKeyVersion" /\ call.do # "DisablePrevious"
    BY <1>3, <2>1
  <2>3. rest = Remaining(<<Promote, PublicHalf>>, ans.reg)
    BY <2>1
  <2>. HIDE DEF rest, call
  <2>4. Effected(ans.st, j.a.new) /\ Points(ans.st, ans.reg) /\ (Versioned => acked[ans.reg.key] < ans.reg.ver)
    BY Zenon, <1>1, <2>2, NewVersionAnswers DEF call
  <2>5. ans.reg.alg \in Algorithms /\ ~Nil(ans.reg) /\ ans.reg.alg = Family
    BY Zenon, <1>7, <2>4
  <2>6. \/ rest = <<Promote, PublicHalf>>
        \/ rest = <<PublicHalf>> /\ ans.reg.alg \notin Promote.for
        \/ rest = << >> /\ ans.reg.alg \notin Promote.for
    BY SMT, <2>3, <2>5, LeftTwo
  <2>7. ans.reg.alg \notin Promote.for => Family # "aes" /\ ~Versioned
    BY <1>3, <1>4, <2>5
  <2>. HIDE DEF Acked
  <2>8. \/ rest = <<Promote, PublicHalf>> /\ (Versioned => acked[ans.reg.key] < ans.reg.ver)
        \/ rest = <<PublicHalf>> /\ Family # "aes"
        \/ rest = << >> /\ (Versioned => Acked)
    BY Zenon, <2>4, <2>6, <2>7
  <2>. QED
    BY Zenon, <1>5, <2>2, <2>4, <2>8
<1>10. CASE ~Nil(j.reg) /\ j.todo = <<Promote, PublicHalf>> /\ (Versioned => acked[j.reg.key] < j.reg.ver)
  <2>1. call = Promote /\ Tail(j.todo) = <<PublicHalf>>
    BY <1>10
  <2>2. call.do = "UpdatePrimary" /\ call.do # "DisablePrevious"
    BY <1>3, <2>1
  <2>3. rest = Remaining(<<PublicHalf>>, ans.reg)
    BY <2>1
  <2>4. t = j.reg
    BY Zenon, <1>10, <2>2 DEF Aim, Nil
  <2>5. Points(store, t) /\ (Versioned => acked[t.key] < t.ver)
    BY Zenon, <1>1, <1>10, <2>4 DEF Progress
  <2>. HIDE DEF rest, call
  <2>6. /\ Effected(ans.st, j.a.new) /\ ans.reg = t /\ Points(ans.st, ans.reg)
        /\ ans.st[ans.reg.key].prim = ans.reg.ver
    BY Zenon, <1>1, <2>2, <2>5, UpdatePrimaryAnswers DEF call
  <2>7. ans.reg.alg \in Algorithms /\ ~Nil(ans.reg) /\ ans.reg.alg = Family
    BY Zenon, <1>7, <2>6
  <2>8. \/ rest = <<PublicHalf>> /\ ans.reg.alg \in PublicHalf.for
        \/ rest = << >>
    BY SMT, <2>3, <2>7, LeftOne
  <2>9. ans.reg.alg \in PublicHalf.for => Family # "aes"
    BY <1>3, <2>7 DEF Asymmetric
  <2>10. Versioned => Acked
    <3>1. ans.reg.key \in AllNames /\ ans.st[ans.reg.key] # NoKey /\ ans.reg.ver \in DOMAIN ans.st[ans.reg.key].on
      BY Zenon, <2>6 DEF Points, Exists
    <3>2. DOMAIN ans.st[ans.reg.key].on = 1..Len(ans.st[ans.reg.key].on) /\ Len(ans.st[ans.reg.key].on) \in Nat
      BY <2>6, <3>1, KeyThere DEF Effected
    <3>3. ans.reg.ver \in Nat
      BY <3>1, <3>2
    <3>4. Versioned => acked[ans.reg.key] \in Nat
      BY Zenon, <1>1, <3>1 DEF Keeping, Acknowledged
    <3>5. Versioned => acked[ans.reg.key] < ans.reg.ver
      BY Zenon, <2>5, <2>6
    <3>. QED
      BY <2>6, <3>3, <3>4, <3>5
  <2>. HIDE DEF Acked
  <2>11. \/ rest = <<PublicHalf>> /\ Family # "aes"
         \/ rest = << >> /\ (Versioned => Acked)
    BY Zenon, <2>8, <2>9, <2>10
  <2>. QED
    BY Zenon, <1>5, <2>2, <2>6, <2>11
<1>11. CASE j.todo = <<PublicHalf>> /\ Family # "aes"
  <2>1. call = PublicHalf /\ Tail(j.todo) = << >>
    BY <1>11
  <2>2. call.do \in Looking
    BY <1>3, <2>1 DEF Looking
  <2>3. rest = << >>
    BY <2>1 DEF Remaining, Skip
  <2>4. ~Versioned
    BY Zenon, <1>4, <1>11
  <2>. HIDE DEF rest, call, Acked
  <2>. QED
    BY Zenon, <1>5, <1>6, <2>2, <2>3, <2>4
<1>. QED
  <2>1. \/ j.todo = <<G, V, Promote, PublicHalf>>
        \/ j.todo = <<V, Promote, PublicHalf>>
        \/ ~Nil(j.reg) /\ j.todo = <<Promote, PublicHalf>> /\ (Versioned => acked[j.reg.key] < j.reg.ver)
        \/ j.todo = <<PublicHalf>> /\ Family # "aes"
    BY Zenon, <1>2 DEF GcpRotation, V
  <2>. QED
    BY Zenon, <2>1, <1>8, <1>9, <1>10, <1>11

\* The token has disabled the key that a rotation replaced.
LEMMA PreviousDisabled ==
  ASSUME NEW j, Due(j), j.op = "RotateKey", Backend = "pkcs11", NEW ans \in Answers(Head(j.todo), j), ans.ok,
         Head(j.todo).do = "DisablePrevious", ~Nil(j.reg), j.a.opts.rotateDisablesPrev,
         \E n \in Names : store[n].after = j.plan.ref.key
  PROVE  Answered(j, ans)
<1>. DEFINE call == Head(j.todo)
           t == Aim(call, j)
           n == After(j, ans)
<1>1. /\ Progress(store, acked, j) /\ Keeping /\ Given(store, retired, acked, j) /\ IsJob(j)
      /\ Nil(t) \/ Within(store, t)
  BY Zenon, NextCall DEF Due
<1>2. t = j.plan.ref
  BY Zenon DEF Aim
<1>3. env.opts.rotateDisablesPrev
  <2>1. j.a.opts = env.opts
    BY Zenon, <1>1 DEF Given
  <2>. QED
    BY <2>1
<1>4. Replaced(store, Aim(call, j).key)
  BY Zenon, <1>2, <1>3 DEF Replaced
<1>5. call.do \in Disabling
  BY DEF Disabling
<1>6. Effected(ans.st, j.a.new)
  <2>. HIDE DEF call
  <2>. QED
    BY Zenon, <1>1, <1>4, <1>5, TurnOffAnswers DEF call
<1>7. Ended(j, n, j.reg, Fail) \/ \E r : Ending(j, j.reg, ans.val, r) /\ Ended(j, n, j.reg, r)
  BY Zenon, <1>1, AfterDisabling
<1>. HIDE DEF n
<1>8. CASE Ended(j, n, j.reg, Fail)
  BY Zenon, <1>6, <1>8, FailedAnswered DEF n
<1>9. ASSUME NEW r, Ending(j, j.reg, ans.val, r), Ended(j, n, j.reg, r)
      PROVE  Answered(j, ans)
  <2>1. ~Versioned /\ j.op \in Manages /\ j.op # "DeactivateKey" /\ j.op \notin {"DeactivateKey", "EncryptAES"}
    BY DEF Versioned, Manages
  <2>2. j.plan.then = "data" /\ Points(store, j.reg) /\ IsText(j.reg)
    BY Zenon, <1>1, <2>1, DueOp DEF Progress
  <2>3. Points(ans.st, j.reg)
    BY Zenon, <1>6, <2>2, GrowsKeeps DEF Effected
  <2>. QED
    BY Zenon, <1>6, <1>9, <2>1, <2>2, <2>3, DataAnswered DEF n
<1>. QED
  BY Zenon, <1>7, <1>8, <1>9

\* The calls of a token's rotation.
LEMMA TokenCalls ==
  ASSUME Backend = "pkcs11", NEW a
  PROVE  LET A == Needs(Lookup("GetAttributes"), {"aes"} \cup Asymmetric)
             C == Lookup("CreateReplacement")
             D == Lookup("DisablePrevious")
         IN  /\ Rotation(a) = IF a.opts.rotateDisablesPrev THEN <<A, C, PublicHalf, D>> ELSE <<A, C, PublicHalf>>
             /\ Tail(Rotation(a)) = IF a.opts.rotateDisablesPrev THEN <<C, PublicHalf, D>> ELSE <<C, PublicHalf>>
             /\ Head(Rotation(a)) = A /\ Head(Tail(Rotation(a))) = C
             /\ Tail(Tail(Rotation(a))) = IF a.opts.rotateDisablesPrev THEN <<PublicHalf, D>> ELSE <<PublicHalf>>
             /\ A.do = "GetAttributes" /\ C.do = "CreateReplacement" /\ C.for = Algorithms
             /\ D.do = "DisablePrevious" /\ D.for = Algorithms
             /\ PublicHalf.do = "GetPublicKey"
<1>. DEFINE A == Needs(Lookup("GetAttributes"), {"aes"} \cup Asymmetric)
            C == Lookup("CreateReplacement")
            D == Lookup("DisablePrevious")
<1>1. /\ A.do = "GetAttributes" /\ C.do = "CreateReplacement" /\ C.for = Algorithms
      /\ D.do = "DisablePrevious" /\ D.for = Algorithms /\ PublicHalf.do = "GetPublicKey"
  BY CallFields DEF PublicHalf
<1>2. Rotation(a) = IF a.opts.rotateDisablesPrev THEN <<A, C, PublicHalf, D>> ELSE <<A, C, PublicHalf>>
  BY DEF Rotation
<1>. HIDE DEF A, C, D
<1>3. /\ Tail(Rotation(a)) = IF a.opts.rotateDisablesPrev THEN <<C, PublicHalf, D>> ELSE <<C, PublicHalf>>
      /\ Head(Rotation(a)) = A
  BY <1>2
<1>4. /\ Head(Tail(Rotation(a))) = C
      /\ Tail(Tail(Rotation(a))) = IF a.opts.rotateDisablesPrev THEN <<PublicHalf, D>> ELSE <<PublicHalf>>
  <2>. DEFINE s == Tail(Rotation(a))
  <2>1. s = IF a.opts.rotateDisablesPrev THEN <<C, PublicHalf, D>> ELSE <<C, PublicHalf>>
    BY <1>3
  <2>. HIDE DEF s
  <2>2. Head(s) = C /\ Tail(s) = IF a.opts.rotateDisablesPrev THEN <<PublicHalf, D>> ELSE <<PublicHalf>>
    BY <2>1
  <2>. QED
    BY <2>2 DEF s
<1>. QED
  BY <1>1, <1>2, <1>3, <1>4 DEF A, C, D

\* Any answer to RotateKey of a token leaves the invariant.
LEMMA TokenRotated ==
  ASSUME NEW j, Due(j), j.op = "RotateKey", Backend = "pkcs11", NEW ans \in Answers(Head(j.todo), j), ans.ok
  PROVE  Answered(j, ans)
<1>. DEFINE call == Head(j.todo)
           t == Aim(call, j)
           rest == Remaining(Tail(j.todo), ans.reg)
           D == Lookup("DisablePrevious")
           Disables == j.a.opts.rotateDisablesPrev
           Waits == store[j.a.new] = NoKey /\ (Nil(j.reg) \/ j.reg.key = j.plan.ref.key)
           Done(st) == \E n \in Names : st[n].after = j.plan.ref.key
<1>1. /\ Progress(store, acked, j) /\ Keeping /\ Given(store, retired, acked, j)
      /\ IsText(ans.reg) /\ (Nil(t) \/ Within(store, t))
  BY Zenon, NextCall DEF Due
<1>2. TokenRotation(store, j)
  BY <1>1 DEF Progress, RotateStage
<1>3. ~Versioned /\ j.a.new \in Names
  <2>1. Creates(j.op)
    BY DEF Creates
  <2>2. j.a.new \in Names
    BY Zenon, <1>1, <2>1 DEF Given
  <2>3. ~Versioned
    BY DEF Versioned
  <2>. QED
    BY Zenon, <2>2, <2>3
<1>4. PublicHalf.do = "GetPublicKey" /\ D.do = "DisablePrevious" /\ D.for = Algorithms
  BY CallFields DEF PublicHalf
<1>5. ASSUME call.do # "DisablePrevious", Effected(ans.st, j.a.new), Points(ans.st, ans.reg),
             \/ ans.st[j.a.new] = NoKey /\ ans.reg.key = j.plan.ref.key /\ rest = Tail(Rotation(j.a))
             \/ Done(ans.st) /\ rest = <<PublicHalf>>
             \/ Done(ans.st) /\ Disables /\ (rest = <<PublicHalf, D>> \/ rest = <<D>>)
             \/ rest = << >>
      PROVE  Answered(j, ans)
  <2>1. ASSUME NEW n, rest # << >>, Moved(j, n, ans.reg, rest)
        PROVE  RotateStage(ans.st, acked, n)
    <3>1. n.todo = rest /\ n.reg = ans.reg /\ n.a = j.a /\ n.plan = j.plan
      BY Zenon, <2>1 DEF Moved
    <3>2. ~Nil(n.reg)
      BY Zenon, <1>5, <3>1, PointsThere
    <3>. HIDE DEF rest
    <3>3. TokenRotation(ans.st, n)
      <4>1. CASE ans.st[j.a.new] = NoKey /\ ans.reg.key = j.plan.ref.key /\ rest = Tail(Rotation(j.a))
        <5>1. ans.st[n.a.new] = NoKey /\ n.reg.key = n.plan.ref.key /\ n.todo = Tail(Rotation(n.a))
          BY <3>1, <4>1
        <5>. QED
          BY Zenon, <3>2, <5>1 DEF TokenRotation
      <4>2. CASE Done(ans.st) /\ rest = <<PublicHalf>>
        <5>1. (\E k \in Names : ans.st[k].after = n.plan.ref.key) /\ n.todo = <<PublicHalf>>
          BY <3>1, <4>2
        <5>. QED
          BY Zenon, <3>2, <5>1 DEF TokenRotation
      <4>3. CASE Done(ans.st) /\ Disables /\ (rest = <<PublicHalf, D>> \/ rest = <<D>>)
        <5>1. (\E k \in Names : ans.st[k].after = n.plan.ref.key) /\ n.a.opts.rotateDisablesPrev
          BY <3>1, <4>3
        <5>2. n.todo \in {<<PublicHalf, Lookup("DisablePrevious")>>, <<Lookup("DisablePrevious")>>}
          BY Zenon, <3>1, <4>3
        <5>. QED
          BY Zenon, <3>2, <5>1, <5>2 DEF TokenRotation
      <4>. HIDE DEF Done, Disables, t, call, Waits, D
      <4>. QED
        BY Zenon, <1>5, <2>1, <4>1, <4>2, <4>3
    <3>. QED
      BY <3>3 DEF RotateStage
  <2>2. rest = Remaining(Tail(j.todo), ans.reg)
    OBVIOUS
  <2>. HIDE DEF rest, call
  <2>. QED
    BY Zenon, <1>1, <1>3, <1>5, <2>1, <2>2, RotationGoesOn DEF call
<1>6. ASSUME call.do \in Looking
      PROVE  /\ call.do # "DisablePrevious" /\ Effected(ans.st, j.a.new) /\ Points(ans.st, ans.reg)
             /\ ~Nil(ans.reg) /\ ans.reg.alg \in Algorithms /\ ans.st = store /\ ans.reg.key = t.key
  <2>. HIDE DEF call
  <2>. QED
    BY Zenon, <1>6, RotationLooks DEF call
<1>. HIDE DEF D
<1>7. CASE Waits /\ j.todo = Rotation(j.a)
  <2>1. call.do = "GetAttributes"
    BY <1>7, TokenCalls
  <2>2. call.do \in Looking /\ call.do # "DisablePrevious"
    BY <2>1 DEF Looking
  <2>3. t.key = j.plan.ref.key
    BY Zenon, <1>7, <2>2 DEF Aim, Nil
  <2>4. ~Nil(ans.reg) /\ ans.reg.alg \in Algorithms
    BY Zenon, <1>6, <2>2
  <2>5. rest = Remaining(Tail(Rotation(j.a)), ans.reg)
    BY <1>7
  <2>6. rest = Tail(Rotation(j.a))
    <3>. DEFINE C == Lookup("CreateReplacement")
    <3>1. /\ Tail(Rotation(j.a)) = IF Disables THEN <<C, PublicHalf, D>> ELSE <<C, PublicHalf>>
          /\ C.for = Algorithms
      BY TokenCalls DEF D
    <3>. HIDE DEF rest, C, Disables
    <3>2. CASE Disables
      <4>1. Tail(Rotation(j.a)) = <<C, PublicHalf, D>>
        BY <3>1, <3>2
      <4>2. rest = Remaining(<<C, PublicHalf, D>>, ans.reg)
        BY <2>5, <4>1
      <4>3. rest = <<C, PublicHalf, D>>
        BY SMT, <2>4, <3>1, <4>2, LeftThree
      <4>. QED
        BY Zenon, <4>1, <4>3
    <3>3. CASE ~Disables
      <4>1. Tail(Rotation(j.a)) = <<C, PublicHalf>>
        BY <3>1, <3>3
      <4>2. rest = Remaining(<<C, PublicHalf>>, ans.reg)
        BY <2>5, <4>1
      <4>3. rest = <<C, PublicHalf>>
        BY SMT, <2>4, <3>1, <4>2, LeftTwo
      <4>. QED
        BY Zenon, <4>1, <4>3
    <3>. QED
      BY Zenon, <3>2, <3>3
  <2>. HIDE DEF rest, call
  <2>7. ans.st[j.a.new] = NoKey /\ ans.reg.key = j.plan.ref.key
    BY Zenon, <1>6, <1>7, <2>2, <2>3
  <2>. QED
    BY Zenon, <1>5, <1>6, <2>2, <2>6, <2>7
<1>8. CASE Waits /\ ~Nil(j.reg) /\ j.todo = Tail(Rotation(j.a))
  <2>1. call.do = "CreateReplacement" /\ Tail(j.todo) = IF Disables THEN <<PublicHalf, D>> ELSE <<PublicHalf>>
    BY <1>8, TokenCalls DEF D
  <2>2. call.do # "DisablePrevious"
    BY <2>1
  <2>3. t = j.reg
    BY Zenon, <1>8, <2>2 DEF Aim, Nil
  <2>4. Points(store, t) /\ t.key = j.plan.ref.key
    BY Zenon, <1>1, <1>8, <2>3 DEF Progress
  <2>5. Effected(ans.st, j.a.new) /\ Points(ans.st, ans.reg) /\ ans.st[j.a.new].after = t.key
    <3>. HIDE DEF call
    <3>. QED
      BY Zenon, <1>1, <1>3, <1>8, <2>1, <2>4, ReplacementAnswers DEF call
  <2>6. ans.reg.alg \in Algorithms /\ ~Nil(ans.reg)
    BY Zenon, <2>5, PointsAlg DEF Effected
  <2>7. Done(ans.st)
    BY Zenon, <1>3, <2>4, <2>5
  <2>8. (rest = <<PublicHalf>> \/ (Disables /\ (rest = <<PublicHalf, D>> \/ rest = <<D>>))) \/ rest = << >>
    <3>1. CASE Disables
      <4>1. rest = Remaining(<<PublicHalf, D>>, ans.reg)
        BY <2>1, <3>1
      <4>. HIDE DEF rest
      <4>2. rest = <<PublicHalf, D>> \/ rest = <<D>> \/ rest = << >>
        BY SMT, <2>6, <4>1, LeftTwo
      <4>. QED
        BY Zenon, <3>1, <4>2
    <3>2. CASE ~Disables
      <4>1. rest = Remaining(<<PublicHalf>>, ans.reg)
        BY <2>1, <3>2
      <4>. HIDE DEF rest
      <4>2. rest = <<PublicHalf>> \/ rest = << >>
        BY SMT, <2>6, <4>1, LeftOne
      <4>. QED
        BY Zenon, <4>2
    <3>. QED
      BY Zenon, <3>1, <3>2
  <2>. HIDE DEF rest, call, Done
  <2>. QED
    BY Zenon, <1>5, <2>2, <2>5, <2>7, <2>8
<1>9. CASE Done(store) /\ j.todo = <<PublicHalf>>
  <2>1. call = PublicHalf /\ Tail(j.todo) = << >>
    BY <1>9
  <2>2. call.do \in Looking
    BY <1>4, <2>1 DEF Looking
  <2>3. rest = << >>
    BY <2>1 DEF Remaining, Skip
  <2>. HIDE DEF rest, call
  <2>. QED
    BY Zenon, <1>5, <1>6, <2>2, <2>3
<1>10. CASE Done(store) /\ Disables /\ j.todo = <<PublicHalf, D>>
  <2>1. call = PublicHalf /\ Tail(j.todo) = <<D>>
    BY <1>10
  <2>2. call.do \in Looking
    BY <1>4, <2>1 DEF Looking
  <2>3. rest = Remaining(<<D>>, ans.reg)
    BY <2>1
  <2>. HIDE DEF rest, call
  <2>4. rest = <<D>> \/ rest = << >>
    BY Zenon, <1>6, <2>2, <2>3, LeftOne
  <2>5. Done(ans.st)
    BY Zenon, <1>6, <1>10, <2>2
  <2>. HIDE DEF Done
  <2>. QED
    BY Zenon, <1>5, <1>6, <1>10, <2>2, <2>4, <2>5
<1>11. CASE ~Nil(j.reg) /\ Done(store) /\ Disables /\ j.todo = <<D>>
  <2>1. call = D
    BY <1>11
  <2>2. Head(j.todo).do = "DisablePrevious"
    BY <1>4, <2>1
  <2>. QED
    BY Zenon, <1>11, <2>2, PreviousDisabled
<1>. QED
  <2>1. \/ Waits /\ j.todo = Rotation(j.a)
        \/ Waits /\ ~Nil(j.reg) /\ j.todo = Tail(Rotation(j.a))
        \/ Done(store) /\ j.todo = <<PublicHalf>>
        \/ Done(store) /\ Disables /\ j.todo = <<PublicHalf, D>>
        \/ ~Nil(j.reg) /\ Done(store) /\ Disables /\ j.todo = <<D>>
    BY Zenon, <1>2 DEF TokenRotation, D
  <2>. QED
    BY Zenon, <2>1, <1>7, <1>8, <1>9, <1>10, <1>11

\* Whatever a rotation is answered.
LEMMA RotateAnswered ==
  ASSUME NEW j, Due(j), j.op = "RotateKey", NEW ans \in Answers(Head(j.todo), j)
  PROVE  Answered(j, ans)
<1>1. (ans.ok \/ \E why : ans = Refused(why)) /\ Remote /\ Backend \in Backends
  BY Zenon, NextCall, DueOp
<1>2. ASSUME NEW why, ans = Refused(why) PROVE Answered(j, ans)
  BY Zenon, <1>2, RefusedAnswered
<1>3. CASE ans.ok
  <2>1. Backend = "aws" \/ Backend = "azure" \/ Backend = "gcp" \/ Backend = "pkcs11"
    BY <1>1 DEF Remote, Backends
  <2>. QED
    BY Zenon, <1>3, <2>1, AwsRotated, AzureRotated, GcpRotated, TokenRotated
<1>. QED
  BY Zenon, <1>1, <1>2, <1>3

\* Whatever any method is answered.
LEMMA AnyAnswered ==
  ASSUME NEW j, Due(j), NEW ans \in Answers(Head(j.todo), j)
  PROVE  Answered(j, ans)
<1>1. j.op \in AllOps
  BY Zenon, DueOp
<1>2. \/ j.op \in Using \/ j.op \in DOMAIN Seals \/ j.op \in DOMAIN Makes \/ j.op = "GetKey" \/ j.op = "RotateKey"
      \/ j.op = "DeactivateKey"
  BY Zenon, <1>1, Kinds
<1>. QED
  BY Zenon, <1>2, UseAnswered, SealAnswered, MakeAnswered, InspectAnswered, RotateAnswered, DeactivateAnswered

----------------------------------------------------------------------------
(* The steps.                                                              *)

\* The invariant's parts depend on the environment, which never changes, and on
\* what they are about.
LEMMA SameKept ==
  ASSUME env' = env
  PROVE  /\ Remote' <=> Remote
         /\ \A st : KeysOK(st)' <=> KeysOK(st)
         /\ \A st, rt : VersionsKept(st, rt)' <=> VersionsKept(st, rt)
         /\ \A st, ak : Acknowledged(st, ak)' <=> Acknowledged(st, ak)
         /\ \A st, t : Addresses(st, t)' <=> Addresses(st, t)
         /\ \A st, d : DataPoints(st, d)' <=> DataPoints(st, d)
         /\ \A st, art : ArtReal(st, art)' <=> ArtReal(st, art)
         /\ \A st, rt, ak, j : JobKept(st, rt, ak, j)' <=> JobKept(st, rt, ak, j)
<1>1. (Backend' = Backend) /\ (Family' = Family)
  BY DEF Backend, Family
<1>2. (Remote' <=> Remote) /\ (Versioned' <=> Versioned)
  BY <1>1 DEF Remote, Versioned
<1>3. \A k : KeyOK(k)' <=> KeyOK(k)
  BY <1>1 DEF KeyOK
<1>4. \A st : KeysOK(st)' <=> KeysOK(st)
  BY Zenon, <1>3 DEF KeysOK
<1>5. \A st, k : Replaced(st, k)' <=> Replaced(st, k)
  BY Zenon DEF Replaced
<1>6. \A st, rt : VersionsKept(st, rt)' <=> VersionsKept(st, rt)
  BY Zenon, <1>5 DEF VersionsKept
<1>7. \A st, ak : Acknowledged(st, ak)' <=> Acknowledged(st, ak)
  BY Zenon, <1>2 DEF Acknowledged
<1>8. \A st, t : Addresses(st, t)' <=> Addresses(st, t)
  BY Zenon, <1>1 DEF Addresses
<1>9. \A st, d : DataPoints(st, d)' <=> DataPoints(st, d)
  BY Zenon, <1>8 DEF DataPoints
<1>10. \A st, art : ArtReal(st, art)' <=> ArtReal(st, art)
  BY Zenon DEF ArtReal
<1>11. \A op : Creates(op)' <=> Creates(op)
  BY <1>1 DEF Creates
<1>12. \A st, rt, ak, j : Given(st, rt, ak, j)' <=> Given(st, rt, ak, j)
  BY SMT, <1>1, <1>2, <1>8, <1>11 DEF Given
<1>13. \A j : SealStage(j)' <=> SealStage(j)
  BY Zenon, <1>1 DEF SealStage
<1>14. \A size, uses : Creation(size, uses)' = Creation(size, uses)
  BY Zenon, <1>1 DEF Creation
<1>15. \A st, j : MakeStage(st, j)' <=> MakeStage(st, j)
  BY Zenon, <1>1, <1>14 DEF MakeStage
<1>16. (LastLook' = LastLook) /\ (Inspection' = Inspection)
  BY <1>1 DEF LastLook, Inspection
<1>17. \A j : InspectStage(j)' <=> InspectStage(j)
  BY Zenon, <1>1, <1>16 DEF InspectStage
<1>18. \A a : (Rotation(a)' = Rotation(a)) /\ (Deactivation(a)' = Deactivation(a))
  BY <1>1 DEF Rotation, Deactivation
<1>19. \A j : (AwsRotation(j)' <=> AwsRotation(j)) /\ (AzureRotation(j)' <=> AzureRotation(j))
  BY Zenon, <1>18 DEF AwsRotation, AzureRotation
<1>20. \A ak, j : GcpRotation(ak, j)' <=> GcpRotation(ak, j)
  BY Zenon, <1>1, <1>2, <1>18 DEF GcpRotation
<1>21. \A st, j : TokenRotation(st, j)' <=> TokenRotation(st, j)
  BY Zenon, <1>18 DEF TokenRotation
<1>22. \A st, ak, j : RotateStage(st, ak, j)' <=> RotateStage(st, ak, j)
  BY Zenon, <1>1, <1>19, <1>20, <1>21 DEF RotateStage
<1>23. \A j : DisableStage(j)' <=> DisableStage(j)
  BY Zenon, <1>1, <1>18 DEF DisableStage
<1>24. \A st, ak, j : Progress(st, ak, j)' <=> Progress(st, ak, j)
  BY SMT, <1>13, <1>15, <1>17, <1>22, <1>23 DEF Progress
<1>25. \A st, j : Result(st, j)' <=> Result(st, j)
  BY Zenon, <1>2, <1>9, <1>10 DEF Result
<1>26. \A st, rt, ak, j : JobKept(st, rt, ak, j)' <=> JobKept(st, rt, ak, j)
  BY Zenon, <1>12, <1>24, <1>25 DEF JobKept
<1>. QED
  BY <1>2, <1>4, <1>6, <1>7, <1>8, <1>9, <1>10, <1>26

\* The invariant after a step, from its parts.
LEMMA Retained ==
  ASSUME env' = env, KeysOK(store'), acked' = [k \in AllNames |-> acked'[k]], VersionsKept(store', retired'),
         Acknowledged(store', acked'), Nil(env.configured) \/ Addresses(store', env.configured),
         \A d \in held' : DataPoints(store', d), \A e \in arts' : ArtReal(store', e.art),
         OwnNames', \A c \in Clients : JobKept(store', retired', acked', job'[c])
  PROVE  RetentionInv'
<1>1. /\ \A st : KeysOK(st)' <=> KeysOK(st)
      /\ \A st, rt : VersionsKept(st, rt)' <=> VersionsKept(st, rt)
      /\ \A st, ak : Acknowledged(st, ak)' <=> Acknowledged(st, ak)
  BY Zenon, SameKept
<1>2. \A st, t : Addresses(st, t)' <=> Addresses(st, t)
  BY Zenon, SameKept
<1>3. \A st, d : DataPoints(st, d)' <=> DataPoints(st, d)
  BY Zenon, SameKept
<1>4. \A st, art : ArtReal(st, art)' <=> ArtReal(st, art)
  BY Zenon, SameKept
<1>5. \A st, rt, ak, j : JobKept(st, rt, ak, j)' <=> JobKept(st, rt, ak, j)
  BY Zenon, SameKept
<1>6. KeysOK(store)' /\ VersionsKept(store, retired)' /\ Acknowledged(store, acked)'
  BY Zenon, <1>1
<1>7. (Nil(env.configured) \/ Addresses(store, env.configured))'
  BY Zenon, <1>2 DEF Nil
<1>8. \A d \in held' : DataPoints(store, d)'
  BY Zenon, <1>3
<1>9. \A e \in arts' : ArtReal(store, e.art)'
  BY Zenon, <1>4
<1>10. \A c \in Clients : JobKept(store, retired, acked, job[c])'
  BY Zenon, <1>5
<1>. QED
  BY Zenon, <1>6, <1>7, <1>8, <1>9, <1>10 DEF RetentionInv

\* One client's call makes a step; what it does to the keys leaves the others where they are.
LEMMA OneJobKept ==
  ASSUME BindingInv, RetentionInv, Remote, NEW c \in Clients, job[c].st # "idle",
         NEW n, n.a = job[c].a, Effected(store', job[c].a.new),
         JobKept(store', retired', acked', n),
         acked' = [k \in AllNames |-> acked'[k]], Acknowledged(store', acked'),
         Versioned => \A k \in AllNames : acked[k] \in Nat /\ acked'[k] \in Nat /\ acked[k] <= acked'[k],
         (acked' = acked) \/ \A d \in Clients \ {c} : job[d].op # "RotateKey",
         env' = env, held' = held, arts' = arts, retired' = retired, job' = [job EXCEPT ![c] = n]
  PROVE  RetentionInv'
<1>1. job = [d \in Clients |-> job[d]] /\ Backend \in Backends
  BY Zenon DEF BindingInv, EnvOK
<1>2. job'[c] = n /\ \A d \in Clients : d # c => job'[d] = job[d]
  BY <1>1
<1>3. /\ Grows(store, store') /\ KeysOK(store') /\ VersionsKept(store', retired)
      /\ \A x \in Names : x # job[c].a.new /\ store[x] = NoKey => store'[x] = NoKey
  BY Zenon DEF Effected
<1>4. VersionsKept(store', retired')
  BY Zenon, <1>3
<1>5. Nil(env.configured) \/ Addresses(store', env.configured)
  BY Zenon, <1>3, GrowsKeeps DEF RetentionInv
<1>6. (\A d \in held' : DataPoints(store', d)) /\ (\A e \in arts' : ArtReal(store', e.art))
  BY Zenon, <1>3, GrowsKeeps DEF RetentionInv
<1>7. OwnNames'
  <2>1. \A d \in Clients : job'[d].a = job[d].a /\ (job'[d].st # "idle" => job[d].st # "idle")
    BY <1>2
  <2>2. OwnNames
    BY Zenon DEF RetentionInv
  <2>. QED
    BY <2>1, <2>2 DEF OwnNames
<1>8. ASSUME NEW d \in Clients, d # c
      PROVE  JobKept(store', retired', acked', job[d])
  <2>. DEFINE m == job[d]
  <2>1. JobKept(store, retired, acked, m)
    BY Zenon DEF RetentionInv
  <2>2. retired \subseteq retired'
    OBVIOUS
  <2>3. ASSUME m.st # "idle", m.op \in DOMAIN Makes \cup {"RotateKey"}, store[m.a.new] = NoKey
        PROVE  store'[m.a.new] = NoKey
    <3>1. Given(store, retired, acked, m)
      BY Zenon, <2>1, <2>3 DEF JobKept
    <3>2. Creates(m.op)
      <4>1. CASE m.op = "RotateKey"
        BY Zenon, <4>1 DEF Creates
      <4>2. CASE m.op \in DOMAIN Makes
        BY Zenon, <3>1, <4>2 DEF Given
      <4>. QED
        BY Zenon, <2>3, <4>1, <4>2
    <3>3. m.a.new \in Names
      BY Zenon, <3>1, <3>2 DEF Given
    <3>4. m.a.new # "none"
      BY <3>3, NoneIsNoName
    <3>5. m.a.new # job[c].a.new
      BY Zenon, <1>8, <2>3, <3>4 DEF RetentionInv, OwnNames
    <3>. QED
      BY Zenon, <1>3, <2>3, <3>3, <3>5
  <2>4. m.st # "idle" /\ m.op = "RotateKey" => acked' = acked
    BY Zenon, <1>8
  <2>. HIDE DEF m
  <2>5. JobKept(store', retired', acked', m)
    BY Zenon, <1>1, <1>3, <2>1, <2>2, <2>3, <2>4, GrowsJob
  <2>. QED
    BY Zenon, <2>5 DEF m
<1>9. \A d \in Clients : JobKept(store', retired', acked', job'[d])
  BY Zenon, <1>2, <1>8
<1>. QED
  BY Zenon, <1>3, <1>4, <1>5, <1>6, <1>7, <1>9, Retained

\* What an answer leaves of a call.
LEMMA AfterSame ==
  ASSUME NEW j, IsJob(j), NEW ans
  PROVE  After(j, ans).a = j.a /\ After(j, ans).op = j.op
<1>. DEFINE Like(n) == IsJob(n) /\ n.a = j.a /\ n.op = j.op
<1>1. \A n, r, why : Like(n) => Like(Returned(n, r, why))
  <2>. SUFFICES ASSUME NEW n, NEW r, NEW why, Like(n) PROVE Like(Returned(n, r, why))
    OBVIOUS
  <2>1. IsJob(n) /\ n.a = j.a /\ n.op = j.op
    OBVIOUS
  <2>2. IsJob(Returned(n, r, why))
    BY SMT, <2>1, ReturnedJob
  <2>3. Returned(n, r, why).a = n.a
    BY SMT, <2>1, ReturnedJob
  <2>4. Returned(n, r, why).op = n.op
    BY SMT, <2>1, ReturnedJob
  <2>. QED
    BY Zenon, <2>1, <2>2, <2>3, <2>4
<1>2. \A n, reg : Like(n) => Like([n EXCEPT !.reg = reg])
  BY DEF IsJob
<1>3. \A n, todo : Like(n) => Like([n EXCEPT !.todo = todo])
  BY DEF IsJob
<1>4. Like(j)
  OBVIOUS
<1>. HIDE DEF Like
<1>5. Like(After(j, ans))
  BY Zenon, <1>1, <1>2, <1>3, <1>4 DEF After
<1>. QED
  BY Zenon, <1>5 DEF Like

\* A call to the service: what it answers, or a fault that its client sees.
LEMMA ServiceKeeps ==
  ASSUME BindingInv, RetentionInv, Remote, NEW c \in Clients, ServiceCall(c)
  PROVE  RetentionInv'
<1>. DEFINE j == job[c]
<1>1. EnvOK /\ JobOK(j) /\ j.st = "calling" /\ j.st # "idle" /\ JobKept(store, retired, acked, j)
  <2>1. j.st = "calling"
    BY Zenon DEF ServiceCall
  <2>2. j.st # "idle"
    BY <2>1
  <2>. QED
    BY Zenon, <2>1, <2>2 DEF BindingInv, RetentionInv
<1>2. IsJob(j) /\ Called(j) /\ Calling(j) /\ Given(store, retired, acked, j) /\ Progress(store, acked, j)
  BY Zenon, <1>1 DEF JobOK, JobKept
<1>3. Keeping /\ acked = [k \in AllNames |-> acked[k]]
  BY Zenon, <1>1 DEF Keeping, RetentionInv, EnvOK
<1>4. Due(j)
  BY Zenon, <1>1, <1>2, <1>3 DEF Due
<1>5. PICK ans \in Answers(Head(j.todo), j) :
         \/ /\ store' = ans.st
            /\ job' = [job EXCEPT ![c] = After(j, ans)]
            /\ acked' = IF /\ j.op = "RotateKey" /\ job'[c].st = "returned" /\ job'[c].ok
                           /\ \A d \in Clients \ {c} : job[d].op # "RotateKey"
                        THEN [acked EXCEPT ![job'[c].reg.key] = job'[c].reg.ver]
                        ELSE acked
         \/ /\ (store' = store) \/ (store' = ans.st)
            /\ job' = [job EXCEPT ![c] = After(j, Refused("fault"))]
            /\ acked' = acked
  BY Zenon DEF ServiceCall
<1>6. env' = env /\ held' = held /\ arts' = arts /\ retired' = retired
  BY Zenon DEF ServiceCall
<1>7. /\ Effected(ans.st, j.a.new) /\ JobKept(ans.st, retired, acked, After(j, ans)) /\ Acks(ans.st, After(j, ans))
      /\ Effected(store, j.a.new)
  BY Zenon, <1>3, <1>4, AnyAnswered, NothingEffected DEF Answered
<1>8. \A x : After(j, x).a = j.a /\ After(j, x).op = j.op
  BY Zenon, <1>2, AfterSame
<1>9. Versioned => \A k \in AllNames : acked[k] \in Nat
  BY Zenon, <1>3 DEF Keeping, Acknowledged
<1>. HIDE DEF j
<1>10. CASE /\ (store' = store) \/ (store' = ans.st)
            /\ job' = [job EXCEPT ![c] = After(j, Refused("fault"))]
            /\ acked' = acked
  <2>. DEFINE n == After(j, Refused("fault"))
  <2>1. Effected(store', j.a.new)
    BY Zenon, <1>7, <1>10
  <2>2. Grows(store, store') /\ Acknowledged(store', acked')
    BY Zenon, <1>10, <2>1 DEF Effected
  <2>3. JobKept(store', retired', acked', n)
    BY Zenon, <1>4, <1>6, <1>10, <2>2, RefusedKept
  <2>4. Versioned => \A k \in AllNames : acked[k] \in Nat /\ acked'[k] \in Nat /\ acked[k] <= acked'[k]
    BY <1>9, <1>10
  <2>5. acked' = [k \in AllNames |-> acked'[k]]
    BY Zenon, <1>3, <1>10
  <2>6. n.a = job[c].a /\ Effected(store', job[c].a.new) /\ job[c].st # "idle"
    BY Zenon, <1>1, <1>8, <2>1 DEF j
  <2>. HIDE DEF n
  <2>7. job' = [job EXCEPT ![c] = n]
    BY <1>10 DEF n
  <2>. QED
    BY Zenon, <1>6, <1>10, <2>2, <2>3, <2>4, <2>5, <2>6, <2>7, OneJobKept
<1>11. CASE /\ store' = ans.st
            /\ job' = [job EXCEPT ![c] = After(j, ans)]
            /\ acked' = IF /\ j.op = "RotateKey" /\ job'[c].st = "returned" /\ job'[c].ok
                           /\ \A d \in Clients \ {c} : job[d].op # "RotateKey"
                        THEN [acked EXCEPT ![job'[c].reg.key] = job'[c].reg.ver]
                        ELSE acked
  <2>. DEFINE n == After(j, ans)
             Acked == /\ j.op = "RotateKey" /\ n.st = "returned" /\ n.ok
                      /\ \A d \in Clients \ {c} : job[d].op # "RotateKey"
  <2>1. store' = ans.st /\ Effected(store', j.a.new) /\ JobKept(store', retired, acked, n) /\ Acks(store', n)
    BY Zenon, <1>7, <1>11
  <2>2. n.a = job[c].a /\ n.op = j.op /\ Effected(store', job[c].a.new) /\ job[c].st # "idle"
    BY Zenon, <1>1, <1>8, <2>1 DEF j
  <2>. HIDE DEF n
  <2>3. job' = [job EXCEPT ![c] = n]
    BY <1>11 DEF n
  <2>4. job'[c] = n
    <3>1. job = [d \in Clients |-> job[d]]
      BY Zenon DEF BindingInv
    <3>. QED
      BY <2>3, <3>1
  <2>5. acked' = IF Acked THEN [acked EXCEPT ![n.reg.key] = n.reg.ver] ELSE acked
    <3>1. acked' = IF /\ j.op = "RotateKey" /\ job'[c].st = "returned" /\ job'[c].ok
                      /\ \A d \in Clients \ {c} : job[d].op # "RotateKey"
                   THEN [acked EXCEPT ![job'[c].reg.key] = job'[c].reg.ver]
                   ELSE acked
      BY <1>11
    <3>. QED
      BY <2>4, <3>1
  <2>6. Acknowledged(store', acked)
    BY Zenon, <2>1 DEF Effected
  <2>7. CASE ~Acked
    <3>1. acked' = acked
      BY <2>5, <2>7
    <3>2. JobKept(store', retired', acked', n) /\ Acknowledged(store', acked') /\ (acked' = [k \in AllNames |-> acked'[k]])
      BY Zenon, <1>3, <1>6, <2>1, <2>6, <3>1
    <3>3. Versioned => \A k \in AllNames : acked[k] \in Nat /\ acked'[k] \in Nat /\ acked[k] <= acked'[k]
      BY <1>9, <3>1
    <3>. HIDE DEF Acked
    <3>. QED
      BY Zenon, <1>6, <2>2, <2>3, <3>1, <3>2, <3>3, OneJobKept
  <2>8. CASE Acked
    <3>1. acked' = [acked EXCEPT ![n.reg.key] = n.reg.ver]
      BY <2>5, <2>8
    <3>2. n.op = "RotateKey" /\ n.st = "returned" /\ n.ok /\ \A d \in Clients \ {c} : job[d].op # "RotateKey"
      BY Zenon, <2>2, <2>8
    <3>3. Versioned => \A k \in AllNames : n.reg.key = k =>
             n.reg.ver \in Nat /\ acked[k] <= n.reg.ver /\ n.reg.ver <= store'[k].prim
      BY Zenon, <2>1, <3>2 DEF Acks
    <3>4. acked' = [k \in AllNames |-> acked'[k]]
      BY <1>3, <3>1
    <3>5. \A k \in AllNames : acked'[k] = IF k = n.reg.key THEN n.reg.ver ELSE acked[k]
      BY <1>3, <3>1
    <3>6. Versioned => \A k \in AllNames : acked[k] \in Nat /\ acked'[k] \in Nat /\ acked[k] <= acked'[k]
      BY <1>9, <3>3, <3>5
    <3>7. Acknowledged(store', acked')
      BY <2>6, <3>3, <3>5 DEF Acknowledged
    <3>8. JobKept(store', retired', acked', n)
      <4>1. n.st # "idle" /\ n.st # "calling"
        BY <3>2
      <4>2. Given(store', retired, acked, n) /\ Result(store', n)
        BY Zenon, <2>1, <3>2, <4>1 DEF JobKept
      <4>3. Grows(store', store') /\ retired \subseteq retired'
        BY <1>6, GrowsItself
      <4>4. Given(store', retired', acked', n)
        BY Zenon, <3>6, <4>2, <4>3, GrowsGiven
      <4>. QED
        BY Zenon, <4>1, <4>2, <4>4 DEF JobKept
    <3>. HIDE DEF Acked
    <3>. QED
      BY Zenon, <1>6, <2>2, <2>3, <3>2, <3>4, <3>6, <3>7, <3>8, OneJobKept
  <2>. QED
    BY Zenon, <2>7, <2>8
<1>. QED
  BY Zenon, <1>5, <1>10, <1>11

\* What a method has returned is taken.
LEMMA TakeKeeps ==
  ASSUME BindingInv, RetentionInv, NEW c \in Clients, Take(c)
  PROVE  RetentionInv'
<1>. DEFINE j == job[c]
           e == [art |-> j.val, with |-> j.with, uid |-> j.a.uid, add |-> j.a.add]
<1>1. env' = env /\ store' = store /\ retired' = retired /\ acked' = acked /\ j.st = "returned"
  BY Zenon DEF Take
<1>2. job = [d \in Clients |-> job[d]] /\ (job' = [job EXCEPT ![c] = Idle])
  BY Zenon DEF BindingInv, Take
<1>3. job'[c] = Idle /\ \A d \in Clients : d # c => job'[d] = job[d]
  BY <1>2
<1>4. Idle.st = "idle"
  BY DEF Idle
<1>5. JobKept(store, retired, acked, j) /\ OwnNames
  BY Zenon DEF RetentionInv
<1>6. Result(store, j)
  BY Zenon, <1>1, <1>5 DEF JobKept
<1>7. \A d \in held' : DataPoints(store', d)
  <2>1. \A d \in held' : d \in held \/ (j.ok /\ DOMAIN j.val = DOMAIN NoData /\ d = j.val)
    BY DEF Take
  <2>2. j.ok /\ DOMAIN j.val = DOMAIN NoData => DataPoints(store, j.val)
    BY Zenon, <1>6 DEF Result
  <2>3. \A d \in held : DataPoints(store, d)
    BY Zenon DEF RetentionInv
  <2>. HIDE DEF j
  <2>. QED
    BY <1>1, <2>1, <2>2, <2>3
<1>8. \A x \in arts' : ArtReal(store', x.art)
  <2>1. \A x \in arts' : x \in arts \/ (j.ok /\ DOMAIN j.val = DOMAIN NoArt.art /\ x = e)
    BY DEF Take
  <2>2. j.ok /\ DOMAIN j.val = DOMAIN NoArt.art => ArtReal(store, j.val)
    BY Zenon, <1>6 DEF Result
  <2>3. \A x \in arts : ArtReal(store, x.art)
    BY Zenon DEF RetentionInv
  <2>4. e.art = j.val
    OBVIOUS
  <2>. HIDE DEF j, e
  <2>. QED
    BY <1>1, <2>1, <2>2, <2>3, <2>4
<1>9. OwnNames'
  <2>1. \A d \in Clients : job'[d].st # "idle" => job'[d] = job[d]
    BY <1>3, <1>4
  <2>. QED
    BY <1>5, <2>1 DEF OwnNames
<1>10. JobKept(store, retired, acked, Idle)
  <2>1. Idle.st # "calling" /\ Idle.st # "returned"
    BY <1>4
  <2>. QED
    BY Zenon, <1>4, <2>1 DEF JobKept
<1>11. \A d \in Clients : JobKept(store', retired', acked', job'[d])
  BY Zenon, <1>1, <1>3, <1>10 DEF RetentionInv
<1>12. /\ KeysOK(store') /\ (acked' = [k \in AllNames |-> acked'[k]]) /\ VersionsKept(store', retired')
       /\ Acknowledged(store', acked') /\ (Nil(env.configured) \/ Addresses(store', env.configured))
  BY Zenon, <1>1 DEF RetentionInv
<1>. QED
  BY Zenon, <1>1, <1>7, <1>8, <1>9, <1>11, <1>12, Retained

----------------------------------------------------------------------------
(* A method is called.                                                     *)

\* Which methods a client calls, by the family of its keys.
LEMMA FamilyMethods ==
  ASSUME NEW c, Family \in Families, NEW op \in Ops(c)
  PROVE  /\ op \in DOMAIN Makes => Creates(op) /\ Makes[op] = Family
         /\ op = "EncryptAES" => Family = "aes"
<1>1. op \in Manages \/ op \in {p[1] : p \in Pairs[Family]} \/ op \in {p[2] : p \in Pairs[Family]}
      \/ op \in Hashes \/ (Family # "mac" /\ op = Generator[Family])
  BY DEF Ops, Manages
<1>2. CASE op \in Manages \cup Hashes
  BY <1>2 DEF Manages, Hashes, Makes
<1>3. CASE Family # "mac" /\ op = Generator[Family]
  BY <1>3 DEF Families, Generator, Makes, Creates
<1>4. CASE op \in {p[1] : p \in Pairs[Family]} \cup {p[2] : p \in Pairs[Family]}
  <2>1. CASE Family = "aes"
    BY <1>4, <2>1 DEF Pairs, Makes
  <2>2. CASE Family = "rsa"
    BY <1>4, <2>2 DEF Pairs, Makes
  <2>3. CASE Family = "ecdh"
    BY <1>4, <2>3 DEF Pairs, Makes
  <2>4. CASE Family = "ed25519"
    BY <1>4, <2>4 DEF Pairs, Makes
  <2>5. CASE Family = "mac"
    BY <1>4, <2>5 DEF Pairs, Makes
  <2>. QED
    BY <2>1, <2>2, <2>3, <2>4, <2>5 DEF Families
<1>. QED
  BY <1>1, <1>2, <1>3, <1>4

\* The name of the key that a call may make, and the version it must not go back behind.
NewOf(op) == IF Creates(op) THEN CHOOSE n \in Fresh : TRUE ELSE "none"
FloorOf(key) == IF Named(key) \in AllNames THEN acked[Named(key)] ELSE 0

\* The rest of what a call starts from.
LEMMA BegunRest ==
  ASSUME NEW op, NEW x, NEW key
  PROVE  /\ ArgsOf(op, x, key).opts = env.opts /\ ArgsOf(op, x, key).new = NewOf(op)
         /\ JobOf(op, x, key).floor = FloorOf(key) /\ JobOf(op, x, key).todo = << >>
<1>. DEFINE a == ArgsOf(op, x, key)
           j == JobOf(op, x, key)
<1>1. a.opts = env.opts /\ a.new = NewOf(op)
  <2>1. a = [key |-> key, art |-> x.from.art, msg |-> IF x.from = NoArt THEN x.msg ELSE x.from.art.msg,
             add |-> x.add, uid |-> x.uid, size |-> x.size, new |-> NewOf(op),
             configured |-> env.configured, vault |-> env.vault, opts |-> env.opts]
    BY Zenon DEF ArgsOf, NewOf
  <2>. HIDE DEF a
  <2>. QED
    BY <2>1
<1>2. j.floor = FloorOf(key) /\ j.todo = << >>
  <2>1. j = [Idle EXCEPT !.op = op, !.with = x.with, !.from = x.from, !.a = a, !.floor = FloorOf(key)]
    BY Zenon DEF JobOf, FloorOf
  <2>. HIDE DEF a, j
  <2>. QED
    BY <2>1 DEF Idle
<1>. QED
  BY Zenon, <1>1, <1>2

\* The text of a call is that of key data held, or there is none.
LEMMA TextsGiven ==
  ASSUME BindingInv, RetentionInv, Remote, NEW op, NEW d \in held \cup {NoData}, NEW key \in KeyTexts(op, d)
  PROVE  /\ Nil(key) \/ Addresses(store, key)
         /\ op \notin Manages /\ key.form # "ref" => Nil(key) \/ Points(store, key)
<1>1. key \in {d.id, d.ref, d.pub} /\ (op \notin Manages => key \in {d.ref, d.pub})
  BY DEF KeyTexts
<1>2. CASE d = NoData
  BY <1>1, <1>2 DEF NoData, KeyData, Nil
<1>3. CASE d \in held
  <2>1. DataPoints(store, d) /\ DataForms(d)
    BY Zenon, <1>3 DEF RetentionInv, BindingInv, HeldOK
  <2>2. Addresses(store, d.id) /\ Addresses(store, d.ref) /\ (Nil(d.pub) \/ Points(store, d.pub)) /\ d.ref.form = "ref"
    BY Zenon, <2>1 DEF DataPoints, DataForms
  <2>3. \A t : Points(store, t) => Addresses(store, t)
    BY Zenon DEF Addresses
  <2>. QED
    BY <1>1, <2>2, <2>3
<1>. QED
  BY <1>2, <1>3

\* What a call is given.
LEMMA BegunGiven ==
  ASSUME BindingInv, RetentionInv, Remote, NEW c, NEW op \in Ops(c), NEW x \in Arguments(op),
         NEW key \in KeyTexts(op, x.with), Creates(op) => Fresh # {},
         NEW rt, op = "DeactivateKey" => Named(key) \in rt,
         NEW n, n.op = op, n.a = ArgsOf(op, x, key), n.floor = JobOf(op, x, key).floor
  PROVE  /\ Given(store, rt, acked, n)
         /\ Creates(op) => n.a.new \in Fresh
<1>. DEFINE a == ArgsOf(op, x, key)
<1>1. a.key = key /\ a.configured = env.configured /\ a.opts = env.opts
  BY DEF ArgsOf
<1>2. a.new = NewOf(op) /\ n.floor = FloorOf(key)
  <2>1. JobOf(op, x, key).floor = FloorOf(key)
    BY BegunRest
  <2>2. a.new = NewOf(op)
    BY BegunRest
  <2>. QED
    BY <2>1, <2>2
<1>3. x.with \in held \cup {NoData}
  BY DEF Arguments
<1>4. /\ Nil(key) \/ Addresses(store, key)
      /\ op \notin Manages /\ key.form # "ref" => Nil(key) \/ Points(store, key)
  BY Zenon, <1>3, TextsGiven
<1>5. Family \in Families
  BY Zenon DEF BindingInv, EnvOK
<1>6. /\ op \in DOMAIN Makes => Creates(op) /\ Makes[op] = Family
      /\ op = "EncryptAES" => Family = "aes"
  BY Zenon, <1>5, FamilyMethods
<1>. HIDE DEF a
<1>7. n.a = a
  BY DEF a
<1>8. Creates(op) => a.new \in Fresh
  <2>1. ASSUME NEW S, S # {} PROVE (CHOOSE y \in S : TRUE) \in S
    BY Zenon, <2>1
  <2>. QED
    BY Zenon, <1>2, <2>1 DEF NewOf
<1>9. IF Creates(op) THEN a.new \in Names ELSE a.new = "none"
  <2>1. Fresh \subseteq Names
    BY DEF Fresh
  <2>. QED
    BY <1>2, <1>8, <2>1 DEF NewOf
<1>10. Raw(a).key = Named(key)
  BY <1>1 DEF Raw, Named
<1>11. Versioned => \A k \in AllNames : acked[k] \in Nat
  BY Zenon DEF RetentionInv, Acknowledged
<1>12. Versioned => n.floor \in Nat /\ (Raw(a).key \in AllNames => n.floor <= acked[Raw(a).key])
  BY <1>2, <1>10, <1>11 DEF FloorOf
<1>13. Given(store, rt, acked, n)
  <2>1. n.a.opts = env.opts /\ n.a.configured = env.configured
    BY <1>1, <1>7
  <2>2. /\ Nil(n.a.key) \/ Addresses(store, n.a.key)
        /\ n.op \notin Manages /\ n.a.key.form # "ref" => Nil(n.a.key) \/ Points(store, n.a.key)
    BY Zenon, <1>1, <1>4, <1>7
  <2>3. IF Creates(n.op) THEN n.a.new \in Names ELSE n.a.new = "none"
    BY Zenon, <1>7, <1>9
  <2>4. /\ n.op \in DOMAIN Makes => Creates(n.op) /\ Makes[n.op] = Family
        /\ n.op = "EncryptAES" => Family = "aes"
    BY Zenon, <1>6
  <2>5. n.op = "DeactivateKey" => Raw(n.a).key \in rt
    BY Zenon, <1>7, <1>10
  <2>6. n.op = "EncryptAES" /\ Versioned =>
          n.floor \in Nat /\ (Raw(n.a).key \in AllNames => n.floor <= acked[Raw(n.a).key])
    BY Zenon, <1>7, <1>12
  <2>. QED
    BY Zenon, <2>1, <2>2, <2>3, <2>4, <2>5, <2>6 DEF Given
<1>. QED
  BY Zenon, <1>7, <1>8, <1>13

\* The text that a plan is about is that of a key of the service.
LEMMA PlansWithin ==
  ASSUME RetentionInv, Backend \in Backends, NEW rt, NEW n, Given(store, rt, acked, n), NEW ref, RefersTo(n.a, ref)
  PROVE  Within(store, ref)
<1>1. Raw(n.a) # NoText /\ ref.key = Raw(n.a).key /\ ref.ver \in {Raw(n.a).ver, 0}
  BY Zenon DEF RefersTo
<1>2. Addresses(store, Raw(n.a))
  <2>1. Nil(n.a.key) \/ Addresses(store, n.a.key)
    BY Zenon DEF Given
  <2>2. Nil(n.a.configured) \/ Addresses(store, n.a.configured)
    BY Zenon DEF Given, RetentionInv
  <2>. QED
    BY <1>1, <2>1, <2>2 DEF Raw, Nil
<1>. QED
  BY <1>1, <1>2 DEF Addresses, Points, Exists, Within

\* A method that begins with a call to the service.
LEMMA BegunProgress ==
  ASSUME RetentionInv, EnvOK, Remote, NEW n, n.op \in AllOps, Foreign(n.a),
         NEW rt, Given(store, rt, acked, n), Creates(n.op) => store[n.a.new] = NoKey,
         NEW r, r = Method(n.op, n.a), r.step = "ask", n.plan = r, n.todo = r.calls, n.reg = NoText
  PROVE  Progress(store, acked, n)
<1>. DEFINE op == n.op
           a == n.a
<1>1. Planned(op, a, r) /\ r # Fail /\ Nil(n.reg)
  <2>1. Planned(op, a, r)
    BY Zenon, MethodPlanned DEF EnvOK
  <2>2. r # Fail
    BY DEF Fail
  <2>. QED
    BY Zenon, <2>1, <2>2 DEF Nil
<1>2. \A ref, calls_, then : r = Ask(ref, calls_, then) => n.plan.ref = ref /\ n.todo = calls_ /\ n.plan.then = then
  BY DEF Ask
<1>3. \A ref : RefersTo(a, ref) => Within(store, ref)
  BY Zenon, PlansWithin DEF EnvOK
<1>4. \A v : r # Give(v)
  BY DEF Give
<1>5. CASE op \in Using
  <2>1. \E ref, call, then : r = Ask(ref, <<call>>, then) /\ RefersTo(a, ref) /\ UseCall(call) /\ then \in Thens
    <3>1. UsePlan(a, r)
      BY Zenon, <1>1, <1>5 DEF Planned
    <3>. QED
      BY Zenon, <1>1, <1>4, <3>1 DEF UsePlan
  <2>2. PICK ref, call, then : r = Ask(ref, <<call>>, then) /\ RefersTo(a, ref) /\ UseCall(call) /\ then \in Thens
    BY Zenon, <2>1
  <2>3. call.do \in Reading /\ call.else \in {"fail", "Derive"}
    BY <2>2 DEF UseCall, Reading
  <2>4. n.plan.ref = ref /\ n.todo = <<call>> /\ n.plan.then = then
    BY Zenon, <1>2, <2>2
  <2>5. UseStage(n)
    BY Zenon, <2>3, <2>4 DEF UseStage
  <2>6. Within(store, n.plan.ref) /\ n.plan.then \in Thens
    BY Zenon, <1>3, <2>2, <2>4
  <2>7. op \notin DOMAIN Seals \cup DOMAIN Makes \cup Manages /\ op # "GetKey" /\ op # "RotateKey" /\ op # "DeactivateKey"
    BY <1>5 DEF Using, Seals, Makes, Manages
  <2>. QED
    BY Zenon, <1>1, <2>5, <2>6, <2>7 DEF Progress
<1>6. CASE op \in DOMAIN Seals
  <2>1. SealPlan(a, r, Seals[op])
    <3>1. CASE op = "EncryptAES"
      BY <1>1, <3>1 DEF Planned, Seals
    <3>2. CASE op = "DecryptAES"
      BY <1>1, <3>2 DEF Planned, Seals
    <3>. QED
      BY <1>6, <3>1, <3>2 DEF Seals
  <2>2. PICK ref : /\ r = Ask(ref, <<Call(Seals[op], "aes", Bind(a.uid, a.add))>>, "value")
                   /\ RefersTo(a, ref) /\ (Backend = "gcp" => ref.ver = 0)
    BY Zenon, <1>1, <2>1 DEF SealPlan
  <2>3. n.plan.ref = ref
    BY Zenon, <1>2, <2>2
  <2>4. SealStage(n) /\ Within(store, n.plan.ref)
    BY Zenon, <1>1, <1>3, <2>2, <2>3 DEF SealStage
  <2>5. op \notin Using \cup DOMAIN Makes \cup Manages /\ op # "GetKey" /\ op # "RotateKey" /\ op # "DeactivateKey"
    BY <1>6 DEF Using, Seals, Makes, Manages
  <2>. QED
    BY Zenon, <1>1, <2>4, <2>5 DEF Progress
<1>7. CASE op \in DOMAIN Makes
  <2>1. MakePlan(Family, r) /\ Creates(op)
    <3>1. MakePlan(Makes[op], r)
      BY Zenon, <1>1, <1>7 DEF Planned
    <3>2. Makes[op] = Family /\ Creates(op)
      BY Zenon, <1>7 DEF Given
    <3>. QED
      BY Zenon, <3>1, <3>2
  <2>2. PICK size, uses :
          \/ r = Ask(NoText, <<Creation(size, uses)>>, "data")
          \/ r = Ask(NoText, <<Creation(size, uses), PublicKey>>, "data")
          \/ Backend = "gcp" /\ r = Ask(NoText, <<Creation(size, uses), NewVersion, PublicKey>>, "data")
    BY Zenon, <1>1, <2>1 DEF MakePlan, Creation, PublicKey, NewVersion
  <2>3. /\ n.plan.ref = NoText /\ n.plan.then = "data"
        /\ \/ n.todo = <<Creation(size, uses)>>
           \/ n.todo = <<Creation(size, uses), PublicKey>>
           \/ Backend = "gcp" /\ n.todo = <<Creation(size, uses), NewVersion, PublicKey>>
    BY <2>2 DEF Ask
  <2>4. MakeStage(store, n) /\ Nil(n.plan.ref)
    BY Zenon, <2>1, <2>3 DEF MakeStage, Nil
  <2>5. op \notin Using \cup DOMAIN Seals \cup Manages /\ op # "GetKey" /\ op # "RotateKey" /\ op # "DeactivateKey"
    BY <1>7 DEF Using, Seals, Makes, Manages
  <2>. QED
    BY Zenon, <1>1, <2>3, <2>4, <2>5 DEF Progress
<1>8. CASE op \in Manages
  <2>1. op = "RotateKey" \/ op = "GetKey" \/ op = "DeactivateKey"
    BY <1>8 DEF Manages
  <2>2. op \notin Using \cup DOMAIN Seals \cup DOMAIN Makes
    BY <1>8 DEF Using, Seals, Makes, Manages
  <2>3. ASSUME NEW calls_, NEW then, ManagePlan(a, r, calls_, then)
        PROVE  /\ n.todo = calls_ /\ n.plan.then = then /\ RefersTo(a, n.plan.ref) /\ n.plan.ref.ver = Raw(a).ver
               /\ Within(store, n.plan.ref)
    <3>1. PICK ref : r = Ask(ref, calls_, then) /\ RefersTo(a, ref) /\ ref.ver = Raw(a).ver
      BY Zenon, <1>1, <2>3 DEF ManagePlan
    <3>. QED
      BY <1>2, <1>3, <3>1
  <2>4. CASE op = "RotateKey"
    <3>1. op # "GetKey" /\ op # "DeactivateKey"
      BY <2>4
    <3>2. ManagePlan(a, r, Rotation(a), "data")
      BY Zenon, <1>1, <2>4 DEF Planned
    <3>3. /\ n.todo = Rotation(a) /\ n.plan.then = "data" /\ RefersTo(a, n.plan.ref) /\ n.plan.ref.ver = Raw(a).ver
          /\ Within(store, n.plan.ref)
      BY Zenon, <2>3, <3>2
    <3>4. Creates(op)
      BY Zenon, <2>4 DEF Creates
    <3>5. RotateStage(store, acked, n)
      BY Zenon, <1>1, <3>3, <3>4 DEF RotateStage, AwsRotation, AzureRotation, GcpRotation, TokenRotation
    <3>. QED
      BY Zenon, <1>1, <2>2, <3>1, <3>3, <3>5 DEF Progress
  <2>5. CASE op = "GetKey"
    <3>1. op # "RotateKey" /\ op # "DeactivateKey"
      BY <2>5
    <3>2. ManagePlan(a, r, Inspection, "data")
      BY Zenon, <1>1, <2>5 DEF Planned
    <3>3. /\ n.todo = Inspection /\ n.plan.then = "data" /\ RefersTo(a, n.plan.ref) /\ n.plan.ref.ver = Raw(a).ver
          /\ Within(store, n.plan.ref)
      BY Zenon, <2>3, <3>2
    <3>4. InspectStage(n)
      BY Zenon, <3>3 DEF InspectStage
    <3>. QED
      BY Zenon, <1>1, <2>2, <3>1, <3>3, <3>4 DEF Progress
  <2>6. CASE op = "DeactivateKey"
    <3>1. op # "RotateKey" /\ op # "GetKey"
      BY <2>6
    <3>2. ManagePlan(a, r, Deactivation(a), "none")
      BY Zenon, <1>1, <2>6 DEF Planned
    <3>3. /\ n.todo = Deactivation(a) /\ n.plan.then = "none" /\ RefersTo(a, n.plan.ref) /\ n.plan.ref.ver = Raw(a).ver
          /\ Within(store, n.plan.ref)
      BY Zenon, <2>3, <3>2
    <3>4. DisableStage(n)
      BY Zenon, <1>1, <3>3 DEF DisableStage
    <3>. QED
      BY Zenon, <1>1, <2>2, <2>6, <3>1, <3>3, <3>4 DEF Progress
  <2>. QED
    BY Zenon, <2>1, <2>4, <2>5, <2>6
<1>9. op \in Using \/ op \in DOMAIN Seals \/ op \in DOMAIN Makes \/ op \in Manages
  BY DEF AllOps, Seals
<1>. QED
  BY Zenon, <1>5, <1>6, <1>7, <1>8, <1>9

\* A method that ends without a call to the service.
LEMMA BegunResult ==
  ASSUME RetentionInv, EnvOK, Remote, NEW j, IsJob(j), j.op \in AllOps, Foreign(j.a), j.reg = NoText,
         NEW rt, Given(store, rt, acked, j),
         NEW r, r = Fail \/ r = Method(j.op, j.a), r.step # "ask", NEW why, NEW n, n = Returned(j, r, why)
  PROVE  Ended(j, n, NoText, r) /\ Result(store, n)
<1>1. Ended(j, n, NoText, r)
  <2>1. Ended(j, n, j.reg, r)
    BY Zenon, EndsSo
  <2>. QED
    BY Zenon, <2>1
<1>2. n.op = j.op /\ n.a = j.a
  BY Zenon, <1>1 DEF Ended
<1>3. CASE r = Fail
  <2>1. r.step # "give"
    BY <1>3 DEF Fail
  <2>2. n.ok => j.op \in Hashes /\ n.val = NoDigest
    BY <1>1, <2>1 DEF Ended
  <2>3. j.op \in Hashes => n.op \notin {"DeactivateKey", "EncryptAES"}
    BY <1>2 DEF Hashes
  <2>4. Harmless(NoDigest)
    BY Zenon DEF Harmless, NoDigest, Digest
  <2>5. CASE n.ok
    <3>1. Harmless(n.val) /\ n.op \notin {"DeactivateKey", "EncryptAES"}
      BY Zenon, <2>2, <2>3, <2>4, <2>5
    <3>2. Result(store, n)
      BY Zenon, <3>1, HarmlessResult
    <3>. QED
      BY Zenon, <1>1, <3>2
  <2>6. CASE ~n.ok
    BY Zenon, <1>1, <2>6 DEF Result
  <2>. QED
    BY Zenon, <2>5, <2>6
<1>4. CASE r # Fail
  <2>1. Planned(j.op, j.a, r)
    BY Zenon, <1>4, MethodPlanned DEF EnvOK
  <2>2. \A ref, calls_, then : r # Ask(ref, calls_, then)
    BY DEF Ask
  <2>3. j.op \in Using
    <3>1. j.op \notin DOMAIN Seals
      <4>1. j.op \notin {"EncryptAES", "DecryptAES"}
        BY Zenon, <1>4, <2>1, <2>2 DEF Planned, SealPlan
      <4>. QED
        BY <4>1 DEF Seals
    <3>2. j.op \notin DOMAIN Makes
      BY Zenon, <1>4, <2>1, <2>2 DEF Planned, MakePlan
    <3>3. j.op # "RotateKey" /\ j.op # "GetKey" /\ j.op # "DeactivateKey"
      BY Zenon, <1>4, <2>1, <2>2 DEF Planned, ManagePlan
    <3>. QED
      BY <3>1, <3>2, <3>3 DEF AllOps, Manages, Seals
  <2>4. UsePlan(j.a, r)
    BY Zenon, <2>1, <2>3 DEF Planned
  <2>5. PICK v : r = Give(v) /\ Computed(j.a, v)
    BY Zenon, <1>4, <2>2, <2>4 DEF UsePlan
  <2>6. r.step = "give" /\ r.val = v
    BY <2>5 DEF Give
  <2>7. n.val = v
    BY Zenon, <1>1, <2>6 DEF Ended
  <2>8. n.op \notin {"DeactivateKey", "EncryptAES"} /\ j.op \notin Manages
    BY <1>2, <2>3 DEF Using, Manages
  <2>9. CASE Harmless(v)
    <3>1. Result(store, n)
      BY Zenon, <2>7, <2>8, <2>9, HarmlessResult
    <3>. QED
      BY Zenon, <1>1, <3>1
  <2>10. CASE \E kind, bind : v = Sealed(kind, j.a.key, j.a.msg, bind) /\ kind # "aes" /\ j.a.key.form # "ref"
    <3>1. PICK kind, bind : v = Sealed(kind, j.a.key, j.a.msg, bind) /\ j.a.key.form # "ref"
      BY Zenon, <2>10
    <3>2. Nil(j.a.key) \/ Points(store, j.a.key)
      BY Zenon, <2>8, <3>1 DEF Given
    <3>3. Real(store, j.a.key)
      <4>1. NoText.key \notin AllNames
        BY NoneIsNoName DEF NoText, Text
      <4>. QED
        BY Zenon, <3>2, <4>1 DEF Real, Nil
    <3>4. Result(store, n)
      BY Zenon, <2>7, <2>8, <3>1, <3>3, SealedResult
    <3>. QED
      BY Zenon, <1>1, <3>4
  <2>. QED
    BY Zenon, <2>5, <2>9, <2>10 DEF Computed
<1>. QED
  BY Zenon, <1>3, <1>4

\* A call begins, or ends at once.
LEMMA CallKeeps ==
  ASSUME BindingInv, RetentionInv, Remote, NEW c \in Clients, Call_(c)
  PROVE  RetentionInv'
<1>1. EnvOK /\ Backend \in Backends /\ Family \in Families /\ job = [d \in Clients |-> job[d]] /\ HeldOK
  BY Zenon DEF BindingInv, EnvOK
<1>2. PICK op \in Ops(c) : \E x \in Arguments(op) : \E key \in KeyTexts(op, x.with) : Begins(c, op, x, key)
  BY Zenon, CallBegins
<1>3. PICK x \in Arguments(op) : \E key \in KeyTexts(op, x.with) : Begins(c, op, x, key)
  BY Zenon, <1>2
<1>4. PICK key \in KeyTexts(op, x.with) : Begins(c, op, x, key)
  BY Zenon, <1>3
<1>. DEFINE a == ArgsOf(op, x, key)
           j == JobOf(op, x, key)
<1>5. PICK r, why : (r = Fail \/ r = Method(op, a)) /\ job' = [job EXCEPT ![c] = Started(j, r, why)]
  <2>. HIDE DEF a, j
  <2>1. \E s, w : /\ s = Fail \/ s = Method(op, a)
                  /\ job' = [job EXCEPT ![c] = Started(j, s, w)]
    BY <1>4, BeginsJob DEF a, j
  <2>. QED
    BY Zenon, <2>1
<1>. DEFINE n == Started(j, r, why)
<1>6. job' = [job EXCEPT ![c] = n]
  BY Zenon, <1>5
<1>7. IsJob(j) /\ j.op = op /\ j.a = a /\ j.reg = NoText /\ a.key = key /\ a.configured = env.configured
  BY BegunJob
<1>8. /\ Creates(op) => Fresh # {}
      /\ retired' = IF op = "DeactivateKey" THEN retired \cup {Named(key)} ELSE retired
  BY Zenon, <1>4 DEF Begins
<1>9. env' = env /\ held' = held /\ arts' = arts /\ store' = store /\ acked' = acked
  BY Zenon DEF Call_
<1>10. retired \subseteq retired' /\ (op = "DeactivateKey" => Named(key) \in retired')
  BY <1>8
<1>11. Given(store, retired', acked, j) /\ (Creates(op) => j.a.new \in Fresh)
  BY Zenon, <1>7, <1>8, <1>10, BegunGiven
<1>12. Foreign(a)
  <2>1. key \in {x.with.id, x.with.ref, x.with.pub} /\ x.with \in held \cup {NoData}
    BY DEF KeyTexts, Arguments
  <2>2. x.with = NoData \/ DataForms(x.with)
    BY <1>1, <2>1 DEF HeldOK
  <2>3. x.with = NoData => key = NoText
    BY <2>1 DEF NoData, KeyData
  <2>. HIDE DEF a
  <2>. QED
    BY <1>1, <1>7, <2>1, <2>2, <2>3, TextForms DEF Foreign, DataForms, EnvOK
<1>13. op \in AllOps
  BY Zenon, <1>1, CalledMethods
<1>. HIDE DEF a, j
<1>14. Creates(op) => store[j.a.new] = NoKey /\ \A d \in Clients : job[d].st # "idle" => job[d].a.new # j.a.new
  <2>. SUFFICES ASSUME Creates(op)
               PROVE  store[j.a.new] = NoKey /\ \A d \in Clients : job[d].st # "idle" => job[d].a.new # j.a.new
    OBVIOUS
  <2>1. j.a.new \in Fresh
    BY Zenon, <1>11
  <2>. QED
    BY <2>1 DEF Fresh
<1>15. n.a = j.a /\ JobKept(store, retired', acked, n)
  <2>1. CASE r.step # "ask"
    <3>1. n = Returned(j, r, why)
      BY <2>1 DEF Started
    <3>. HIDE DEF n
    <3>2. r = Fail \/ r = Method(j.op, j.a)
      BY Zenon, <1>5, <1>7
    <3>3. j.op \in AllOps /\ Foreign(j.a)
      BY Zenon, <1>7, <1>12, <1>13
    <3>4. Ended(j, n, NoText, r) /\ Result(store, n)
      BY Zenon, <1>1, <1>7, <1>11, <2>1, <3>1, <3>2, <3>3, BegunResult
    <3>5. n.st = "returned" /\ n.op = j.op /\ n.a = j.a /\ n.floor = j.floor
      BY Zenon, <3>4 DEF Ended
    <3>6. n.st # "calling"
      BY <3>5
    <3>7. Given(store, retired', acked, n)
      BY Zenon, <1>11, <3>5 DEF Given
    <3>. QED
      BY Zenon, <3>4, <3>5, <3>6, <3>7 DEF JobKept
  <2>2. CASE r.step = "ask"
    <3>1. n = [j EXCEPT !.st = "calling", !.plan = r, !.todo = r.calls]
      BY <2>2 DEF Started
    <3>2. /\ n.st = "calling" /\ n.op = j.op /\ n.a = j.a /\ n.reg = NoText /\ n.floor = j.floor
          /\ n.plan = r /\ n.todo = r.calls
      BY <1>7, <3>1 DEF IsJob
    <3>. HIDE DEF n
    <3>3. Given(store, retired', acked, n)
      BY Zenon, <1>11, <3>2 DEF Given
    <3>4. r = Method(n.op, n.a)
      <4>1. r # Fail
        BY <2>2 DEF Fail
      <4>. QED
        BY Zenon, <1>5, <1>7, <3>2, <4>1
    <3>5. n.op \in AllOps /\ Foreign(n.a) /\ (Creates(n.op) => store[n.a.new] = NoKey)
      BY Zenon, <1>7, <1>12, <1>13, <1>14, <3>2
    <3>6. Progress(store, acked, n)
      BY Zenon, <1>1, <2>2, <3>2, <3>3, <3>4, <3>5, BegunProgress
    <3>7. n.st # "returned"
      BY <3>2
    <3>. QED
      BY Zenon, <3>2, <3>3, <3>6, <3>7 DEF JobKept
  <2>. QED
    BY Zenon, <2>1, <2>2
<1>. HIDE DEF n
<1>16. job'[c] = n /\ \A d \in Clients : d # c => job'[d] = job[d]
  BY <1>1, <1>6
<1>17. ASSUME NEW d \in Clients, d # c
       PROVE  JobKept(store, retired', acked, job[d])
  <2>. DEFINE m == job[d]
  <2>1. JobKept(store, retired, acked, m) /\ Grows(store, store)
    BY Zenon, GrowsItself DEF RetentionInv
  <2>2. Versioned => \A k \in AllNames : acked[k] \in Nat
    BY Zenon DEF RetentionInv, Acknowledged
  <2>3. Versioned => \A k \in AllNames : acked[k] \in Nat /\ acked[k] \in Nat /\ acked[k] <= acked[k]
    BY <2>2
  <2>. HIDE DEF m
  <2>4. JobKept(store, retired', acked, m)
    BY Zenon, <1>1, <1>10, <2>1, <2>3, GrowsJob
  <2>. QED
    BY Zenon, <2>4 DEF m
<1>18. \A d \in Clients : JobKept(store', retired', acked', job'[d])
  BY Zenon, <1>9, <1>15, <1>16, <1>17
<1>19. OwnNames'
  <2>1. OwnNames
    BY Zenon DEF RetentionInv
  <2>2. j.a.new = "none" \/ \A d \in Clients : job[d].st # "idle" => job[d].a.new # j.a.new
    <3>1. Creates(op) \/ j.a.new = "none"
      BY Zenon, <1>7, <1>11 DEF Given
    <3>. QED
      BY Zenon, <1>14, <3>1
  <2>. SUFFICES ASSUME NEW e \in Clients, NEW d \in Clients, e # d, job'[e].st # "idle", job'[d].st # "idle"
               PROVE  job'[e].a.new = "none" \/ job'[e].a.new # job'[d].a.new
    BY DEF OwnNames
  <2>3. CASE e = c
    BY <1>15, <1>16, <2>2, <2>3
  <2>4. CASE e # c /\ d = c
    BY <1>15, <1>16, <2>2, <2>4
  <2>5. CASE e # c /\ d # c
    BY <1>16, <2>1, <2>5 DEF OwnNames
  <2>. QED
    BY <2>3, <2>4, <2>5
<1>20. VersionsKept(store', retired')
  <2>1. VersionsKept(store, retired)
    BY Zenon DEF RetentionInv
  <2>. QED
    BY <1>9, <1>10, <2>1 DEF VersionsKept
<1>21. /\ KeysOK(store') /\ (acked' = [k \in AllNames |-> acked'[k]]) /\ Acknowledged(store', acked')
       /\ Nil(env.configured) \/ Addresses(store', env.configured)
       /\ \A d \in held' : DataPoints(store', d)
       /\ \A e \in arts' : ArtReal(store', e.art)
  BY Zenon, <1>9 DEF RetentionInv
<1>. QED
  BY Zenon, <1>9, <1>18, <1>19, <1>20, <1>21, Retained

----------------------------------------------------------------------------
(* The invariant, and what follows from it.                                *)

\* A key as it is made.
LEMMA MadeKey ==
  ASSUME NEW size, NEW uses, NEW k, k = NewKey(Family, size, uses, "none"), Family \in Families
  PROVE  /\ k # NoKey /\ KeyOK(k) /\ k.alg = Family /\ k.on = <<TRUE>> /\ k.prim \in Nat
         /\ DOMAIN k.on = {1} /\ k.on[1]
<1>. DEFINE p == IF Backend = "gcp" /\ Family # "aes" THEN 0 ELSE 1
           on == <<TRUE>>
<1>1. k = [alg |-> Family, size |-> size, uses |-> uses, on |-> on, prim |-> p, after |-> "none"]
  BY DEF NewKey
<1>2. p \in {0, 1} /\ (Backend # "gcp" => p # 0)
  OBVIOUS
<1>3. on \in Seq(BOOLEAN) /\ Len(on) = 1 /\ DOMAIN on = {1} /\ on[1] /\ on # << >>
  <2>1. <<TRUE>> \in Seq(BOOLEAN) /\ Len(<<TRUE>>) = 1 /\ DOMAIN <<TRUE>> = {1} /\ <<TRUE>>[1] = TRUE
    OBVIOUS
  <2>2. <<TRUE>> # << >>
    OBVIOUS
  <2>. QED
    BY <2>1, <2>2
<1>4. on = <<TRUE>>
  OBVIOUS
<1>. HIDE DEF p, on
<1>5. /\ k = [alg |-> k.alg, size |-> k.size, uses |-> k.uses, on |-> k.on, prim |-> k.prim, after |-> k.after]
      /\ k.on = on /\ k.alg = Family /\ k.prim = p
  BY <1>1
<1>6. k # NoKey
  <2>1. NoKey.on = << >>
    BY DEF NoKey
  <2>. QED
    BY <1>3, <1>5, <2>1
<1>7. KeyOK(k)
  <2>1. k.on \in Seq(BOOLEAN) /\ k.on # << >> /\ k.prim \in 0..Len(k.on) /\ Len(k.on) = 1
    BY <1>2, <1>3, <1>5
  <2>2. Family \in Algorithms
    BY DEF Families, Algorithms
  <2>. QED
    BY <1>2, <1>5, <2>1, <2>2 DEF KeyOK
<1>8. k.prim \in Nat /\ DOMAIN k.on = {1} /\ k.on[1]
  BY <1>2, <1>3, <1>5
<1>. QED
  BY Zenon, <1>4, <1>5, <1>6, <1>7, <1>8

\* The invariant holds of the keys that an operator has made beforehand.
LEMMA KeptInit ==
  ASSUME Init
  PROVE  KeptInv
<1>. USE KeysAssumption
<1>1. PICK i \in Instances : \E o \in Options(i[1], i[2]) : \E configured \in BOOLEAN :
         /\ configured => i[1] # "local"
         /\ i[1] = "gcp" => configured
         /\ env = [backend |-> i[1], family |-> i[2], opts |-> o, vault |-> TRUE,
                   configured |-> IF configured THEN ConfiguredText(i[1], i[2]) ELSE NoText]
  BY Zenon DEF Init
<1>2. PICK configured \in BOOLEAN :
         /\ configured => Backend # "local"
         /\ env.configured = IF configured THEN ConfiguredText(Backend, Family) ELSE NoText
  BY <1>1 DEF Backend, Family
<1>. DEFINE cfg == env.configured
           made == NewKey(Family, cfg.size, OperatorUses[Family], "none")
<1>3. /\ store = [n \in AllNames |-> IF n = Configured /\ cfg # NoText THEN made ELSE NoKey]
      /\ held = IF cfg = NoText THEN {} ELSE {DataOf([cfg EXCEPT !.ver = 1])}
      /\ arts = {} /\ job = [c \in Clients |-> Idle] /\ retired = {} /\ acked = [n \in AllNames |-> 0]
  BY Zenon DEF Init
<1>4. Backend \in Backends /\ Family \in Families /\ IsText(cfg)
  BY Zenon, BindingInit DEF BindingInv, EnvOK
<1>5. cfg # NoText => /\ cfg.key = Configured /\ cfg.alg = Family /\ Remote
                      /\ cfg.ver = 1 \/ (cfg.ver = 0 /\ Backend # "pkcs11")
  BY <1>2 DEF ConfiguredText, Text, Remote
<1>. HIDE DEF Init, cfg, made
<1>6. /\ made # NoKey /\ KeyOK(made) /\ made.alg = Family /\ made.on = <<TRUE>> /\ made.prim \in Nat
      /\ DOMAIN made.on = {1} /\ made.on[1]
  BY <1>4, MadeKey DEF made
<1>7. KeyOK(NoKey) /\ NoKey.on = << >> /\ NoKey.prim = 0 /\ DOMAIN NoKey.on = {}
  BY DEF KeyOK, NoKey
<1>8. \A k \in AllNames : store[k] \in {made, NoKey}
  BY <1>3
<1>9. CASE ~Remote
  <2>1. store = [k \in AllNames |-> NoKey]
    BY <1>3, <1>5, <1>9
  <2>2. \A c \in Clients : job[c].op # "DeactivateKey"
    BY <1>3 DEF Idle
  <2>. QED
    BY <1>9, <2>1, <2>2 DEF KeptInv, Nowhere
<1>10. CASE Remote
  <2>1. KeysOK(store)
    <3>1. store = [k \in AllNames |-> store[k]]
      BY <1>3
    <3>2. \A k \in AllNames : KeyOK(store[k])
      BY Zenon, <1>6, <1>7, <1>8
    <3>. QED
      BY Zenon, <3>1, <3>2 DEF KeysOK
  <2>2. acked = [k \in AllNames |-> acked[k]]
    BY <1>3
  <2>3. VersionsKept(store, retired)
    <3>1. \A k \in AllNames : \A v \in DOMAIN store[k].on : store[k].on[v]
      BY <1>6, <1>7, <1>8
    <3>. QED
      BY Zenon, <3>1 DEF VersionsKept
  <2>4. Acknowledged(store, acked)
    BY <1>3, <1>6, <1>7, <1>8 DEF Acknowledged
  <2>5. ASSUME cfg # NoText PROVE /\ Configured \in AllNames /\ store[Configured] = made
    BY <1>3, <2>5 DEF AllNames
  <2>6. Nil(cfg) \/ Addresses(store, cfg)
    <3>. SUFFICES ASSUME cfg # NoText PROVE Addresses(store, cfg)
      BY DEF Nil
    <3>1. Exists(store, cfg)
      BY <1>5, <1>6, <2>5 DEF Exists
    <3>. QED
      BY <1>5, <1>6, <2>5, <3>1 DEF Addresses, Points
  <2>7. \A d \in held : DataPoints(store, d)
    <3>. SUFFICES ASSUME cfg # NoText PROVE DataPoints(store, DataOf([cfg EXCEPT !.ver = 1]))
      BY <1>3
    <3>. DEFINE t == [cfg EXCEPT !.ver = 1]
    <3>1. IsText(t) /\ t.key = Configured /\ t.alg = Family /\ t.ver = 1
      BY <1>4, <1>5 DEF IsText, Text
    <3>. HIDE DEF t
    <3>2. Points(store, t)
      BY <1>6, <2>5, <3>1 DEF Points, Exists
    <3>3. DataPoints(store, DataOf(t))
      BY Zenon, <1>4, <1>10, <3>1, <3>2, DataPointsOf
    <3>. QED
      BY <3>3 DEF t
  <2>8. \A c \in Clients : job[c] = Idle
    BY <1>3
  <2>9. Idle.st # "calling" /\ Idle.st # "returned" /\ Idle.st = "idle"
    BY DEF Idle
  <2>10. OwnNames
    BY <2>8, <2>9 DEF OwnNames
  <2>11. JobKept(store, retired, acked, Idle)
    BY Zenon, <2>9 DEF JobKept
  <2>12. \A c \in Clients : JobKept(store, retired, acked, job[c])
    BY Zenon, <2>8, <2>11
  <2>13. \A e \in arts : ArtReal(store, e.art)
    BY <1>3
  <2>14. Nil(env.configured) \/ Addresses(store, env.configured)
    BY Zenon, <2>6 DEF cfg
  <2>15. RetentionInv
    BY Zenon, <2>1, <2>2, <2>3, <2>4, <2>7, <2>10, <2>12, <2>13, <2>14 DEF RetentionInv
  <2>. QED
    BY Zenon, <1>10, <2>15 DEF KeptInv
<1>. QED
  BY <1>9, <1>10

\* Nothing that a client does with the local repository changes that.
LEMMA LocalKeeps ==
  ASSUME BindingInv, ~Remote, Nowhere, NEW c \in Clients, Call_(c) \/ ServiceCall(c) \/ Take(c)
  PROVE  Nowhere' /\ (env' = env)
<1>. DEFINE Untouched(n) == n.op = "DeactivateKey" => n.st # "calling" /\ (n.st = "returned" => ~n.ok)
<1>1. store = [k \in AllNames |-> NoKey] /\ (\A d \in Clients : Untouched(job[d])) /\ job = [d \in Clients |-> job[d]]
  BY Zenon DEF Nowhere, BindingInv
<1>2. ASSUME NEW n, Untouched(n), job' = [job EXCEPT ![c] = n], store' = store
      PROVE  Nowhere'
  <2>. HIDE DEF Untouched
  <2>1. \A d \in Clients : Untouched(job'[d])
    BY <1>1, <1>2
  <2>. QED
    BY <1>1, <1>2, <2>1 DEF Nowhere, Untouched
<1>3. CASE Take(c)
  <2>1. Untouched(Idle)
    BY DEF Idle
  <2>2. job' = [job EXCEPT ![c] = Idle] /\ (store' = store) /\ (env' = env)
    BY Zenon, <1>3 DEF Take
  <2>. HIDE DEF Untouched
  <2>. QED
    BY Zenon, <1>2, <2>1, <2>2
<1>4. CASE ServiceCall(c)
  <2>1. JobOK(job[c]) /\ job[c].st = "calling"
    BY Zenon, <1>4 DEF BindingInv, ServiceCall
  <2>2. Calling(job[c])
    BY Zenon, <2>1 DEF JobOK
  <2>. QED
    BY Zenon, <2>2 DEF Calling
<1>5. CASE Call_(c)
  <2>1. PICK op \in Ops(c) : \E x \in Arguments(op) : \E key \in KeyTexts(op, x.with) : Begins(c, op, x, key)
    BY Zenon, <1>5, CallBegins
  <2>2. PICK x, key : Begins(c, op, x, key)
    BY Zenon, <2>1
  <2>. DEFINE a == ArgsOf(op, x, key)
             j == JobOf(op, x, key)
  <2>3. IsJob(j) /\ j.op = op /\ j.reg = NoText
    BY BegunJob
  <2>4. PICK r, why : (r = Fail \/ r = Method(op, a)) /\ job' = [job EXCEPT ![c] = Started(j, r, why)]
    <3>. HIDE DEF a, j
    <3>1. \E s, w : /\ s = Fail \/ s = Method(op, a)
                    /\ job' = [job EXCEPT ![c] = Started(j, s, w)]
      BY <2>2, BeginsJob DEF a, j
    <3>. QED
      BY Zenon, <3>1
  <2>. HIDE DEF a, j
  <2>5. Method(op, a) = Mem!Method(op, a) /\ op \in AllOps
    <3>1. op \in AllOps
      BY Zenon, CalledMethods DEF BindingInv, EnvOK
    <3>2. Method(op, a) = Mem!Method(op, a)
      BY DEF Method, Remote
    <3>. QED
      BY <3>1, <3>2
  <2>6. r.step # "ask"
    <3>1. LocalPlan(op, a, Method(op, a))
      BY Zenon, <2>5, MethodLocal
    <3>2. LocalPlan(op, a, r)
      BY Zenon, <2>4, <3>1 DEF LocalPlan
    <3>3. r = Fail \/ \E v : r = Give(v)
      BY Zenon, <3>2 DEF LocalPlan
    <3>. QED
      BY <3>3 DEF Fail, Give
  <2>. DEFINE n == Started(j, r, why)
  <2>7. n = Returned(j, r, why)
    BY <2>6 DEF Started
  <2>8. Ended(j, n, j.reg, r)
    BY Zenon, <2>3, <2>7, EndsSo
  <2>9. op = "DeactivateKey" => r = Fail
    <3>. SUFFICES ASSUME op = "DeactivateKey" PROVE r = Fail
      OBVIOUS
    <3>1. Mem!Method("DeactivateKey", a) = Mem!DeactivateKey(a)
      BY DEF Mem!Method
    <3>2. Mem!DeactivateKey(a) = Fail
      BY MemVocabulary DEF Mem!DeactivateKey
    <3>. QED
      BY <2>4, <2>5, <3>1, <3>2
  <2>10. Untouched(n)
    <3>1. n.op = op /\ n.st = "returned" /\ (n.ok <=> r.step = "give" \/ j.op \in Hashes)
      BY <2>3, <2>8 DEF Ended
    <3>2. op = "DeactivateKey" => ~(r.step = "give") /\ j.op \notin Hashes
      BY <2>3, <2>9 DEF Fail, Hashes
    <3>. HIDE DEF n
    <3>. QED
      BY <3>1, <3>2
  <2>11. job' = [job EXCEPT ![c] = n] /\ (store' = store) /\ (env' = env)
    BY Zenon, <1>5, <2>4 DEF Call_
  <2>. HIDE DEF Untouched, n
  <2>. QED
    BY Zenon, <1>2, <2>10, <2>11
<1>. QED
  BY Zenon, <1>3, <1>4, <1>5

\* Every step keeps the invariant.
LEMMA StepKeeps ==
  ASSUME BindingInv, KeptInv, [Next]_vars
  PROVE  KeptInv'
<1>1. CASE UNCHANGED vars
  <2>1. env' = env /\ store' = store /\ held' = held /\ arts' = arts /\ job' = job /\ retired' = retired /\ acked' = acked
    BY <1>1 DEF vars
  <2>2. Remote' <=> Remote
    BY Zenon, <2>1, SameKept
  <2>3. CASE Remote
    <3>1. RetentionInv
      BY Zenon, <2>3 DEF KeptInv
    <3>2. OwnNames'
      BY <2>1, <3>1 DEF RetentionInv, OwnNames
    <3>3. /\ KeysOK(store') /\ (acked' = [k \in AllNames |-> acked'[k]]) /\ VersionsKept(store', retired')
          /\ Acknowledged(store', acked') /\ (Nil(env.configured) \/ Addresses(store', env.configured))
          /\ (\A d \in held' : DataPoints(store', d)) /\ (\A e \in arts' : ArtReal(store', e.art))
          /\ \A c \in Clients : JobKept(store', retired', acked', job'[c])
      BY Zenon, <2>1, <3>1 DEF RetentionInv
    <3>4. RetentionInv'
      BY Zenon, <2>1, <3>2, <3>3, Retained
    <3>. QED
      BY Zenon, <2>2, <2>3, <3>4 DEF KeptInv
  <2>4. CASE ~Remote
    <3>1. Nowhere
      BY Zenon, <2>4 DEF KeptInv
    <3>2. Nowhere'
      BY <2>1, <3>1 DEF Nowhere
    <3>. QED
      BY Zenon, <2>2, <2>4, <3>2 DEF KeptInv
  <2>. QED
    BY Zenon, <2>3, <2>4
<1>2. ASSUME NEW c \in Clients, Call_(c) \/ ServiceCall(c) \/ Take(c)
      PROVE  KeptInv'
  <2>1. env' = env
    BY Zenon, <1>2 DEF Call_, ServiceCall, Take
  <2>2. Remote' <=> Remote
    BY Zenon, <2>1, SameKept
  <2>3. CASE Remote
    <3>1. RetentionInv
      BY Zenon, <2>3 DEF KeptInv
    <3>2. RetentionInv'
      BY Zenon, <1>2, <2>3, <3>1, CallKeeps, ServiceKeeps, TakeKeeps
    <3>. QED
      BY Zenon, <2>2, <2>3, <3>2 DEF KeptInv
  <2>4. CASE ~Remote
    <3>1. Nowhere
      BY Zenon, <2>4 DEF KeptInv
    <3>2. Nowhere'
      BY Zenon, <1>2, <2>4, <3>1, LocalKeeps
    <3>. QED
      BY Zenon, <2>2, <2>4, <3>2 DEF KeptInv
  <2>. QED
    BY Zenon, <2>3, <2>4
<1>. QED
  BY Zenon, <1>1, <1>2 DEF Next

\* The invariant of the service's keys, for every backend, any number of
\* clients and names and any interleaving of their calls: every text that a
\* caller holds names a key that exists, every call under way is at one of the
\* stages of its method with the keys as that stage needs them, no version goes
\* off without a reason, and no acknowledged rotation is ahead of its key.
THEOREM KeysAreKept == Spec => []KeptInv
<1>1. Init => KeptInv
  BY KeptInit
<1>2. BindingInv /\ KeptInv /\ [Next]_vars => KeptInv'
  BY StepKeeps
<1>. QED
  BY <1>1, <1>2, CiphertextsAreBound, PTL DEF Spec

\* PastKept of the run, for every value of the constants: neither a rotation
\* nor the failure of a call puts what a key has sealed or signed out of reach.
THEOREM OldCiphertextsStayInReach == Spec => []PastKept
<1>1. KeptInv => PastKept
  <2>. SUFFICES ASSUME KeptInv, NEW e \in arts, e.art.key \in AllNames, store[e.art.key] # NoKey
               PROVE  \/ store[e.art.key].on[e.art.ver]
                      \/ e.art.key \in retired
                      \/ env.opts.rotateDisablesPrev /\ \E n \in Names : store[n].after = e.art.key
    BY DEF PastKept
  <2>1. CASE Remote
    <3>1. RetentionInv
      BY Zenon, <2>1 DEF KeptInv
    <3>2. e.art.ver \in DOMAIN store[e.art.key].on
      BY Zenon, <3>1 DEF RetentionInv, ArtReal
    <3>3. VersionsKept(store, retired)
      BY Zenon, <3>1 DEF RetentionInv
    <3>. QED
      BY Zenon, <3>2, <3>3 DEF VersionsKept, Replaced
  <2>2. CASE ~Remote
    BY <2>2 DEF KeptInv, Nowhere
  <2>. QED
    BY Zenon, <2>1, <2>2
<1>. QED
  BY <1>1, KeysAreKept, PTL

\* RotationTakesEffect of the run, for every value of the constants: of AWS and
\* Google, what is encrypted after an acknowledged rotation is encrypted with
\* the version that it made, or a later one, whichever calls interleave.
THEOREM EncryptionFollowsRotation == Spec => []RotationTakesEffect
<1>1. KeptInv => RotationTakesEffect
  <2>. SUFFICES ASSUME KeptInv, NEW c \in Clients, Backend \in {"aws", "gcp"},
                      job[c].st = "returned", job[c].op = "EncryptAES", job[c].ok
               PROVE  job[c].val.ver >= job[c].floor
    BY DEF RotationTakesEffect
  <2>1. Remote
    BY DEF Remote
  <2>2. JobKept(store, retired, acked, job[c])
    BY Zenon, <2>1 DEF KeptInv, RetentionInv
  <2>3. job[c].st # "idle"
    OBVIOUS
  <2>4. Given(store, retired, acked, job[c]) /\ Result(store, job[c])
    BY Zenon, <2>2, <2>3 DEF JobKept
  <2>5. Versioned
    BY Zenon, <2>4 DEF Given, Versioned
  <2>6. job[c].floor \in Nat
    BY Zenon, <2>4, <2>5 DEF Given
  <2>7. job[c].floor <= job[c].val.ver /\ job[c].val.ver \in Nat
    BY <2>4, <2>5 DEF Result
  <2>. QED
    BY <2>6, <2>7
<1>. QED
  BY <1>1, KeysAreKept, PTL

\* Deactivated of the run, for every value of the constants: when DeactivateKey
\* reports success, the version that its reference names is off, and no other
\* call has turned it on again.
THEOREM DeactivatedKeysAreOff == Spec => []Deactivated
<1>1. KeptInv => Deactivated
  <2>. SUFFICES ASSUME KeptInv, NEW c \in Clients, job[c].st = "returned", job[c].op = "DeactivateKey", job[c].ok
               PROVE  LET j == job[c]
                          t == IF j.a.key = NoText THEN env.configured ELSE j.a.key
                      IN  IF t.ver # 0 THEN ~store[t.key].on[t.ver] ELSE ~store[t.key].on[j.reg.ver]
    BY Zenon DEF Deactivated
  <2>. DEFINE j == job[c]
             t == IF j.a.key = NoText THEN env.configured ELSE j.a.key
  <2>1. Remote
    BY Zenon DEF KeptInv, Nowhere
  <2>2. JobKept(store, retired, acked, j)
    BY Zenon, <2>1 DEF KeptInv, RetentionInv
  <2>3. j.st # "idle"
    OBVIOUS
  <2>4. Given(store, retired, acked, j) /\ Result(store, j)
    BY Zenon, <2>2, <2>3 DEF JobKept
  <2>5. Raw(j.a) = t
    BY Zenon, <2>4 DEF Given, Raw
  <2>6. OffNow(store, j)
    BY Zenon, <2>4 DEF Result
  <2>. HIDE DEF t, j
  <2>7. IF t.ver # 0 THEN ~store[t.key].on[t.ver] ELSE ~store[t.key].on[j.reg.ver]
    BY <2>5, <2>6 DEF OffNow
  <2>. QED
    BY Zenon, <2>7 DEF t, j
<1>. QED
  BY <1>1, KeysAreKept, PTL
=============================================================================
