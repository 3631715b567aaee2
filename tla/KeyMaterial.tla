---------------------------- MODULE KeyMaterial ----------------------------
(***************************************************************************)
(* Key texts, sealed values and signatures: the data that the repositories *)
(* of src/encrypt exchange, and the parsers of utilities/utilities.go that *)
(* decide what a text is.                                                  *)
(*                                                                         *)
(* A text is what a caller passes as a key: nothing, raw AES material, a   *)
(* DER encoding of one half of a pair, a KEM key, a provider's reference   *)
(* to a key it holds, a provider's short identifier, or anything else.     *)
(* key names the material behind it, ver its version (0: none is named).   *)
(***************************************************************************)
EXTENDS Naturals, Sequences

Text(form, alg, key, ver, size) ==
    [form |-> form, alg |-> alg, key |-> key, ver |-> ver, size |-> size]

NoText  == Text("none", "none", "none", 0, 0)      \* the empty string

Key128Bits  == 16
Key256Bits  == 32
RSASizes    == {2048, 3072, 4096}
Curves      == {256, 384, 521}

(***************************************************************************)
(* How a method goes on: it returns an error, it returns a value it has    *)
(* computed itself, or it asks the service for calls, one after the other, *)
(* about the key that ref names, and then makes its result of the last     *)
(* answer:                                                                 *)
(*   "data"    key data        "value"  the answer itself    "none"  nil   *)
(*   "digest"  the answer, or the empty string after an error              *)
(*   "local"   the same method of LocalKeys on the public key fetched      *)
(*   "open"    the decryption of a payload under the shared secret fetched *)
(* A call goes on only if its answer shows an algorithm of need, and is    *)
(* left out unless the answers so far show one of for.  When it fails, the *)
(* call else is made in its place ("fail": none, the method ends with an   *)
(* error; "skip": none, the method goes on).                               *)
(***************************************************************************)
Fail    == [step |-> "fail"]
Give(v) == [step |-> "give", val |-> v]
Ask(ref, calls, then) == [step |-> "ask", ref |-> ref, calls |-> calls, then |-> then]

Algorithms == {"aes", "rsa", "ecdh", "ed25519", "mac", "none"}
Asymmetric == {"rsa", "ecdh", "ed25519"}
Call(do, kind, bind) ==
    [do |-> do, kind |-> kind, bind |-> bind, size |-> 0, need |-> Algorithms,
     for |-> Algorithms, else |-> "fail"]
Lookup(do)           == Call(do, "none", <<>>)
Plain(do, kind)      == Call(do, kind, <<>>)
Needs(call, algs)    == [call EXCEPT !.need = algs]
OnlyFor(call, algs)  == [call EXCEPT !.for = algs]
Otherwise(call, do)  == [call EXCEPT !.else = do]
\* The creation of a key or a pair that may be used as uses says.
Create(alg, size, uses) == [Call("CreateKey", alg, uses) EXCEPT !.size = size]

\* What methods return.
KeyData(id, ref, pub) == [id |-> id, ref |-> ref, pub |-> pub]
Message(m)            == [msg |-> m]
Verified              == [verified |-> TRUE]
Digest(m)             == [digest |-> m]
NoDigest              == [digest |-> "none"]          \* the empty string of a failed hash

\* A ciphertext or signature made with the key behind t; bind is the data
\* authenticated along with the message.
Sealed(kind, t, m, bind) ==
    [kind |-> kind, key |-> t.key, ver |-> t.ver, size |-> t.size, msg |-> m, bind |-> bind]

----------------------------------------------------------------------------
(* utilities.go: the parsers accept PKIX for public and PKCS#8 for private *)
(* halves, and nothing else.                                               *)

ParsePKIX(t, alg)  == t.form = "pkix" /\ t.alg = alg
ParsePKCS8(t, alg) == t.form = "pkcs8" /\ t.alg = alg

ParseRSAPublicKeyFromBase64(t)      == ParsePKIX(t, "rsa")
ParseRSAPrivateKeyFromBase64(t)     == ParsePKCS8(t, "rsa")
ParseEd25519PublicKeyFromBase64(t)  == ParsePKIX(t, "ed25519")
ParseEd25519PrivateKeyFromBase64(t) == ParsePKCS8(t, "ed25519")
parseECDHPublicKey(t)               == ParsePKIX(t, "ecdh")
parseECDHPrivateKey(t)              == ParsePKCS8(t, "ecdh")

IsLocalAESKey(t) == t.form = "aes"

\* An absent string and an empty one give the same bytes.
BytesFromOptionalString(s) == IF s = "nil" THEN <<>> ELSE IF s = "" THEN <<>> ELSE <<s>>

\* Only the three NIST curves have a name to be put into a payload.
CurveNameFromECDH(size) == size \in Curves

\* The AES key derived from a shared secret: both sides arrive at it exactly
\* when they agree on the pair behind the secret and on the curve's label.
DeriveECCAESKey(t, label) == Text("aes", "aes", <<t.key, t.ver, label>>, 0, Key256Bits)

\* The payload of ECDH_Encode holds the curve, the ephemeral key and the
\* ciphertext; a value of another kind does not decode.
DecodeECCCipherPayload(art) == art.kind = "ecdh"
=============================================================================
