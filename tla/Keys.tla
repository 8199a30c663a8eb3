-------------------------------- MODULE Keys --------------------------------
(***************************************************************************)
(* The threshold keys of a mint and what is done with them (picomint-tss,  *)
(* picomint-tbs, picomint-tpe; picomint-node-daemon, config/poly.rs,       *)
(* dkg_g2.rs, dkg_secp.rs, the tweaked keys of consensus/onchain/mod.rs).  *)
(*                                                                         *)
(* Scalars are numbers modulo a small prime.  A point is represented by    *)
(* its discrete logarithm, so that a point times a scalar is a product, a  *)
(* pairing compares products, and the point at infinity is 0.  A point and *)
(* its negation have the same x coordinate; the lesser is the even one.    *)
(* The hashes of a signing session, the binding coefficient and the        *)
(* challenge, are any scalars but 0.  Sums that are 0 with negligible      *)
(* probability only are 0 here, where the code does not expect them.       *)
(***************************************************************************)
EXTENDS Integers, FiniteSets, FiniteSetsExt, Functions

CONSTANTS Prime,       \* the order of the group
          Dealer,      \* the nodes, by id
          KeyThreshold

ASSUME KeysAssumption ==
  /\ Prime \in Nat /\ \A d \in 2 .. Prime - 1 : Prime % d # 0
  /\ Dealer \subseteq 0 .. Prime - 2 /\ KeyThreshold \in 1 .. Cardinality(Dealer)

VARIABLES dealt,    \* the polynomials: dealer -> power -> coefficient
          session   \* [signers, nonces, binding, challenge, tweak, blinding, message]

keysVars == <<dealt, session>>

Scalar == 0 .. Prime - 1
Power == 0 .. KeyThreshold - 1

Mod(x) == x % Prime

Invert(x) == CHOOSE y \in Scalar : Mod(x * y) = 1

\* The sum, or product, of what f is on a set of nodes.
Sum(f) == Mod(FoldFunction(+, 0, f))
Product(f) == FoldFunction(LAMBDA x, y : Mod(x * y), 1, f)

(***************************************************************************)
(* The key generation: what DkgG2::step and DkgSecp::step compute          *)
(***************************************************************************)

\* "Offset by 1, since evaluating a poly at 0 reveals the secret"
Point(n) == n + 1

RECURSIVE Pow(_, _)
Pow(x, k) == IF k = 0 THEN 1 ELSE Mod(x * Pow(x, k - 1))

EvalPoly(coefficients, n) == Sum([k \in Power |-> coefficients[k] * Pow(Point(n), k)])

\* A share is checked with the commitments in the exponent, in the same way.
SecretShare(n) == Sum([d \in Dealer |-> EvalPoly(dealt[d], n)])

JointPoly == [k \in Power |-> Sum([d \in Dealer |-> dealt[d][k]])]

PublicShare(n) == EvalPoly(JointPoly, n)

AggregateKey == JointPoly[0]

\* lagrange_multiplier, lagrange_multipliers
Lagrange(nodes, n) ==
  Product([m \in nodes \ {n} |-> Mod(Point(m) * Invert(Mod(m - n)))])

\* interpolate_secret_key, aggregate_signature_shares (tbs)
Interpolate(shares) ==
  Sum([n \in DOMAIN shares |-> Lagrange(DOMAIN shares, n) * shares[n]])

(***************************************************************************)
(* Schnorr signatures (picomint-tss)                                       *)
(***************************************************************************)

Tweaked(key) == Mod(key + session.tweak)

Odd(point) == point > Prime \div 2

\* The number that stands for the point with an even y coordinate.
Even(point) == IF Odd(point) THEN Prime - point ELSE point

\* The sign with which a secret of the point is used.
Signed(point, x) == IF Odd(point) THEN Mod(-x) ELSE Mod(x)

Half(i) == Sum([n \in session.signers |-> session.nonces[n][i]])

\* Falls back to the generator if the sum is the point at infinity.
GroupNonce ==
  LET sum == Mod(Half(1) + session.binding * Half(2))
  IN IF sum = 0 THEN 1 ELSE sum

KeySign(key) == Signed(Tweaked(AggregateKey), key)

EffectiveNonce(n) ==
  Signed(GroupNonce, session.nonces[n][1] + session.binding * session.nonces[n][2])

SignShare(n) ==
  Mod(EffectiveNonce(n)
        + session.challenge * Lagrange(session.signers, n) * KeySign(Tweaked(SecretShare(n))))

VerifyShare(n, share) ==
  share = Mod(EffectiveNonce(n)
                + Lagrange(session.signers, n) * session.challenge
                    * Signed(Tweaked(AggregateKey), Tweaked(PublicShare(n))))

\* BIP340, with the x coordinates of the nonce and of the key.
VerifySchnorr(response) ==
  response = Mod(Even(GroupNonce) + session.challenge * Even(Tweaked(AggregateKey)))

(***************************************************************************)
(* Blind signatures (picomint-tbs)                                         *)
(***************************************************************************)

BlindNonce == Mod(session.message * session.blinding)

SignNonce(n) == Mod(BlindNonce * SecretShare(n))

\* The pairings of verify_signature_share, verify_blinded_signature and verify.
Verifies(nonce, signature, key) == Mod(nonce * key) = signature

Unblind(signature) == Mod(signature * Invert(session.blinding))

(***************************************************************************)
(* Threshold encryption of a preimage (picomint-tpe).  The seed gives the  *)
(* ephemeral secret key, and the hash of a ciphertext with the commitment  *)
(* gives a point, session.message: another ciphertext, or commitment, has  *)
(* another one.  The hash of a point is the point.                         *)
(***************************************************************************)

EphemeralSecret == session.blinding

DeriveAggDk == Mod(AggregateKey * EphemeralSecret)

\* xor_with_hash, which undoes itself
XorWithHash(bytes, key) ==
  [bytes EXCEPT !.under = IF key \in @ THEN @ \ {key} ELSE @ \cup {key}]

Preimage == [preimage |-> "preimage", under |-> {}]

EncryptPreimage ==
  [encrypted |-> XorWithHash(Preimage, DeriveAggDk), pk |-> EphemeralSecret,
   signature |-> Mod(session.message * EphemeralSecret)]

\* `message` is the hash of what came, as the verifier computes it.
VerifyCiphertext(ct, message) == ct.signature = Mod(ct.pk * message)

CreateDkShare(n, ct) == Mod(ct.pk * SecretShare(n))

\* verify_dk_share and verify_agg_dk, of a ciphertext that is valid
VerifyDk(key, dk, ct) == Mod(dk * session.message) = Mod(key * ct.signature)

AggregateDkShares(shares) == Interpolate(shares)

DecryptPreimage(ct, dk) == XorWithHash(ct.encrypted, dk)

(***************************************************************************)
(* Properties                                                              *)
(***************************************************************************)

\* The share that a node ends up with is that of the joint polynomial, which its
\* public share is computed from (eval_poly_g2(&poly, &node) == g2(&sks)), and a
\* threshold of them gives the secret key of the mint, tweaked or not.
SharesMatch ==
  /\ \A n \in Dealer : SecretShare(n) = PublicShare(n)
  /\ Interpolate([n \in session.signers |-> SecretShare(n)]) = AggregateKey
  /\ Interpolate([n \in session.signers |-> Tweaked(SecretShare(n))]) = Tweaked(AggregateKey)

\* Shares of any threshold of nodes verify, wrong ones do not, and together they
\* are a BIP340 signature under the tweaked key, whatever the parities are.
SchnorrSound ==
  Mod(Half(1) + session.binding * Half(2)) # 0 =>
    /\ \A n \in session.signers : {s \in Scalar : VerifyShare(n, s)} = {SignShare(n)}
    /\ VerifySchnorr(Sum([n \in session.signers |-> SignShare(n)]))

\* The blind signatures of any threshold of nodes make a note that verifies, and
\* it is the same note for each threshold.
BlindSound ==
  LET shares == [n \in session.signers |-> SignNonce(n)]
      blinded == Interpolate(shares)
  IN /\ \A n \in session.signers : Verifies(BlindNonce, shares[n], PublicShare(n))
     /\ Verifies(BlindNonce, blinded, AggregateKey)
     /\ Verifies(session.message, Unblind(blinded), AggregateKey)
     /\ Unblind(blinded) = Mod(session.message * AggregateKey)

\* A ciphertext verifies, and none that was changed; a share of a node for it is
\* the only one that verifies, and those of any threshold give the key that it
\* was encrypted with, which alone verifies and decrypts it.
EncryptionSound ==
  LET ct == EncryptPreimage
      dk == AggregateDkShares([n \in session.signers |-> CreateDkShare(n, ct)])
  IN /\ \A message \in Scalar \ {0} : VerifyCiphertext(ct, message) <=> message = session.message
     /\ \A n \in session.signers :
          {s \in Scalar : VerifyDk(PublicShare(n), s, ct)} = {CreateDkShare(n, ct)}
     /\ {s \in Scalar : VerifyDk(AggregateKey, s, ct)} = {dk}
     /\ {s \in Scalar : DecryptPreimage(ct, s) = Preimage} = {dk}

KeysSound == SharesMatch /\ SchnorrSound /\ BlindSound /\ EncryptionSound
=============================================================================
