-------------------------------- MODULE Srp --------------------------------
(***************************************************************************)
(* The SRP-6a exchange of pair-setup (openairplay2/src/srp.rs) as          *)
(* arithmetic modulo a prime.  A hash is an injection: of the numbers it   *)
(* is taken of only x, u and k enter the arithmetic, and are quantified    *)
(* over; the proofs M1 and HAMK are the tuples they hash.                  *)
(***************************************************************************)
EXTENDS Integers

CONSTANTS Prime, Generator

ModPow(b, e) == LET p[i \in 0..e] == IF i = 0 THEN 1 ELSE (p[i - 1] * b) % Prime
                IN  p[e]

\* A prime, and a primitive root of it (RFC 5054's are).
ASSUME SrpAssumption ==
  /\ Prime \in Nat /\ Prime > 2 /\ \A d \in 2..(Prime - 1) : Prime % d # 0
  /\ Generator \in 1..(Prime - 1)
  /\ \A x, y \in 1..(Prime - 1) : ModPow(Generator, x) = ModPow(Generator, y) => x = y

\* SrpServer::new: the verifier of a password's x, and B.
Verifier(x) == ModPow(Generator, x)
PublicB(k, v, b) == (k * v + ModPow(Generator, b)) % Prime

\* SrpClient::new.
PublicA(a) == ModPow(Generator, a)

\* Mutant of ServerSecret: u is left out.
ServerSecretPlain(A, v, u, b) == ModPow((A * v) % Prime, b)

\* SrpServer::verify: S = (A * v^u)^b.
ServerSecret(A, v, u, b) == ModPow((A * ModPow(v, u)) % Prime, b)

\* SrpClient::process: S = (B - k*g^x)^(a + u*x).
ClientSecret(B, k, x, a, u) ==
  ModPow((B + Prime - ((k * Verifier(x)) % Prime)) % Prime, a + u * x)

Proof(salt, A, B, secret) == <<salt, A, B, secret>>
ServerProof(A, proof, secret) == <<A, proof, secret>>

\* verify: A must not vanish modulo the prime, and the proof must be the one
\* the receiver expects.
Accepts(A, proof, salt, B, secret) ==
  A % Prime # 0 /\ proof = Proof(salt, A, B, secret)

-----------------------------------------------------------------------------
Exponents == 1..(Prime - 2)
Scramblers == 0..(Prime - 1)

\* One password, whatever both choose: the receiver accepts the proof, both hold
\* the same key, and it is not zero, which anybody could compute.
SameSecret ==
  \A a, b, x \in Exponents, k, u \in Scramblers :
    LET B == PublicB(k, Verifier(x), b)
        s == ServerSecret(PublicA(a), Verifier(x), u, b)
        c == ClientSecret(B, k, x, a, u)
    IN  /\ s = c /\ s # 0
        /\ Accepts(PublicA(a), Proof("salt", PublicA(a), B, c), "salt", B, s)

\* Two passwords, whatever the multiplier: some choice of theirs tells them apart.
SecretsDiffer ==
  \A x, y \in Exponents, k \in Scramblers : x # y =>
    \E a, b \in Exponents, u \in Scramblers :
      ServerSecret(PublicA(a), Verifier(x), u, b)
        # ClientSecret(PublicB(k, Verifier(x), b), k, y, a, u)
=============================================================================
