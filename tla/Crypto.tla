------------------------------- MODULE Crypto -------------------------------
(***************************************************************************)
(* static/js/crypto.js and its mirror app/crypto.py, which the shared test *)
(* vectors keep equal, symbolically: a derived key is the record of what   *)
(* it was derived from, so two keys are equal only if all inputs are, and  *)
(* a ciphertext opens only under the key and for the slug it was made with.*)
(* A plaintext is told apart by the link key drawn for it.                 *)
(***************************************************************************)

CONSTANT Null    \* null and None: no passphrase, no verifier

\* HKDF over the link key, salted with PBKDF2(passphrase, slug) if there is one.
DeriveAesKey(linkKey, slug, passphrase) ==
  [link |-> linkKey,
   salt |-> IF passphrase = Null THEN Null ELSE <<passphrase, slug>>]

\* PBKDF2 with the salt slug + ".verify".
DeriveVerifier(passphrase, slug) == <<passphrase, slug, ".verify">>

\* AES-GCM with the slug as additional data; and whether what it made opens.
Encrypt(aesKey, slug)           == [key |-> aesKey, aad |-> slug]
Opens(ciphertext, aesKey, slug) == ciphertext = Encrypt(aesKey, slug)

\* The pages derive and encrypt, or decrypt, in one call, which throws when the
\* ciphertext does not open.
EncryptSecret(linkKey, slug, passphrase) ==
  Encrypt(DeriveAesKey(linkKey, slug, passphrase), slug)

Decrypts(ciphertext, linkKey, slug, passphrase) ==
  Opens(ciphertext, DeriveAesKey(linkKey, slug, passphrase), slug)
=============================================================================
