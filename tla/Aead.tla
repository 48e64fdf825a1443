-------------------------------- MODULE Aead --------------------------------
(***************************************************************************)
(* internal/security/aead.go: authenticated encryption under a password.   *)
(* A text is a sequence; the empty one is not encrypted.  Salt and nonce   *)
(* only make equal texts look different, and are left out.                 *)
(***************************************************************************)
EXTENDS Sequences

Encrypt(plaintext, password) ==
  IF plaintext = <<>> THEN <<>> ELSE <<[key |-> password, text |-> plaintext]>>

(* Decrypt returns no error.                                               *)
Opens(ciphertext, password) == ciphertext = <<>> \/ ciphertext[1].key = password

(* What it returns then.                                                   *)
Decrypt(ciphertext) == IF ciphertext = <<>> THEN <<>> ELSE ciphertext[1].text
=============================================================================
