------------------------------ MODULE VaultOpen -----------------------------
(***************************************************************************)
(* Vault::open (rust-core/src/vault.rs): what comes of opening a file of   *)
(* the vault.  Any program of the same user can put another document under *)
(* an account's name, so the document is any of Documents; a copy of       *)
(* another account's file and one a heavier wallet wrote are among them.   *)
(*                                                                         *)
(* scrypt's parameters are any n, r and p, and each is known by its        *)
(* base-two logarithm rounded up, which is all that a ceiling that is a    *)
(* power of two tells apart; so are their product (`work`) and what of it  *)
(* a 64-bit multiplication leaves (`product`).                             *)
(***************************************************************************)
EXTENDS Integers

CONSTANTS
    Addr,      \* accounts
    Password,  \* passwords
    Params     \* the scrypt parameters a document can have

\* The width of the numbers check_params computes with.
Bits == 64

\* power: n is a power of two.  zero: r or p is zero.
ASSUME ParamsAssumption ==
    /\ Params \subseteq [n : Nat, r : Nat, p : Nat, work : Nat, product : Nat,
                         power : BOOLEAN, zero : BOOLEAN]
    /\ \A q \in Params :
        /\ q.work <= q.n + q.r + q.p
        /\ q.work < Bits => q.product = q.work

NoPassword == [given |-> FALSE]
Given == [given : {TRUE}, text : Password]

Keystores ==
    [is : {"keystore"}, key : Addr, password : Password,
     kdf : {"scrypt", "pbkdf2"}, others : BOOLEAN, lengths : BOOLEAN,
     params : Params]
OpenDocuments ==
    [is : {"open"}, version : {0, 1}, key : Addr]
Documents == Keystores \cup OpenDocuments \cup {[is |-> "torn"]}

MAX_SCRYPT_N    == 18
MAX_SCRYPT_R    == 4
MAX_SCRYPT_P    == 4
MAX_SCRYPT_WORK == 21

\* The product of the parameters, in 64 bits, is no more than the ceiling.
WorkWithin(q) == q.product <= MAX_SCRYPT_WORK

\* Fault: the ceiling on the product alone.
RangesByWork(q) == q.power /\ WorkWithin(q)

\* The ceilings on the factors keep their product from wrapping.
Ranges(q) ==
    /\ q.power
    /\ q.n <= MAX_SCRYPT_N /\ q.r <= MAX_SCRYPT_R /\ q.p <= MAX_SCRYPT_P
    /\ WorkWithin(q)

\* others: the document carries PBKDF2's fields, which would be used first.
ScryptOnly(d) == d.kdf = "scrypt" /\ ~d.others

\* lengths: the derived key has 32 bytes and the IV 16.
CheckParams(d) ==
    d.is = "keystore" /\ ScryptOnly(d) /\ d.lengths /\ Ranges(d.params)

\* eth-keystore derives by what the parameters look like, and then compares
\* the MAC.
Derivation(d) ==
    [by |-> IF d.others \/ d.kdf # "scrypt" THEN "pbkdf2" ELSE "scrypt",
     work |-> d.params.work, slices |-> d.lengths]
NoDerivation == [by |-> "none"]

Refusal(why, derivation) ==
    [is |-> "refused", why |-> why, derivation |-> derivation]

\* scrypt itself refuses to derive with a zero among its parameters.
Derives(d) == ~d.params.zero

\* Fault: whatever key the file holds is the account's.
ProvenByName(a, key, derivation) ==
    [is |-> "opened", key |-> key, derivation |-> derivation]

\* The file name is a claim; the key is the proof.
Proven(a, key, derivation) ==
    IF key # a THEN Refusal("corrupt", derivation)
    ELSE [is |-> "opened", key |-> key, derivation |-> derivation]

OpensSealed(a, d, password) ==
    CASE ~(CheckParams(d) /\ Derives(d)) -> Refusal("corrupt", NoDerivation)
      [] CheckParams(d) /\ Derives(d) /\ password.text # d.password ->
            Refusal("wrong password", Derivation(d))
      [] OTHER -> Proven(a, d.key, Derivation(d))

ReadOpen(a, d) ==
    IF d.is = "open" /\ d.version = 1 THEN Proven(a, d.key, NoDerivation)
    ELSE Refusal("corrupt", NoDerivation)

Outcome(a, spelling, d, password) ==
    CASE spelling = "sealed" /\ password.given  -> OpensSealed(a, d, password)
      [] spelling = "open" /\ ~password.given   -> ReadOpen(a, d)
      [] spelling = "sealed" /\ ~password.given -> Refusal("password required", NoDerivation)
      [] spelling = "open" /\ password.given    -> Refusal("password not required", NoDerivation)
=============================================================================
