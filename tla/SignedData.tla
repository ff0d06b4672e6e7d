----------------------------- MODULE SignedData -----------------------------
(***************************************************************************)
(* Signed records.  Every signed artefact of TrustForge (packets, relay    *)
(* authorities, receipts, migrations, approvals, lists, bundles) is a      *)
(* record whose signature covers the canonical form of the record without  *)
(* its own signature field.  A signature is modelled by the key that made  *)
(* it and the content it covers, a public key by the name of its private   *)
(* key, and a digest by the content itself: signatures verify exactly when *)
(* both agree, and digests collide never.                                  *)
(***************************************************************************)
EXTENDS TLC

\* crypto.rs Ed25519Signer.sign: the signature of content under a key.
Sign(key, content) == [key |-> key, over |-> content]

\* crypto.rs ed25519_verify.
Verifies(key, content, sig) == sig = Sign(key, content)

\* map.remove("signature") followed by canonicalize: what a record's own
\* signature covers.
SigningBytes(r) == [f \in DOMAIN r \ {"signature"} |-> r[f]]

\* A draft completed with the signature over its other fields.
Signed(draft, key) == draft @@ [signature |-> Sign(key, draft)]

\* The signature in a record verifies under key.
SignatureOk(r, key) == Verifies(key, SigningBytes(r), r.signature)

\* The same with a signature envelope, which also names the signer: the name
\* is part of the envelope and so not covered.
SignedBy(draft, signer, key) ==
  draft @@ [signature |-> [signer |-> signer, sig |-> Sign(key, draft)]]
EnvelopeOk(r, key) == Verifies(key, SigningBytes(r), r.signature.sig)
=============================================================================
