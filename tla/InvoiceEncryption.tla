-------------------------- MODULE InvoiceEncryption --------------------------
(***************************************************************************)
(* CertificateLoader and EncryptionService: what certificates of KSeF the  *)
(* application accepts from its disk, and how an invoice is encrypted for  *)
(* a session with material that was exported and restored in between.      *)
(*                                                                         *)
(* A file is what the loader can find out about it: whether it can be read *)
(* (state), how it is written (form), the type of its key and the pair the *)
(* key is one half of.  An RSA key is one of KSeF's, long enough to wrap   *)
(* 32 bytes.                                                               *)
(***************************************************************************)
EXTENDS Integers, Sequences

BlockSize == 16         \* AES_BLOCK_SIZE_BYTES
KeySize   == 32         \* AES_KEY_SIZE_BYTES

Refused == [ok |-> FALSE]
Ok(x)   == [ok |-> TRUE, value |-> x]

-----------------------------------------------------------------------------
(***************************************************************************)
(* CertificateLoader                                                       *)
(***************************************************************************)

(* _read_required_file: the path is set, exists, is a file and readable.   *)
IsReadable(file) == file.state \notin {"unset", "missing", "directory",
                                       "unreadable"}

(* _parse_certificate: PEM, else DER.                                      *)
IsCertificate(file) == IsReadable(file) /\ file.form \in {"pem", "der"}

(* public_cert_path is an alias that counts when the other is not set.     *)
MfCertificate(config) ==
    IF config.mf.state = "unset" THEN config.public ELSE config.mf

-----------------------------------------------------------------------------
(***************************************************************************)
(* EncryptionService                                                       *)
(***************************************************************************)

(* A key or vector is its value and its length.  Wrapped for an RSA pair,  *)
(* only the owner of the pair can tell it.                                 *)
CreateMaterial(config, key, iv) ==
    LET certificate == MfCertificate(config) IN
    IF IsCertificate(certificate) /\ certificate.key = "rsa"
    THEN Ok([key     |-> [id |-> key, length |-> KeySize],
             iv      |-> [id |-> iv, length |-> BlockSize],
             wrapped |-> [key |-> key, pair |-> certificate.pair]])
    ELSE Refused

(* The fields of the stored form, each in Base64.                          *)
Export(material) ==
    [f \in {"key", "iv", "wrapped"} |-> [base64 |-> TRUE, of |-> material[f]]]

(* A field that is missing or not Base64 is refused; the wrapped key is    *)
(* taken as it is.  Lengths are not looked at here.                        *)
Restore(stored) ==
    IF /\ {"key", "iv", "wrapped"} \subseteq DOMAIN stored
       /\ stored.key.base64 /\ stored.iv.base64
    THEN Ok([f \in {"key", "iv", "wrapped"} |-> stored[f].of])
    ELSE Refused

(* Mutant: full blocks are not padded.                                     *)
PadLengthToBlock(n) == (BlockSize - (n % BlockSize)) % BlockSize

(* PKCS#7 of the cryptography package: 1 to 16 bytes, each their number.   *)
PadLength(n) == BlockSize - (n % BlockSize)

Pad(bytes) ==
    LET n == PadLength(Len(bytes)) IN bytes \o [i \in 1 .. n |-> n]

Unpad(bytes) ==
    LET n == bytes[Len(bytes)]
        keep == Len(bytes) - n
    IN IF /\ Len(bytes) > 0 /\ Len(bytes) % BlockSize = 0
          /\ n \in 1 .. BlockSize
          /\ \A i \in keep + 1 .. Len(bytes) : bytes[i] = n
       THEN Ok(SubSeq(bytes, 1, keep))
       ELSE Refused

ValidLengths(key, iv) == key.length = KeySize /\ iv.length = BlockSize

(* encrypt_invoice_xml.  A hash is named by what it is the hash of; the    *)
(* ciphertext by the key, the vector and the bytes that went into it.      *)
EncryptInvoice(bytes, material) ==
    LET cipher == [key |-> material.key, iv |-> material.iv,
                   padded |-> Pad(bytes)]
    IN IF ValidLengths(material.key, material.iv)
       THEN Ok([hash |-> bytes, size |-> Len(bytes),
                encrypted_hash |-> cipher,
                encrypted_size |-> Len(cipher.padded),
                content |-> cipher])
       ELSE Refused

(* decrypt_content, which is also what KSeF does.  Under another key or    *)
(* vector nothing comes out that has the announced hash.                   *)
DecryptContent(cipher, key, iv) ==
    IF ValidLengths(key, iv) /\ cipher.key = key /\ cipher.iv = iv
    THEN Unpad(cipher.padded)
    ELSE Refused

-----------------------------------------------------------------------------
(***************************************************************************)
(* An invoice on its way to KSeF                                           *)
(***************************************************************************)

(* The session is opened with new material.                                *)
Opened(config) == CreateMaterial(config, "k", "v")

(* The invoice is encrypted with what storage made of the material.        *)
ToSend(material, Kept(_), bytes) ==
    LET restored == Restore(Kept(Export(material)))
    IN  IF restored.ok THEN EncryptInvoice(bytes, restored.value) ELSE Refused

(* KSeF unwraps the key that the session was opened with.                  *)
ReadByKsef(material, payload) ==
    DecryptContent(payload.content,
                   [id |-> material.wrapped.key, length |-> KeySize], material.iv)

(* It reads the invoice, with the hashes and sizes announced.              *)
AsAnnounced(payload, received, bytes) ==
    /\ received = Ok(bytes)
    /\ payload.hash = received.value
    /\ payload.size = Len(received.value)
    /\ payload.encrypted_hash = payload.content
    /\ payload.encrypted_size = Len(payload.content.padded)
=============================================================================
