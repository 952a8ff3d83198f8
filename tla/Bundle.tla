------------------------------- MODULE Bundle -------------------------------
(***************************************************************************)
(* internal/bundle, with the parts of its callers that only compute: which *)
(* source files make a bundle, which bytes decode to one, what its digest  *)
(* covers, when a target accepts it and when a prune may take it.          *)
(*                                                                         *)
(* A PEM file is the sequence of its blocks.  SHA-256 is taken as free of  *)
(* collisions: Hash keeps what was hashed.  Bytes of a bundle are a        *)
(* manifest and the way it is laid out as JSON; base64 text is a content   *)
(* and its form, since DecodeString skips line breaks.                     *)
(***************************************************************************)
EXTENDS Naturals, Sequences, FiniteSets, FiniteSetsExt

CONSTANT WeakKeys   \* keys that validatePublicKey refuses

IdentityTypes == {"tls-server", "tls-client"}
Types == IdentityTypes \cup {"trust"}

(* The files of a bundle type, in name order. *)
Names(type) ==
    IF type = "trust" THEN <<"ca-bundle.pem">> ELSE <<"fullchain.pem", "privkey.pem">>

NameSet(type) == {Names(type)[i] : i \in DOMAIN Names(type)}

(* A name that is not expected has the empty role, as in a Go map. *)
ExpectedRole(type, name) ==
    CASE name \notin NameSet(type) -> ""
      [] name = "fullchain.pem" -> "certificate-chain"
      [] name = "privkey.pem" -> "private-key"
      [] OTHER -> "ca-certificate"

Hash(content) == [sha256 |-> content]
Base64(content) == [form |-> "plain", of |-> content]
Decodable(data) == data.form \in {"plain", "wrapped"}

File(type, name, content) ==
    [name |-> name, role |-> ExpectedRole(type, name), sum |-> Hash(content),
     data |-> Base64(content)]

(* NewTLSManifest and NewTrustManifest: contents is a function of names.   *)
NewManifest(type, contents) ==
    [type |-> type,
     files |-> [i \in DOMAIN Names(type) |->
                  File(type, Names(type)[i], contents[Names(type)[i]])]]

(* Manifest.Validate; the order of the files is free. *)
ManifestValid(m) ==
    /\ m.type \in Types
    /\ Len(m.files) = Len(Names(m.type))
    /\ \A i, j \in DOMAIN m.files : m.files[i].name = m.files[j].name => i = j
    /\ \A i \in DOMAIN m.files : m.files[i].role = ExpectedRole(m.type, m.files[i].name)

FileMap(m) ==
    [name \in {m.files[i].name : i \in DOMAIN m.files} |->
        LET i == CHOOSE i \in DOMAIN m.files : m.files[i].name = name
        IN  m.files[i].data.of]

IsList(s) == Len(s) \in Nat /\ s = [i \in 1..Len(s) |-> s[i]]

(* A PEM file, and what the properties need to know of its certificates.   *)
PemFile(pem) ==
    /\ IsList(pem)
    /\ \A i \in DOMAIN pem : pem[i].block = "CERTIFICATE" => pem[i].of.notAfter \in Nat

(* What looking up a name in the decoded files yields; nil when absent.    *)
Content(files, name) == IF name \in DOMAIN files THEN files[name] ELSE <<>>

-----------------------------------------------------------------------------
(* Certificates. *)
AreCertificates(pem) ==
    pem # <<>> /\ \A i \in DOMAIN pem : pem[i].block = "CERTIFICATE"

IsPrivateKey(pem) == Len(pem) = 1 /\ pem[1].block = "PRIVATE KEY"

ChainSigned(chain) ==
    /\ ~chain[1].of.ca
    /\ \A i \in 2..Len(chain) : chain[i].of.ca /\ chain[i - 1].of.signer = chain[i].of.key

(* Mutant: the key pair is not compared. *)
AnyKey(leaf, key) == leaf.key \notin WeakKeys
KeyMatches(leaf, key) == leaf.key = key[1].of /\ leaf.key \notin WeakKeys

IdentityValid(type, chain, key) ==
    /\ AreCertificates(chain)
    /\ ChainSigned(chain)
    /\ IsPrivateKey(key)
    /\ KeyMatches(chain[1].of, key)
    /\ chain[1].of.usages = {} \/ type \in chain[1].of.usages

TrustValid(pem) == AreCertificates(pem) /\ \A i \in DOMAIN pem : pem[i].of.ca

(* Manifest.ValidateFiles, by the type of the bundle. *)
MaterialValid(type, files) ==
    \/ /\ type \in IdentityTypes
       /\ IdentityValid(type, Content(files, "fullchain.pem"), Content(files, "privkey.pem"))
    \/ type = "trust" /\ TrustValid(Content(files, "ca-bundle.pem"))

(* decodeManifestFiles: Encode serialises, and Decode returns, exactly the *)
(* manifests that pass it.                                                 *)
Decodes(m) ==
    /\ ManifestValid(m)
    /\ \A i \in DOMAIN m.files :
          Decodable(m.files[i].data) /\ Hash(m.files[i].data.of) = m.files[i].sum
    /\ MaterialValid(m.type, FileMap(m))

(* Mutant: the type is left out of the digest. *)
DigestOfFiles(m) ==
    [schema |-> "pemcast/v6",
     files |-> {<<f, Hash(FileMap(m)[f])>> : f \in DOMAIN FileMap(m)}]

(* ManifestDigest: type, and name, role and content of every file.         *)
ManifestDigest(m) ==
    [schema |-> "pemcast/v6", type |-> m.type,
     files |-> {<<m.files[i].name, m.files[i].role, Hash(m.files[i].data.of)>> :
                   i \in DOMAIN m.files}]

Generation(digest) == [generation |-> digest]

(* The certificates a decoded bundle carries. *)
ParsedCertificates(m) ==
    LET pem == Content(FileMap(m), Names(m.type)[1])
    IN  {pem[i].of : i \in DOMAIN pem}

-----------------------------------------------------------------------------
(* Mutant: only the leaf of the chain is held against the clock.           *)
LeafOnly(m) == {Content(FileMap(m), Names(m.type)[1])[1].of}

PolicyCertificates(m) == ParsedCertificates(m)

(* ValidatePolicy of a target. *)
PolicyAccepts(m, policy, now) ==
    /\ \A c \in PolicyCertificates(m) :
          /\ c.notBefore <= now
          /\ policy.rejectExpired => c.notAfter > now
          /\ policy.minimum > 0 => c.notAfter >= now + policy.minimum
    /\ m.type = "tls-server" =>
          policy.serverNames \subseteq Content(FileMap(m), "fullchain.pem")[1].of.names

(* The age limit of prune, inspectRecord. *)
PastRetention(m, retention, now) ==
    now > Min({c.notAfter : c \in ParsedCertificates(m)}) + retention

-----------------------------------------------------------------------------
(* internal/keyspace: a key is the tuple of its components. *)
ActiveKey(prefix, target) == <<prefix, "v6", "active", target>>
BundleKey(prefix, target, gen) == <<prefix, "v6", "bundles", target, gen>>

(* materialFromValue: what an agent makes of a value under a bundle key.   *)
FetchAccepts(m, gen) == Decodes(m) /\ gen = Generation(ManifestDigest(m))
=============================================================================
