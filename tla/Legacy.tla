------------------------------- MODULE Legacy -------------------------------
(***************************************************************************)
(* internal/upgrade/legacy: the canonical v5 bundle, its decoding, and its *)
(* conversion to a v6 identity bundle.  A v5 bundle had no type, files had *)
(* a kind in place of a role, and a pair named certificate and key.        *)
(***************************************************************************)
EXTENDS Bundle

V5Names == {"fullchain.pem", "privkey.pem"}
KindOf(name) == IF name = "privkey.pem" THEN "private-key" ELSE "certificate"
V5Pair == [certificate |-> "fullchain.pem", privateKey |-> "privkey.pem"]

(* What the v5 pack command made of two files, in a given order.           *)
V5File(name, content) ==
    [name |-> name, kind |-> KindOf(name), sum |-> Hash(content), data |-> Base64(content)]
V5Manifest(names, contents) ==
    [files |-> [i \in DOMAIN names |-> V5File(names[i], contents[names[i]])],
     pairs |-> <<V5Pair>>]

V5Valid(m) ==
    /\ Len(m.files) = 2
    /\ {m.files[i].name : i \in DOMAIN m.files} = V5Names
    /\ \A i \in DOMAIN m.files : m.files[i].kind = KindOf(m.files[i].name)
    /\ m.pairs = <<V5Pair>>

ContentDigest(files) ==
    [schema |-> "pemcast/v5", files |-> {<<n, Hash(files[n])>> : n \in DOMAIN files}]

V5Decodes(m, gen) ==
    /\ V5Valid(m)
    /\ \A i \in DOMAIN m.files :
          Decodable(m.files[i].data) /\ Hash(m.files[i].data.of) = m.files[i].sum
    /\ gen = Generation(ContentDigest(FileMap(m)))

(* Mutant: the order of the v5 files is kept. *)
ConvertInPlace(m, type) ==
    [type |-> type,
     files |-> [i \in DOMAIN m.files |->
                  File(type, m.files[i].name, FileMap(m)[m.files[i].name])]]

(* ConvertTLS: the v6 manifest is made of the files, from scratch; Encode  *)
(* refuses it when it does not decode.                                     *)
ConvertTLS(m, type) == NewManifest(type, FileMap(m))
=============================================================================
