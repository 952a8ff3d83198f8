----------------------------- MODULE SeedProofs -----------------------------
(***************************************************************************)
(* Proofs about packs and seeds, for any options, paths, renewals,         *)
(* builders, readers, foreign packs, configured targets and umasks.        *)
(***************************************************************************)
EXTENDS Seed, OrderLemmas, FiniteSetTheorems, TLAPS

(* Where results of builds, metadata files and reads come from. *)
Genuine == built \cup ForeignPacks

Shape ==
    /\ DOMAIN dir = Paths
    /\ DOMAIN build = Builders
    /\ DOMAIN read = Readers
    /\ \A b \in Builders : {"pc", "chain", "result", "written"} \subseteq DOMAIN build[b]

(* What a Build has made can be relied on. *)
Sound(x) ==
    /\ x = [metadata |-> x.metadata, bundle |-> x.bundle]
    /\ IsList(x.bundle.manifest.files)
    /\ BytesMatch(x)
    /\ Decodes(x.bundle.manifest)
    /\ DigestMatches(x)
    /\ x.metadata.bundleKey = BundleKey(x.metadata.prefix, x.metadata.target, x.metadata.gen)

BuiltSound == \A x \in built : Sound(x)

ResultsBuilt ==
    \A b \in Builders : build[b].pc \in {"stat", "write"} => build[b].result \in built

MetadataGenuine ==
    \A p \in Paths : Has(p, "metadata.json") =>
        \E x \in Genuine : dir[p]["metadata.json"] = x.metadata

ReadersGenuine ==
    \A r \in Readers : read[r].pc = "bundle" => \E x \in Genuine : read[r].metadata = x.metadata

ReadersValid == \A r \in Readers : read[r].pc = "accepted" => Valid(read[r].result)

Inv ==
    /\ Shape
    /\ BuiltSound
    /\ ResultsBuilt
    /\ MetadataGenuine
    /\ ReadersGenuine
    /\ ReadersValid
    /\ PackWhole
    /\ ReadGenuine

-----------------------------------------------------------------------------
(* Lemmas on values. *)

(* A Build that passes Encode is sound. *)
LEMMA BuildSound ==
    ASSUME NEW o, NEW contents, Decodes(ResultOf(o, contents).bundle.manifest)
    PROVE  Sound(ResultOf(o, contents))
<1> DEFINE m == NewManifest(o.type, contents)
           x == ResultOf(o, contents)
<1>1. x = [metadata |-> MetadataOf(o, m, Encode(m)), bundle |-> Encode(m)]
  BY DEF ResultOf
<1>2. x.bundle.manifest = m
  BY <1>1 DEF Encode
<1>3. /\ x.metadata.valueSum = Hash(Encode(m))
      /\ x.metadata.digest = ManifestDigest(m)
      /\ x.metadata.gen = Generation(ManifestDigest(m))
      /\ x.metadata.prefix = o.prefix
      /\ x.metadata.target = o.target
      /\ x.metadata.bundleKey = BundleKey(o.prefix, o.target, Generation(ManifestDigest(m)))
  BY <1>1 DEF MetadataOf
<1>4. x = [metadata |-> x.metadata, bundle |-> x.bundle]
  BY <1>1
<1>5. BytesMatch(x)
  BY <1>1, <1>3 DEF BytesMatch
<1>6. DigestMatches(x)
  BY <1>2, <1>3 DEF DigestMatches
<1>7. x.metadata.bundleKey = BundleKey(x.metadata.prefix, x.metadata.target, x.metadata.gen)
  BY <1>3
<1>8. IsList(x.bundle.manifest.files)
  <2>1. CASE o.type = "trust"
    BY <1>2, <2>1 DEF IsList, NewManifest, Names
  <2>2. CASE o.type # "trust"
    BY <1>2, <2>2 DEF IsList, NewManifest, Names
  <2> QED
    BY <2>1, <2>2
<1> HIDE DEF x
<1> QED
  BY <1>2, <1>4, <1>5, <1>6, <1>7, <1>8 DEF Sound, x

(* The checksum in the metadata ties them to one bundle. *)
LEMMA ChecksumNamesBundle ==
    ASSUME NEW x, NEW y, x.metadata = y.metadata, BytesMatch(x), BytesMatch(y)
    PROVE  x.bundle = y.bundle
BY DEF BytesMatch, Hash

LEMMA GenerationInjective ==
    ASSUME NEW d, NEW e, Generation(d) = Generation(e)
    PROVE  d = e
BY DEF Generation

LEMMA FileAt ==
    ASSUME NEW m, ManifestValid(m), NEW i \in DOMAIN m.files
    PROVE  /\ m.files[i].name \in DOMAIN FileMap(m)
           /\ FileMap(m)[m.files[i].name] = m.files[i].data.of
<1> DEFINE name == m.files[i].name
           j == CHOOSE j \in DOMAIN m.files : m.files[j].name = name
<1>1. name \in {m.files[k].name : k \in DOMAIN m.files}
  OBVIOUS
<1>2. j \in DOMAIN m.files /\ m.files[j].name = name
  OBVIOUS
<1>3. j = i
  BY <1>2 DEF ManifestValid
<1>4. FileMap(m)[name] = m.files[j].data.of
  BY <1>1 DEF FileMap
<1> QED
  BY <1>1, <1>3, <1>4 DEF FileMap

(* Two manifests of one digest have the same type and the same files.      *)
LEMMA DigestNamesFiles ==
    ASSUME NEW m, NEW n, ManifestValid(m), ManifestValid(n),
           ManifestDigest(m) = ManifestDigest(n)
    PROVE  m.type = n.type /\ FileMap(m) = FileMap(n)
<1> DEFINE Entry3(k, i) == <<k.files[i].name, k.files[i].role, Hash(k.files[i].data.of)>>
           Sums(k) == {Entry3(k, i) : i \in DOMAIN k.files}
<1>1. m.type = n.type /\ Sums(m) = Sums(n)
  BY DEF ManifestDigest
<1>2. ASSUME NEW k, NEW l, ManifestValid(k), ManifestValid(l), Sums(k) = Sums(l),
             NEW name \in DOMAIN FileMap(k)
      PROVE  name \in DOMAIN FileMap(l) /\ FileMap(l)[name] = FileMap(k)[name]
  <2>1. PICK i \in DOMAIN k.files : k.files[i].name = name
    BY <1>2 DEF FileMap
  <2>2. PICK j \in DOMAIN l.files : Entry3(l, j) = Entry3(k, i)
    BY <1>2
  <2>3. l.files[j].name = name /\ l.files[j].data.of = k.files[i].data.of
    BY <2>1, <2>2 DEF Hash
  <2> QED
    BY <1>2, <2>1, <2>3, FileAt
<1>3. DOMAIN FileMap(m) = DOMAIN FileMap(n)
  BY <1>1, <1>2
<1>4. \A name \in DOMAIN FileMap(m) : FileMap(m)[name] = FileMap(n)[name]
  BY <1>1, <1>2
<1>5. /\ FileMap(m) = [name \in DOMAIN FileMap(m) |-> FileMap(m)[name]]
      /\ FileMap(n) = [name \in DOMAIN FileMap(n) |-> FileMap(n)[name]]
  BY DEF FileMap
<1> QED
  BY <1>1, <1>3, <1>4, <1>5
-----------------------------------------------------------------------------
(* The invariant. *)
LEMMA InitInv == Init => Inv
BY DEF Init, PackInit, Inv, Shape, BuiltSound, ResultsBuilt, MetadataGenuine,
       ReadersGenuine, ReadersValid, PackWhole, ReadGenuine, Has, NoBuild, NoRead

(* A step that only moves the run of one builder, to a step before the     *)
(* result or with a result that has been built.                            *)
LEMMA BuilderInv ==
    ASSUME Inv, NEW b \in Builders, NEW run, Builder(b, run),
           {"pc", "chain", "result", "written"} \subseteq DOMAIN run,
           run.pc \in {"stat", "write"} => run.result \in built',
           UNCHANGED dir,
           built \subseteq built',
           \A x \in built' \ built : Sound(x)
    PROVE  Inv'
<1>1. Shape'
  BY DEF Inv, Shape, Builder
<1>2. BuiltSound'
  BY DEF Inv, BuiltSound, Sound
<1>3. ResultsBuilt'
  BY DEF Inv, Shape, ResultsBuilt, Builder
<1>4. MetadataGenuine'
  BY DEF Inv, MetadataGenuine, Has, Genuine
<1>5. ReadersGenuine' /\ ReadersValid' /\ ReadGenuine'
  BY DEF Inv, ReadersGenuine, ReadersValid, ReadGenuine, Builder, Genuine
<1>6. PackWhole'
  BY DEF Inv, PackWhole, Builder
<1> QED
  BY <1>1, <1>2, <1>3, <1>4, <1>5, <1>6 DEF Inv

LEMMA BuildInv ==
    ASSUME Inv, NEW b \in Builders,
           \/ StartBuild(b)
           \/ ReadCertificate(b)
           \/ ReadKeyAndEncode(b)
           \/ StatOutput(b)
           \/ WriteFile(b)
           \/ BuildStops(b)
    PROVE  Inv'
<1> DEFINE Fields(run) == {"pc", "chain", "result", "written"} \subseteq DOMAIN run
           Idle == Builder(b, NoBuild) /\ UNCHANGED <<dir, built>>
<1>0. Fields(build[b]) /\ (build[b].pc \in {"stat", "write"} => build[b].result \in built)
  BY DEF Inv, Shape, ResultsBuilt
<1>1. ASSUME Idle PROVE Inv'
  BY <1>1, BuilderInv DEF NoBuild
<1>2. ASSUME StartBuild(b) PROVE Inv'
  <2>1. PICK o \in Options, p \in Paths :
          Builder(b, [NoBuild EXCEPT !.pc = "chain", !.options = o, !.path = p])
    BY <1>2 DEF StartBuild
  <2> DEFINE run == [NoBuild EXCEPT !.pc = "chain", !.options = o, !.path = p]
  <2>2. Fields(run) /\ run.pc = "chain"
    BY DEF NoBuild
  <2>3. UNCHANGED <<dir, built>>
    BY <1>2 DEF StartBuild
  <2> HIDE DEF run
  <2> QED
    BY <2>1, <2>2, <2>3, BuilderInv DEF run
<1>3. ASSUME ReadCertificate(b) PROVE Inv'
  <2>1. PICK chain : Builder(b, [build[b] EXCEPT !.pc = "key", !.chain = chain])
    BY <1>3 DEF ReadCertificate
  <2> DEFINE run == [build[b] EXCEPT !.pc = "key", !.chain = chain]
  <2>2. Fields(run) /\ run.pc = "key"
    BY <1>0
  <2>3. UNCHANGED <<dir, built>>
    BY <1>3 DEF ReadCertificate
  <2> HIDE DEF run
  <2> QED
    BY <2>1, <2>2, <2>3, BuilderInv DEF run
<1>4. ASSUME ReadKeyAndEncode(b) PROVE Inv'
  <2> DEFINE r == ResultOf(build[b].options, Contents(b))
             run == [build[b] EXCEPT !.pc = "stat", !.chain = <<>>, !.result = r]
  <2>1. CASE Decodes(r.bundle.manifest) /\ Builder(b, run) /\ built' = built \cup {r}
    <3>1. Sound(r)
      BY <2>1, BuildSound
    <3> HIDE DEF r
    <3>2. Fields(run) /\ run.result \in built'
      BY <1>0, <2>1
    <3>3. UNCHANGED dir
      BY <1>4 DEF ReadKeyAndEncode
    <3> HIDE DEF run
    <3> QED
      BY <2>1, <3>1, <3>2, <3>3, BuilderInv
  <2>2. CASE Idle
    BY <2>2, <1>1
  <2> QED
    BY <1>4, <2>1, <2>2 DEF ReadKeyAndEncode
<1>5. ASSUME StatOutput(b) PROVE Inv'
  <2> DEFINE run == [build[b] EXCEPT !.pc = "write"]
  <2>1. CASE Builder(b, run)
    <3>1. build[b].pc = "stat" /\ UNCHANGED <<dir, built>>
      BY <1>5 DEF StatOutput
    <3>2. Fields(run) /\ run.result \in built'
      BY <1>0, <3>1
    <3> HIDE DEF run
    <3> QED
      BY <2>1, <3>1, <3>2, BuilderInv
  <2> QED
    BY <1>1, <1>5, <2>1 DEF StatOutput
<1>6. ASSUME WriteFile(b) PROVE Inv'
  <2> DEFINE run == [build[b] EXCEPT !.written = @ + 1]
  <2>1. build[b].pc = "write" /\ Builder(b, run) /\ UNCHANGED <<dir, built>>
    BY <1>6 DEF WriteFile
  <2>2. Fields(run) /\ run.result \in built'
    BY <1>0, <2>1
  <2> HIDE DEF run
  <2> QED
    BY <2>1, <2>2, BuilderInv
<1>7. ASSUME BuildStops(b) PROVE Inv'
  BY <1>1, <1>7 DEF BuildStops
<1> QED
  BY <1>2, <1>3, <1>4, <1>5, <1>6, <1>7

(* What RenameStaging puts into place belongs to one Build.                *)
LEMMA StagedWhole ==
    ASSUME NEW b \in Builders, build[b].written = Len(Entries)
    PROVE  Staged(b) = DirectoryOf(build[b].result)
<1>1. {Entries[i] : i \in 1..build[b].written} = EntrySet
  BY DEF Entries, EntrySet
<1> QED
  BY <1>1, Zenon DEF Staged, DirectoryOf

LEMMA RenameInv ==
    ASSUME Inv, NEW b \in Builders, RenameStaging(b)
    PROVE  Inv'
<1> DEFINE p == build[b].path
<1>1. /\ build[b].pc = "write" /\ build[b].written = Len(Entries)
      /\ build' = [build EXCEPT ![b] = NoBuild]
      /\ UNCHANGED <<handled, read, built>>
      /\ dir' = dir \/ dir' = [dir EXCEPT ![p] = Staged(b)]
  BY DEF RenameStaging, Builder
<1>2. PICK r \in built : Staged(b) = DirectoryOf(r)
  BY <1>1, StagedWhole DEF Inv, ResultsBuilt
<1>3. \A q \in Paths : dir'[q] = dir[q] \/ dir'[q] = Staged(b)
  BY <1>1 DEF Inv, Shape
<1>4. "metadata.json" \in DOMAIN Staged(b) /\ Staged(b)["metadata.json"] = r.metadata
  BY <1>2 DEF DirectoryOf, EntrySet, Entries
<1>5. Shape'
  BY <1>1 DEF Inv, Shape, NoBuild
<1>6. BuiltSound'
  BY <1>1 DEF Inv, BuiltSound, Sound
<1>7. ResultsBuilt'
  BY <1>1 DEF Inv, Shape, ResultsBuilt, NoBuild
<1>8. MetadataGenuine'
  <2> SUFFICES ASSUME NEW q \in Paths, Has(q, "metadata.json")'
               PROVE  \E x \in Genuine' : dir'[q]["metadata.json"] = x.metadata
    BY DEF MetadataGenuine
  <2>1. Genuine' = Genuine /\ r \in Genuine
    BY <1>1 DEF Genuine
  <2>2. CASE dir'[q] = dir[q]
    BY <2>1, <2>2 DEF Inv, MetadataGenuine, Has
  <2>3. CASE dir'[q] = Staged(b)
    BY <1>4, <2>1, <2>3
  <2> QED
    BY <1>3, <2>2, <2>3
<1>9. ReadersGenuine' /\ ReadersValid' /\ ReadGenuine'
  BY <1>1 DEF Inv, ReadersGenuine, ReadersValid, ReadGenuine, Genuine
<1>10. PackWhole'
  BY <1>1, <1>2, <1>3 DEF Inv, PackWhole
<1> QED
  BY <1>5, <1>6, <1>7, <1>8, <1>9, <1>10 DEF Inv

(* Operators and other tools mark the paths they work on.                  *)
LEMMA OperatorInv ==
    ASSUME Inv, NEW p \in Paths,
           RemoveEntry(p) \/ RemoveDirectory(p) \/ PlaceForeignPack(p)
    PROVE  Inv'
<1>1. UNCHANGED <<build, read, built>>
  BY DEF RemoveEntry, RemoveDirectory, PlaceForeignPack
<1>2. PICK d : dir' = [dir EXCEPT ![p] = d]
  BY DEF RemoveEntry, RemoveDirectory, PlaceForeignPack
<1>3. dir'[p] = None \/ p \in handled'
  BY DEF RemoveEntry, RemoveDirectory, PlaceForeignPack, Inv, Shape
<1>4. \A q \in Paths \ {p} : dir'[q] = dir[q] /\ (q \in handled' <=> q \in handled)
  BY <1>2 DEF RemoveEntry, RemoveDirectory, PlaceForeignPack, Inv, Shape
<1>5. Has(p, "metadata.json")' => \E x \in Genuine : dir'[p]["metadata.json"] = x.metadata
  <2>1. CASE RemoveEntry(p)
    <3>1. PICK rest \in SUBSET DOMAIN dir[p] :
            dir' = [dir EXCEPT ![p] = [x \in rest |-> dir[p][x]]]
      BY <2>1 DEF RemoveEntry
    <3>2. dir[p] # None /\ dir'[p] = [x \in rest |-> dir[p][x]]
      BY <2>1, <3>1 DEF RemoveEntry, Inv, Shape
    <3> QED
      BY <3>2 DEF Inv, MetadataGenuine, Has
  <2>2. CASE RemoveDirectory(p)
    BY <2>2 DEF RemoveDirectory, Inv, Shape, Has
  <2>3. CASE PlaceForeignPack(p)
    <3>1. PICK f \in ForeignPacks :
            dir' = [dir EXCEPT ![p] = [e \in {"bundle.json", "metadata.json"} |->
                       IF e = "bundle.json" THEN f.bundle ELSE f.metadata]]
      BY <2>3 DEF PlaceForeignPack
    <3>2. dir'[p]["metadata.json"] = f.metadata
      BY <3>1 DEF Inv, Shape
    <3> QED
      BY <3>2 DEF Genuine
  <2> QED
    BY <2>1, <2>2, <2>3
<1>6. Shape'
  BY <1>1, <1>2 DEF Inv, Shape
<1>7. BuiltSound' /\ ResultsBuilt'
  BY <1>1 DEF Inv, BuiltSound, Sound, ResultsBuilt
<1>8. MetadataGenuine'
  BY <1>1, <1>4, <1>5 DEF Inv, MetadataGenuine, Has, Genuine
<1>9. ReadersGenuine' /\ ReadersValid' /\ ReadGenuine'
  BY <1>1 DEF Inv, ReadersGenuine, ReadersValid, ReadGenuine, Genuine
<1>10. PackWhole'
  BY <1>1, <1>3, <1>4 DEF Inv, PackWhole
<1> QED
  BY <1>6, <1>7, <1>8, <1>9, <1>10 DEF Inv

(* A step that only moves the run of one reader.                           *)
LEMMA ReaderInv ==
    ASSUME Inv, NEW r \in Readers, NEW run, Reader(r, run),
           run.pc = "bundle" => \E x \in Genuine : run.metadata = x.metadata,
           run.pc = "accepted" => Valid(run.result) /\ run.result \in Genuine
    PROVE  Inv'
<1>1. /\ read' = [read EXCEPT ![r] = run]
      /\ UNCHANGED <<dir, handled, build, built>>
  BY DEF Reader
<1>2. \A q \in Readers : read'[q] = IF q = r THEN run ELSE read[q]
  BY <1>1 DEF Inv, Shape
<1>3. Shape'
  BY <1>1 DEF Inv, Shape
<1>4. BuiltSound' /\ ResultsBuilt' /\ MetadataGenuine' /\ PackWhole'
  BY <1>1 DEF Inv, BuiltSound, Sound, ResultsBuilt, MetadataGenuine, PackWhole, Has, Genuine
<1>5. Genuine' = Genuine
  BY <1>1 DEF Genuine
<1>6. ReadersGenuine'
  BY <1>2, <1>5 DEF Inv, ReadersGenuine
<1>7. ReadersValid'
  BY <1>2 DEF Inv, ReadersValid
<1>8. ReadGenuine'
  BY <1>1, <1>2 DEF Inv, ReadGenuine, Genuine
<1> QED
  BY <1>3, <1>4, <1>6, <1>7, <1>8 DEF Inv

LEMMA ReadInv ==
    ASSUME Inv, NEW r \in Readers, ReadMetadata(r) \/ ReadBundle(r)
    PROVE  Inv'
<1>1. ASSUME NEW pc \in {"idle", "failed"}, Reader(r, NoRead(pc, None)) PROVE Inv'
  BY <1>1, ReaderInv DEF NoRead
<1>2. ASSUME ReadMetadata(r) PROVE Inv'
  <2>1. PICK p \in Paths :
          \/ /\ Has(p, "metadata.json")
             /\ Reader(r, [pc |-> "bundle", path |-> p, metadata |-> dir[p]["metadata.json"],
                           result |-> None])
          \/ Reader(r, NoRead("failed", None))
    BY <1>2 DEF ReadMetadata
  <2>2. CASE Reader(r, NoRead("failed", None))
    BY <1>1, <2>2
  <2>3. CASE /\ Has(p, "metadata.json")
             /\ Reader(r, [pc |-> "bundle", path |-> p, metadata |-> dir[p]["metadata.json"],
                           result |-> None])
    <3> DEFINE run == [pc |-> "bundle", path |-> p, metadata |-> dir[p]["metadata.json"],
                       result |-> None]
    <3>1. run.pc = "bundle" /\ \E x \in Genuine : run.metadata = x.metadata
      BY <2>3 DEF Inv, MetadataGenuine
    <3> HIDE DEF run
    <3> QED
      BY <2>3, <3>1, ReaderInv DEF run
  <2> QED
    BY <2>1, <2>2, <2>3
<1>3. ASSUME ReadBundle(r) PROVE Inv'
  <2> DEFINE result == [metadata |-> read[r].metadata, bundle |-> dir[read[r].path]["bundle.json"]]
  <2>1. CASE Valid(result) /\ Reader(r, NoRead("accepted", result))
    <3>1. PICK x \in Genuine : read[r].metadata = x.metadata
      BY <1>3 DEF ReadBundle, Inv, ReadersGenuine
    <3>2. x = [metadata |-> x.metadata, bundle |-> x.bundle] /\ BytesMatch(x)
      BY PackAssumption DEF Genuine, Inv, BuiltSound, Sound, BytesMatch
    <3>3. result.metadata = x.metadata /\ BytesMatch(result)
      BY <2>1, <3>1 DEF Valid
    <3>4. result.bundle = x.bundle
      BY <3>2, <3>3, ChecksumNamesBundle
    <3>5. result = x
      BY <3>2, <3>3, <3>4
    <3> HIDE DEF result
    <3> QED
      BY <2>1, <3>5, ReaderInv DEF NoRead
  <2> QED
    BY <1>1, <1>3, <2>1 DEF ReadBundle
<1> QED
  BY <1>2, <1>3

LEMMA NextInv == Inv /\ [Next]_vars => Inv'
<1> SUFFICES ASSUME Inv, [Next]_vars PROVE Inv'
  OBVIOUS
<1>1. ASSUME UNCHANGED <<dir, handled, build, read, built>> PROVE Inv'
  BY <1>1 DEF Inv, Shape, BuiltSound, Sound, ResultsBuilt, MetadataGenuine, ReadersGenuine,
              ReadersValid, PackWhole, ReadGenuine, Has, Genuine
<1>2. CASE RenewChain \/ RenewKey
  BY <1>1, <1>2 DEF RenewChain, RenewKey
<1>3. ASSUME NEW r \in Readers, SeedTarget(r) PROVE Inv'
  BY <1>3, ReaderInv DEF SeedTarget, NoRead
<1>4. CASE UNCHANGED vars
  BY <1>1, <1>4 DEF vars, packVars
<1> QED
  BY <1>2, <1>3, <1>4, BuildInv, RenameInv, OperatorInv, ReadInv DEF Next, PackStep

-----------------------------------------------------------------------------
THEOREM InvAlways == Spec => []Inv
BY InitInv, NextInv, PTL DEF Spec

(* A pack directory that nobody else has touched is the whole result of    *)
(* one Build, for any number of builders and paths (pack.Write).           *)
THEOREM PacksWhole == Spec => []PackWhole
<1>1. Inv => PackWhole
  BY DEF Inv
<1> QED
  BY <1>1, InvAlways, PTL

(* A read returns one pack, for any number of writers and operators beside *)
(* it (pack.Read).                                                         *)
THEOREM ReadsGenuine == Spec => []ReadGenuine
<1>1. Inv => ReadGenuine
  BY DEF Inv
<1> QED
  BY <1>1, InvAlways, PTL

(* What was built or read passes as valid. *)
LEMMA ResultsValid ==
    ASSUME Inv, NEW x \in Results
    PROVE  /\ Decodes(x.bundle.manifest)
           /\ DigestMatches(x)
           /\ x.metadata.bundleKey = BundleKey(x.metadata.prefix, x.metadata.target, x.metadata.gen)
<1>1. CASE x \in built
  BY <1>1 DEF Inv, BuiltSound, Sound
<1>2. CASE \E r \in Readers : read[r].pc = "accepted" /\ x = read[r].result
  BY <1>2 DEF Inv, ReadersValid, Valid, KeysMatch
<1> QED
  BY <1>1, <1>2 DEF Results

(* Agents fetch what a pack names, under the key that publish uses, for    *)
(* any packs (pack.Validate and materialFromValue).                        *)
THEOREM StagedFetched == Spec => []StagedIsFetched
<1>1. Inv => StagedIsFetched
  BY ResultsValid DEF StagedIsFetched, FetchAccepts, DigestMatches
<1> QED
  BY <1>1, InvAlways, PTL

(* One generation, one content, for any bundles in any encoding            *)
(* (ManifestDigest).                                                       *)
THEOREM GenerationsNameContent == Spec => []GenerationNamesContent
<1>1. ASSUME Inv, NEW x \in Results, NEW y \in Results, x.metadata.gen = y.metadata.gen
      PROVE  x.bundle.manifest.type = y.bundle.manifest.type /\ FilesOf(x) = FilesOf(y)
  <2>1. /\ ManifestValid(x.bundle.manifest) /\ ManifestValid(y.bundle.manifest)
        /\ DigestMatches(x) /\ DigestMatches(y)
    BY <1>1, ResultsValid DEF Decodes
  <2>2. ManifestDigest(x.bundle.manifest) = ManifestDigest(y.bundle.manifest)
    <3>1. x.metadata.digest = y.metadata.digest
      BY <1>1, <2>1, GenerationInjective DEF DigestMatches
    <3> QED
      BY <2>1, <3>1 DEF DigestMatches
  <2> QED
    BY <2>1, <2>2, DigestNamesFiles DEF FilesOf
<1>2. Inv => GenerationNamesContent
  BY <1>1 DEF GenerationNamesContent
<1> QED
  BY <1>2, InvAlways, PTL

(* No file of a pack directory is ever replaced or added (pack.Write).     *)
THEOREM PacksNeverReplaced == Spec => NeverReplaced
<1> DEFINE Kept ==
      \A p \in Paths :
          dir[p] # None /\ dir'[p] # None =>
              \A e \in DOMAIN dir'[p] : e \in DOMAIN dir[p] /\ dir'[p][e] = dir[p][e]
<1>1. Inv /\ [Next]_vars => [Kept]_vars
  <2> SUFFICES ASSUME Inv, Next PROVE Kept
    BY DEF vars
  <2>1. ASSUME dir' = dir PROVE Kept
    BY <2>1
  <2>2. ASSUME NEW b \in Builders, RenameStaging(b) PROVE Kept
    BY <2>2 DEF RenameStaging, Inv, Shape
  <2>3. ASSUME NEW p \in Paths, RemoveEntry(p) PROVE Kept
    BY <2>3 DEF RemoveEntry, Inv, Shape
  <2>4. ASSUME NEW p \in Paths, RemoveDirectory(p) PROVE Kept
    BY <2>4 DEF RemoveDirectory, Inv, Shape
  <2>5. ASSUME NEW p \in Paths, PlaceForeignPack(p) PROVE Kept
    BY <2>5 DEF PlaceForeignPack, Inv, Shape
  <2>6. ASSUME NEW r \in Readers, SeedTarget(r) \/ ReadMetadata(r) \/ ReadBundle(r) PROVE Kept
    BY <2>6, <2>1 DEF SeedTarget, ReadMetadata, ReadBundle, Reader
  <2>7. ASSUME NEW b \in Builders,
               \/ StartBuild(b) \/ ReadCertificate(b) \/ ReadKeyAndEncode(b)
               \/ StatOutput(b) \/ WriteFile(b) \/ BuildStops(b)
        PROVE  Kept
    BY <2>7, <2>1 DEF StartBuild, ReadCertificate, ReadKeyAndEncode, StatOutput, WriteFile, BuildStops
  <2>8. ASSUME RenewChain \/ RenewKey PROVE Kept
    BY <2>8, <2>1 DEF RenewChain, RenewKey
  <2> HIDE DEF Kept
  <2> QED
    BY <2>2, <2>3, <2>4, <2>5, <2>6, <2>7, <2>8 DEF Next, PackStep
<1> QED
  BY <1>1, InvAlways, PTL DEF Spec, NeverReplaced

(* A bundle that decodes and has a private key has the certificate of it.  *)
LEMMA DecodedPair ==
    ASSUME NEW m, Decodes(m), IsList(m.files), "privkey.pem" \in DOMAIN FileMap(m)
    PROVE  FileMap(m)["privkey.pem"][1].of = FileMap(m)["fullchain.pem"][1].of.key
<1> DEFINE files == FileMap(m)
<1>0. /\ ManifestValid(m)
      /\ MaterialValid(m.type, files)
      /\ "privkey.pem" \in DOMAIN files
  BY DEF Decodes
<1> HIDE DEF files
<1>1. CASE m.type \in IdentityTypes
  <2>1. IdentityValid(m.type, Content(files, "fullchain.pem"), Content(files, "privkey.pem"))
    BY <1>0, <1>1 DEF MaterialValid, IdentityTypes
  <2>2. /\ AreCertificates(Content(files, "fullchain.pem"))
        /\ KeyMatches(Content(files, "fullchain.pem")[1].of, Content(files, "privkey.pem"))
    BY <2>1 DEF IdentityValid
  <2>3. files["fullchain.pem"][1].of.key = files["privkey.pem"][1].of
    BY <1>0, <2>2 DEF KeyMatches, Content, AreCertificates
  <2> QED
    BY <2>3 DEF files
<1>2. CASE m.type = "trust"
  <2>1. "ca-bundle.pem" \in DOMAIN files
    BY <1>0, <1>2 DEF MaterialValid, TrustValid, AreCertificates, Content, IdentityTypes
  <2>2. PICK i \in DOMAIN m.files : m.files[i].name = "ca-bundle.pem"
    BY <2>1 DEF files, FileMap
  <2>3. PICK j \in DOMAIN m.files : m.files[j].name = "privkey.pem"
    BY <1>0 DEF files, FileMap
  <2>4. DOMAIN m.files = 1..1
    BY <1>0, <1>2 DEF ManifestValid, Names, IsList
  <2> QED
    BY <2>2, <2>3, <2>4
<1> QED
  BY <1>0, <1>1, <1>2 DEF ManifestValid, Types

(* The private key of every release belongs to its certificate, for any    *)
(* renewals between the reads of any Build and any foreign packs           *)
(* (validateTLSMaterial, Encode, pack.Validate).                           *)
THEOREM ReleasesPaired == Spec => []KeysPaired
<1>1. Init => KeysPaired
  BY DEF Init, KeysPaired
<1>2. ASSUME Inv, KeysPaired, [Next]_vars PROVE KeysPaired'
  <2>1. ASSUME NEW r \in Readers, Valid(read[r].result), "privkey.pem" \in DOMAIN FilesOf(read[r].result),
               read[r].result \in Genuine
        PROVE  FilesOf(read[r].result)["privkey.pem"][1].of
                  = FilesOf(read[r].result)["fullchain.pem"][1].of.key
    <3>1. IsList(read[r].result.bundle.manifest.files)
      BY <1>2, <2>1, PackAssumption DEF Genuine, Inv, BuiltSound, Sound, IsList
    <3> QED
      BY <2>1, <3>1, DecodedPair DEF FilesOf, Valid
  <2>2. ASSUME NEW r \in Readers, SeedTarget(r) PROVE KeysPaired'
    <3>1. /\ read[r].pc = "accepted"
          /\ Valid(read[r].result)
          /\ read[r].result \in Genuine
      BY <1>2, <2>2 DEF SeedTarget, Inv, ReadersValid, ReadGenuine, Genuine
    <3>2. ASSUME NEW x \in releases', x \notin releases PROVE x.files = FilesOf(read[r].result)
      BY <2>2, <3>2 DEF SeedTarget, Apply, Keep, Fails, Activate
    <3> QED
      BY <1>2, <2>1, <3>1, <3>2 DEF KeysPaired
  <2>3. CASE UNCHANGED releases
    BY <1>2, <2>3 DEF KeysPaired
  <2> QED
    BY <1>2, <2>2, <2>3 DEF Next, seedVars, vars
<1> QED
  BY <1>1, <1>2, InvAlways, PTL DEF Spec

-----------------------------------------------------------------------------
LEMMA FilesAreFunction == \A m : FileMap(m) = [n \in DOMAIN FileMap(m) |-> FileMap(m)[n]]
<1> TAKE m
<1> DEFINE S == {m.files[i].name : i \in DOMAIN m.files}
           content(n) == m.files[CHOOSE i \in DOMAIN m.files : m.files[i].name = n].data.of
<1>1. FileMap(m) = [n \in S |-> content(n)]
  BY Zenon DEF FileMap
<1> HIDE DEF S, content
<1> QED
  BY <1>1

(* What a list of files holds, whatever order it has. *)
LEMMA ListedFiles ==
    ASSUME NEW m, NEW names, NEW files, DOMAIN m.files = DOMAIN names,
           files = [n \in {names[i] : i \in DOMAIN names} |-> files[n]],
           \A i \in DOMAIN names :
              m.files[i].name = names[i] /\ m.files[i].data.of = files[names[i]]
    PROVE  FileMap(m) = files
<1> DEFINE At(n) == CHOOSE i \in DOMAIN m.files : m.files[i].name = n
<1>1. {m.files[i].name : i \in DOMAIN m.files} = {names[i] : i \in DOMAIN names}
  <2>1. \A i \in DOMAIN names : m.files[i].name = names[i]
    OBVIOUS
  <2>2. DOMAIN m.files = DOMAIN names
    OBVIOUS
  <2>3. ASSUME NEW n \in {m.files[i].name : i \in DOMAIN m.files}
        PROVE  n \in {names[i] : i \in DOMAIN names}
    <3>1. PICK i \in DOMAIN m.files : n = m.files[i].name
      BY <2>3, Zenon
    <3> QED
      BY <2>1, <2>2, <3>1
  <2>4. ASSUME NEW n \in {names[i] : i \in DOMAIN names}
        PROVE  n \in {m.files[i].name : i \in DOMAIN m.files}
    <3>1. PICK i \in DOMAIN names : n = names[i]
      BY <2>4, Zenon
    <3> QED
      BY <2>1, <2>2, <3>1
  <2> QED
    BY <2>3, <2>4
<1>2. ASSUME NEW n \in {names[i] : i \in DOMAIN names}
      PROVE  m.files[At(n)].data.of = files[n]
  <2>1. \E i \in DOMAIN m.files : m.files[i].name = n
    OBVIOUS
  <2>2. At(n) \in DOMAIN m.files /\ m.files[At(n)].name = n
    BY <2>1
  <2> HIDE DEF At
  <2>3. m.files[At(n)].data.of = files[names[At(n)]] /\ names[At(n)] = n
    BY <2>2
  <2> QED
    BY <2>3
<1>3. FileMap(m) = [n \in {m.files[i].name : i \in DOMAIN m.files} |-> m.files[At(n)].data.of]
  BY Zenon DEF FileMap
<1> HIDE DEF At
<1> QED
  BY <1>1, <1>2, <1>3

(* The manifest of a type has the files that it was made of. *)
LEMMA FilesOfManifest ==
    ASSUME NEW type, NEW contents
    PROVE  FileMap(NewManifest(type, contents)) = [n \in NameSet(type) |-> contents[n]]
<1> DEFINE m == NewManifest(type, contents)
           names == Names(type)
<1>1. DOMAIN m.files = DOMAIN names
  BY DEF NewManifest
<1>2. ASSUME NEW i \in DOMAIN names
      PROVE  m.files[i].name = names[i] /\ m.files[i].data.of = contents[names[i]]
  BY DEF NewManifest, File, Base64
<1>3. NameSet(type) = {names[i] : i \in DOMAIN names}
  BY DEF NameSet
<1> DEFINE files == [n \in NameSet(type) |-> contents[n]]
<1>4. files = [n \in {names[i] : i \in DOMAIN names} |-> files[n]]
  BY <1>3
<1>5. \A i \in DOMAIN names : m.files[i].name = names[i] /\ m.files[i].data.of = files[names[i]]
  BY <1>2, <1>3
<1> HIDE DEF m, names, files
<1>6. FileMap(m) = files
  BY <1>1, <1>4, <1>5, ListedFiles
<1> QED
  BY <1>6 DEF m, files

(* ... and only they count. *)
LEMMA SameManifest ==
    ASSUME NEW type, NEW c, NEW d, \A n \in NameSet(type) : c[n] = d[n]
    PROVE  NewManifest(type, c) = NewManifest(type, d)
<1>1. \A i \in DOMAIN Names(type) : c[Names(type)[i]] = d[Names(type)[i]]
  BY DEF NameSet
<1> QED
  BY <1>1, Zenon DEF NewManifest

LEMMA IdentityNames ==
    ASSUME NEW type \in IdentityTypes
    PROVE  Names(type) = <<"fullchain.pem", "privkey.pem">> /\ NameSet(type) = V5Names
BY DEF IdentityTypes, Names, NameSet, V5Names

(* A v5 bundle of the two files decodes, and is converted to the canonical *)
(* v6 manifest of them.                                                    *)
LEMMA Converted ==
    ASSUME NEW type \in IdentityTypes, NEW files, DOMAIN files = V5Names,
           files = [n \in V5Names |-> files[n]],
           NEW names \in {Names(type), Reverse(Names(type))}
    PROVE  /\ V5Decodes(V5Manifest(names, files), Generation(ContentDigest(files)))
           /\ ConvertTLS(V5Manifest(names, files), type) = NewManifest(type, files)
<1> DEFINE v5 == V5Manifest(names, files)
<1>1. /\ DOMAIN names = 1..2 /\ Len(names) = 2
      /\ \/ names[1] = "fullchain.pem" /\ names[2] = "privkey.pem"
         \/ names[1] = "privkey.pem" /\ names[2] = "fullchain.pem"
  <2>1. CASE names = Names(type)
    BY <2>1, IdentityNames
  <2>2. CASE names = Reverse(Names(type))
    <3>1. Len(Names(type)) = 2
      BY IdentityNames
    <3>2. names = [i \in 1..2 |-> Names(type)[(2 - i) + 1]]
      BY <2>2, <3>1 DEF Reverse
    <3>3. names[1] = Names(type)[2] /\ names[2] = Names(type)[1]
      BY <3>2
    <3>4. DOMAIN names = 1..2 /\ Len(names) = 2
      BY <3>2
    <3> QED
      BY <3>3, <3>4, IdentityNames
  <2> QED
    BY <2>1, <2>2
<1>2. {names[i] : i \in DOMAIN names} = V5Names
  BY <1>1 DEF V5Names
<1>3. /\ v5.files = [i \in 1..2 |-> V5File(names[i], files[names[i]])]
      /\ v5.pairs = <<V5Pair>>
  BY <1>1 DEF V5Manifest
<1>4. ASSUME NEW i \in DOMAIN names
      PROVE  /\ v5.files[i].name = names[i]
             /\ v5.files[i].kind = KindOf(names[i])
             /\ v5.files[i].sum = Hash(files[names[i]])
             /\ v5.files[i].data = Base64(files[names[i]])
  BY <1>1, <1>3 DEF V5File
<1>5. DOMAIN v5.files = DOMAIN names /\ Len(v5.files) = 2
  BY <1>1, <1>3
<1> HIDE DEF v5
<1>6. FileMap(v5) = files
  <2>1. ASSUME NEW i \in DOMAIN names PROVE v5.files[i].data.of = files[names[i]]
    <3>1. v5.files[i].data = Base64(files[names[i]])
      BY <1>4
    <3> QED
      BY <3>1 DEF Base64
  <2>2. files = [n \in {names[i] : i \in DOMAIN names} |-> files[n]]
    BY <1>2
  <2> QED
    BY <1>4, <1>5, <2>1, <2>2, ListedFiles
<1>7. V5Valid(v5)
  BY <1>2, <1>3, <1>4, <1>5 DEF V5Valid
<1>8. V5Decodes(v5, Generation(ContentDigest(files)))
  <2>1. ASSUME NEW i \in DOMAIN v5.files
        PROVE  Decodable(v5.files[i].data) /\ Hash(v5.files[i].data.of) = v5.files[i].sum
    <3>1. i \in DOMAIN names
      BY <1>5
    <3>2. v5.files[i].data = Base64(files[names[i]]) /\ v5.files[i].sum = Hash(files[names[i]])
      BY <1>4, <3>1
    <3> QED
      BY <3>2 DEF Decodable, Base64
  <2> QED
    BY <1>6, <1>7, <2>1 DEF V5Decodes
<1> QED
  BY <1>6, <1>8 DEF ConvertTLS, v5

-----------------------------------------------------------------------------
(* The second invariant: where the sources of a Build come from, what it   *)
(* has made of them, and how releases are written.                         *)
SourceInRange ==
    /\ source = [chain |-> source.chain, key |-> source.key]
    /\ source.key \in 1..Len(Renewals)
    /\ source.chain \in source.key..source.key + 1
    /\ source.chain <= Len(Renewals)

BuildsStarted ==
    \A b \in Builders :
        /\ {"pc", "options", "path", "chain", "result", "written"} \subseteq DOMAIN build[b]
        /\ build[b].pc # "idle" => build[b].options \in Options /\ build[b].path \in Paths
        /\ build[b].pc = "key" => PemFile(build[b].chain)

(* A Build has nothing but its two files to make a bundle of. *)
Canonical(x) ==
    /\ x.metadata.type \in Types
    /\ x.bundle = Encode(NewManifest(x.metadata.type, FilesOf(x)))
    /\ DOMAIN FilesOf(x) = NameSet(x.metadata.type)
    /\ \A n \in DOMAIN FilesOf(x) : PemFile(FilesOf(x)[n])

BuiltCanonical == \A x \in built : Canonical(x)

(* A release is what its digest, its configuration and its umask make it.  *)
WrittenFor(x) ==
    /\ x.config \in Configs
    /\ TargetValid(x.config)
    /\ Writable(x.config)
    /\ x.tree = Written(x.config, x.files, x.digest, x.umask)

ReleasesWritten ==
    /\ current # None => Exists(current)
    /\ \A x, y \in releases : x.digest = y.digest => x = y
    /\ \A x \in releases : WrittenFor(x)

MadeInv ==
    /\ SourceInRange
    /\ BuildsStarted
    /\ BuiltCanonical
    /\ ReleasesWritten

LEMMA InitMade == Init => MadeInv
<1> SUFFICES ASSUME Init PROVE MadeInv
  OBVIOUS
<1>1. SourceInRange
  <2>1. Len(Renewals) \in Nat /\ Len(Renewals) # 0
    BY PackAssumption DEF IsList
  <2>2. source = [chain |-> 1, key |-> 1]
    BY DEF Init, PackInit
  <2> QED
    BY <2>1, <2>2 DEF SourceInRange
<1>2. BuildsStarted
  BY DEF Init, PackInit, BuildsStarted, NoBuild
<1>3. BuiltCanonical
  BY DEF Init, PackInit, BuiltCanonical
<1>4. ReleasesWritten
  BY DEF Init, ReleasesWritten
<1> QED
  BY <1>1, <1>2, <1>3, <1>4 DEF MadeInv

(* What a Build reads is PEM, and all the files of its type. *)
LEMMA ContentsRead ==
    ASSUME SourceInRange, BuildsStarted, NEW b \in Builders, build[b].pc = "key"
    PROVE  LET c == Contents(b)
               type == build[b].options.type
           IN  /\ type \in Types
               /\ c = [n \in NameSet(type) |-> c[n]]
               /\ \A n \in NameSet(type) : PemFile(c[n])
<1> DEFINE c == Contents(b)
           type == build[b].options.type
           key == Renewals[source.key].key
<1>1. type \in Types /\ PemFile(build[b].chain)
  BY PackAssumption DEF BuildsStarted
<1>2. PemFile(key)
  BY PackAssumption DEF SourceInRange, IsList
<1>3. CASE type = "trust"
  <2>1. c = [n \in {"ca-bundle.pem"} |-> build[b].chain]
    BY <1>3 DEF Contents
  <2>2. NameSet(type) = {"ca-bundle.pem"}
    BY <1>3 DEF NameSet, Names
  <2> HIDE DEF c
  <2> QED
    BY <1>1, <2>1, <2>2 DEF c
<1>4. CASE type # "trust"
  <2>1. c = [n \in {"fullchain.pem", "privkey.pem"} |->
               IF n = "fullchain.pem" THEN build[b].chain ELSE key]
    BY <1>4 DEF Contents
  <2>2. NameSet(type) = {"fullchain.pem", "privkey.pem"}
    BY <1>4 DEF NameSet, Names
  <2> HIDE DEF c, key
  <2> QED
    BY <1>1, <1>2, <2>1, <2>2 DEF c
<1> QED
  BY <1>3, <1>4

LEMMA ResultCanonical ==
    ASSUME NEW o, NEW c, o.type \in Types,
           c = [n \in NameSet(o.type) |-> c[n]],
           \A n \in NameSet(o.type) : PemFile(c[n])
    PROVE  Canonical(ResultOf(o, c))
<1> DEFINE x == ResultOf(o, c)
<1>1. x.bundle = Encode(NewManifest(o.type, c)) /\ x.metadata.type = o.type
  BY DEF ResultOf, MetadataOf
<1>2. FilesOf(x) = FileMap(NewManifest(o.type, c))
  BY <1>1 DEF FilesOf, Encode
<1>3. FileMap(NewManifest(o.type, c)) = c
  BY FilesOfManifest
<1> HIDE DEF x
<1>4. FilesOf(x) = c
  BY <1>2, <1>3
<1> QED
  BY <1>1, <1>4 DEF Canonical, x

(* Steps of builders. *)
LEMMA BuilderMade ==
    ASSUME MadeInv, NEW b \in Builders, DOMAIN build = Builders,
           \/ StartBuild(b)
           \/ ReadCertificate(b)
           \/ ReadKeyAndEncode(b)
           \/ StatOutput(b)
           \/ WriteFile(b)
           \/ RenameStaging(b)
           \/ BuildStops(b),
           UNCHANGED seedVars
    PROVE  MadeInv'
<1> DEFINE Fields(run) == {"pc", "options", "path", "chain", "result", "written"} \subseteq DOMAIN run
           Fine(run) == /\ Fields(run)
                        /\ run.pc # "idle" => run.options \in Options /\ run.path \in Paths
                        /\ run.pc = "key" => PemFile(run.chain)
<1>0. Fine(build[b]) /\ SourceInRange /\ BuildsStarted
  BY DEF MadeInv, BuildsStarted
<1>1. ASSUME NEW run, Builder(b, run), Fine(run),
             built' = built \/ \E x : built' = built \cup {x} /\ Canonical(x)
      PROVE  MadeInv'
  <2>1. SourceInRange'
    BY <1>1 DEF MadeInv, SourceInRange, Builder
  <2>2. BuildsStarted'
    BY <1>1 DEF MadeInv, BuildsStarted, Builder
  <2>3. BuiltCanonical'
    BY <1>1 DEF MadeInv, BuiltCanonical, Canonical
  <2>4. ReleasesWritten'
    BY DEF MadeInv, ReleasesWritten, WrittenFor, Exists, seedVars
  <2> QED
    BY <2>1, <2>2, <2>3, <2>4 DEF MadeInv
<1>2. Fine(NoBuild)
  BY DEF NoBuild
<1>3. CASE StartBuild(b)
  <2>1. PICK o \in Options, p \in Paths :
          Builder(b, [NoBuild EXCEPT !.pc = "chain", !.options = o, !.path = p])
    BY <1>3 DEF StartBuild
  <2> DEFINE run == [NoBuild EXCEPT !.pc = "chain", !.options = o, !.path = p]
  <2>2. Fine(run) /\ built' = built
    BY <1>3 DEF StartBuild, NoBuild
  <2> HIDE DEF Fine, run
  <2> QED
    BY <1>1, <2>1, <2>2 DEF run
<1>4. CASE ReadCertificate(b)
  <2> DEFINE chain == IF build[b].options.type = "trust" THEN CABundle
                      ELSE Renewals[source.chain].chain
             run == [build[b] EXCEPT !.pc = "key", !.chain = chain]
  <2>1. Builder(b, run) /\ built' = built /\ build[b].pc = "chain"
    BY <1>4 DEF ReadCertificate
  <2>2. PemFile(chain)
    BY <1>0, PackAssumption DEF SourceInRange, IsList
  <2> HIDE DEF chain
  <2>3. Fine(run)
    BY <1>0, <2>1, <2>2
  <2> HIDE DEF Fine, run
  <2> QED
    BY <1>1, <2>1, <2>3
<1>5. CASE ReadKeyAndEncode(b)
  <2> DEFINE r == ResultOf(build[b].options, Contents(b))
             run == [build[b] EXCEPT !.pc = "stat", !.chain = <<>>, !.result = r]
  <2>1. build[b].pc = "key"
    BY <1>5 DEF ReadKeyAndEncode
  <2>2. Canonical(r)
    BY <1>0, <2>1, ContentsRead, ResultCanonical
  <2> HIDE DEF r
  <2>3. Fine(run)
    BY <1>0, <2>1
  <2>4. \/ Builder(b, run) /\ built' = built \cup {r}
        \/ Builder(b, NoBuild) /\ built' = built
    BY <1>5 DEF ReadKeyAndEncode, r
  <2> HIDE DEF Fine, run
  <2> QED
    BY <1>1, <1>2, <2>2, <2>3, <2>4
<1>6. CASE StatOutput(b)
  <2> DEFINE run == [build[b] EXCEPT !.pc = "write"]
  <2>1. /\ Builder(b, run) \/ Builder(b, NoBuild)
        /\ built' = built /\ build[b].pc = "stat"
    BY <1>6 DEF StatOutput
  <2>2. Fine(run)
    BY <1>0, <2>1
  <2> HIDE DEF Fine, run
  <2> QED
    BY <1>1, <1>2, <2>1, <2>2
<1>7. CASE WriteFile(b)
  <2> DEFINE run == [build[b] EXCEPT !.written = @ + 1]
  <2>1. Builder(b, run) /\ built' = built /\ build[b].pc = "write"
    BY <1>7 DEF WriteFile
  <2>2. Fine(run)
    BY <1>0, <2>1
  <2> HIDE DEF Fine, run
  <2> QED
    BY <1>1, <2>1, <2>2
<1>8. CASE RenameStaging(b) \/ BuildStops(b)
  <2>1. Builder(b, NoBuild) /\ built' = built
    BY <1>8 DEF RenameStaging, BuildStops
  <2> QED
    BY <1>1, <1>2, <2>1
<1> QED
  BY <1>3, <1>4, <1>5, <1>6, <1>7, <1>8

(* What a seed command leaves behind, when it comes to activate. *)
LEMMA ActivateCases ==
    ASSUME NEW t, NEW x, NEW umask, Activate(t, x, umask)
    PROVE  LET digest == x.metadata.digest
               release == [digest |-> digest, tree |-> Written(t, FilesOf(x), digest, umask),
                           config |-> t, umask |-> umask, files |-> FilesOf(x)]
           IN  \/ /\ UNCHANGED <<releases, current>>
                  /\ last'.outcome \notin {"switched", "unchanged"}
               \/ /\ Exists(digest)
                  /\ Verifies(ReleaseOf(digest).tree, t, FilesOf(x), digest)
                  /\ releases' = releases /\ current' = digest
                  /\ last'.target = t /\ last'.result = x
               \/ /\ ~Exists(digest)
                  /\ Writable(t)
                  /\ releases' = releases \cup {release} /\ current' = digest
                  /\ last'.target = t /\ last'.result = x
BY DEF Activate, Fails, Keep, Report

LEMMA SeedCases ==
    ASSUME NEW r \in Readers, SeedTarget(r)
    PROVE  /\ read[r].pc = "accepted"
           /\ \/ /\ UNCHANGED <<releases, current>>
                 /\ last'.outcome \notin {"switched", "unchanged"}
              \/ \E t \in Configs, now \in Times, umask \in Umasks :
                    /\ TargetValid(t)
                    /\ Material(t, read[r].result, now)
                    /\ Activate(t, read[r].result, umask)
BY DEF SeedTarget, Apply, Keep, Report

LEMMA SeedWritten ==
    ASSUME ReleasesWritten, NEW r \in Readers, SeedTarget(r)
    PROVE  ReleasesWritten'
<1>1. CASE UNCHANGED <<releases, current>>
  BY <1>1 DEF ReleasesWritten, WrittenFor, Exists
<1>2. ASSUME NEW t \in Configs, NEW umask \in Umasks, TargetValid(t),
             Activate(t, read[r].result, umask)
      PROVE  ReleasesWritten'
  <2> DEFINE x == read[r].result
             digest == x.metadata.digest
             release == [digest |-> digest, tree |-> Written(t, FilesOf(x), digest, umask),
                         config |-> t, umask |-> umask, files |-> FilesOf(x)]
  <2>1. CASE Exists(digest) /\ releases' = releases /\ current' = digest
    BY <2>1 DEF ReleasesWritten, WrittenFor, Exists
  <2>2. CASE /\ ~Exists(digest) /\ Writable(t)
             /\ releases' = releases \cup {release} /\ current' = digest
    <3>1. WrittenFor(release) /\ release.digest = digest
      BY <1>2, <2>2 DEF WrittenFor
    <3> HIDE DEF release, digest
    <3>2. Exists(current)'
      BY <2>2, <3>1 DEF Exists
    <3>3. \A y \in releases' : WrittenFor(y)
      BY <2>2, <3>1 DEF ReleasesWritten
    <3>4. \A y, z \in releases' : y.digest = z.digest => y = z
      BY <2>2, <3>1 DEF ReleasesWritten, Exists
    <3> QED
      BY <2>2, <3>2, <3>3, <3>4 DEF ReleasesWritten, Exists, WrittenFor
  <2> QED
    BY <1>1, <1>2, <2>1, <2>2, ActivateCases
<1> QED
  BY <1>1, <1>2, SeedCases

LEMMA NextMade == Inv /\ MadeInv /\ [Next]_vars => MadeInv'
<1> SUFFICES ASSUME Inv, MadeInv, [Next]_vars PROVE MadeInv'
  OBVIOUS
<1>1. ASSUME UNCHANGED <<source, build, built>>, ReleasesWritten' PROVE MadeInv'
  BY <1>1 DEF MadeInv, SourceInRange, BuildsStarted, BuiltCanonical, Canonical
<1>2. ASSUME UNCHANGED <<releases, current>> PROVE ReleasesWritten'
  BY <1>2 DEF MadeInv, ReleasesWritten, WrittenFor, Exists
<1>3. ASSUME RenewChain \/ RenewKey, UNCHANGED seedVars PROVE MadeInv'
  <2>1. /\ SourceInRange
        /\ Len(Renewals) \in Nat
        /\ UNCHANGED <<build, built>>
    BY <1>3, PackAssumption DEF MadeInv, RenewChain, RenewKey, IsList
  <2>4. ReleasesWritten'
    BY <1>2, <1>3 DEF seedVars
  <2>5. SourceInRange'
    <3>1. CASE RenewChain
      <4>1. /\ source' = [source EXCEPT !.chain = @ + 1]
            /\ source.chain = source.key /\ source.chain < Len(Renewals)
        BY <3>1 DEF RenewChain
      <4> QED
        BY <2>1, <4>1 DEF SourceInRange
    <3>2. CASE RenewKey
      <4>1. source' = [source EXCEPT !.key = @ + 1] /\ source.key < source.chain
        BY <3>2 DEF RenewKey
      <4> QED
        BY <2>1, <4>1 DEF SourceInRange
    <3> QED
      BY <1>3, <3>1, <3>2
  <2> QED
    BY <2>1, <2>4, <2>5 DEF MadeInv, BuildsStarted, BuiltCanonical, Canonical
<1>4. ASSUME NEW r \in Readers, SeedTarget(r) PROVE MadeInv'
  <2>1. ReleasesWritten'
    BY <1>4, SeedWritten DEF MadeInv
  <2>2. UNCHANGED <<source, build, built>>
    BY <1>4 DEF SeedTarget, Reader
  <2> QED
    BY <1>1, <2>1, <2>2
<1>5. ASSUME NEW r \in Readers, ReadMetadata(r) \/ ReadBundle(r), UNCHANGED seedVars PROVE MadeInv'
  BY <1>1, <1>2, <1>5 DEF ReadMetadata, ReadBundle, Reader, seedVars
<1>6. ASSUME NEW p \in Paths, RemoveEntry(p) \/ RemoveDirectory(p) \/ PlaceForeignPack(p),
             UNCHANGED seedVars
      PROVE  MadeInv'
  BY <1>1, <1>2, <1>6 DEF RemoveEntry, RemoveDirectory, PlaceForeignPack, seedVars
<1>7. CASE UNCHANGED vars
  BY <1>1, <1>2, <1>7 DEF vars, packVars, seedVars
<1>8. DOMAIN build = Builders
  BY DEF Inv, Shape
<1> QED
  BY <1>3, <1>4, <1>5, <1>6, <1>7, <1>8, BuilderMade DEF Next, PackStep

LEMMA MadeAlways == Spec => [](Inv /\ MadeInv)
BY InitInv, NextInv, InitMade, NextMade, PTL DEF Spec

-----------------------------------------------------------------------------
(* A v6 pack and the upgrade of the v5 bundle of the same files have the   *)
(* same bytes, for any material (ConvertTLS).                              *)
THEOREM ConversionsAgree == Spec => []ConversionAgrees
<1>1. ASSUME MadeInv, NEW x \in built, x.metadata.type \in IdentityTypes,
             NEW names \in {Names(x.metadata.type), Reverse(Names(x.metadata.type))}
      PROVE  LET v5 == V5Manifest(names, FilesOf(x)) IN
             /\ V5Decodes(v5, Generation(ContentDigest(FilesOf(x))))
             /\ Encode(ConvertTLS(v5, x.metadata.type)) = x.bundle
  <2>1. Canonical(x)
    BY <1>1 DEF MadeInv, BuiltCanonical
  <2>2. DOMAIN FilesOf(x) = V5Names
    BY <1>1, <2>1, IdentityNames DEF Canonical
  <2>3. FilesOf(x) = [n \in V5Names |-> FilesOf(x)[n]]
    <3>1. FilesOf(x) = [n \in DOMAIN FilesOf(x) |-> FilesOf(x)[n]]
      BY FilesAreFunction DEF FilesOf
    <3> QED
      BY <2>2, <3>1
  <2>4. ConvertTLS(V5Manifest(names, FilesOf(x)), x.metadata.type)
           = NewManifest(x.metadata.type, FilesOf(x))
    BY <1>1, <2>2, <2>3, Converted
  <2> QED
    BY <1>1, <2>1, <2>2, <2>3, <2>4, Converted DEF Canonical
<1>2. MadeInv => ConversionAgrees
  BY <1>1 DEF ConversionAgrees
<1> QED
  BY <1>2, MadeAlways, PTL

-----------------------------------------------------------------------------
(* Every file of a result is a PEM file. *)
LEMMA ResultsPem ==
    ASSUME Inv, MadeInv, NEW x \in Results, NEW n \in DOMAIN FilesOf(x)
    PROVE  PemFile(FilesOf(x)[n])
<1>1. x \in built \/ x \in ForeignPacks
  BY DEF Results, Inv, ReadGenuine
<1>2. CASE x \in built
  BY <1>2 DEF MadeInv, BuiltCanonical, Canonical
<1>3. CASE x \in ForeignPacks
  <2> DEFINE m == x.bundle.manifest
  <2>1. \A i \in DOMAIN m.files : PemFile(m.files[i].data.of)
    BY <1>3, PackAssumption
  <2>2. PICK i \in DOMAIN m.files : FileMap(m)[n] = m.files[i].data.of
    <3>1. n \in {m.files[i].name : i \in DOMAIN m.files}
      BY DEF FilesOf, FileMap
    <3>2. PICK k \in DOMAIN m.files : m.files[k].name = n
      BY <3>1
    <3>3. ManifestValid(m)
      BY ResultsValid DEF Decodes
    <3> QED
      BY <3>2, <3>3, FileAt
  <2> QED
    BY <2>1, <2>2 DEF FilesOf
<1> QED
  BY <1>1, <1>2, <1>3

(* A bundle that decodes carries certificates, whose end is a moment. *)
LEMMA CertificatesOf ==
    ASSUME NEW m, Decodes(m), \A n \in DOMAIN FileMap(m) : PemFile(FileMap(m)[n])
    PROVE  /\ ParsedCertificates(m) # {}
           /\ \A c \in ParsedCertificates(m) : c.notAfter \in Nat
<1> DEFINE pem == Content(FileMap(m), Names(m.type)[1])
<1>1. MaterialValid(m.type, FileMap(m)) /\ m.type \in Types
  BY DEF Decodes, ManifestValid
<1>2. AreCertificates(pem)
  <2>1. CASE m.type \in IdentityTypes
    <3>1. Names(m.type)[1] = "fullchain.pem" /\ m.type # "trust"
      BY <2>1 DEF Names, IdentityTypes
    <3> QED
      BY <1>1, <3>1 DEF MaterialValid, IdentityValid
  <2>2. CASE m.type = "trust"
    <3>1. Names(m.type)[1] = "ca-bundle.pem" /\ m.type \notin IdentityTypes
      BY <2>2 DEF Names, IdentityTypes
    <3> QED
      BY <1>1, <3>1 DEF MaterialValid, TrustValid
  <2> QED
    BY <1>1, <2>1, <2>2 DEF Types
<1>3. PemFile(pem)
  BY <1>2 DEF Content, AreCertificates
<1>4. ParsedCertificates(m) = {pem[i].of : i \in DOMAIN pem}
  BY DEF ParsedCertificates
<1> HIDE DEF pem
<1>5. 1 \in DOMAIN pem
  BY <1>2, <1>3 DEF AreCertificates, PemFile, IsList
<1>6. \A i \in DOMAIN pem : pem[i].of.notAfter \in Nat
  BY <1>2, <1>3 DEF AreCertificates, PemFile
<1> QED
  BY <1>4, <1>5, <1>6

(* What a prune may take for its age, no agent that rejects expired        *)
(* certificates would accept, at any moment and for any material           *)
(* (inspectRecord and ValidatePolicy).                                     *)
THEOREM PrunedAreRefused == Spec => []PrunedIsRefused
<1>1. ASSUME Inv, MadeInv, NEW x \in Results, NEW now \in Times, NEW retention \in {0, 1},
             PastRetention(x.bundle.manifest, retention, now)
      PROVE  ~PolicyAccepts(x.bundle.manifest,
                            [rejectExpired |-> TRUE, minimum |-> 0, serverNames |-> {}], now)
  <2> DEFINE m == x.bundle.manifest
             ends == {c.notAfter : c \in ParsedCertificates(m)}
  <2>1. ParsedCertificates(m) # {} /\ \A c \in ParsedCertificates(m) : c.notAfter \in Nat
    <3>1. Decodes(m)
      BY <1>1, ResultsValid
    <3>2. \A n \in DOMAIN FileMap(m) : PemFile(FileMap(m)[n])
      BY <1>1, ResultsPem DEF FilesOf
    <3> QED
      BY <3>1, <3>2, CertificatesOf
  <2>2. ends \subseteq Nat /\ ends # {}
    BY <2>1
  <2>3. Min(ends) \in ends
    <3> HIDE DEF ends
    <3>1. \E e \in ends : \A f \in ends : e <= f
      BY <2>2, LeastNat
    <3> QED
      BY <3>1 DEF Min
  <2>4. PICK c \in ParsedCertificates(m) : c.notAfter = Min(ends)
    BY <2>3
  <2>5. now > Min(ends) + retention
    BY <1>1 DEF PastRetention
  <2>6. now \in Nat /\ Min(ends) \in Nat
    BY <2>2, <2>3, SeedAssumption
  <2>7. ~(c.notAfter > now)
    <3> HIDE DEF ends
    <3> QED
      BY <2>4, <2>5, <2>6
  <2> QED
    BY <2>4, <2>7 DEF PolicyAccepts, PolicyCertificates
<1>2. Inv /\ MadeInv => PrunedIsRefused
  BY <1>1 DEF PrunedIsRefused
<1> QED
  BY <1>2, MadeAlways, PTL

-----------------------------------------------------------------------------
(* n distinct things and another one are n + 1. *)
LEMMA CountOneMore ==
    ASSUME NEW n \in Nat, NEW F, DOMAIN F = 1..n,
           \A i, j \in 1..n : F[i] = F[j] => i = j,
           NEW x, \A i \in 1..n : F[i] # x,
           NEW S, \A y : y \in S <=> y = x \/ \E i \in 1..n : y = F[i]
    PROVE  IsFiniteSet(S) /\ Cardinality(S) = n + 1
<1> DEFINE T == {F[i] : i \in 1..n}
           f == [i \in 1..n |-> F[i]]
<1>1. IsFiniteSet(1..n) /\ Cardinality(1..n) = n
  BY FS_Interval
<1>2. f \in Bijection(1..n, T)
  <2>1. \A i \in 1..n : f[i] = F[i] /\ F[i] \in T
    OBVIOUS
  <2>2. \A y \in T : \E i \in 1..n : f[i] = y
    BY <2>1
  <2>3. \A i, j \in 1..n : f[i] = f[j] => i = j
    BY <2>1
  <2>4. f \in [1..n -> T]
    OBVIOUS
  <2> HIDE DEF f, T
  <2> QED
    BY <2>2, <2>3, <2>4 DEF Bijection, Injection, Surjection, IsInjective
<1>3. ExistsBijection(1..n, T)
  BY <1>2 DEF ExistsBijection
<1>4. x \notin T
  OBVIOUS
<1> HIDE DEF T
<1>5. IsFiniteSet(T) /\ Cardinality(T) = n
  BY <1>1, <1>3, FS_Bijection
<1>6. IsFiniteSet(T \cup {x}) /\ Cardinality(T \cup {x}) = n + 1
  BY <1>4, <1>5, FS_AddElement
<1>7. S = T \cup {x}
  BY DEF T
<1> QED
  BY <1>6, <1>7

(* The files of a release of a target, with the modes that they would have *)
(* under a umask.                                                          *)
TreeFiles(t, files, digest, umask) ==
    {Entry(m.local, FileModeOf(m, umask), PemText(files[m.remote])) : m \in Mappings(t)}
       \cup {Entry(MarkerPath, MarkerMode \ umask, DigestLine(digest))}

(* They are as many as verifyRelease counts: no two mappings have a path   *)
(* in common, and no PEM file is the digest file.                          *)
LEMMA CountFiles ==
    ASSUME NEW t, TargetValid(t), IsList(t.mappings), NEW files, NEW digest, NEW umask
    PROVE  /\ IsFiniteSet(TreeFiles(t, files, digest, umask))
           /\ Cardinality(TreeFiles(t, files, digest, umask)) = Len(t.mappings) + 1
<1> DEFINE n == Len(t.mappings)
           E(m) == Entry(m.local, FileModeOf(m, umask), PemText(files[m.remote]))
           F == [i \in 1..n |-> E(t.mappings[i])]
           x == Entry(MarkerPath, MarkerMode \ umask, DigestLine(digest))
           S == TreeFiles(t, files, digest, umask)
<1>1. n \in Nat /\ DOMAIN t.mappings = 1..n /\ DOMAIN F = 1..n
  BY DEF IsList
<1>2. ASSUME NEW i \in 1..n PROVE F[i].path = t.mappings[i].local /\ F[i] # x
  BY DEF Entry, PemText, DigestLine
<1>3. ASSUME NEW i \in 1..n, NEW j \in 1..n, F[i] = F[j] PROVE i = j
  <2>1. t.mappings[i].local = t.mappings[j].local
    BY <1>2, <1>3
  <2> QED
    BY <1>1, <2>1 DEF TargetValid
<1>4. \A y : y \in S <=> y = x \/ \E i \in 1..n : y = F[i]
  <2>1. Mappings(t) = {t.mappings[i] : i \in 1..n}
    BY <1>1 DEF Mappings, ToSet
  <2>2. {E(m) : m \in Mappings(t)} = {E(t.mappings[i]) : i \in 1..n}
    BY <2>1
  <2> QED
    BY <2>2 DEF TreeFiles
<1> HIDE DEF F, x, n, S
<1>5. IsFiniteSet(S) /\ Cardinality(S) = n + 1
  <2>1. \A i \in 1..n : F[i] # x
    BY <1>2
  <2>2. \A i, j \in 1..n : F[i] = F[j] => i = j
    BY <1>3
  <2>3. n \in Nat /\ DOMAIN F = 1..n
    BY <1>1
  <2> QED
    BY <1>4, <2>1, <2>2, <2>3, CountOneMore
<1> QED
  BY <1>5 DEF n, S

LEMMA WrittenFiles ==
    ASSUME NEW t, NEW files, NEW digest, NEW umask
    PROVE  Written(t, files, digest, umask).files = TreeFiles(t, files, digest, umask)
BY DEF Written, TreeFiles

(* What passes verifyRelease has exactly the files of the target. *)
LEMMA VerifiedFiles ==
    ASSUME NEW t, TargetValid(t), IsList(t.mappings), NEW files, NEW digest,
           NEW tree, IsFiniteSet(tree.files), Verifies(tree, t, files, digest)
    PROVE  tree.files = TreeFiles(t, files, digest, {})
<1> DEFINE expected == TreeFiles(t, files, digest, {})
<1>1. MarkerMode \ {} = MarkerMode /\ \A m \in Mappings(t) : FileModeOf(m, {}) = m.mode
  BY DEF FileModeOf
<1>2. expected \subseteq tree.files
  BY <1>1 DEF Verifies, TreeFiles
<1>3. Cardinality(expected) = Cardinality(tree.files)
  BY CountFiles DEF Verifies
<1> HIDE DEF expected
<1>4. tree.files = expected
  BY <1>2, <1>3, FS_Subset
<1> QED
  BY <1>4 DEF expected

(* Where the mode does not matter. *)
LEMMA InstalledFiles ==
    ASSUME NEW t, NEW files, NEW digest, NEW umask
    PROVE  {<<f.path, f.content>> : f \in TreeFiles(t, files, digest, umask)} =
               {<<m.local, PemText(files[m.remote])>> : m \in Mappings(t)}
                   \cup {<<MarkerPath, DigestLine(digest)>>}
<1> DEFINE L == {<<f.path, f.content>> : f \in TreeFiles(t, files, digest, umask)}
           R == {<<m.local, PemText(files[m.remote])>> : m \in Mappings(t)}
                    \cup {<<MarkerPath, DigestLine(digest)>>}
<1>1. ASSUME NEW f \in TreeFiles(t, files, digest, umask) PROVE <<f.path, f.content>> \in R
  BY DEF TreeFiles, Entry
<1>2. ASSUME NEW m \in Mappings(t) PROVE <<m.local, PemText(files[m.remote])>> \in L
  <2>1. Entry(m.local, FileModeOf(m, umask), PemText(files[m.remote])) \in TreeFiles(t, files, digest, umask)
    BY DEF TreeFiles
  <2> QED
    BY <2>1 DEF Entry
<1>3. <<MarkerPath, DigestLine(digest)>> \in L
  <2>1. Entry(MarkerPath, MarkerMode \ umask, DigestLine(digest)) \in TreeFiles(t, files, digest, umask)
    BY DEF TreeFiles
  <2> QED
    BY <2>1 DEF Entry
<1> QED
  BY <1>1, <1>2, <1>3

LEMMA FiniteReleases ==
    ASSUME ReleasesWritten, NEW x \in releases
    PROVE  /\ x.tree.files = TreeFiles(x.config, x.files, x.digest, x.umask)
           /\ IsFiniteSet(x.tree.files)
<1>1. /\ x.tree = Written(x.config, x.files, x.digest, x.umask)
      /\ TargetValid(x.config) /\ x.config \in Configs
  BY DEF ReleasesWritten, WrittenFor
<1>2. x.tree.files = TreeFiles(x.config, x.files, x.digest, x.umask)
  BY <1>1, WrittenFiles
<1>3. IsFiniteSet(TreeFiles(x.config, x.files, x.digest, x.umask))
  BY <1>1, CountFiles, SeedAssumption
<1> QED
  BY <1>2, <1>3

(* A seed command that reports success has made current name a release     *)
(* with the files of its target, new or verified.                          *)
Installs(t, x, umask) ==
    /\ last'.target = t /\ last'.result = x
    /\ current' = x.metadata.digest
    /\ {m.remote : m \in Mappings(t)} = DOMAIN FilesOf(x)
    /\ \E y \in releases' : y.digest = current'
    /\ \A y \in releases' : y.digest = current' =>
          y.tree.files = TreeFiles(t, FilesOf(x), x.metadata.digest, umask)

LEMMA SeedInstalls ==
    ASSUME Inv, MadeInv, NEW r \in Readers, SeedTarget(r),
           last'.outcome \in {"switched", "unchanged"}
    PROVE  \E t, x, umask : Installs(t, x, umask)
<1>1. PICK t \in Configs, now \in Times, umask \in Umasks :
         /\ TargetValid(t)
         /\ Material(t, read[r].result, now)
         /\ Activate(t, read[r].result, umask)
  BY SeedCases
<1> DEFINE x == read[r].result
           digest == x.metadata.digest
           release == [digest |-> digest, tree |-> Written(t, FilesOf(x), digest, umask),
                       config |-> t, umask |-> umask, files |-> FilesOf(x)]
           Installed(u) ==
              /\ \E y \in releases' : y.digest = digest
              /\ \A y \in releases' : y.digest = digest =>
                    y.tree.files = TreeFiles(t, FilesOf(x), digest, u)
<1>2. {m.remote : m \in Mappings(t)} = DOMAIN FilesOf(x)
  <2>1. {m.remote : m \in Mappings(t)} = NameSet(t.type)
    BY <1>1 DEF TargetValid
  <2>2. x.metadata.type = t.type /\ FilesMatch(x)
    BY <1>1 DEF Material, Valid
  <2> QED
    BY <2>1, <2>2 DEF FilesMatch, FilesOf
<1>3. IsList(t.mappings)
  BY SeedAssumption
<1>4. /\ last'.target = t /\ last'.result = x /\ current' = digest
      /\ \/ /\ Exists(digest) /\ releases' = releases
            /\ Verifies(ReleaseOf(digest).tree, t, FilesOf(x), digest)
         \/ ~Exists(digest) /\ releases' = releases \cup {release}
  BY <1>1, ActivateCases
<1>5. CASE /\ Exists(digest) /\ releases' = releases
           /\ Verifies(ReleaseOf(digest).tree, t, FilesOf(x), digest)
  <2>1. ReleaseOf(digest) \in releases /\ ReleaseOf(digest).digest = digest
    BY <1>5 DEF Exists, ReleaseOf
  <2>2. \A y \in releases : y.digest = digest => y = ReleaseOf(digest)
    BY <2>1 DEF MadeInv, ReleasesWritten
  <2>3. IsFiniteSet(ReleaseOf(digest).tree.files)
    BY <2>1, FiniteReleases DEF MadeInv
  <2>4. ReleaseOf(digest).tree.files = TreeFiles(t, FilesOf(x), digest, {})
    BY <1>1, <1>3, <1>5, <2>3, VerifiedFiles
  <2>5. Installed({})
    BY <1>5, <2>1, <2>2, <2>4
  <2>6. Installs(t, x, {})
    BY <1>2, <1>4, <2>5, Zenon DEF Installs
  <2> QED
    BY <2>6
<1>6. CASE ~Exists(digest) /\ releases' = releases \cup {release}
  <2>1. release.digest = digest /\ release.tree.files = TreeFiles(t, FilesOf(x), digest, umask)
    BY WrittenFiles
  <2> HIDE DEF release
  <2>2. Installed(umask)
    BY <1>6, <2>1 DEF Exists
  <2>3. Installs(t, x, umask)
    BY <1>2, <1>4, <2>2, Zenon DEF Installs
  <2> QED
    BY <2>3
<1> QED
  BY <1>4, <1>5, <1>6

(* What a seed command installs is what was packed, for any targets, any   *)
(* configurations and umasks under which the release may have been written *)
(* before, and any packs (Material, ensureRelease, verifyRelease).         *)
THEOREM InstallsExact == Spec => []InstalledExact
<1>1. Init => InstalledExact
  BY DEF Init, Nothing, InstalledExact
<1>2. ASSUME Inv, MadeInv, InstalledExact, [Next]_vars PROVE InstalledExact'
  <2>1. CASE UNCHANGED seedVars
    BY <1>2, <2>1 DEF InstalledExact, ReleaseOf, seedVars
  <2>2. ASSUME NEW r \in Readers, SeedTarget(r), last'.outcome \in {"switched", "unchanged"}
        PROVE  InstalledExact'
    <3>1. PICK t, x, umask : Installs(t, x, umask)
      BY <1>2, <2>2, SeedInstalls
    <3> DEFINE y == CHOOSE y \in releases' : y.digest = current'
    <3>2. y.tree.files = TreeFiles(t, FilesOf(x), x.metadata.digest, umask)
      BY <3>1 DEF Installs
    <3> HIDE DEF y
    <3>3. {<<f.path, f.content>> : f \in y.tree.files} =
             {<<m.local, PemText(FilesOf(x)[m.remote])>> : m \in Mappings(t)}
                 \cup {<<MarkerPath, DigestLine(current')>>}
      BY <3>1, <3>2, InstalledFiles DEF Installs
    <3> QED
      BY <3>1, <3>3 DEF Installs, InstalledExact, ReleaseOf, y
  <2>3. ASSUME NEW r \in Readers, SeedTarget(r), last'.outcome \notin {"switched", "unchanged"}
        PROVE  InstalledExact'
    BY <2>3 DEF InstalledExact
  <2> QED
    BY <1>2, <2>1, <2>2, <2>3 DEF Next, vars
<1> QED
  BY <1>1, <1>2, MadeAlways, PTL DEF Spec

(* No release is more open than its mappings say, and one that the umask   *)
(* has left alone passes every later verification, for any targets and     *)
(* umasks (writeReleaseFile, verifyRelease).                               *)
THEOREM ReleasesRepeatable == Spec => []Repeatable
<1>1. ASSUME MadeInv, NEW x \in releases
      PROVE  /\ \A f \in x.tree.files :
                   \/ f.path = MarkerPath
                   \/ \E m \in Mappings(x.config) : m.local = f.path /\ f.mode \subseteq m.mode
             /\ x.umask \cap (x.config.dirMode \cup MarkerMode
                                  \cup UNION {m.mode : m \in Mappings(x.config)}) = {}
                   => Verifies(x.tree, x.config, x.files, x.digest)
  <2> DEFINE t == x.config
             files == TreeFiles(t, x.files, x.digest, x.umask)
  <2>1. /\ x.tree = Written(t, x.files, x.digest, x.umask)
        /\ TargetValid(t) /\ t \in Configs
    BY <1>1 DEF MadeInv, ReleasesWritten, WrittenFor
  <2>2. x.tree.files = files
    BY <2>1, WrittenFiles
  <2>3. ASSUME NEW f \in files
        PROVE  f.path = MarkerPath \/ \E m \in Mappings(t) : m.local = f.path /\ f.mode \subseteq m.mode
    BY DEF TreeFiles, Entry, FileModeOf
  <2>4. ASSUME x.umask \cap (t.dirMode \cup MarkerMode \cup UNION {m.mode : m \in Mappings(t)}) = {}
        PROVE  Verifies(x.tree, t, x.files, x.digest)
    <3>1. MarkerMode \ x.umask = MarkerMode /\ t.dirMode \ x.umask = t.dirMode
      BY <2>4
    <3>2. ASSUME NEW m \in Mappings(t) PROVE FileModeOf(m, x.umask) = m.mode
      <4>1. m.mode \subseteq UNION {k.mode : k \in Mappings(t)}
        OBVIOUS
      <4> QED
        BY <2>4, <4>1 DEF FileModeOf
    <3>3. Entry(MarkerPath, MarkerMode, DigestLine(x.digest)) \in x.tree.files
      BY <2>2, <3>1 DEF TreeFiles
    <3>4. ASSUME NEW m \in Mappings(t)
          PROVE  Entry(m.local, m.mode, PemText(x.files[m.remote])) \in x.tree.files
      BY <2>2, <3>2 DEF TreeFiles
    <3>5. Cardinality(x.tree.files) = Len(t.mappings) + 1
      BY <2>1, <2>2, CountFiles, SeedAssumption
    <3>6. x.tree.mode = t.dirMode
      BY <2>1 DEF Written
    <3>7. \A d \in x.tree.dirs : d.path \in Parents(t) /\ d.mode = t.dirMode
      <4>1. x.tree.dirs = {[path |-> p, mode |-> DirModeOf(t, x.umask)] : p \in Parents(t)}
        BY <2>1 DEF Written
      <4>2. DirModeOf(t, x.umask) = t.dirMode
        BY <3>1 DEF DirModeOf
      <4> HIDE DEF t
      <4> QED
        BY <4>1, <4>2
    <3>8. Distinct(t) /\ \A f \in x.tree.files : f.path \in LocalPaths(t)
      <4>1. Distinct(t)
        BY <1>1 DEF MadeInv, ReleasesWritten, WrittenFor, Writable
      <4>2. \A f \in files : f.path \in LocalPaths(t)
        BY DEF TreeFiles, Entry, LocalPaths
      <4> QED
        BY <2>2, <4>1, <4>2
    <3> QED
      BY <3>3, <3>4, <3>5, <3>6, <3>7, <3>8 DEF Verifies
  <2> QED
    BY <2>2, <2>3, <2>4
<1>2. MadeInv => Repeatable
  BY <1>1 DEF Repeatable
<1> QED
  BY <1>2, MadeAlways, PTL

-----------------------------------------------------------------------------
(* Types.  None must not be what it stands in for: a directory or a result. *)
NoneApart ==
    /\ \A S \in SUBSET EntrySet : \A f : None # [e \in S |-> f[e]]
    /\ \A m, b : None # [metadata |-> m, bundle |-> b]

DirsType ==
    /\ \A p \in Paths : dir[p] = None \/ DOMAIN dir[p] \subseteq EntrySet
    /\ handled \subseteq {p \in Paths : dir[p] # None}

BuildsType ==
    \A b \in Builders :
        /\ build[b].pc \in {"idle", "chain", "key", "stat", "write"}
        /\ build[b].pc \in {"stat", "write"} <=> build[b].result # None

ReadsType ==
    \A r \in Readers :
        /\ read[r].pc \in {"idle", "bundle", "accepted", "failed"}
        /\ read[r].pc = "accepted" <=> read[r].result # None

CountsType == commands \in 0..MaxCommands /\ seeds \in 0..MaxSeeds

LEMMA InitTypes == Init => DirsType /\ BuildsType /\ ReadsType /\ CountsType
BY PackAssumption, SeedAssumption
   DEF Init, PackInit, NoBuild, NoRead, DirsType, BuildsType, ReadsType, CountsType

(* A directory is made, or loses an entry, or goes. *)
LEMMA DirsTyped ==
    ASSUME NoneApart, Inv, MadeInv, DirsType, [Next]_vars
    PROVE  DirsType'
<1> DEFINE Listed(d) == \E S \in SUBSET EntrySet : \E f : d = [e \in S |-> f[e]]
<1>1. \A d : Listed(d) => d # None /\ DOMAIN d \subseteq EntrySet
  BY DEF NoneApart
<1> HIDE DEF Listed
<1>2. ASSUME NEW p \in Paths, NEW d, Listed(d), dir' = [dir EXCEPT ![p] = d],
             handled' \in {handled, handled \cup {p}}
      PROVE  DirsType'
  BY <1>1, <1>2 DEF DirsType, Inv, Shape
<1>3. ASSUME UNCHANGED <<dir, handled>> PROVE DirsType'
  BY <1>3 DEF DirsType
<1>4. ASSUME NEW b \in Builders, RenameStaging(b) PROVE DirsType'
  <2> DEFINE d == DirectoryOf(build[b].result)
  <2>1. Listed(d)
    <3> DEFINE r == build[b].result
               entry(e) == CASE e = "bundle.json" -> r.bundle
                             [] e = "metadata.json" -> r.metadata
                             [] e = "stage.txn" -> <<r.metadata.bundleKey, r.bundle>>
    <3>0. d = [e \in EntrySet |-> entry(e)]
      BY Zenon DEF DirectoryOf
    <3> HIDE DEF d, entry
    <3>1. d = [e \in EntrySet |-> d[e]]
      BY <3>0
    <3> QED
      BY <3>1 DEF Listed
  <2>2. handled' = handled /\ (dir' = dir \/ dir' = [dir EXCEPT ![build[b].path] = d])
    BY <1>4, StagedWhole DEF RenameStaging, Builder
  <2>3. build[b].path \in Paths
    BY <1>4 DEF RenameStaging, MadeInv, BuildsStarted
  <2> HIDE DEF d
  <2> QED
    BY <1>2, <1>3, <2>1, <2>2, <2>3
<1>5. ASSUME NEW p \in Paths, RemoveEntry(p) PROVE DirsType'
  <2>1. PICK e \in DOMAIN dir[p] :
          dir' = [dir EXCEPT ![p] = [x \in DOMAIN dir[p] \ {e} |-> dir[p][x]]]
    BY <1>5 DEF RemoveEntry
  <2>2. DOMAIN dir[p] \subseteq EntrySet
    BY <1>5 DEF RemoveEntry, DirsType
  <2>3. Listed([x \in DOMAIN dir[p] \ {e} |-> dir[p][x]])
    BY <2>2 DEF Listed
  <2>4. handled' = handled \cup {p}
    BY <1>5 DEF RemoveEntry
  <2> QED
    BY <1>2, <2>1, <2>3, <2>4
<1>6. ASSUME NEW p \in Paths, RemoveDirectory(p) PROVE DirsType'
  BY <1>6 DEF RemoveDirectory, DirsType, Inv, Shape
<1>7. ASSUME NEW p \in Paths, PlaceForeignPack(p) PROVE DirsType'
  <2>1. PICK f \in ForeignPacks :
          dir' = [dir EXCEPT ![p] = [e \in {"bundle.json", "metadata.json"} |->
                     IF e = "bundle.json" THEN f.bundle ELSE f.metadata]]
    BY <1>7 DEF PlaceForeignPack
  <2> DEFINE d == [e \in {"bundle.json", "metadata.json"} |->
                     IF e = "bundle.json" THEN f.bundle ELSE f.metadata]
  <2>2. {"bundle.json", "metadata.json"} \subseteq EntrySet
    BY DEF EntrySet, Entries
  <2>3. d = [e \in {"bundle.json", "metadata.json"} |-> d[e]]
    OBVIOUS
  <2>4. handled' = handled \cup {p}
    BY <1>7 DEF PlaceForeignPack
  <2> HIDE DEF d
  <2>5. Listed(d)
    BY <2>2, <2>3 DEF Listed
  <2> QED
    BY <1>2, <2>1, <2>4, <2>5 DEF d
<1>8. ASSUME NEW b \in Builders,
             \/ StartBuild(b) \/ ReadCertificate(b) \/ ReadKeyAndEncode(b)
             \/ StatOutput(b) \/ WriteFile(b) \/ BuildStops(b)
      PROVE  DirsType'
  BY <1>3, <1>8 DEF StartBuild, ReadCertificate, ReadKeyAndEncode, StatOutput, WriteFile,
                    BuildStops, Builder
<1>9. ASSUME NEW r \in Readers, ReadMetadata(r) \/ ReadBundle(r) \/ SeedTarget(r) PROVE DirsType'
  BY <1>3, <1>9 DEF ReadMetadata, ReadBundle, SeedTarget, Reader
<1>10. ASSUME RenewChain \/ RenewKey \/ UNCHANGED vars PROVE DirsType'
  BY <1>3, <1>10 DEF RenewChain, RenewKey, vars, packVars
<1> QED
  BY <1>4, <1>5, <1>6, <1>7, <1>8, <1>9, <1>10 DEF Next, PackStep

(* A builder has a result from Encode to Write. *)
LEMMA BuildsTyped ==
    ASSUME NoneApart, Inv, MadeInv, BuildsType, [Next]_vars
    PROVE  BuildsType'
<1> DEFINE Typed(run) == /\ run.pc \in {"idle", "chain", "key", "stat", "write"}
                         /\ run.pc \in {"stat", "write"} <=> run.result # None
<1>1. ASSUME NEW b \in Builders, NEW run, Builder(b, run), Typed(run) PROVE BuildsType'
  BY <1>1 DEF BuildsType, Builder, Inv, Shape
<1>2. Typed(NoBuild)
  BY DEF NoBuild
<1>3. ASSUME UNCHANGED build PROVE BuildsType'
  BY <1>3 DEF BuildsType
<1>4. ASSUME NEW b \in Builders,
             \/ StartBuild(b) \/ ReadCertificate(b) \/ StatOutput(b) \/ WriteFile(b)
             \/ RenameStaging(b) \/ BuildStops(b)
      PROVE  BuildsType'
  <2>1. {"pc", "options", "path", "chain", "result", "written"} \subseteq DOMAIN build[b] /\ Typed(build[b])
    BY DEF MadeInv, BuildsStarted, BuildsType
  <2>2. CASE StartBuild(b)
    <3>1. PICK o \in Options, p \in Paths :
            Builder(b, [NoBuild EXCEPT !.pc = "chain", !.options = o, !.path = p])
      BY <2>2 DEF StartBuild
    <3>2. Typed([NoBuild EXCEPT !.pc = "chain", !.options = o, !.path = p])
      BY DEF NoBuild
    <3> QED
      BY <1>1, <3>1, <3>2
  <2>3. CASE ReadCertificate(b)
    <3>1. PICK c : Builder(b, [build[b] EXCEPT !.pc = "key", !.chain = c])
      BY <2>3 DEF ReadCertificate
    <3>2. Typed([build[b] EXCEPT !.pc = "key", !.chain = c])
      BY <2>1, <2>3 DEF ReadCertificate
    <3> QED
      BY <1>1, <3>1, <3>2
  <2>4. CASE StatOutput(b)
    <3>1. Typed([build[b] EXCEPT !.pc = "write"])
      BY <2>1, <2>4 DEF StatOutput
    <3> QED
      BY <1>1, <1>2, <2>4, <3>1 DEF StatOutput
  <2>5. CASE WriteFile(b)
    <3>1. Typed([build[b] EXCEPT !.written = @ + 1])
      BY <2>1, <2>5 DEF WriteFile
    <3> QED
      BY <1>1, <2>5, <3>1 DEF WriteFile
  <2>6. CASE RenameStaging(b) \/ BuildStops(b)
    BY <1>1, <1>2, <2>6 DEF RenameStaging, BuildStops
  <2> QED
    BY <1>4, <2>2, <2>3, <2>4, <2>5, <2>6
<1>5. ASSUME NEW b \in Builders, ReadKeyAndEncode(b) PROVE BuildsType'
  <2> DEFINE r == ResultOf(build[b].options, Contents(b))
             run == [build[b] EXCEPT !.pc = "stat", !.chain = <<>>, !.result = r]
  <2>1. r # None
    BY DEF ResultOf, NoneApart
  <2>2. Builder(b, run) \/ Builder(b, NoBuild)
    BY <1>5 DEF ReadKeyAndEncode
  <2> HIDE DEF r
  <2>3. Typed(run)
    BY <2>1 DEF MadeInv, BuildsStarted
  <2> HIDE DEF run
  <2> QED
    BY <1>1, <1>2, <2>2, <2>3
<1>6. ASSUME NEW p \in Paths, RemoveEntry(p) \/ RemoveDirectory(p) \/ PlaceForeignPack(p)
      PROVE  BuildsType'
  BY <1>3, <1>6 DEF RemoveEntry, RemoveDirectory, PlaceForeignPack
<1>7. ASSUME NEW r \in Readers, ReadMetadata(r) \/ ReadBundle(r) \/ SeedTarget(r) PROVE BuildsType'
  BY <1>3, <1>7 DEF ReadMetadata, ReadBundle, SeedTarget, Reader
<1>8. ASSUME RenewChain \/ RenewKey \/ UNCHANGED vars PROVE BuildsType'
  BY <1>3, <1>8 DEF RenewChain, RenewKey, vars, packVars
<1> QED
  BY <1>4, <1>5, <1>6, <1>7, <1>8 DEF Next, PackStep

(* A reader has a result when it has accepted one. *)
LEMMA ReadsTyped ==
    ASSUME NoneApart, Inv, ReadsType, [Next]_vars
    PROVE  ReadsType'
<1> DEFINE Typed(run) == /\ run.pc \in {"idle", "bundle", "accepted", "failed"}
                         /\ run.pc = "accepted" <=> run.result # None
<1>1. ASSUME NEW r \in Readers, NEW run, Reader(r, run), Typed(run) PROVE ReadsType'
  BY <1>1 DEF ReadsType, Reader, Inv, Shape
<1>2. Typed(NoRead("failed", None)) /\ Typed(NoRead("idle", None))
  BY DEF NoRead
<1>3. ASSUME UNCHANGED read PROVE ReadsType'
  BY <1>3 DEF ReadsType
<1>4. ASSUME NEW r \in Readers, ReadMetadata(r) PROVE ReadsType'
  <2>1. PICK p \in Paths :
          \/ Reader(r, [pc |-> "bundle", path |-> p, metadata |-> dir[p]["metadata.json"], result |-> None])
          \/ Reader(r, NoRead("failed", None))
    BY <1>4 DEF ReadMetadata
  <2>2. Typed([pc |-> "bundle", path |-> p, metadata |-> dir[p]["metadata.json"], result |-> None])
    OBVIOUS
  <2> QED
    BY <1>1, <1>2, <2>1, <2>2
<1>5. ASSUME NEW r \in Readers, ReadBundle(r) PROVE ReadsType'
  <2> DEFINE result == [metadata |-> read[r].metadata, bundle |-> dir[read[r].path]["bundle.json"]]
  <2>1. Reader(r, NoRead("accepted", result)) \/ Reader(r, NoRead("failed", None))
    BY <1>5 DEF ReadBundle
  <2>2. result # None
    BY DEF NoneApart
  <2> HIDE DEF result
  <2>3. Typed(NoRead("accepted", result))
    BY <2>2 DEF NoRead
  <2> QED
    BY <1>1, <1>2, <2>1, <2>3
<1>6. ASSUME NEW r \in Readers, SeedTarget(r) PROVE ReadsType'
  BY <1>1, <1>2, <1>6 DEF SeedTarget
<1>7. ASSUME NEW b \in Builders,
             \/ StartBuild(b) \/ ReadCertificate(b) \/ ReadKeyAndEncode(b) \/ StatOutput(b)
             \/ WriteFile(b) \/ RenameStaging(b) \/ BuildStops(b)
      PROVE  ReadsType'
  BY <1>3, <1>7 DEF StartBuild, ReadCertificate, ReadKeyAndEncode, StatOutput, WriteFile,
                    RenameStaging, BuildStops, Builder
<1>8. ASSUME NEW p \in Paths, RemoveEntry(p) \/ RemoveDirectory(p) \/ PlaceForeignPack(p)
      PROVE  ReadsType'
  BY <1>3, <1>8 DEF RemoveEntry, RemoveDirectory, PlaceForeignPack
<1>9. ASSUME RenewChain \/ RenewKey \/ UNCHANGED vars PROVE ReadsType'
  BY <1>3, <1>9 DEF RenewChain, RenewKey, vars, packVars
<1> QED
  BY <1>4, <1>5, <1>6, <1>7, <1>8, <1>9 DEF Next, PackStep

LEMMA CountsTyped == CountsType /\ [Next]_vars => CountsType'
<1> SUFFICES ASSUME CountsType, [Next]_vars PROVE CountsType'
  OBVIOUS
<1>1. CASE UNCHANGED commands \/ (commands < MaxCommands /\ commands' = commands + 1)
  <2>1. commands' \in 0..MaxCommands
    BY <1>1, PackAssumption DEF CountsType
  <2>2. UNCHANGED seeds \/ (seeds < MaxSeeds /\ seeds' = seeds + 1)
    BY DEF Next, SeedTarget, seedVars, vars
  <2>3. seeds' \in 0..MaxSeeds
    BY <2>2, SeedAssumption DEF CountsType
  <2> QED
    BY <2>1, <2>3 DEF CountsType
<1>2. ASSUME NEW b \in Builders,
             \/ StartBuild(b) \/ ReadCertificate(b) \/ ReadKeyAndEncode(b) \/ StatOutput(b)
             \/ WriteFile(b) \/ RenameStaging(b) \/ BuildStops(b)
      PROVE  UNCHANGED commands \/ (commands < MaxCommands /\ commands' = commands + 1)
  BY <1>2 DEF StartBuild, ReadCertificate, ReadKeyAndEncode, StatOutput, WriteFile,
              RenameStaging, BuildStops
<1>3. ASSUME NEW p \in Paths, RemoveEntry(p) \/ RemoveDirectory(p) \/ PlaceForeignPack(p)
      PROVE  UNCHANGED commands \/ (commands < MaxCommands /\ commands' = commands + 1)
  BY <1>3 DEF RemoveEntry, RemoveDirectory, PlaceForeignPack
<1>4. ASSUME NEW r \in Readers, ReadMetadata(r) \/ ReadBundle(r) \/ SeedTarget(r)
      PROVE  UNCHANGED commands \/ (commands < MaxCommands /\ commands' = commands + 1)
  BY <1>4 DEF ReadMetadata, ReadBundle, SeedTarget
<1>5. RenewChain \/ RenewKey \/ UNCHANGED vars => UNCHANGED commands
  BY DEF RenewChain, RenewKey, vars, packVars
<1> QED
  BY <1>1, <1>2, <1>3, <1>4, <1>5 DEF Next, PackStep

(* The variables keep their shape, and a digest keeps its release (Activate *)
(* verifies what is there).                                                 *)
THEOREM TypeCorrect == NoneApart => (Spec => []TypeOK)
<1> SUFFICES ASSUME NoneApart PROVE Spec => []TypeOK
  OBVIOUS
<1> DEFINE AllTyped == DirsType /\ BuildsType /\ ReadsType /\ CountsType
<1>1. Init => AllTyped
  BY InitTypes
<1>2. ASSUME Inv, MadeInv, AllTyped, [Next]_vars PROVE AllTyped'
  BY <1>2, DirsTyped, BuildsTyped, ReadsTyped, CountsTyped
<1>3. MadeInv /\ AllTyped => TypeOK
  BY DEF MadeInv, SourceInRange, ReleasesWritten, DirsType, BuildsType, ReadsType, CountsType, TypeOK
<1> HIDE DEF AllTyped
<1> QED
  BY <1>1, <1>2, <1>3, MadeAlways, PTL DEF Spec
=============================================================================
