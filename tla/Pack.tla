-------------------------------- MODULE Pack --------------------------------
(***************************************************************************)
(* internal/pack and its command: builders read certificate and private    *)
(* key from files that a renewal replaces one after the other, and write a *)
(* pack directory by renaming a staging directory; readers (publish, seed) *)
(* read metadata.json and bundle.json, one after the other, while          *)
(* operators remove pack directories or put other tools' packs there.      *)
(***************************************************************************)
EXTENDS Bundle

CONSTANTS
    Renewals,      \* sequence of credentials, [chain, key], as issued over time
    CABundle,      \* content of the CA file
    Options,       \* pack options: type, target, prefix
    Paths,         \* output directories
    ForeignPacks,  \* packs that other tools wrote: [metadata, bundle]
    Builders,      \* pack commands
    Readers,       \* commands that read a pack
    None,          \* nothing at a path, nothing read
    MaxCommands    \* bound: number of commands ever started

(* Other tools put the checksum of the bundle into the metadata that they  *)
(* write with it; the files of a manifest are a list of PEM files, as the  *)
(* sources of a Build are.                                                 *)
ASSUME PackAssumption ==
    /\ \A o \in Options : o.type \in Types
    /\ \A f \in ForeignPacks :
          /\ f = [metadata |-> f.metadata, bundle |-> f.bundle]
          /\ f.metadata.valueSum = Hash(f.bundle)
          /\ IsList(f.bundle.manifest.files)
          /\ \A i \in DOMAIN f.bundle.manifest.files : PemFile(f.bundle.manifest.files[i].data.of)
    /\ IsList(Renewals) /\ Renewals # <<>>
    /\ \A i \in DOMAIN Renewals : PemFile(Renewals[i].chain) /\ PemFile(Renewals[i].key)
    /\ PemFile(CABundle)
    /\ MaxCommands \in Nat

VARIABLES
    source,        \* which credential the chain and the key file come from
    dir,           \* per path: entries of the pack directory
    handled,       \* paths on which an operator is at work
    build,         \* per builder: its run
    read,          \* per reader: its run
    commands,      \* number of commands so far
    built          \* history: results of finished Builds

packVars == <<source, dir, handled, build, read, commands, built>>

Entries == <<"bundle.json", "metadata.json", "stage.txn">>
EntrySet == {Entries[i] : i \in DOMAIN Entries}

NoBuild == [pc |-> "idle", options |-> None, path |-> None, chain |-> <<>>,
            result |-> None, written |-> 0]
NoRead(pc, result) == [pc |-> pc, path |-> None, metadata |-> None, result |-> result]

PackInit ==
    /\ source = [chain |-> 1, key |-> 1]
    /\ dir = [p \in Paths |-> None]
    /\ handled = {}
    /\ build = [b \in Builders |-> NoBuild]
    /\ read = [r \in Readers |-> NoRead("idle", None)]
    /\ commands = 0
    /\ built = {}

-----------------------------------------------------------------------------
(* Build and Validate, on values. *)

(* Metadata of a bundle under the options of a pack command. *)
MetadataOf(options, m, bytes) ==
    LET gen == Generation(ManifestDigest(m)) IN
    [type |-> options.type, prefix |-> options.prefix, target |-> options.target,
     gen |-> gen, digest |-> ManifestDigest(m), valueSum |-> Hash(bytes),
     activeKey |-> ActiveKey(options.prefix, options.target),
     bundleKey |-> BundleKey(options.prefix, options.target, gen),
     files |-> {[name |-> m.files[i].name, role |-> m.files[i].role, sum |-> m.files[i].sum] :
                   i \in DOMAIN m.files}]

(* json.Marshal has one layout. *)
Encode(m) == [layout |-> "compact", manifest |-> m]

ResultOf(options, contents) ==
    LET m == NewManifest(options.type, contents) IN
    [metadata |-> MetadataOf(options, m, Encode(m)), bundle |-> Encode(m)]

(* The checks of Validate: bytes, digest and generation, keys, files.      *)
BytesMatch(r) == r.metadata.valueSum = Hash(r.bundle)

DigestMatches(r) ==
    /\ r.metadata.digest = ManifestDigest(r.bundle.manifest)
    /\ r.metadata.gen = Generation(r.metadata.digest)

(* Mutant: the bundle key is taken as it is.                               *)
ActiveKeyOnly(r) == r.metadata.activeKey = ActiveKey(r.metadata.prefix, r.metadata.target)
KeysMatch(r) ==
    /\ r.metadata.activeKey = ActiveKey(r.metadata.prefix, r.metadata.target)
    /\ r.metadata.bundleKey = BundleKey(r.metadata.prefix, r.metadata.target, r.metadata.gen)

FilesMatch(r) ==
    LET m == r.bundle.manifest IN
    /\ r.metadata.type = m.type
    /\ NameSet(m.type) = DOMAIN FileMap(m)
    /\ r.metadata.files = {[name |-> m.files[i].name, role |-> m.files[i].role,
                            sum |-> m.files[i].sum] : i \in DOMAIN m.files}

(* Mutant: metadata and bundle are each checked, not against one another.  *)
ValidApart(r) == Decodes(r.bundle.manifest) /\ KeysMatch(r)

Valid(r) ==
    /\ BytesMatch(r)
    /\ Decodes(r.bundle.manifest)
    /\ DigestMatches(r)
    /\ KeysMatch(r)
    /\ FilesMatch(r)

-----------------------------------------------------------------------------
(* The source files: the ACME client of the build host replaces first the  *)
(* chain, then the key.                                                    *)
RenewChain ==
    /\ source.chain = source.key
    /\ source.chain < Len(Renewals)
    /\ source' = [source EXCEPT !.chain = @ + 1]
    /\ UNCHANGED <<dir, handled, build, read, commands, built>>

RenewKey ==
    /\ source.key < source.chain
    /\ source' = [source EXCEPT !.key = @ + 1]
    /\ UNCHANGED <<dir, handled, build, read, commands, built>>

-----------------------------------------------------------------------------
(* A pack command: Build, then Write. *)
Builder(b, run) ==
    /\ build' = [build EXCEPT ![b] = run]
    /\ UNCHANGED <<source, handled, read>>

StartBuild(b) ==
    /\ build[b].pc = "idle"
    /\ commands < MaxCommands
    /\ \E o \in Options, p \in Paths :
          Builder(b, [NoBuild EXCEPT !.pc = "chain", !.options = o, !.path = p])
    /\ commands' = commands + 1
    /\ UNCHANGED <<dir, built>>

ReadCertificate(b) ==
    /\ build[b].pc = "chain"
    /\ Builder(b, [build[b] EXCEPT !.pc = "key", !.chain =
           IF build[b].options.type = "trust" THEN CABundle ELSE Renewals[source.chain].chain])
    /\ UNCHANGED <<dir, commands, built>>

Contents(b) ==
    IF build[b].options.type = "trust" THEN [n \in {"ca-bundle.pem"} |-> build[b].chain]
    ELSE [n \in {"fullchain.pem", "privkey.pem"} |->
             IF n = "fullchain.pem" THEN build[b].chain ELSE Renewals[source.key].key]

(* The private key is read, the manifest made and encoded; material that   *)
(* does not pass ends the command.                                         *)
ReadKeyAndEncode(b) ==
    LET r == ResultOf(build[b].options, Contents(b)) IN
    /\ build[b].pc = "key"
    /\ \/ /\ Decodes(r.bundle.manifest)
          /\ Builder(b, [build[b] EXCEPT !.pc = "stat", !.chain = <<>>, !.result = r])
          /\ built' = built \cup {r}
       \/ /\ ~Decodes(r.bundle.manifest)
          /\ Builder(b, NoBuild)
          /\ UNCHANGED built
    /\ UNCHANGED <<dir, commands>>

StatOutput(b) ==
    /\ build[b].pc = "stat"
    /\ \/ /\ Valid(build[b].result) /\ dir[build[b].path] = None
          /\ Builder(b, [build[b] EXCEPT !.pc = "write"])
       \/ /\ ~(Valid(build[b].result) /\ dir[build[b].path] = None)
          /\ Builder(b, NoBuild)
    /\ UNCHANGED <<dir, commands, built>>

(* One file of the staging directory, created, written and synced.         *)
WriteFile(b) ==
    /\ build[b].pc = "write"
    /\ build[b].written < Len(Entries)
    /\ Builder(b, [build[b] EXCEPT !.written = @ + 1])
    /\ UNCHANGED <<dir, commands, built>>

Staged(b) ==
    [e \in {Entries[i] : i \in 1..build[b].written} |->
        CASE e = "bundle.json" -> build[b].result.bundle
          [] e = "metadata.json" -> build[b].result.metadata
          [] e = "stage.txn" -> <<build[b].result.metadata.bundleKey, build[b].result.bundle>>]

(* Mutant: the output is moved into place whatever is there.               *)
RenameOver(b) ==
    /\ build[b].pc = "write"
    /\ build[b].written = Len(Entries)
    /\ dir' = [dir EXCEPT ![build[b].path] = Staged(b)]
    /\ Builder(b, NoBuild)
    /\ UNCHANGED <<commands, built>>

(* Mutant: metadata.json and stage.txn are added after the rename.         *)
RenameEarly(b) ==
    /\ build[b].pc = "write"
    /\ build[b].written > 0
    /\ dir[build[b].path] = None
    /\ dir' = [dir EXCEPT ![build[b].path] = Staged(b)]
    /\ Builder(b, NoBuild)
    /\ UNCHANGED <<commands, built>>

(* os.Rename fails on an existing directory, of which the kernel sees that *)
(* it is not empty when os.Rename did not; the staging directory goes.     *)
RenameStaging(b) ==
    /\ build[b].pc = "write"
    /\ build[b].written = Len(Entries)
    /\ dir' = IF dir[build[b].path] = None
              THEN [dir EXCEPT ![build[b].path] = Staged(b)]
              ELSE dir
    /\ Builder(b, NoBuild)
    /\ UNCHANGED <<commands, built>>

(* A call fails or the process is killed: at most a hidden staging         *)
(* directory stays.                                                        *)
BuildStops(b) ==
    /\ build[b].pc # "idle"
    /\ Builder(b, NoBuild)
    /\ UNCHANGED <<dir, commands, built>>

-----------------------------------------------------------------------------
(* Operators: rm -r of a pack directory, and packs of other tools.         *)
RemoveEntry(p) ==
    /\ dir[p] # None
    /\ \E e \in DOMAIN dir[p] :
          LET rest == DOMAIN dir[p] \ {e} IN
          dir' = [dir EXCEPT ![p] = [x \in rest |-> dir[p][x]]]
    /\ handled' = handled \cup {p}
    /\ UNCHANGED <<source, build, read, commands, built>>

RemoveDirectory(p) ==
    /\ dir[p] # None
    /\ DOMAIN dir[p] = {}
    /\ dir' = [dir EXCEPT ![p] = None]
    /\ handled' = handled \ {p}
    /\ UNCHANGED <<source, build, read, commands, built>>

PlaceForeignPack(p) ==
    /\ dir[p] = None
    /\ commands < MaxCommands
    /\ \E f \in ForeignPacks :
          dir' = [dir EXCEPT ![p] = [e \in {"bundle.json", "metadata.json"} |->
                     IF e = "bundle.json" THEN f.bundle ELSE f.metadata]]
    /\ commands' = commands + 1
    /\ handled' = handled \cup {p}
    /\ UNCHANGED <<source, build, read, built>>

-----------------------------------------------------------------------------
(* pack.Read: metadata first, then the bundle, then Validate. *)
Reader(r, run) ==
    /\ read' = [read EXCEPT ![r] = run]
    /\ UNCHANGED <<source, dir, handled, build, built>>

Has(p, entry) == dir[p] # None /\ entry \in DOMAIN dir[p]

ReadMetadata(r) ==
    /\ read[r].pc \in {"idle", "failed"}
    /\ commands < MaxCommands
    /\ \E p \in Paths :
          \/ /\ Has(p, "metadata.json")
             /\ Reader(r, [pc |-> "bundle", path |-> p, metadata |-> dir[p]["metadata.json"],
                           result |-> None])
          \/ ~Has(p, "metadata.json") /\ Reader(r, NoRead("failed", None))
    /\ commands' = commands + 1

ReadBundle(r) ==
    LET p == read[r].path
        result == [metadata |-> read[r].metadata, bundle |-> dir[p]["bundle.json"]]
    IN
    /\ read[r].pc = "bundle"
    /\ \/ Has(p, "bundle.json") /\ Valid(result) /\ Reader(r, NoRead("accepted", result))
       \/ ~(Has(p, "bundle.json") /\ Valid(result)) /\ Reader(r, NoRead("failed", None))
    /\ UNCHANGED commands

PackStep ==
    \/ RenewChain
    \/ RenewKey
    \/ \E b \in Builders :
          \/ StartBuild(b)
          \/ ReadCertificate(b)
          \/ ReadKeyAndEncode(b)
          \/ StatOutput(b)
          \/ WriteFile(b)
          \/ RenameStaging(b)
          \/ BuildStops(b)
    \/ \E p \in Paths : RemoveEntry(p) \/ RemoveDirectory(p) \/ PlaceForeignPack(p)
    \/ \E r \in Readers : ReadMetadata(r) \/ ReadBundle(r)
=============================================================================
