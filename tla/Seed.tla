-------------------------------- MODULE Seed --------------------------------
(***************************************************************************)
(* The way of a certificate that does not touch etcd: pack commands, pack  *)
(* directories, and internal/seed with its command, which reads a pack,    *)
(* holds it against one configured target and activates a release below    *)
(* the output root.  The activation itself is one step here, under the     *)
(* root lock; its file system steps, and what it prunes, are in Deployer.  *)
(***************************************************************************)
EXTENDS Pack, Legacy, Release

CONSTANTS
    Configs,     \* targets as they may be configured for this output root
    Prefix,      \* agent.etcd.prefix
    Umasks,      \* umasks of seed processes
    Times,       \* moments at which a certificate is judged
    MaxSeeds     \* bound: seed commands that come to activate

(* Mappings are a list, moments are numbers. *)
ASSUME SeedAssumption ==
    /\ \A t \in Configs : IsList(t.mappings)
    /\ Times \subseteq Nat
    /\ MaxSeeds \in Nat

VARIABLES
    releases,    \* releases below the root: digest, tree, and who wrote it
    current,     \* digest of the release that current names
    last,        \* what the last seed command did
    seeds        \* number of activations so far

seedVars == <<releases, current, last, seeds>>
vars == <<packVars, seedVars>>

Nothing == [outcome |-> "none", target |-> None, result |-> None]

Init ==
    /\ PackInit
    /\ releases = {}
    /\ current = None
    /\ last = Nothing
    /\ seeds = 0

FilesOf(r) == FileMap(r.bundle.manifest)
ReleaseOf(digest) == CHOOSE x \in releases : x.digest = digest

Exists(digest) == \E x \in releases : x.digest = digest

(* seed.Material: the pack is for this target.                             *)
Material(t, r, now) ==
    /\ Valid(r)
    /\ r.metadata.prefix = Prefix
    /\ r.metadata.target = t.id
    /\ r.metadata.type = t.type
    /\ PolicyAccepts(r.bundle.manifest, t.policy, now)
    /\ \A m \in Mappings(t) : m.remote \in DOMAIN FilesOf(r)

Report(t, r, outcome) == last' = [outcome |-> outcome, target |-> t, result |-> r]

Keep(t, r, outcome) == Report(t, r, outcome) /\ UNCHANGED <<releases, current>>

(* Mutant: the link is switched before the release is written.             *)
FailsAfterSwitch(t, r) ==
    /\ current' = r.metadata.digest
    /\ Report(t, r, "failed")
    /\ UNCHANGED releases

(* A release that cannot be written is the end of the command. *)
Fails(t, r) == Keep(t, r, "failed")

(* Activate: what is there already is verified, not rewritten.             *)
Activate(t, r, umask) ==
    LET digest == r.metadata.digest IN
    \/ /\ Exists(digest)
       /\ Verifies(ReleaseOf(digest).tree, t, FilesOf(r), digest)
       /\ current' = digest
       /\ Report(t, r, IF current = digest THEN "unchanged" ELSE "switched")
       /\ UNCHANGED releases
    \/ /\ Exists(digest)
       /\ ~Verifies(ReleaseOf(digest).tree, t, FilesOf(r), digest)
       /\ Keep(t, r, "corrupt")
    \/ /\ ~Exists(digest)
       /\ Writable(t)
       /\ releases' = releases \cup
              {[digest |-> digest, tree |-> Written(t, FilesOf(r), digest, umask),
                config |-> t, umask |-> umask, files |-> FilesOf(r)]}
       /\ current' = digest
       /\ Report(t, r, "switched")
    \/ ~Exists(digest) /\ ~Writable(t) /\ Fails(t, r)

(* The command, and Apply: without --force no other release is replaced.   *)
Apply(t, r, now, umask, force) ==
    \/ ~(TargetValid(t) /\ Material(t, r, now)) /\ Keep(t, r, "refused")
    \/ /\ TargetValid(t) /\ Material(t, r, now)
       /\ current \notin {None, r.metadata.digest} /\ ~force
       /\ Keep(t, r, "refused")
    \/ /\ TargetValid(t) /\ Material(t, r, now)
       /\ current \in {None, r.metadata.digest} \/ force
       /\ Activate(t, r, umask)

SeedTarget(r) ==
    /\ read[r].pc = "accepted"
    /\ seeds < MaxSeeds
    /\ \E t \in Configs, now \in Times, umask \in Umasks, force \in BOOLEAN :
          Apply(t, read[r].result, now, umask, force)
    /\ seeds' = seeds + 1
    /\ Reader(r, NoRead("idle", None))
    /\ UNCHANGED commands

Next ==
    \/ PackStep /\ UNCHANGED seedVars
    \/ \E r \in Readers : SeedTarget(r)

Spec == Init /\ [][Next]_vars

-----------------------------------------------------------------------------
(* What the last reads and Builds have shown to be acceptable.             *)
Results == built \cup {read[r].result : r \in {x \in Readers : read[x].pc = "accepted"}}

(* The variables keep their shape; there is one release of a digest, and   *)
(* current never names one that is not there: the link is switched only    *)
(* when the release is written or verified (Deployer.Activate).            *)
TypeOK ==
    /\ source.key \in 1..Len(Renewals)
    /\ source.chain \in source.key..source.key + 1
    /\ \A p \in Paths : dir[p] = None \/ DOMAIN dir[p] \subseteq EntrySet
    /\ handled \subseteq {p \in Paths : dir[p] # None}
    /\ \A b \in Builders :
          /\ build[b].pc \in {"idle", "chain", "key", "stat", "write"}
          /\ build[b].pc \in {"stat", "write"} <=> build[b].result # None
    /\ \A r \in Readers :
          /\ read[r].pc \in {"idle", "bundle", "accepted", "failed"}
          /\ read[r].pc = "accepted" <=> read[r].result # None
    /\ commands \in 0..MaxCommands /\ seeds \in 0..MaxSeeds
    /\ current # None => Exists(current)
    /\ \A x, y \in releases : x.digest = y.digest => x = y

(* The pack directory of a result. *)
DirectoryOf(r) ==
    [e \in EntrySet |-> CASE e = "bundle.json" -> r.bundle
                          [] e = "metadata.json" -> r.metadata
                          [] e = "stage.txn" -> <<r.metadata.bundleKey, r.bundle>>]

(* A pack directory that no operator has touched is whole: three files     *)
(* that belong to one Build, whichever builders failed, were killed or     *)
(* raced for the path (pack.Write stages and renames).                     *)
PackWhole ==
    \A p \in Paths :
        dir[p] # None /\ p \notin handled =>
            \E r \in built : dir[p] = DirectoryOf(r)

(* No step replaces or adds a file of a pack directory that is there: a    *)
(* second pack command to the same path loses, also when it looked before  *)
(* the first one had finished (pack.Write's Stat is not what protects).    *)
NeverReplaced ==
    [][ \A p \in Paths :
            dir[p] # None /\ dir'[p] # None =>
                \A e \in DOMAIN dir'[p] : e \in DOMAIN dir[p] /\ dir'[p][e] = dir[p][e] ]_vars

(* What pack.Read returns is one pack, never the metadata of one and the   *)
(* bundle of another, although it reads two files while packs are removed  *)
(* and written anew.                                                       *)
ReadGenuine ==
    \A r \in Readers : read[r].pc = "accepted" => read[r].result \in built \cup ForeignPacks

(* What a pack names as its generation, an agent accepts under the bundle  *)
(* key that publish will use, for the pack's own target: pack.Validate and *)
(* materialFromValue agree, whoever wrote the pack.                        *)
StagedIsFetched ==
    \A r \in Results :
        /\ FetchAccepts(r.bundle.manifest, r.metadata.gen)
        /\ r.metadata.bundleKey = BundleKey(r.metadata.prefix, r.metadata.target, r.metadata.gen)

(* Bundles of one generation have one type and the same file contents,     *)
(* however they are encoded: comparing generations compares what will be   *)
(* installed (ManifestDigest).                                             *)
GenerationNamesContent ==
    \A r, s \in Results :
        r.metadata.gen = s.metadata.gen =>
            r.bundle.manifest.type = s.bundle.manifest.type /\ FilesOf(r) = FilesOf(s)

(* A bundle that a prune may delete for its age is one that no agent which *)
(* rejects expired certificates would take any more, whichever certificate *)
(* of the chain expires first, without a retention or with a short one     *)
(* (inspectRecord against ValidatePolicy).                                 *)
PrunedIsRefused ==
    \A r \in Results, now \in Times, retention \in {0, 1} :
        r.metadata.type # "trust" /\ PastRetention(r.bundle.manifest, retention, now) =>
            ~PolicyAccepts(r.bundle.manifest,
                           [rejectExpired |-> TRUE, minimum |-> 0, serverNames |-> {}], now)

(* The upgrade of the v5 bundle of the same two files, in whatever order   *)
(* v5 listed them, gives the very bytes of a v6 pack: an upgrade and a     *)
(* publication do not refuse one another's bundle (ConvertTLS).            *)
ConversionAgrees ==
    \A r \in built :
        r.metadata.type \in IdentityTypes =>
            \A names \in {Names(r.metadata.type), Reverse(Names(r.metadata.type))} :
                LET v5 == V5Manifest(names, FilesOf(r)) IN
                /\ V5Decodes(v5, Generation(ContentDigest(FilesOf(r))))
                /\ Encode(ConvertTLS(v5, r.metadata.type)) = r.bundle

(* A seed that reports success leaves current on a release with every file *)
(* of the pack at its mapped place and nothing else, also when the release *)
(* was there before, written under another configuration of the target.    *)
InstalledExact ==
    last.outcome \in {"switched", "unchanged"} =>
        LET t == last.target
            files == FilesOf(last.result)
        IN
        /\ current = last.result.metadata.digest
        /\ {m.remote : m \in Mappings(t)} = DOMAIN files
        /\ {<<f.path, f.content>> : f \in ReleaseOf(current).tree.files} =
              {<<m.local, PemText(files[m.remote])>> : m \in Mappings(t)}
                \cup {<<MarkerPath, DigestLine(current)>>}

(* The private key in an identity release belongs to its certificate,      *)
(* although the renewal that replaces the two source files may come        *)
(* between the two reads of a Build.                                       *)
KeysPaired ==
    \A x \in releases :
        "privkey.pem" \in DOMAIN x.files =>
            x.files["privkey.pem"][1].of = x.files["fullchain.pem"][1].of.key

(* No file of a release is open to more than its mapping says; and where   *)
(* the umask takes nothing from the configured modes or from that of the   *)
(* digest file, a release passes the check of every later activation under *)
(* the same configuration.                                                 *)
Repeatable ==
    \A x \in releases :
        /\ \A f \in x.tree.files :
              f.path = MarkerPath \/ \E m \in Mappings(x.config) : m.local = f.path /\ f.mode \subseteq m.mode
        /\ x.umask \cap (x.config.dirMode \cup MarkerMode
                        \cup UNION {m.mode : m \in Mappings(x.config)}) = {}
              => Verifies(x.tree, x.config, x.files, x.digest)
=============================================================================
