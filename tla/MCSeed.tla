------------------------------- MODULE MCSeed -------------------------------
EXTENDS Seed

CONSTANTS k1, k2, kca, weak, t1, t2, b1, b2, r1, p1

Cert(key, ca, usages, notAfter) ==
    [block |-> "CERTIFICATE",
     of |-> [key |-> key, signer |-> kca, ca |-> ca, usages |-> usages, names |-> {"host"},
             notBefore |-> 0, notAfter |-> notAfter]]
Key(k) == <<[block |-> "PRIVATE KEY", of |-> k]>>

(* The intermediate of the first chain expires before its leaf; the second *)
(* leaf is for servers only.                                               *)
TwoCredentials ==
    << [chain |-> <<Cert(k1, FALSE, {}, 4), Cert(kca, TRUE, {}, 2)>>, key |-> Key(k1)],
       [chain |-> <<Cert(k2, FALSE, {"tls-server"}, 3)>>, key |-> Key(k2)] >>

CACertificate == <<Cert(kca, TRUE, {}, 4)>>

Commands ==
    {[type |-> type, target |-> t1, prefix |-> "/pemcast"] : type \in IdentityTypes}
    \cup {[type |-> "trust", target |-> t2, prefix |-> "/pemcast"]}

FirstFiles ==
    [n \in V5Names |-> IF n = "privkey.pem" THEN TwoCredentials[1].key ELSE TwoCredentials[1].chain]
Server == [type |-> "tls-server", target |-> t1, prefix |-> "/pemcast"]

(* The same bundle from another tool: files in another order, base64 with  *)
(* line breaks, indented.                                                  *)
Reencoded ==
    LET m == NewManifest("tls-server", FirstFiles) IN
    [layout |-> "indented",
     manifest |-> [m EXCEPT !.files =
         [i \in 1..2 |-> [m.files[3 - i] EXCEPT !.data.form = "wrapped"]]]]

(* A file with a name and a role that no type knows, in place of the key.  *)
Misnamed ==
    LET m == NewManifest("tls-server", FirstFiles) IN
    [layout |-> "compact",
     manifest |-> [m EXCEPT !.files[2].name = "key.pem", !.files[2].role = ""]]

(* The last one was copied for another target by hand, its bundle key left *)
(* as it was.                                                              *)
OtherTools ==
    LET pack(bytes) == [metadata |-> MetadataOf(Server, bytes.manifest, bytes), bundle |-> bytes] IN
    {pack(Reencoded), pack(Misnamed),
     [pack(Reencoded) EXCEPT !.metadata.target = t2,
                             !.metadata.activeKey = ActiveKey("/pemcast", t2)]}

Map(remote, local, mode) == [remote |-> remote, local |-> local, mode |-> mode]
Target(mappings, dirMode, policy) ==
    [id |-> t1, type |-> "tls-server", dirMode |-> dirMode, mappings |-> mappings, policy |-> policy]
Policy == [rejectExpired |-> TRUE, minimum |-> 1, serverNames |-> {"host"}]

(* Flat; in a directory; chain and key on paths that exclude each other.   *)
HostConfigs ==
    { Target(<<Map("fullchain.pem", <<"crt">>, {"owner", "group"}),
               Map("privkey.pem", <<"key">>, {"owner"})>>, {"owner"}, Policy),
      Target(<<Map("fullchain.pem", <<"crt">>, {"owner", "group"}),
               Map("privkey.pem", <<"private", "key">>, {"owner"})>>, {"owner", "group"}, Policy),
      Target(<<Map("fullchain.pem", <<"tls">>, {"owner"}),
               Map("privkey.pem", <<"tls", "key">>, {"owner"})>>, {"owner"}, Policy),
      Target(<<Map("fullchain.pem", <<"crt">>, {"owner"})>>, {"owner"}, Policy) }

HostUmasks == {{}, {"other"}, {"group", "other"}}
=============================================================================
