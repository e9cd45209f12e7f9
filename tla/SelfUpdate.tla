----------------------------- MODULE SelfUpdate -----------------------------
(***************************************************************************)
(* The epull binaries the server hosts, uploaded by admins at any time     *)
(* (cmd/eserved/storage/binary.go), and epull selfupdate on one machine    *)
(* (cmd/epull/api/selfupdate.go).                                          *)
(*                                                                         *)
(* An upload writes through the inode it opened, under the one name        *)
(* <name>.new; a file is two halves, each of the build it came from, a     *)
(* short build has only the first. A build goes by its upload, an inode    *)
(* by the upload that made it.                                             *)
(***************************************************************************)
EXTENDS Naturals, FiniteSets

CONSTANTS
    Uploads,      \* pool of uploads, each of a build of its own
    Short,        \* those of the smaller builds
    Exact, Kin,   \* the machine's CHOST, another of its arch
    None,         \* no file, no build
    Installed,    \* the binary the machine came with
    MaxUpdates,   \* bound: selfupdates
    MaxRestarts   \* bound: restarts of the server

ASSUME UpdateAssumption ==
    /\ Short \subseteq Uploads
    /\ Exact # Kin /\ {None, Installed} \cap Uploads = {} /\ None # Installed
    /\ MaxUpdates \in Nat /\ MaxRestarts \in Nat

Arches  == {Exact, Kin}
Halves  == Uploads \cup {None}
Empty   == <<None, None>>
Whole(b) == <<b, IF b \in Short THEN None ELSE b>>
Size(c) == Cardinality({i \in 1 .. 2 : c[i] # None})

VARIABLES
    inodes,               \* the content of each
    tmp, hosted,          \* per arch: the inode at <name>.new, at <name>
    manifests,            \* per arch: the build <name>.json is about
    upc, uarch, fd,       \* per upload: its step, its arch, the inode it writes to
    crossed,              \* history: uploads that met another of their arch
    lone,                 \* history: per arch, the upload that was alone since the last began
    cpc, manifest, body, download,  \* the client: its step, what it read and reads
    executable,
    updates, serverRestarts

uploading  == <<inodes, tmp, hosted, manifests, upc, uarch, fd, crossed, lone, serverRestarts>>
updating   == <<cpc, manifest, body, download, executable, updates>>
updateVars == <<uploading, updating>>

UpdateTypeOK ==
    /\ inodes \in [Uploads -> Halves \X Halves]
    /\ tmp \in [Arches -> Halves] /\ hosted \in [Arches -> Halves]
    /\ manifests \in [Arches -> Halves] /\ lone \in [Arches -> Halves]
    /\ upc \in [Uploads -> {"idle", "first", "second", "rename", "save", "over"}]
    /\ uarch \in [Uploads -> Arches] /\ fd \in [Uploads -> Halves]
    \* <name>.new is never the file that is hosted
    /\ \A a, b \in Arches : tmp[a] # None => tmp[a] # hosted[b]
    /\ crossed \subseteq Uploads
    /\ cpc \in {"idle", "get", "first", "second", "install"}
    /\ manifest \in Halves /\ body \in Halves /\ download \in Halves \X Halves
    /\ updates \in 0 .. MaxUpdates /\ serverRestarts \in 0 .. MaxRestarts

UpdateInit ==
    /\ inodes = [u \in Uploads |-> Empty]
    /\ tmp = [a \in Arches |-> None] /\ hosted = tmp /\ manifests = tmp /\ lone = tmp
    /\ upc = [u \in Uploads |-> "idle"]
    /\ uarch = [u \in Uploads |-> Exact] /\ fd = [u \in Uploads |-> None]
    /\ crossed = {}
    /\ cpc = "idle" /\ manifest = None /\ body = None /\ download = Empty
    /\ executable = Installed
    /\ updates = 0 /\ serverRestarts = 0

-----------------------------------------------------------------------------
(* UploadBinary *)

Working(a) == {u \in Uploads : upc[u] \notin {"idle", "over"} /\ uarch[u] = a}

\* mutant: what a longer build left behind is not cut off
KeptContent(inode)  == inodes[inode]
\* os.Create truncates the file that is there.
FreshContent(inode) == Empty

BeginUpload(u, a) ==
    /\ upc[u] = "idle"
    /\ LET inode == IF tmp[a] = None THEN u ELSE tmp[a]
       IN  /\ fd' = [fd EXCEPT ![u] = inode]
           /\ tmp' = [tmp EXCEPT ![a] = inode]
           /\ inodes' = [inodes EXCEPT ![inode] = FreshContent(inode)]
    /\ upc' = [upc EXCEPT ![u] = "first"] /\ uarch' = [uarch EXCEPT ![u] = a]
    /\ crossed' = IF Working(a) = {} THEN crossed ELSE crossed \cup Working(a) \cup {u}
    /\ lone' = [lone EXCEPT ![a] = None]
    /\ UNCHANGED <<hosted, manifests, serverRestarts, updating>>

\* The digest is that of the stream, whatever others do to the file.
WriteHalf(u) ==
    /\ upc[u] \in {"first", "second"}
    /\ LET half == IF upc[u] = "first" THEN 1 ELSE 2
       IN  inodes' = [inodes EXCEPT ![fd[u]][half] = u]
    /\ upc' = [upc EXCEPT ![u] = IF @ = "first" /\ u \notin Short THEN "second" ELSE "rename"]
    /\ UNCHANGED <<tmp, hosted, manifests, uarch, fd, crossed, lone, serverRestarts, updating>>

\* The upload breaks off, is too big or has another digest: whatever is at
\* <name>.new is removed.
UploadRefused(u) ==
    /\ upc[u] \in {"first", "second", "rename"}
    /\ tmp' = [tmp EXCEPT ![uarch[u]] = None]
    /\ upc' = [upc EXCEPT ![u] = "over"]
    /\ UNCHANGED <<inodes, hosted, manifests, uarch, fd, crossed, lone, serverRestarts, updating>>

\* mutant: the name it was written under stays
RenameByLink(u) ==
    /\ upc[u] = "rename" /\ tmp[uarch[u]] # None
    /\ hosted' = [hosted EXCEPT ![uarch[u]] = tmp[uarch[u]]]
    /\ upc' = [upc EXCEPT ![u] = "save"]
    /\ UNCHANGED <<inodes, tmp, manifests, uarch, fd, crossed, lone, serverRestarts, updating>>
Rename(u) ==
    /\ upc[u] = "rename" /\ tmp[uarch[u]] # None
    /\ hosted' = [hosted EXCEPT ![uarch[u]] = tmp[uarch[u]]]
    /\ tmp' = [tmp EXCEPT ![uarch[u]] = None]
    /\ upc' = [upc EXCEPT ![u] = "save"]
    /\ UNCHANGED <<inodes, manifests, uarch, fd, crossed, lone, serverRestarts, updating>>

SaveManifest(u) ==
    /\ upc[u] = "save"
    /\ manifests' = [manifests EXCEPT ![uarch[u]] = u]
    /\ lone' = [lone EXCEPT ![uarch[u]] = IF u \in crossed THEN None ELSE u]
    /\ upc' = [upc EXCEPT ![u] = "over"]
    /\ UNCHANGED <<inodes, tmp, hosted, uarch, fd, crossed, serverRestarts, updating>>

\* Uploads are cut off wherever they are; <name>.new stays.
RestartServer ==
    /\ serverRestarts < MaxRestarts /\ serverRestarts' = serverRestarts + 1
    /\ upc' = [u \in Uploads |-> IF upc[u] = "idle" THEN "idle" ELSE "over"]
    /\ UNCHANGED <<inodes, tmp, hosted, manifests, uarch, fd, crossed, lone, updating>>

-----------------------------------------------------------------------------
(* HandleSelfUpdate *)

HasFile(a) == hosted[a] # None /\ inodes[hosted[a]] # Empty
\* GetBinary: the machine's own, else one of its arch; each request looks again.
Resolved == IF ~HasFile(Exact) /\ HasFile(Kin) THEN Kin ELSE Exact
Found    == HasFile(Resolved) /\ manifests[Resolved] # None

GetManifest ==
    /\ cpc = "idle" /\ updates < MaxUpdates
    /\ Found
    /\ cpc' = "get" /\ updates' = updates + 1
    /\ manifest' = manifests[Resolved]
    /\ UNCHANGED <<uploading, body, download, executable>>

\* http.ServeFile opens the file there is now.
GetBody ==
    /\ cpc = "get" /\ Found
    /\ cpc' = "first" /\ body' = hosted[Resolved]
    /\ UNCHANGED <<uploading, manifest, download, executable, updates>>

ReadHalf ==
    /\ cpc \in {"first", "second"}
    /\ LET half == IF cpc = "first" THEN 1 ELSE 2
       IN  download' = [download EXCEPT ![half] = inodes[body][half]]
    /\ cpc' = IF cpc = "first" THEN "second" ELSE "install"
    /\ UNCHANGED <<uploading, manifest, body, executable, updates>>

\* mutant: only the size is compared
SizeAgrees == Size(download) = Size(Whole(manifest))
\* Not more than the size, and the digest.
Agrees == download = Whole(manifest)

Reset == cpc' = "idle" /\ manifest' = None /\ body' = None /\ download' = Empty

\* The temporary file takes the place of the running binary.
Install ==
    /\ cpc = "install" /\ Agrees
    /\ executable' = download
    /\ Reset
    /\ UNCHANGED <<uploading, updates>>

\* Not found any more, a download that broke off or does not agree.
UpdateStops ==
    /\ cpc # "idle"
    /\ Reset
    /\ UNCHANGED <<uploading, executable, updates>>

UpdateNext ==
    \/ \E u \in Uploads, a \in Arches : BeginUpload(u, a)
    \/ \E u \in Uploads : WriteHalf(u) \/ UploadRefused(u) \/ Rename(u) \/ SaveManifest(u)
    \/ RestartServer
    \/ GetManifest \/ GetBody \/ ReadHalf \/ Install \/ UpdateStops

-----------------------------------------------------------------------------
(* Properties *)

\* A machine only ever runs a binary that is one build from its first byte to its
\* last, whatever uploads do to the file it downloads: two of them may write one
\* inode, and one goes on writing after the other has put it in place.
RunsWholeBuild == executable = Installed \/ \E b \in Uploads : executable = Whole(b)

\* Uploads that crossed, were refused or cut off may leave a file and a manifest
\* that do not agree, and every selfupdate refuses it. An upload that nobody crosses
\* puts it right: both are its own, until the next one begins.
LoneUploadRepairs ==
    \A a \in Arches : lone[a] # None =>
        /\ manifests[a] = lone[a]
        /\ hosted[a] # None /\ inodes[hosted[a]] = Whole(lone[a])
=============================================================================
