-------------------------------- MODULE Epull --------------------------------
(***************************************************************************)
(* epull register and epull provision on one machine (cmd/epull): the      *)
(* identity, the keyring, make.conf and binrepos.conf they leave on the    *)
(* client, against the flavor and the jobs the server keeps for it.        *)
(*                                                                         *)
(* A command may fail, or be killed by a second ctrl+c, between any two    *)
(* steps and within the write of a portage file, which is in place; the    *)
(* job it started then goes on without it. What the server      *)
(* refuses, and why, is in Enrollment; -insecure is left out.              *)
(***************************************************************************)
EXTENDS Naturals, FiniteSets, Sequences, SequencesExt

CONSTANTS
    Flavors,
    NoFlavor,      \* not enrolled; no -flavor on the command line
    Other,         \* a sync-uri, and a section name, that are not the server's
    FirstRepos,    \* the binrepos.conf a machine may start with
    MaxCommands,   \* bound: commands
    MaxOrphans,    \* bound: jobs that go on without their client
    MaxEdits       \* bound: edits of binrepos.conf by the user

ServerKeys == 1 .. 2   \* bound: the server makes itself a new key once

\* a binrepos.conf section: current() of priority and verify-signature, user-added keys
Section == [name : Flavors \cup {Other}, uri : Flavors \cup {Other}, verify : BOOLEAN,
            extra : BOOLEAN]
\* the place of a section that was removed
Gone == [name |-> NoFlavor, uri |-> NoFlavor, verify |-> FALSE, extra |-> FALSE]

ASSUME EpullAssumption ==
    /\ {NoFlavor, Other} \cap Flavors = {} /\ NoFlavor # Other
    \* a machine that is not enrolled has no binhost of the server
    /\ FirstRepos \subseteq Seq([name : Flavors \cup {Other}, uri : {Other},
                                verify : BOOLEAN, extra : BOOLEAN])
    /\ \A file \in FirstRepos : \A i, j \in DOMAIN file :
          file[i].name = file[j].name /\ file[i].name # Other => i = j
    /\ MaxCommands \in Nat /\ MaxOrphans \in Nat /\ MaxEdits \in Nat

VARIABLES
    ca, cert, key, settings,          \* the pinned CA and the identity
    keyring, trusted,                 \* gnupg, its ownertrust
    makeConf,                         \* "plain", "verifies", or "cut" short by a kill
    repos,                            \* binrepos.conf
    pc, flavor,                       \* the command that runs, the flavor it is about
    tracked, enrolled, signing,       \* the server: MachineFlavor, certificate, signing key
    job, orphans,                     \* the job that is streamed, those nobody watches
    commands, edits,
    finished, excused                 \* history: see ConfigMatchesServer

identity == <<ca, cert, key, settings>>
gnupg    == <<keyring, trusted>>
server   == <<tracked, enrolled, signing>>
jobs     == <<job, orphans>>
history  == <<finished, excused>>
epullVars == <<identity, gnupg, makeConf, repos, pc, flavor, server, jobs, commands, edits, history>>

Job   == [flavor : Flavors, expected : Flavors]
NoJob == [flavor |-> NoFlavor, expected |-> NoFlavor]

\* mutant: portage is told to verify before it can
ReposFirst == <<"repos", "key", "trust", "conf">>
\* postProvisioning once the job is done
Steps == <<"key", "trust", "conf", "repos">>

After(step) == LET i == CHOOSE i \in DOMAIN Steps : Steps[i] = step
               IN  IF i = Len(Steps) THEN "idle" ELSE Steps[i + 1]

EpullTypeOK ==
    /\ ca \in BOOLEAN /\ settings \in BOOLEAN
    /\ makeConf \in {"plain", "verifies", "cut"}
    /\ finished \in BOOLEAN /\ excused \in BOOLEAN
    /\ cert \in 0 .. MaxCommands /\ key \in 0 .. MaxCommands /\ enrolled \in 0 .. MaxCommands
    \* the ring never holds a key twice
    /\ keyring \in SeqOf(ServerKeys, 2) /\ IsInjective(keyring)
    /\ trusted \subseteq ToSet(keyring)
    /\ repos \in Seq(Section \cup {Gone})
    /\ pc \in {"idle", "pin", "identity", "cert", "pem", "settings", "mtls", "request", "stream"}
              \cup ToSet(Steps)
    /\ flavor \in Flavors \cup {NoFlavor} /\ tracked \in Flavors \cup {NoFlavor}
    /\ signing \in ServerKeys
    /\ job \in Job \cup {NoJob} /\ orphans \subseteq Job
    /\ commands \in 0 .. MaxCommands /\ edits \in 0 .. MaxEdits

EpullInit ==
    /\ ca = FALSE /\ cert = 0 /\ key = 0 /\ settings = FALSE
    /\ keyring = <<>> /\ trusted = {} /\ makeConf = "plain"
    /\ repos \in FirstRepos
    /\ pc = "idle" /\ flavor = NoFlavor
    /\ tracked = NoFlavor /\ enrolled = 0 /\ signing = 1
    /\ job = NoJob /\ orphans = {}
    /\ commands = 0 /\ edits = 0
    /\ finished = FALSE /\ excused = FALSE

-----------------------------------------------------------------------------
(* register: HandleRegistration *)

Goto(next) == pc' = next /\ UNCHANGED flavor
Return     == pc' = "idle" /\ flavor' = NoFlavor

Register(f) ==
    /\ pc = "idle" /\ commands < MaxCommands
    /\ pc' = "pin" /\ flavor' = f /\ commands' = commands + 1
    /\ UNCHANGED <<identity, gnupg, makeConf, repos, server, jobs, edits, history>>

\* pinIfMissing
PinCa ==
    /\ pc = "pin"
    /\ ca' = TRUE
    /\ Goto("identity")
    /\ UNCHANGED <<cert, key, settings, gnupg, makeConf, repos, server, jobs, commands, edits,
                   history>>

\* postIdentification: the token is spent, the machine is on that flavor now,
\* with this certificate. A pair goes by the number of its command.
Identify ==
    /\ pc = "identity"
    /\ enrolled' = commands /\ tracked' = flavor
    /\ excused' = (excused \/ tracked # flavor)
    /\ Goto("cert")
    /\ UNCHANGED <<identity, gnupg, makeConf, repos, signing, jobs, commands, edits, finished>>

SaveCert ==
    /\ pc = "cert"
    /\ cert' = enrolled
    /\ Goto("pem")
    /\ UNCHANGED <<ca, key, settings, gnupg, makeConf, repos, server, jobs, commands, edits,
                   history>>

SaveKey ==
    /\ pc = "pem"
    /\ key' = cert
    /\ Goto("settings")
    /\ UNCHANGED <<ca, cert, settings, gnupg, makeConf, repos, server, jobs, commands, edits,
                   history>>

SaveSettings ==
    /\ pc = "settings"
    /\ settings' = TRUE
    /\ Goto("mtls")
    /\ UNCHANGED <<ca, cert, key, gnupg, makeConf, repos, server, jobs, commands, edits, history>>

-----------------------------------------------------------------------------
(* provision: HandleProvision, and the last step of register *)

Provision(f) ==
    /\ pc = "idle" /\ commands < MaxCommands
    /\ settings
    /\ pc' = "mtls" /\ flavor' = f /\ commands' = commands + 1
    /\ UNCHANGED <<identity, gnupg, makeConf, repos, server, jobs, edits, history>>

\* InitializeMtlsClient; a certificate and key of two registrations do not load.
StartMtls ==
    /\ pc = "mtls"
    /\ ca /\ cert = key /\ key # 0
    /\ Goto("request")
    /\ UNCHANGED <<identity, gnupg, makeConf, repos, server, jobs, commands, edits, history>>

\* The server authenticates the machine and starts the job: without -flavor on the
\* flavor it tracks, expecting to find it there still.
RequestProvision ==
    /\ pc = "request"
    /\ cert = enrolled /\ tracked # NoFlavor
    /\ flavor' = IF flavor = NoFlavor THEN tracked ELSE flavor
    /\ job' = [flavor |-> flavor', expected |-> tracked]
    /\ pc' = "stream"
    /\ UNCHANGED <<identity, gnupg, makeConf, repos, server, orphans, commands, edits, history>>

\* ProvisionMachine writes the flavor if the machine is still where it was.
JobDone ==
    /\ pc = "stream" /\ tracked = job.expected
    /\ tracked' = job.flavor /\ job' = NoJob
    /\ finished' = FALSE /\ excused' = FALSE
    /\ Goto(Head(Steps))
    /\ UNCHANGED <<identity, gnupg, makeConf, repos, enrolled, signing, orphans, commands, edits>>

JobFails ==
    /\ pc = "stream"
    /\ job' = NoJob
    /\ Return
    /\ UNCHANGED <<identity, gnupg, makeConf, repos, server, orphans, commands, edits, history>>

Abandon == /\ job' = NoJob
           /\ orphans' = IF job = NoJob THEN orphans ELSE orphans \cup {job}
CanAbandon == job = NoJob \/ Cardinality(orphans) < MaxOrphans

\* mutant: a job that was cancelled is a clean stop like any other
CancelledGoesOn ==
    /\ pc = "stream" /\ CanAbandon
    /\ Abandon
    /\ finished' = FALSE /\ excused' = FALSE
    /\ Goto(Head(Steps))
    /\ UNCHANGED <<identity, gnupg, makeConf, repos, server, commands, edits>>
\* The first ctrl+c, or an admin, cancels the job; its work may go on.
Cancelled ==
    /\ pc = "stream" /\ CanAbandon
    /\ Abandon
    /\ Return
    /\ UNCHANGED <<identity, gnupg, makeConf, repos, server, commands, edits, history>>

\* A stream that ends without a terminal event is a success to readJobStream.
StreamEndsSilently ==
    /\ pc = "stream" /\ CanAbandon
    /\ Abandon
    /\ finished' = FALSE /\ excused' = TRUE
    /\ Goto(Head(Steps))
    /\ UNCHANGED <<identity, gnupg, makeConf, repos, server, commands, edits>>

\* SetupSigningKey fetches the key, gpg adds it at the end of the ring.
ImportKey ==
    /\ pc = "key"
    /\ keyring' = IF signing \in ToSet(keyring) THEN keyring ELSE Append(keyring, signing)
    /\ Goto(After("key"))
    /\ UNCHANGED <<identity, trusted, makeConf, repos, server, jobs, commands, edits, history>>

\* fingerprint() is that of the first key in the ring.
TrustKey ==
    /\ pc = "trust"
    /\ trusted' = trusted \cup {Head(keyring)}
    /\ Goto(After("trust"))
    /\ UNCHANGED <<identity, keyring, makeConf, repos, server, jobs, commands, edits, history>>

SetMakeConf ==
    /\ pc = "conf"
    /\ makeConf' = "verifies"
    /\ Goto(After("conf"))
    /\ UNCHANGED <<identity, gnupg, repos, server, jobs, commands, edits, history>>

\* upsertMakeConfLines always truncates the file and writes it anew.
CutMakeConf ==
    /\ pc = "conf"
    /\ makeConf' = "cut"
    /\ Return
    /\ UNCHANGED <<identity, gnupg, repos, server, jobs, commands, edits, history>>

\* WriteBinhostConfig
Ours(s) == s.uri \in Flavors
New(f)  == [name |-> f, uri |-> f, verify |-> TRUE, extra |-> FALSE]
Current(s, f) == s.uri = f /\ s.verify

\* mutant: every other binhost is given up
StaysAlone(s, f) == s.name = f
\* What the server served the machine before goes, what is not the server's stays.
Stays(s, f) == s.name = f \/ ~Ours(s)
Renewed(s, f) == IF ~Stays(s, f) THEN Gone
                 ELSE IF s.name # f \/ Current(s, f) THEN s ELSE New(f)

Rewritten(file, f) ==
    LET renewed == [i \in DOMAIN file |-> Renewed(file[i], f)]
    IN  IF \E i \in DOMAIN file : file[i].name = f THEN renewed ELSE Append(renewed, New(f))

\* The portage config is offered for a sync next, which changes nothing here.
WriteRepos ==
    /\ pc = "repos"
    /\ repos' = Rewritten(repos, flavor)
    /\ finished' = TRUE /\ UNCHANGED excused
    /\ pc' = After("repos") /\ flavor' = IF After("repos") = "idle" THEN NoFlavor ELSE flavor
    /\ UNCHANGED <<identity, gnupg, makeConf, server, jobs, commands, edits>>

\* A file that changes is truncated and written in place; a section of which only a
\* part was written counts as lost.
CutRepos ==
    /\ pc = "repos"
    /\ LET new == Rewritten(repos, flavor)
       IN  /\ new # repos
           /\ \E n \in 0 .. Len(new) - 1 : repos' = SubSeq(new, 1, n)
    /\ Return
    /\ UNCHANGED <<identity, gnupg, makeConf, server, jobs, commands, edits, history>>

\* The command fails, or is killed: exit 1, or 130 after the second ctrl+c.
Stops ==
    /\ pc # "idle" /\ CanAbandon
    /\ Abandon
    /\ Return
    /\ UNCHANGED <<identity, gnupg, makeConf, repos, server, commands, edits, history>>

-----------------------------------------------------------------------------
(* The server and the user *)

OrphanEnds(j) ==
    /\ j \in orphans
    /\ orphans' = orphans \ {j}
    /\ \/ UNCHANGED <<tracked, excused>>
       \/ /\ tracked = j.expected /\ tracked' = j.flavor
          /\ excused' = (excused \/ tracked' # tracked)
    /\ UNCHANGED <<identity, gnupg, makeConf, repos, pc, flavor, enrolled, signing, job, commands,
                   edits, finished>>

\* EnsureKey of a server whose keyring was lost.
Rekey ==
    /\ signing = 1 /\ signing' = 2
    /\ UNCHANGED <<identity, gnupg, makeConf, repos, pc, flavor, tracked, enrolled, jobs, commands,
                   edits, history>>

\* The user turns a section's verification off, or adds a key of their own to it.
EditRepos ==
    /\ edits < MaxEdits /\ edits' = edits + 1
    /\ \E i \in DOMAIN repos :
          /\ repos[i] # Gone
          /\ repos' \in {[repos EXCEPT ![i].verify = FALSE], [repos EXCEPT ![i].extra = TRUE]} \ {repos}
    /\ excused' = TRUE
    /\ UNCHANGED <<identity, gnupg, makeConf, pc, flavor, server, jobs, commands, finished>>

EpullStep ==
    \/ \E f \in Flavors : Register(f)
    \/ \E f \in Flavors \cup {NoFlavor} : Provision(f)
    \/ PinCa \/ Identify \/ SaveCert \/ SaveKey \/ SaveSettings
    \/ StartMtls \/ RequestProvision
    \/ JobDone \/ JobFails \/ Cancelled \/ StreamEndsSilently
    \/ ImportKey \/ TrustKey \/ SetMakeConf \/ WriteRepos
    \/ Stops \/ CutMakeConf \/ CutRepos

EpullNext ==
    \/ EpullStep
    \/ \E j \in orphans : OrphanEnds(j)
    \/ Rekey \/ EditRepos

-----------------------------------------------------------------------------
(* Properties *)

\* "trust the server's signing key before telling portage to require signatures":
\* wherever a command fails or is killed, portage is not left with a binhost of the
\* server whose packages it must verify and cannot. The exceptions: a server that
\* made itself a new key, as the old one stays the first in the ring, and a make.conf
\* whose last write was cut short.
VerifiedMeansTrusted ==
    (\E i \in DOMAIN repos : Ours(repos[i]) /\ repos[i].verify)
        => makeConf # "plain" /\ trusted # {} /\ (signing = 1 => signing \in trusted)

\* After a provision that ended well, portage uses exactly one binhost of the
\* server, that of the flavor the server tracks the machine on; a provision that is
\* refused, fails or is cancelled later leaves it so. The exceptions: a job that
\* goes on after its client left or its cancel, a stream that ended without a
\* verdict, another register, and edits by the user.
ConfigMatchesServer ==
    finished /\ ~excused /\ pc \notin ToSet(Steps) =>
        \E i \in DOMAIN repos :
            /\ Current(repos[i], tracked) /\ repos[i].name = tracked
            /\ \A j \in DOMAIN repos : Ours(repos[j]) => j = i

\* epull never drops, changes or reorders a section that is not its own, nor adds
\* one, and keeps what the user added to its own while that is current. Two cases
\* lose them: a section the user named like the flavor is taken for epull's, and a
\* write that is cut short drops the end of the file, but never alters what is left.
Mine(s)   == s.name = flavor /\ Current(s, flavor)
Others(s) == s # Gone /\ ~Ours(s) /\ s.name # flavor
WriteIsCut == pc = "repos" /\ ~finished'
OthersKept ==
    [][edits' = edits =>
          /\ \A i \in DOMAIN repos : Mine(repos[i]) \/ Others(repos[i]) =>
                \/ i \in DOMAIN repos' /\ repos'[i] = repos[i]
                \/ i \notin DOMAIN repos' /\ WriteIsCut
          /\ \A i \in DOMAIN repos' :
                \/ i \in DOMAIN repos /\ repos'[i] = repos[i]
                \/ repos'[i] = Gone \/ Ours(repos'[i])]_epullVars
=============================================================================
