----------------------------- MODULE Enrollment -----------------------------
(***************************************************************************)
(* Tokens, machines and flavor switches of eserved: what the token and     *)
(* machine files hold (cmd/eserved/storage), the identity and provision    *)
(* handlers and the provision job that spend, commit and refund tokens     *)
(* (cmd/eserved/api), saves that fail and restarts.                        *)
(*                                                                         *)
(* A step is what the code does under tokensMutex and machinesMutex. A     *)
(* certificate stands for its fingerprint, a spend's time for a stamp from *)
(* a counter, the gcc machine for whether there is one.                    *)
(***************************************************************************)
EXTENDS Naturals, FiniteSets

CONSTANTS
    Tokens,       \* pool of tokens: CreateToken never returns one twice
    CNs,          \* machine names (validCN)
    Flavors,      \* flavor names (ValidFlavor)
    Configured,   \* flavors with a config dir: the admin makes those by hand
    Certs,        \* pool of client certificates
    Requests,     \* pool of provision requests, each with the job it starts
    Empty,          \* an empty CN or flavor
    NoEntry,      \* no such key in the map
    NoToken,      \* a request that spent no token
    MaxSpends,    \* bound: tokens spent in a behaviour
    MaxFaults,    \* bound: saves that fail
    MaxRestarts   \* bound: restarts of the server

VARIABLES
    tokens, machines,          \* the maps in memory
    diskTokens, diskMachines,  \* tokens.json and machines.json
    chroots,                   \* flavors with a provisioned chroot
    issued,                    \* certificates a machine was enrolled with
    req,                       \* each provision request and its job
    cancelled,                 \* requests whose job was cancelled
    clock, faults, restarts,
    minted,                    \* history: the binding each token was made with
    grants,                    \* history: what each spent token was given for
    revokedOK                  \* history: revocations answered with success

TokenEntry   == [cn : CNs \cup {Empty}, flavor : Flavors \cup {Empty}, usedAt : 0 .. MaxSpends]
MachineEntry == [flavor : Flavors, cert : Certs, revoked : BOOLEAN, provisioned : BOOLEAN]
Binding      == [cn : CNs \cup {Empty}, flavor : Flavors \cup {Empty}]
\* saved: the handler or job that got it was told so, the machine file was written
Grant        == [token : Tokens, stamp : 1 .. MaxSpends, cn : CNs, flavor : Flavors,
                 saved : BOOLEAN]

ASSUME ConfiguredAssumption == Configured \subseteq Flavors
ASSUME BoundAssumption ==
    MaxSpends \in Nat /\ MaxFaults \in Nat /\ MaxRestarts \in Nat
ASSUME NullAssumption ==
    /\ Empty \notin CNs \cup Flavors
    /\ NoToken \notin Tokens
    /\ NoEntry \notin TokenEntry \cup MachineEntry \cup Binding

history == <<minted, grants, revokedOK>>
disk    == <<diskTokens, diskMachines>>
vars    == <<tokens, machines, disk, chroots, issued, req, cancelled,
             clock, faults, restarts, history>>

\* A job: queued, running (the chroot work), built (before ProvisionMachine),
\* failed (before the refund), skipped (cancelled in the queue), over.
InJob     == {"queued", "running", "built", "failed"}
InRequest == {"read", "spend", "start"} \cup InJob
Request   == [pc : {"idle", "over", "skipped"} \cup InRequest,
              cn : CNs \cup {Empty}, flavor : Flavors \cup {Empty}, expected : Flavors \cup {Empty},
              token : Tokens \cup {NoToken}, stamp : 0 .. MaxSpends,
              previousCN : CNs \cup {Empty}]

Blank(pc) == [pc |-> pc, cn |-> Empty, flavor |-> Empty, expected |-> Empty,
              token |-> NoToken, stamp |-> 0, previousCN |-> Empty]

TypeOK ==
    /\ tokens \in [Tokens -> TokenEntry \cup {NoEntry}]
    /\ diskTokens \in [Tokens -> TokenEntry \cup {NoEntry}]
    /\ machines \in [CNs -> MachineEntry \cup {NoEntry}]
    /\ diskMachines \in [CNs -> MachineEntry \cup {NoEntry}]
    /\ chroots \subseteq Flavors
    /\ issued \subseteq Certs
    /\ req \in [Requests -> Request]
    /\ cancelled \subseteq Requests
    /\ clock \in 0 .. MaxSpends
    /\ faults \in 0 .. MaxFaults
    /\ restarts \in 0 .. MaxRestarts
    /\ minted \in [Tokens -> Binding \cup {NoEntry}]
    /\ grants \subseteq Grant
    /\ revokedOK \subseteq CNs

Init ==
    /\ tokens = [t \in Tokens |-> NoEntry] /\ diskTokens = tokens
    /\ machines = [c \in CNs |-> NoEntry] /\ diskMachines = machines
    /\ chroots = {} /\ issued = {} /\ cancelled = {}
    /\ req = [r \in Requests |-> Blank("idle")]
    /\ clock = 0 /\ faults = 0 /\ restarts = 0
    /\ minted = [t \in Tokens |-> NoEntry]
    /\ grants = {} /\ revokedOK = {}

-----------------------------------------------------------------------------
(* SafeSaveJsonFile replaces the file by a rename: it is the old one or the  *)
(* new one. A save that fails leaves the map in memory changed, and the file  *)
(* old or new: setting the mode comes after the rename and may fail too.      *)

Fault == faults < MaxFaults /\ faults' = faults + 1

\* mutants: the file is not written
ForgetTokens   == UNCHANGED diskTokens
ForgetMachines == UNCHANGED diskMachines
SaveTokens     == diskTokens' = tokens'
SaveMachines   == diskMachines' = machines'

TokensSaved     == SaveTokens /\ UNCHANGED faults
TokensUnsaved   == Fault /\ diskTokens' \in {diskTokens, tokens'}
MachinesSaved   == SaveMachines /\ UNCHANGED faults
MachinesUnsaved == Fault /\ diskMachines' \in {diskMachines, machines'}

-----------------------------------------------------------------------------
(* storage/token.go, storage/flavor.go: what a token may be spent for.       *)

Exists(cn) == machines[cn] # NoEntry
On(cn, f)  == Exists(cn) /\ machines[cn].flavor = f

FlavorExists(f) == f \in chroots \cup Configured \/ \E cn \in CNs : On(cn, f)

\* flavorJoinRefusalLocked finds nothing to refuse.
MayJoin(tokenFlavor, cn, f) == tokenFlavor # Empty \/ ~FlavorExists(f) \/ On(cn, f)

\* mutant: a used token is taken
AcceptsUsed(t, cn, f) ==
    /\ tokens[t] # NoEntry
    /\ tokens[t].cn \in {Empty, cn}
    /\ tokens[t].flavor \in {Empty, f}
    /\ MayJoin(tokens[t].flavor, cn, f)
\* The checks EnrollMachine and SpendFlavorSwitchToken share.
Accepts(t, cn, f) ==
    /\ tokens[t] # NoEntry
    /\ tokens[t].usedAt = 0
    /\ tokens[t].cn \in {Empty, cn}
    /\ tokens[t].flavor \in {Empty, f}
    /\ MayJoin(tokens[t].flavor, cn, f)

\* The entry of a token that cn spends now.
Spent(t, cn) == [tokens EXCEPT ![t].cn = cn, ![t].usedAt = clock + 1]
Tick         == clock < MaxSpends /\ clock' = clock + 1

\* A save that fails leaves a token nobody was told of: no step of its own.
CreateToken(t, cn, f) ==
    /\ minted[t] = NoEntry
    /\ minted' = [minted EXCEPT ![t] = [cn |-> cn, flavor |-> f]]
    /\ tokens' = [tokens EXCEPT ![t] = [cn |-> cn, flavor |-> f, usedAt |-> 0]]
    /\ TokensSaved
    /\ UNCHANGED <<machines, diskMachines, chroots, issued, req, cancelled,
                   clock, restarts, grants, revokedOK>>

DeleteToken(t) ==
    /\ tokens[t] # NoEntry
    /\ tokens' = [tokens EXCEPT ![t] = NoEntry]
    /\ TokensSaved \/ TokensUnsaved
    /\ UNCHANGED <<machines, diskMachines, chroots, issued, req, cancelled,
                   clock, restarts, history>>

-----------------------------------------------------------------------------
(* PostIdentity and EnrollMachine *)

\* mutant: the flavor is not recorded
EnrolledNowhere(cn, f, c) ==
    [flavor |-> Empty, cert |-> c,
     revoked |-> Exists(cn) /\ machines[cn].revoked,
     provisioned |-> Exists(cn) /\ machines[cn].provisioned]
\* An existing entry keeps everything but its certificate and flavor.
Enrolled(cn, f, c) ==
    [flavor |-> f, cert |-> c,
     revoked |-> Exists(cn) /\ machines[cn].revoked,
     provisioned |-> Exists(cn) /\ machines[cn].provisioned]

MayEnroll(t, cn, f, c) ==
    /\ c \notin issued
    /\ Accepts(t, cn, f)
    /\ Exists(cn) => tokens[t].cn = cn

GrantOf(t, cn, f, ok) ==
    [token |-> t, stamp |-> clock + 1, cn |-> cn, flavor |-> f, saved |-> ok]

Enroll(t, cn, f, c) ==
    /\ MayEnroll(t, cn, f, c)
    /\ Tick
    /\ tokens' = Spent(t, cn)
    /\ SaveTokens
    /\ machines' = [machines EXCEPT ![cn] = Enrolled(cn, f, c)]
    /\ issued' = issued \cup {c}
    /\ \/ MachinesSaved /\ grants' = grants \cup {GrantOf(t, cn, f, TRUE)}
       \/ MachinesUnsaved /\ grants' = grants \cup {GrantOf(t, cn, f, FALSE)}
    /\ UNCHANGED <<chroots, req, cancelled, restarts, minted, revokedOK>>

\* The token file can't be written: refused, with the token spent in memory.
EnrollUnsaved(t, cn, f, c) ==
    /\ MayEnroll(t, cn, f, c)
    /\ Tick
    /\ tokens' = Spent(t, cn)
    /\ TokensUnsaved
    /\ UNCHANGED <<machines, diskMachines, chroots, issued, req, cancelled,
                   restarts, history>>

\* A restart: memory is what the files say, and no request or job survives.
Reloaded ==
    /\ restarts < MaxRestarts
    /\ restarts' = restarts + 1
    /\ tokens' = diskTokens'
    /\ machines' = diskMachines'
    /\ req' = [r \in Requests |-> IF req[r].pc = "idle" THEN req[r] ELSE Blank("over")]
    /\ cancelled' = {}
    /\ UNCHANGED <<chroots, issued, faults, history>>

Restart == UNCHANGED <<disk, clock>> /\ Reloaded

\* The process dies between the two saves of EnrollMachine.
EnrollTorn(t, cn, f, c) ==
    /\ MayEnroll(t, cn, f, c)
    /\ Tick
    /\ diskTokens' = Spent(t, cn)
    /\ UNCHANGED diskMachines
    /\ Reloaded

-----------------------------------------------------------------------------
(* RevokeMachine, DeleteMachine *)

Revoke(cn) ==
    /\ Exists(cn)
    /\ machines' = [machines EXCEPT ![cn].revoked = TRUE]
    /\ \/ MachinesSaved /\ revokedOK' = revokedOK \cup {cn}
       \/ MachinesUnsaved /\ UNCHANGED revokedOK
    /\ UNCHANGED <<tokens, diskTokens, chroots, issued, req, cancelled,
                   clock, restarts, minted, grants>>

\* Deleting a machine forgets its revocation too.
DeleteMachine(cn) ==
    /\ Exists(cn)
    /\ machines' = [machines EXCEPT ![cn] = NoEntry]
    /\ MachinesSaved \/ MachinesUnsaved
    /\ revokedOK' = revokedOK \ {cn}
    /\ UNCHANGED <<tokens, diskTokens, chroots, issued, req, cancelled,
                   clock, restarts, minted, grants>>

-----------------------------------------------------------------------------
(* PostProvision *)

requestOnly == UNCHANGED <<tokens, machines, disk, chroots, issued, cancelled,
                           clock, faults, restarts, history>>
Goto(r, pc) == req' = [req EXCEPT ![r].pc = pc]
End(r)      == req' = [req EXCEPT ![r] = Blank("over")]

\* requireClientCert and MachineExists: MachineCertValid for the certificate
\* the machine holds now. The request names its flavor, or gets the machine's.
AcceptProvision(r, cn, f) ==
    /\ req[r].pc = "idle"
    /\ Exists(cn) /\ ~machines[cn].revoked
    /\ req' = [req EXCEPT ![r] = [Blank("read") EXCEPT !.cn = cn, !.flavor = f]]
    /\ requestOnly

\* MachineFlavor, read once: what the job must still find. No entry any more
\* reads as an empty flavor.
ReadFlavor(r) ==
    /\ req[r].pc = "read"
    /\ LET now == IF Exists(req[r].cn) THEN machines[req[r].cn].flavor ELSE Empty IN
       req' = [req EXCEPT ![r].expected = now,
                          ![r].pc = IF now = req[r].flavor THEN "start" ELSE "spend"]
    /\ requestOnly

Spend(r, t) ==
    /\ req[r].pc = "spend"
    /\ Accepts(t, req[r].cn, req[r].flavor)
    /\ Tick
    /\ tokens' = Spent(t, req[r].cn)
    /\ \/ /\ TokensSaved
          /\ req' = [req EXCEPT ![r].token = t, ![r].stamp = clock + 1,
                                ![r].previousCN = tokens[t].cn, ![r].pc = "start"]
       \/ TokensUnsaved /\ End(r)
    /\ UNCHANGED <<machines, diskMachines, chroots, issued, cancelled, restarts, history>>

SpendRefused(r, t) ==
    /\ req[r].pc = "spend"
    /\ ~Accepts(t, req[r].cn, req[r].flavor)
    /\ End(r)
    /\ requestOnly

\* mutant: the cn that spent the token stays on it
RefundKeepsCN(r) ==
    IF req[r].stamp # 0 /\ tokens[req[r].token] # NoEntry
            /\ tokens[req[r].token].usedAt = req[r].stamp
    THEN /\ tokens' = [tokens EXCEPT ![req[r].token].usedAt = 0]
         /\ TokensSaved \/ TokensUnsaved
    ELSE UNCHANGED <<tokens, diskTokens, faults>>
\* SwitchToken.Refund: nothing without a token; otherwise the token is un-spent
\* if it is still as this spend left it.
Refund(r) ==
    IF req[r].stamp # 0 /\ tokens[req[r].token] # NoEntry
            /\ tokens[req[r].token].usedAt = req[r].stamp
    THEN /\ tokens' = [tokens EXCEPT ![req[r].token].cn = req[r].previousCN,
                                     ![req[r].token].usedAt = 0]
         /\ TokensSaved \/ TokensUnsaved
    ELSE UNCHANGED <<tokens, diskTokens, faults>>

StartJob(r) ==
    /\ req[r].pc = "start"
    /\ Goto(r, "queued")
    /\ requestOnly

\* mutant: the refund is left out
StartForgetsRefund(r) ==
    /\ req[r].pc = "start"
    /\ End(r)
    /\ requestOnly
\* Registry.Start fails: the queue is full, or the log can't be made.
StartFails(r) ==
    /\ req[r].pc = "start"
    /\ Refund(r)
    /\ End(r)
    /\ UNCHANGED <<machines, diskMachines, chroots, issued, cancelled,
                   clock, restarts, history>>

-----------------------------------------------------------------------------
(* The provision job, run by its flavor's queue. *)

\* The cancel handlers: the job is over, its work is not stopped by it.
Cancel(r) ==
    /\ req[r].pc \in InJob
    /\ r \notin cancelled
    /\ cancelled' = cancelled \cup {r}
    /\ UNCHANGED <<tokens, machines, disk, chroots, issued, req,
                   clock, faults, restarts, history>>

\* serveQueue: a job that was cancelled is dropped and its work never called.
Skip(r) ==
    /\ req[r].pc = "queued"
    /\ r \in cancelled
    /\ Goto(r, "skipped")
    /\ requestOnly

Run(r) ==
    /\ req[r].pc = "queued"
    /\ r \notin cancelled
    /\ \A q \in Requests : req[q].pc \in {"running", "built", "failed"}
                              => req[q].flavor # req[r].flavor
    /\ Goto(r, "running")
    /\ requestOnly

\* chroot.Provision: the chroot is there afterwards; a failure, or a panic, may
\* come before or after the chroot was made.
Build(r) ==
    /\ req[r].pc = "running"
    /\ chroots' = chroots \cup {req[r].flavor}
    /\ Goto(r, "built")
    /\ UNCHANGED <<tokens, machines, disk, issued, cancelled, clock, faults, restarts, history>>

BuildFails(r) ==
    /\ req[r].pc = "running"
    /\ chroots' \in {chroots, chroots \cup {req[r].flavor}}
    /\ Goto(r, "failed")
    /\ UNCHANGED <<tokens, machines, disk, issued, cancelled, clock, faults, restarts, history>>

\* mutant: the flavor the request found is not compared
MayWriteStale(r) == Exists(req[r].cn)
MayWrite(r) == On(req[r].cn, req[r].expected)

\* What ProvisionMachine writes: the certificate and the revocation are kept.
Provisioned(r) ==
    [machines[req[r].cn] EXCEPT !.flavor = req[r].flavor, !.provisioned = TRUE]

SwitchOf(r, ok) ==
    IF req[r].stamp = 0 THEN {}
    ELSE {[token |-> req[r].token, stamp |-> req[r].stamp, cn |-> req[r].cn,
           flavor |-> req[r].flavor, saved |-> ok]}

\* SwitchToken.Commit: the job ends with the token spent.
Commit(r) == End(r)

\* ProvisionMachine writes the machine: the switch commits, unless the save
\* fails, which the job takes for a switch that was not made.
ProvisionMachine(r) ==
    /\ req[r].pc = "built"
    /\ MayWrite(r)
    /\ machines' = [machines EXCEPT ![req[r].cn] = Provisioned(r)]
    /\ \/ MachinesSaved /\ Commit(r) /\ grants' = grants \cup SwitchOf(r, TRUE)
       \/ MachinesUnsaved /\ Goto(r, "failed") /\ grants' = grants \cup SwitchOf(r, FALSE)
    /\ UNCHANGED <<tokens, diskTokens, chroots, issued, cancelled,
                   clock, restarts, minted, revokedOK>>

\* The machine is gone or changed its flavor since, or ArchRefusal refuses.
ProvisionRefused(r) ==
    /\ req[r].pc = "built"
    /\ Goto(r, "failed")
    /\ requestOnly

RefundFailed(r) ==
    /\ req[r].pc = "failed"
    /\ Refund(r)
    /\ End(r)
    /\ UNCHANGED <<machines, diskMachines, chroots, issued, cancelled,
                   clock, restarts, history>>

-----------------------------------------------------------------------------
AdminNext ==
    \/ \E t \in Tokens, cn \in CNs \cup {Empty}, f \in Flavors \cup {Empty} : CreateToken(t, cn, f)
    \/ \E t \in Tokens : DeleteToken(t)
    \/ \E cn \in CNs : Revoke(cn) \/ DeleteMachine(cn)

EnrollNext ==
    \E t \in Tokens, cn \in CNs, f \in Flavors, c \in Certs :
        Enroll(t, cn, f, c) \/ EnrollUnsaved(t, cn, f, c) \/ EnrollTorn(t, cn, f, c)

ProvisionNext ==
    \E r \in Requests :
        \/ \E cn \in CNs, f \in Flavors : AcceptProvision(r, cn, f)
        \/ ReadFlavor(r)
        \/ \E t \in Tokens : Spend(r, t) \/ SpendRefused(r, t)
        \/ StartJob(r) \/ StartFails(r) \/ Cancel(r) \/ Skip(r) \/ Run(r)
        \/ Build(r) \/ BuildFails(r)
        \/ ProvisionMachine(r) \/ ProvisionRefused(r) \/ RefundFailed(r)

Next == AdminNext \/ EnrollNext \/ ProvisionNext \/ Restart

Spec == Init /\ [][Next]_vars

-----------------------------------------------------------------------------
(* Properties *)

SavedGrants == {g \in grants : g.saved}

\* A token is given for one thing: it enrolls one machine or makes one switch,
\* whatever is refunded, refused or restarted in between.
OneGrantPerToken == \A g, h \in SavedGrants : g.token = h.token => g = h

\* No refund, failed save or restart revives a token that was given for
\* something: in memory and on disk it stays spent, by that spend.
GrantedStaysSpent ==
    \A g \in SavedGrants : \A file \in {tokens, diskTokens} :
        file[g.token] # NoEntry => file[g.token].usedAt = g.stamp

\* A token that can be spent has the binding it was made with, however often it
\* was spent and refunded, and whatever it was given for respects it.
BindingKept ==
    /\ \A t \in Tokens : tokens[t] # NoEntry /\ tokens[t].usedAt = 0 =>
           tokens[t].cn = minted[t].cn /\ tokens[t].flavor = minted[t].flavor
    /\ \A g \in grants :
           minted[g.token].cn \in {Empty, g.cn} /\ minted[g.token].flavor \in {Empty, g.flavor}

\* A machine whose revocation was answered with success stays revoked, in
\* memory and on disk, until it is deleted.
RevocationSticks ==
    \A cn \in revokedOK : \A file \in {machines, diskMachines} :
        file[cn] # NoEntry => file[cn].revoked

\* While the server runs, a machine changes its flavor only by a token spent for
\* that machine and that flavor: a queued provision never reverts it.
FlavorChangesArePaid ==
    [][\A cn \in CNs :
         restarts' = restarts /\ Exists(cn) /\ machines'[cn] # NoEntry
           /\ machines'[cn].flavor # machines[cn].flavor
         => \E g \in grants' \ grants : g.cn = cn /\ g.flavor = machines'[cn].flavor]_vars

Accounted(t, pcs) ==
    \/ \E g \in grants : g.token = t /\ g.stamp = tokens[t].usedAt
    \/ \E r \in Requests : req[r].pc \in pcs /\ req[r].token = t
                             /\ req[r].stamp = tokens[t].usedAt

\* Without restarts and failed saves, a spent token was given for something or
\* is held by a request that can still refund it, or by a job that was
\* cancelled before it ran.
SpentIsAccounted ==
    restarts = 0 /\ faults = 0 =>
        \A t \in Tokens : tokens[t] # NoEntry /\ tokens[t].usedAt # 0
            => Accounted(t, InRequest \cup {"skipped"})

\* "the switch never committed, so nothing here may touch the client's config":
\* what epull assumes of a job that was cancelled.
CancelledNeverSwitches ==
    [][\A r \in cancelled : \A g \in grants' \ grants : g.stamp # req[r].stamp]_vars
=============================================================================
